SPECIFICATION Spec
CONSTANTS
    Calls = {c1, c2, c3, c4}
SYMMETRY CallSymmetry
CHECK_DEADLOCK FALSE
INVARIANTS
    TypeOK
    FinalHasNoObject
PROPERTY
    PublicationSpec
