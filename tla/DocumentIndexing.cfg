SPECIFICATION Spec
CONSTANTS
    Calls = {c1, c2, c3}
    Configs = {g1, g2}
    NoConfig = NoConfig
    MaxVersion = 2
    NumBatches = 2
    SerialRetries = TRUE
SYMMETRY CallSymmetry
CHECK_DEADLOCK FALSE
INVARIANTS
    TypeOK
    VersionTable
    OneOwner
    ActiveIsNewestIndexed
    VectorsMatchStatus
PROPERTY
    PublishedSpec
