SPECIFICATION Spec
CONSTANTS
    Users = {u1}
    Calls = {c1, c2}
    MaxSessions = 2
    MaxTokens = 3
    SessionTtl = 2
    AbsoluteMax = 3
    MaxAttempts = 1
    Window = 2
INVARIANTS TypeOK IndexComplete TokenBacked LockoutEnds
PROPERTIES RevokeAllSweeps ChainSpec
SYMMETRY CallSymmetry
