SPECIFICATION Spec
CONSTANTS
    Calls = {c1, c2}
    Configs = {g1}
    NoConfig = NoConfig
    MaxVersion = 1
    NumBatches = 1
    SerialRetries = FALSE
CHECK_DEADLOCK FALSE
INVARIANTS
    VectorsMatchStatus
