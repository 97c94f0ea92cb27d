SPECIFICATION UndisturbedSpec
CONSTANTS
    Calls = {c1, c2}
    Configs = {g1, g2}
    NoConfig = NoConfig
    MaxVersion = 2
    NumBatches = 2
    SerialRetries = FALSE
CHECK_DEADLOCK FALSE
PROPERTY
    ProcessingSettles
