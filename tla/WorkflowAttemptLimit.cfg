SPECIFICATION Spec
CONSTANTS
    Calls = {c1, c2}
    Runs = {r1}
    NoRun = NoRun
    MaxAttempts = 2
CHECK_DEADLOCK FALSE
INVARIANT
    AttemptLimit
