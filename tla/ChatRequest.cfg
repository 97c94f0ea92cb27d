SPECIFICATION FairSpec
CONSTANTS
    MaxRetries = 2
    Backoff = 1
    Idle = 2
    Total = 10
INVARIANTS TypeOK OneCallSeen UsageTellsOutcome Recorded
PROPERTY Terminates
