SPECIFICATION Spec
CONSTANTS
    Calls = {c1, c2, c3}
    Runs = {r1, r2}
    NoRun = NoRun
    MaxAttempts = 2
SYMMETRY Symmetry
CHECK_DEADLOCK FALSE
INVARIANTS
    TypeOK
    RowsAgree
    OneExecutor
    SuccessIsLast
    OvershootBounded
PROPERTIES
    HistoryKept
    LifecycleSpec
