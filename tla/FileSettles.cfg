SPECIFICATION UndisturbedSpec
CONSTANTS
    Calls = {c1, c2, c3}
CHECK_DEADLOCK FALSE
INVARIANT
    NothingLeftBehind
PROPERTY
    TransitionsSettle
