SPECIFICATION Spec
CONSTANTS
    MaxConns = 2
    MaxReads = 1
INVARIANTS
    IntervalMeansReconnect
CHECK_DEADLOCK FALSE
