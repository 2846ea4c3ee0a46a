SPECIFICATION Spec
CONSTANTS
    MaxConns = 2
    MaxReads = 1
PROPERTIES
    ZeroMeansNoReconnect
CHECK_DEADLOCK FALSE
