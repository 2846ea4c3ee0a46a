SPECIFICATION Spec
CONSTANTS
    c1 = c1
    c2 = c2
    login = login
    Callers <- MCCallers
    Methods <- MCMethods
    MaxCalls = 1
    MaxConns = 1
INVARIANTS
    AtMostOneOutcome
CHECK_DEADLOCK FALSE
