SPECIFICATION FairSpec
CONSTANTS
    c1 = c1
    c2 = c2
    login = login
    Callers <- MCCallers
    Methods <- MCMethods
    MaxCalls = 1
    MaxConns = 2
INVARIANTS
    TypeOK
    ReplyMatchesRequest
PROPERTIES
    NoReplyAfterTimeout
    TimedCallsResolve
CHECK_DEADLOCK FALSE
