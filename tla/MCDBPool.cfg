SPECIFICATION Spec
CONSTANTS
    t1 = t1
    t2 = t2
    t3 = t3
    Threads <- MCThreads
    N = 2
    MaxUses = 6
INVARIANTS
    TypeOK
    Exclusive
    Accounted
CHECK_DEADLOCK FALSE
