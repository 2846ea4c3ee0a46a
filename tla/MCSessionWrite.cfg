SPECIFICATION FairSpec
CONSTANTS
    w1 = w1
    w2 = w2
    Writers <- MCWriters
    BufferSize = 3
    BlockLimit = 2
    AsyncConnect = FALSE
    Msgs <- MCMsgs
    MaxBlocks = 1
    MaxConns = 2
INVARIANTS
    TypeOK
    StreamIntegrity
    Framing
    NoLostWrite
PROPERTIES
    Flushed
CHECK_DEADLOCK FALSE
