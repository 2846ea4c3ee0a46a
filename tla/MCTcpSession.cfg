SPECIFICATION FairSpec
CONSTANTS
    MaxConns = 4
    MaxReads = 4
INVARIANTS
    TypeOK
    OneReader
    CallbackOrder
    KeptAlive
    QuietEndIsSilent
PROPERTIES
    Reconnects
    ServerReleases
CHECK_DEADLOCK FALSE
