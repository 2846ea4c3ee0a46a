SPECIFICATION FairSpec
CONSTANTS
    db = db
    Names <- MCNames
    MaxPosts = 3
INVARIANTS
    TypeOK
    StopIsFinal
    LostOnlyInRace
    NoLostTask
PROPERTIES
    StopReturns
CHECK_DEADLOCK FALSE
