SPECIFICATION FairSpec
CONSTANTS
    l1 = l1
    l2 = l2
    Loggers <- MCLoggers
    Levels <- MCLevels
    FileLevel = 4
    SplitSizes <- MCSplitSizes
    MaxLines = 2
    MaxDay = 2
    MaxCrashes = 1
    MaxErrors = 1
INVARIANTS
    TypeOK
    LogIntegrity
    FileLayout
PROPERTIES
    EveryLineSettles
CHECK_DEADLOCK FALSE
