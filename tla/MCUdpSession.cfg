SPECIFICATION FairSpec
CONSTANTS
    p1 = p1
    p2 = p2
    Peers <- MCPeers
    Shapes <- MCShapes
    BufSize = 14
    HeaderLen = 2
    MaxDgrams = 5
    MaxErrors = 1
INVARIANTS
    TypeOK
    OneAtATime
    AnswersTheSender
    SmallDatagramsArrive
PROPERTIES
    ListensAgain
CHECK_DEADLOCK FALSE
