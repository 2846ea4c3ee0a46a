SPECIFICATION FairSpec
CONSTANTS
    BufSize = 8
    HeaderLen = 2
    MaxStream = 12
    Lens <- MCLens
INVARIANTS
    TypeOK
    FrameIntegrity
    CopyIsDisjoint
    NoFrameLeftBehind
    NoJam
PROPERTIES
    ImplementsFrameStream
    SafeFramesArrive
