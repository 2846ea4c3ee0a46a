SPECIFICATION Spec
CONSTANTS
    BufSize = 8
    HeaderLen = 2
    MaxStream = 12
    Lens <- MCLens
INVARIANTS
    FittingFrameHasRoom
