\* A request of two words, of which the search tests part.
SPECIFICATION Spec
CONSTANTS
    WordBits = 2
    CounterMod = 15
    RefMod = 4
    FrameCount = 10
    ZoneCount = 2
    ZoneStart <- HoleStart
    ZoneEnd <- HoleEnd
    ZoneType <- HoleType
    KernelFrames = {1}
    Requests = {0, 1, 4}
    RequestFlags <- KernelAndUser
    FreeSizes = {0, 2}
    ClaimBound = 2
INVARIANT
    NoDoubleGrant
CHECK_DEADLOCK FALSE
