\* Requests of no frame and of two words, shared frames, a hole between the
\* zones and a zone that starts at frame 0.
SPECIFICATION FairSpec
CONSTANTS
    WordBits = 2
    CounterMod = 15
    RefMod = 4
    FrameCount = 10
    ZoneCount = 2
    ZoneStart <- HoleStart
    ZoneEnd <- HoleEnd
    ZoneType <- HoleType
    KernelFrames = {1}
    Requests = {0, 1, 4}
    RequestFlags <- KernelAndUser
    FreeSizes = {0, 2}
    ClaimBound = 2
INVARIANTS
    BitmapAgreesWithFlags
    CountersFollowFrames
PROPERTY
    CallReturns
