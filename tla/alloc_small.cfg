\* Requests within a word and within every zone.
SPECIFICATION Spec
CONSTANTS
    WordBits = 3
    CounterMod = 16
    RefMod = 4
    FrameCount = 9
    ZoneCount = 2
    ZoneStart <- SplitStart
    ZoneEnd <- SplitEnd
    ZoneType <- SplitType
    KernelFrames = {1}
    Requests = {1, 2, 3}
    RequestFlags <- KernelOnly
    FreeSizes = {0, 2}
    ClaimBound = 2
INVARIANTS
    NoDoubleGrant
    HeldIffMarked
    IInv
PROPERTIES
    GrantWithinZone
    SearchFindsLongRuns
    ImplementsFramePool
