\* Requests within a word, but longer than the first zone reaches: once its
\* nr_free wrapped, the bound of the search wraps too and the search leaves the
\* zone.  The machine may halt, or the call leave the arrays.
SPECIFICATION Spec
CONSTANTS
    WordBits = 6
    CounterMod = 22
    RefMod = 4
    FrameCount = 9
    ZoneCount = 2
    ZoneStart <- ShortStart
    ZoneEnd <- ShortEnd
    ZoneType <- ShortType
    KernelFrames = {3}
    Requests = {1, 3, 4}
    RequestFlags <- KernelOnly
    FreeSizes = {1}
    ClaimBound = 2
INVARIANTS
    NoDoubleGrant
    KernelFramesKept
CHECK_DEADLOCK FALSE
