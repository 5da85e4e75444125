\* Every map of at most two entries and every sorted map of three.
SPECIFICATION Spec
CONSTANTS
    FrameUnits = 2
    Maps <- AllMaps
    MaxEntries = 3
    DmaFrames = 3
    TestOffset = 2
    KernelEnd = 1
    StructUnits <- Growing
    MappedUnits = 4
    CounterMod = 16
INVARIANTS
    AllocatorReady
    FreeFramesAreUsableRam
    TotalIsZonePages
    ZoneCheckHolds
    ZoneTypesSplitMemory
CHECK_DEADLOCK FALSE
