\* The loader from the memory map on, the kernel's start, an exception anywhere.
SPECIFICATION MachineFairSpec
CONSTANTS
    Vectors <- MCVectors
    Faults <- MCFaults
    MapBound = 3
    MapRoom = 2
    BlockRoom = 1
    ModeBound = 2
    Modes = {1, 2, 3}
    WantedModes = {2, 3}
INVARIANTS
    MachineTypeOK
    StartNeverFaults
    NoStaleTranslation
    InterruptsOnlyWhenReady
    ExceptionsReported
    NoShutdownOnceReady
    MapReachesKernel
    VideoAsDescribed
PROPERTIES
    MachineStarts
CHECK_DEADLOCK FALSE
