\* An image made by any commands, some stopped half way, is booted; reads fail.
SPECIFICATION FloppyFairSpec
CONSTANTS
    FatEntries = 6
    DiskClusters = 5
    DirSlots = 2
    ClusterUnits = 2
    Names = {loader, kernel}
    ShortNames = {}
    Contents = {x}
    Sizes = {1, 3}
    LoaderName = loader
    KernelName = kernel
    SectorSlots = 1
    ReadTries = 2
    SegmentRoom = 3
    KernelRoom = 3
    loader = loader
    kernel = kernel
    x = x
INVARIANTS
    BootTypeOK
    RunsWholeFile
    MissingIsMissing
PROPERTIES
    BootEnds
CHECK_DEADLOCK FALSE
