\* The boot sector gives up after fewer failed reads than its comment says.
SPECIFICATION FloppySpec
CONSTANTS
    FatEntries = 6
    DiskClusters = 5
    DirSlots = 2
    ClusterUnits = 2
    Names = {loader, kernel}
    ShortNames = {}
    Contents = {x}
    Sizes = {1, 3}
    LoaderName = loader
    KernelName = kernel
    SectorSlots = 1
    ReadTries = 5
    SegmentRoom = 3
    KernelRoom = 3
    loader = loader
    kernel = kernel
    x = x
INVARIANTS
    GivesUpAfterAllTries
CHECK_DEADLOCK FALSE
