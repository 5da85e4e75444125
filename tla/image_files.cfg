\* format, save, del and load in any order; a command may stop before any write.
SPECIFICATION Spec
CONSTANTS
    FatEntries = 6
    DiskClusters = 5
    DirSlots = 2
    ClusterUnits = 2
    Names = {a, b}
    ShortNames = {b}
    Contents = {x, y}
    Sizes = {0, 3, 5}
    a = a
    b = b
    x = x
    y = y
INVARIANTS
    FilesStayWhole
    NoClusterLost
    DamageNeedsMisuse
SYMMETRY Interchangeable
CHECK_DEADLOCK FALSE
