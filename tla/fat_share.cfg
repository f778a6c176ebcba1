SPECIFICATION FairSpec
CONSTANTS
    t1 = t1
    t2 = t2
    a = a
    b = b
    None = None
    Thread = {t1, t2}
    File = {a, b}
    EntriesPerSector = 8
    FatSectors = 3
    Clusters = 15
    ClusterBytes = 2
    FirstFree = 12
    Extents <- AllExtents
    Sizes = {0, 3}
    Existing = {a, b}
    InUse = {a}
    Kinds = {"mknod", "open", "write", "extend", "shrink", "unlink", "mkdir", "close", "finfo"}
    Budget = 3
    MaxMounts = 2
    RemountKilled = FALSE
CHECK_DEADLOCK FALSE
INVARIANTS TypeOK Backed ChainsHold
PROPERTIES Dispenses CallsEnd
