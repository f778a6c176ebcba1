SPECIFICATION FairSpec
CONSTANTS
    t1 = t1
    t2 = t2
    None = None
    Thread = {t1, t2}
    MaxConnections = 5
    BlockSectors = 3
    Budget = 2
    MayDeny = TRUE
    Operations <- AllOperations
CHECK_DEADLOCK FALSE
INVARIANTS
    TypeOK
    HeldByOne
    OwnSectors
    NeverAllWaiting
PROPERTIES
    EveryOperationEnds
