SPECIFICATION FairSpec
CONSTANTS
    c1 = c1
    c2 = c2
    None = None
    Conn = {c1, c2}
    Sectors = 3
    Requests <- OneRead
    Budget <- Few
    ListenMode = TRUE
CHECK_DEADLOCK FALSE
INVARIANTS
    TypeOK
    SectorOrder
    ShortestSeekFirst
PROPERTIES
    KeptWhileStill
    EveryJobDone
