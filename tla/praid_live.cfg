SPECIFICATION FairSpec
CONSTANTS
    d1 = d1
    d2 = d2
    d3 = d3
    c1 = c1
    c2 = c2
    None = None
    Ppd = {d1, d2, d3}
    Pfs = {c1}
    Sectors = 1
    Requests <- OneSector
    Budget <- OneEach
    MaxCrash = 0
    EnableReplication = TRUE
    Pooled = TRUE
    InitialPpd <- TwoDisks
CHECK_DEADLOCK FALSE
PROPERTIES EveryGetAnswered EveryPutWritten ReplicationEnds
