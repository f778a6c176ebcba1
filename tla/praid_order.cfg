SPECIFICATION Spec
CONSTANTS
    d1 = d1
    d2 = d2
    d3 = d3
    c1 = c1
    c2 = c2
    None = None
    Ppd = {d1, d2}
    Pfs = {c1}
    Sectors = 1
    Requests <- OneSector
    Budget <- ThreeEach
    MaxCrash = 1
    EnableReplication = TRUE
    Pooled = TRUE
    InitialPpd <- TwoDisks
INVARIANTS TypeOK NoJobInHands PutsInOrder ReadsFollowWrites ReadAgainOnlyAfterDeath
CHECK_DEADLOCK FALSE
