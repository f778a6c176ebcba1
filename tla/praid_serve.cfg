SPECIFICATION Spec
CONSTANTS
    d1 = d1
    d2 = d2
    d3 = d3
    c1 = c1
    c2 = c2
    None = None
    Ppd = {d1, d2}
    Pfs = {c1, c2}
    Sectors = 1
    Requests <- OneSector
    Budget <- TwoAndOne
    MaxCrash = 0
    EnableReplication = TRUE
    Pooled = TRUE
    InitialPpd <- TwoDisks
INVARIANT AnswersMatch
CHECK_DEADLOCK FALSE
