SPECIFICATION Spec
CONSTANTS
    d1 = d1
    d2 = d2
    d3 = d3
    c1 = c1
    c2 = c2
    None = None
    Ppd = {d1, d2, d3}
    Pfs = {c1}
    Sectors = 2
    Requests <- TwoSectors
    Budget <- OneEach
    MaxCrash = 0
    EnableReplication = TRUE
    Pooled = TRUE
    InitialPpd <- NoDisk
INVARIANT NoJobsDuringCopy
PROPERTIES CopyComplete WritesNotUndone
CHECK_DEADLOCK FALSE
SYMMETRY PpdSymmetry
