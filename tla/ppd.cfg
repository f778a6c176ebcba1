SPECIFICATION FairSpec
CONSTANTS
    Cylinders = 3
    PerTrack = 2
    Jumped = 3
    Pointer = 100
    Word = 4
    IntMax = 2147483647
    VolumeSizes = {2, 3}
    JobSectors = {2}
    Jobs = 1
    Copies = 1
    Lists <- TwoLists
    Commands = 2
    Junk = {1}
    None = None
INVARIANTS
    TypeOK
    TakeTurns
PROPERTIES
    DiesOnlyInCopy
    TraceArrives
    CommandsAnswered
CHECK_DEADLOCK FALSE
