SPECIFICATION Spec
CONSTANTS
    c1 = c1
    c2 = c2
    None = None
    Conn = {c1}
    Sectors = 4
    Requests <- Writes
    Budget <- Four
    ListenMode = FALSE
CHECK_DEADLOCK FALSE
INVARIANT EveryJobKept
