SPECIFICATION Spec
CONSTANTS
    h1 = h1
    h2 = h2
    t1 = t1
    t2 = t2
    Handle = {h1, h2}
    Writer = {h1}
    Thread = {t1, t2}
    Sectors = 2
    Clusters = 3
    InitSize = 3
    InRoot = FALSE
    EntrySector = 1
    CacheSizes = {0, 3}
    Reads <- SomeReads
    Writes <- AnyWrites
    MaxCalls <- ThreeOrTwo
CHECK_DEADLOCK FALSE
SYMMETRY Symmetry
INVARIANTS TypeOK FileHolds ReadsRight
PROPERTY CacheIsTransparent
