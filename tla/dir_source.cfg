SPECIFICATION Spec
CONSTANTS
    name1 = name1
    name2 = name2
    name3 = name3
    shared = shared
    d1 = d1
    d2 = d2
    root = root
    r2 = r2
    zero = zero
    Dot = Dot
    DotDot = DotDot
    NoName = NoName
    None = None
    Name = {name1, name2, name3}
    Present <- NoShort
    ShortOf <- OwnShort
    FileObject = {1, 2, 3}
    DirObject = {d1}
    Root = root
    More = {r2}
    Zero = zero
    FatNext <- TwoClusters
    BlockSlots = 4
    SectorSlots = 2
    Junk = {FALSE}
    Into = {d1}
    CrashIn = {"mknod", "unlink", "rmdir", "rename", "move"}
CHECK_DEADLOCK FALSE
INVARIANT SourceHoldsEntry
