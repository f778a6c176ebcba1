SPECIFICATION Spec
CONSTANTS
    name1 = name1
    name2 = name2
    name3 = name3
    shared = shared
    d1 = d1
    d2 = d2
    root = root
    r2 = r2
    zero = zero
    Dot = Dot
    DotDot = DotDot
    NoName = NoName
    None = None
    Name = {name1, name2}
    Present <- OneShort
    ShortOf <- SameShort
    FileObject = {1, 2}
    DirObject = {d1, d2}
    Root = root
    More = {}
    Zero = zero
    FatNext <- OneCluster
    BlockSlots = 6
    SectorSlots = 4
    Junk = {FALSE}
    Into = {d1, d2}
    CrashIn = {"mknod", "unlink", "rmdir", "rename", "move"}
SYMMETRY Symmetry
CHECK_DEADLOCK FALSE
INVARIANTS TypeOK LookupsRight ListsWhatIsFound
PROPERTY KeepsNames
