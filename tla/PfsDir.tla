------------------------------- MODULE PfsDir -------------------------------
(***************************************************************************)
(* The directories of the file system (grage-pfs): how a path is looked    *)
(* up, listed, entered, renamed, moved and removed in blocks of 32-byte    *)
(* entries, a long one with the name followed by a short one with the rest.*)
(*                                                                         *)
(* One FUSE call is served at a time: it reads blocks, decides what it     *)
(* writes and puts back whole blocks, one step each, and a crash may come  *)
(* between two of them.  PfsFat has the calls that run at the same time,   *)
(* the clusters and the sizes; here the attributes, dates, size and first  *)
(* cluster of a short entry are one value, the object it stands for.       *)
(* Names fit a long entry (13 characters).                                 *)
(***************************************************************************)
EXTENDS Integers, Sequences, SequencesExt, FiniteSets

CONSTANTS
    Name,           \* names that calls use
    Present,        \* files in the root at first, with no long entry: <<name, object>>
    ShortOf,        \* the short name that a long one gets
    Dot, DotDot, NoName,
    FileObject,     \* files that may be made,
    DirObject,      \* and directories: the first cluster stands for each
    Root,           \* v->root
    More,           \* other clusters of the root
    Zero,           \* "cluster" 0: sectors of the FAT
    FatNext,        \* the cluster that follows in the FAT, or None
    BlockSlots,     \* entries of a cluster, v->bpc / 32
    SectorSlots,    \* entries of a sector, v->bps / 32
    Junk,           \* does the byte left in LDIR_Attr of a wiped entry happen
                    \* to say "long"
    Into,           \* directories that something may be moved into
    CrashIn,        \* calls that a crash may interrupt
    None

Shorts == {Present[k][1] : k \in DOMAIN Present}
Cluster == {Root, Zero} \cup More \cup DirObject
Object == FileObject \cup DirObject
Position == 0 .. BlockSlots - 1
Used == Name \cup Shorts

ASSUME DirAssumption ==
    /\ Present \in Seq(Shorts \X FileObject) /\ Len(Present) <= BlockSlots
    /\ ShortOf \in [Name -> Used]
    /\ {Dot, DotDot} \cap Used = {} /\ NoName \notin Used \cup {Dot, DotDot}
    /\ Root \notin Object /\ FileObject \cap DirObject = {}
    /\ FatNext \in [Cluster -> More \cup {None}]
    /\ BlockSlots \in Nat /\ SectorSlots \in 2 .. BlockSlots
    /\ Junk \subseteq BOOLEAN /\ Junk # {}
    /\ Into \subseteq {Root} \cup DirObject
    /\ CrashIn \subseteq {"mknod", "mkdir", "unlink", "rmdir", "rename", "move"}
    /\ None \notin Cluster \cup Object

VARIABLES
    status,         \* up, or astray: the program read past a block or asked
                    \* for a cluster that is none, and nothing is known of it
    block,          \* the clusters of directories on the volume
    unused,         \* objects not made yet
    op, todo        \* the call that is being served, the blocks it still puts

vars == <<status, block, unused, op, todo>>

\* LDIR_Ord 0x00 and 0xE5 are "end" and "free"; long is the attribute 0x0F.
Long(n) == [ord |-> "used", long |-> TRUE, name |-> n, target |-> None]
Short(n, x) == [ord |-> "used", long |-> FALSE, name |-> n, target |-> x]
Blank == [ord |-> "end", long |-> FALSE, name |-> NoName, target |-> None]

\* One byte of the entry is written, and 31 that follow it on the stack.
Wiped(ord, junk) == [ord |-> ord, long |-> junk, name |-> NoName, target |-> None]

IsFree(s) == s.ord \in {"free", "end"}

TypeOK ==
    /\ status \in {"up", "astray"}
    /\ unused \subseteq Object
    /\ op \in {"none", "mknod", "mkdir", "unlink", "rmdir", "rename", "move"}
    /\ \A c \in Cluster : \A i \in Position :
          LET s == block[c][i] IN
          /\ DOMAIN s = {"ord", "long", "name", "target"}
          /\ s.ord = "used" =>
                /\ s.name \in Used \cup {Dot, DotDot}
                /\ s.target \in (IF s.long THEN {None} ELSE Object \cup {Root})
          /\ s.ord # "used" => s.ord \in {"free", "end"} /\ s.long \in BOOLEAN
    /\ \A k \in 1 .. Len(todo) : todo[k].cluster \in Cluster

-----------------------------------------------------------------------------
(* Looking a path up.                                                      *)

Missing == [status |-> "missing"]
Astray == [status |-> "astray"]

\* The entry s was read just before position j of cluster c of directory d.
\* At the end of the cluster its short entry is taken from the next one.
Match(d, c, j, s) ==
    LET over == j >= BlockSlots
        e == IF over THEN block[FatNext[c]][0]
             ELSE IF s.long THEN block[c][j - 1] ELSE s
        at == IF over \/ s.long THEN j - 2 ELSE j
    IN
    IF over /\ FatNext[c] = None THEN Astray
    ELSE [status |-> "found", root |-> FALSE, source |-> d, long |-> s.long,
          sourceOffset |-> IF s.long THEN at ELSE at - 1,
          target |-> e.target, first |-> e.target]

\* Altered: an entry is always a long one and a short one.
LookupInPairs(d, n) ==
    LET walk[p \in Cluster \X (0 .. BlockSlots + 1)] ==
            LET c == p[1]
                s == block[c][p[2]]
                j == p[2] + 2
            IN
            IF p[2] >= BlockSlots
            THEN IF FatNext[c] = None THEN Astray ELSE walk[<<FatNext[c], 0>>]
            ELSE IF s.ord = "end" THEN Missing
            ELSE IF s.name = n THEN Match(d, c, j, s)
            ELSE walk[<<c, j>>]
    IN walk[<<d, 0>>]

\* A long entry is skipped with the one behind it.  What is free is not
\* skipped, and is as long as its attribute byte says.
Lookup(d, n) ==
    LET walk[p \in Cluster \X (0 .. BlockSlots + 1)] ==
            LET c == p[1]
                s == block[c][p[2]]
                j == p[2] + (IF s.long THEN 2 ELSE 1)
            IN
            IF p[2] >= BlockSlots
            THEN IF FatNext[c] = None THEN Astray ELSE walk[<<FatNext[c], 0>>]
            ELSE IF s.ord = "end" THEN Missing
            ELSE IF s.name = n THEN Match(d, c, j, s)
            ELSE walk[<<c, j>>]
    IN walk[<<d, 0>>]

\* FatFile.nextCluster of the root is the cluster after its first, or 0.
RootFile ==
    [status |-> "found", root |-> TRUE, source |-> Root, long |-> FALSE,
     sourceOffset |-> 0, target |-> Root,
     first |-> IF FatNext[Root] = None THEN Zero ELSE FatNext[Root]]

\* The cluster where the names of an open directory start.
Contents(f) == IF f.root THEN f.source ELSE f.first

Open(path) ==
    LET file[k \in 0 .. Len(path)] ==
            IF k = 0 THEN RootFile
            ELSE LET f == file[k - 1] IN
                 IF f.status = "found" THEN Lookup(Contents(f), path[k]) ELSE f
    IN file[Len(path)]

IsDirectory(f) == f.status = "found" /\ f.target \in DirObject \cup {Root}
-----------------------------------------------------------------------------
(* Listing.  The place in the directory is the cluster that comes next and *)
(* an offset; a block is not read again when the offset goes back to 0.    *)

\* Altered: what is free is listed.
ReadDirectoryAll(root, source, next, offset) ==
    LET over == offset >= BlockSlots
        c == IF over THEN FatNext[next] ELSE IF root THEN source ELSE next
        i == IF over THEN 0 ELSE offset
        s == block[c][i]
    IN
    IF c = None THEN Astray
    ELSE IF i + 1 >= BlockSlots THEN [status |-> "end"]
    ELSE IF s.long THEN [status |-> "found", name |-> s.name, target |-> block[c][i + 1].target,
                         next |-> IF over THEN c ELSE next, offset |-> i + 2]
    ELSE IF s.ord = "end" THEN [status |-> "end"]
    ELSE [status |-> "found", name |-> s.name, target |-> s.target,
          next |-> IF over THEN c ELSE next, offset |-> i + 1]

ReadDirectory(root, source, next, offset) ==
    LET over == offset >= BlockSlots
        c == IF over THEN FatNext[next] ELSE IF root THEN source ELSE next
        n == IF over THEN c ELSE next
        \* after the entry at i: where the next one is, or none
        read[q \in (Cluster \cup {None}) \X Position] ==
            LET s == block[c][q[2]]
                wraps == q[2] + 1 >= BlockSlots
                n2 == IF wraps THEN FatNext[q[1]] ELSE q[1]
                j == IF wraps THEN 0 ELSE q[2] + 1
            IN
            IF wraps /\ q[1] = None THEN [status |-> "end"]
            ELSE IF s.ord = "free" THEN read[<<n2, j>>]
            ELSE IF s.long
                 THEN [status |-> "found", name |-> s.name, target |-> block[c][j].target,
                       next |-> n2, offset |-> j + 1]
            ELSE IF s.ord = "end" THEN [status |-> "end"]
            ELSE IF wraps THEN Astray
            ELSE [status |-> "found", name |-> s.name, target |-> s.target,
                  next |-> n2, offset |-> j]
    IN
    IF (over /\ next = None) \/ c = None THEN Astray
    ELSE read[<<n, IF over THEN 0 ELSE offset>>]

\* pfs_fuse_readdir: what it hands to the filler, and whether it came to the end.
Listing(f) ==
    LET list[q \in (Cluster \cup {None}) \X (0 .. BlockSlots) \X (0 .. 2 * BlockSlots)] ==
            LET r == ReadDirectory(f.root, f.source, q[1], q[2]) IN
            IF r.status = "end" \/ q[3] = 0 THEN [ends |-> TRUE, shows |-> {}]
            ELSE IF r.status = "astray" THEN [ends |-> FALSE, shows |-> {}]
            ELSE LET rest == list[<<r.next, r.offset, q[3] - 1>>] IN
                 [rest EXCEPT !.shows = @ \cup {<<r.name, r.target>>}]
    IN list[<<f.first, 0, 2 * BlockSlots>>]

\* isDirectoryEmpty looks behind "." and ".." for what is not free.
Emptiness(f) ==
    LET walk[p \in Cluster \X (0 .. BlockSlots + 1)] ==
            LET c == p[1]
                s == block[c][p[2]]
            IN
            IF p[2] >= BlockSlots
            THEN IF FatNext[c] = None THEN "astray" ELSE walk[<<FatNext[c], 0>>]
            ELSE IF s.ord = "free" THEN walk[<<c, p[2] + (IF s.long THEN 2 ELSE 1)>>]
            ELSE IF s.ord = "end" THEN "empty" ELSE "occupied"
    IN walk[<<f.first, 2>>]
-----------------------------------------------------------------------------
(* Blocks that a call puts.                                                *)

Put(c, slots) == [cluster |-> c, slots |-> slots]

\* The first two free entries in a row, from a position of a cluster on.  The
\* end of the cluster is only noticed behind an entry that is not free.
FreePair(cluster, from) ==
    LET walk[p \in Cluster \X (0 .. BlockSlots + 1)] ==
            LET c == p[1]
                i == p[2]
            IN
            IF i >= BlockSlots THEN Astray
            ELSE IF ~IsFree(block[c][i])
                 THEN IF i + 1 < BlockSlots THEN walk[<<c, i + 1>>]
                      ELSE IF FatNext[c] = None THEN Astray ELSE walk[<<FatNext[c], 0>>]
            ELSE IF i + 1 >= BlockSlots THEN Astray
            ELSE IF IsFree(block[c][i + 1])
                 THEN [status |-> "found", cluster |-> c, at |-> i]
            ELSE walk[<<c, i + 2>>]
    IN walk[<<cluster, from>>]

\* pfs_fat32_mknod, and mkdir up to the entries of the new directory.
Entered(dir, n, x) ==
    LET p == FreePair(Contents(dir), 0) IN
    IF p.status = "astray" THEN <<Astray>>
    ELSE <<Put(p.cluster, [block[p.cluster] EXCEPT ![p.at] = Long(n),
                                                   ![p.at + 1] = Short(ShortOf[n], x)])>>

\* Altered: what is wiped is always marked as the last.
UnlinkedAsLast(blocks, f, junk) ==
    LET i == f.sourceOffset IN
    <<Put(f.source, [k \in Position |->
                        IF k \in {i, i + 1} THEN Wiped("end", FALSE) ELSE blocks[f.source][k]])>>

\* unlink_dirEntry.  The entry behind decides between 0xE5 and 0x00.
Unlinked(blocks, f, junk) ==
    LET b == blocks[f.source]
        after == FatNext[f.source]
        i == f.sourceOffset
        long == b[i].long
        split == long /\ i + 1 >= BlockSlots
        j == IF long THEN i + 2 ELSE i + 1
        over == j >= (IF long THEN BlockSlots ELSE SectorSlots)
        behind == IF split THEN blocks[after][1]
                  ELSE IF over THEN blocks[after][0] ELSE b[j]
        ord == IF behind.ord = "end" THEN "end" ELSE "free"
        last == IF ord = "free" THEN BlockSlots - 1 ELSE SectorSlots - 1
    IN
    IF (split \/ over) /\ after = None THEN <<Astray>>
    ELSE IF split
    THEN <<Put(f.source, [b EXCEPT ![last] = Wiped(ord, junk[1])]),
           Put(after, [blocks[after] EXCEPT ![0] = Wiped(ord, junk[2])])>>
    ELSE <<Put(f.source, [k \in Position |->
                            IF k = i THEN Wiped(ord, junk[1])
                            ELSE IF k = i + 1 /\ long THEN Wiped(ord, junk[2])
                            ELSE b[k]])>>

Renamed(f, n) ==
    LET b == block[f.source]
        after == FatNext[f.source]
        i == f.sourceOffset
        short == Short(ShortOf[n], f.target)
    IN
    IF ~f.long THEN <<Put(f.source, [b EXCEPT ![i] = short])>>
    ELSE IF i + 1 < BlockSlots
         THEN <<Put(f.source, [b EXCEPT ![i] = Long(n), ![i + 1] = short])>>
    ELSE IF after = None THEN <<Astray>>
    ELSE <<Put(after, [block[after] EXCEPT ![0] = short]),
           Put(f.source, [b EXCEPT ![i] = Long(n)])>>

\* moveFile.  The search starts behind the first two entries and cannot leave
\* the first cluster; a pair at the end of a sector is taken for one that goes
\* over the end of the cluster.
Moved(f, dir, n, junk) ==
    LET p == FreePair(dir.first, 2)
        b == block[dir.first]
        after == FatNext[f.source]
        short == Short(ShortOf[n], f.target)
    IN
    IF p.status = "astray" \/ p.cluster # dir.first THEN <<Astray>>
    ELSE IF f.long /\ p.at + 1 >= SectorSlots /\ after = None THEN <<Astray>>
    ELSE LET new == IF ~f.long THEN Put(dir.first, [b EXCEPT ![p.at] = short])
                    ELSE IF p.at + 1 < SectorSlots
                    THEN Put(dir.first, [b EXCEPT ![p.at] = Long(n), ![p.at + 1] = short])
                    ELSE Put(after, [block[after] EXCEPT ![0] = short])
         IN <<new>> \o Unlinked([block EXCEPT ![new.cluster] = new.slots], f, junk)
-----------------------------------------------------------------------------
(* The FUSE calls.                                                         *)

Idle == status = "up" /\ todo = <<>>

\* A call whose blocks are known, or that loses its way first.
Serve(kind, puts) ==
    /\ op' = kind
    /\ \/ /\ \A k \in DOMAIN puts : puts[k] # Astray
          /\ todo' = puts
          /\ UNCHANGED status
       \/ \E k \in DOMAIN puts :
             /\ puts[k] = Astray
             /\ todo' = RemoveAt(puts, k)
             /\ status' = "astray"
    /\ UNCHANGED block

DirPath == {<<>>} \cup {<<n>> : n \in Name}

Junks == [1 .. 2 -> Junk]

\* The kernel has looked the directory up, and found no such name in it, or
\* has found it.
Parent(p) == Idle /\ IsDirectory(Open(p))

\* getattr and readdir, which change nothing.
Look(p, n) ==
    /\ Parent(p)
    /\ Open(Append(p, n)).status = "astray" \/ ~Listing(Open(p)).ends
    /\ status' = "astray"
    /\ UNCHANGED <<block, unused, op, todo>>

Mknod(p, n) ==
    /\ Parent(p)
    /\ Open(Append(p, n)).status = "missing"
    /\ unused \cap FileObject # {}
    /\ LET x == CHOOSE x \in unused \cap FileObject : TRUE IN
       /\ unused' = unused \ {x}
       /\ Serve("mknod", Entered(Open(p), n, x))

\* Altered: the new cluster is not set in the entry.
MkdirUnset(p, n) ==
    /\ Parent(p)
    /\ Open(Append(p, n)).status = "missing"
    /\ unused \cap DirObject # {}
    /\ LET x == CHOOSE x \in unused \cap DirObject : TRUE IN
       /\ unused' = unused \ {x}
       /\ Serve("mkdir", Entered(Open(p), n, None) \o
                <<Put(x, [block[x] EXCEPT ![0] = Short(Dot, None),
                                          ![1] = Short(DotDot, Open(p).target)])>>)

Mkdir(p, n) ==
    /\ Parent(p)
    /\ Open(Append(p, n)).status = "missing"
    /\ unused \cap DirObject # {}
    /\ LET x == CHOOSE x \in unused \cap DirObject : TRUE IN
       /\ unused' = unused \ {x}
       /\ Serve("mkdir", Entered(Open(p), n, x) \o
                <<Put(x, [block[x] EXCEPT ![0] = Short(Dot, x),
                                          ![1] = Short(DotDot, Open(p).target)])>>)

Unlink(p, n) ==
    LET f == Open(Append(p, n)) IN
    /\ Parent(p)
    /\ f.status = "found" /\ ~IsDirectory(f)
    /\ \E junk \in Junks : Serve("unlink", Unlinked(block, f, junk))
    /\ UNCHANGED unused

Rmdir(p, n) ==
    LET f == Open(Append(p, n)) IN
    /\ Parent(p)
    /\ IsDirectory(f)
    /\ Emptiness(f) # "occupied"
    /\ \E junk \in Junks :
          Serve("rmdir", IF Emptiness(f) = "empty" THEN Unlinked(block, f, junk) ELSE <<Astray>>)
    /\ UNCHANGED unused

Rename(p, n, new) ==
    LET f == Open(Append(p, n)) IN
    /\ Parent(p)
    /\ f.status = "found"
    /\ Open(Append(p, new)).status = "missing"
    /\ Serve("rename", Renamed(f, new))
    /\ UNCHANGED unused

\* The kernel moves no directory into itself.
Move(p, n, q, new) ==
    LET f == Open(Append(p, n))
        dir == Open(q)
    IN
    /\ Parent(p) /\ Parent(q)
    /\ p # q
    /\ dir.target \in Into
    /\ f.status = "found" /\ f.target # dir.target
    /\ Open(Append(q, new)).status = "missing"
    /\ \E junk \in Junks : Serve("move", Moved(f, dir, new, junk))
    /\ UNCHANGED unused

PutBlock ==
    /\ todo # <<>>
    /\ block' = [block EXCEPT ![Head(todo).cluster] = Head(todo).slots]
    /\ todo' = Tail(todo)
    /\ op' = IF Tail(todo) = <<>> THEN "none" ELSE op
    /\ UNCHANGED <<status, unused>>

\* The process dies between two blocks, and the volume is mounted again.
Crash ==
    /\ status = "up"
    /\ todo # <<>>
    /\ op \in CrashIn
    /\ todo' = <<>>
    /\ op' = "none"
    /\ UNCHANGED <<status, block, unused>>

Init ==
    /\ status = "up"
    /\ unused = Object \ {Present[k][2] : k \in DOMAIN Present}
    /\ block = [c \in Cluster |-> [i \in Position |->
                  IF c = Root /\ i + 1 \in DOMAIN Present
                  THEN Short(Present[i + 1][1], Present[i + 1][2]) ELSE Blank]]
    /\ op = "none"
    /\ todo = <<>>

Call ==
    \E p \in DirPath :
        \/ \E n \in Name : Mknod(p, n) \/ Mkdir(p, n)
        \/ \E n \in Used : Look(p, n) \/ Unlink(p, n) \/ Rmdir(p, n)
        \/ \E n \in Used, new \in Name : Rename(p, n, new)
        \/ \E n \in Used, q \in DirPath, new \in Name : Move(p, n, q, new)

Next == Call \/ PutBlock \/ Crash

Spec == Init /\ [][Next]_vars
-----------------------------------------------------------------------------
(* Properties.                                                             *)

Directory == {Root} \cup DirObject

ChainOf[c \in Cluster] == {c} \cup (IF FatNext[c] = None THEN {} ELSE ChainOf[FatNext[c]])

\* What a walk through a block can come to, and where entries begin in it: at
\* a long one, and at a short one with none before it.
Visible(b) == {i \in Position : \A j \in 0 .. i : b[j].ord # "end"}
Full(d) == \E c \in ChainOf[d] : Visible(block[c]) = Position

Heads(b) == {i \in Visible(b) :
                /\ b[i].ord = "used"
                /\ b[i].name \notin {Dot, DotDot}
                /\ b[i].long \/ i = 0 \/ ~(b[i - 1].ord = "used" /\ b[i - 1].long)}

\* What the blocks say: a long entry names the short one behind it, and a short
\* one with none before it names itself.
Entry(d, b, i) == [dir |-> d, name |-> b[i].name,
                   object |-> b[IF b[i].long THEN i + 1 ELSE i].target]

EntriesOf(blocks, d) ==
    UNION {{Entry(d, blocks[c], i) : i \in Heads(blocks[c])} : c \in ChainOf[d]}

EntriesIn(blocks) == UNION {EntriesOf(blocks, d) : d \in Directory}
entries == EntriesIn(block)

\* Every block that is put, of every call and whatever was there before, is a
\* step of the name space: pfs_fat32_mknod to pfs_fat32_rename.
Names == INSTANCE NameSpace WITH entries <- entries
KeepsNames == Names!Spec

InTree == {Root} \cup (DirObject \cap {e.object : e \in entries})

\* A lookup that comes to an answer finds what the blocks say, with a FatFile
\* whose source and offset are those of its entry.
LookupsRight ==
    Idle => \A d \in InTree :
        LET here == EntriesOf(block, d) IN
        \A n \in Used :
            LET f == Lookup(d, n) IN
            /\ f.status = "missing" => \A e \in here : e.name # n
            /\ f.status = "found" =>
                  /\ [dir |-> d, name |-> n, object |-> f.target] \in here
                  /\ block[f.source][f.sourceOffset].name = n
            /\ f.status = "astray" => Full(d)

\* A listing shows the names that a lookup finds and no others.
ListsWhatIsFound ==
    Idle => \A p \in DirPath :
        LET f == Open(p)
            listing == Listing(f)
        IN IsDirectory(f) /\ listing.ends /\ ~Full(Contents(f)) =>
              {x \in listing.shows : x[1] \notin {Dot, DotDot}} =
                 {<<e.name, e.object>> : e \in EntriesOf(block, Contents(f))}

\* FatFile.source is the cluster that holds the entry: pfs-fat32.h 88.
SourceHoldsEntry ==
    Idle => \A n \in Used :
        LET f == Lookup(Root, n) IN
        f.status = "found" => block[f.source][f.sourceOffset].name = n
=============================================================================
