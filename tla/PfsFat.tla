------------------------------- MODULE PfsFat -------------------------------
(***************************************************************************)
(* The clusters of the file system (grage-pfs): how the FUSE threads give  *)
(* them out, chain them in the FAT, find them again and free them, and     *)
(* what of it survives an exit.                                            *)
(*                                                                         *)
(* The FAT is read and written a sector at a time through the FAT cache,   *)
(* which all threads share.  Only the choice of a cluster is made under    *)
(* Volume.fatLock; chains are walked and freed without it.  The sectors    *)
(* touched here fit the cache, which holds a fifth of the FAT and never    *)
(* fewer than 102 sectors, so nothing is evicted.                          *)
(* List operations and the transfer of a directory block are single steps. *)
(*                                                                         *)
(* All files lie in one directory block.  Names, data and the layout of    *)
(* directories are left out, and so is freeClusterCount, which the code    *)
(* only prints.                                                            *)
(***************************************************************************)
EXTENDS Integers, Sequences, FiniteSets

CONSTANTS
    Thread,             \* FUSE threads, one of them as well the console's
    File,               \* names in the directory
    EntriesPerSector,   \* FAT entries of a sector (128)
    FatSectors,         \* v->fatSize
    Clusters,           \* v->clusters
    ClusterBytes,       \* v->bpc
    FirstFree,          \* nextFreeCluster of the first mount
    Extents,            \* what a write may ask for: [offset, size]
    Sizes,              \* what a truncate may ask for
    Existing, InUse,    \* files that lie empty on the volume at first, and
                        \* those of them that are open
    Kinds,              \* the calls that are made
    Budget,             \* bound: calls in all
    MaxMounts,          \* bound: times the volume is mounted
    RemountKilled,      \* the volume is mounted again after an early exit
    None

ASSUME FatAssumption ==
    /\ EntriesPerSector \in Nat \ {0}
    /\ FatSectors \in Nat \ {0}
    /\ Clusters \in Nat
    /\ ClusterBytes \in Nat \ {0}
    /\ FirstFree \in Nat \ {0, 1, 2}
    /\ Extents \subseteq [offset : Nat, size : Nat \ {0}]
    /\ Sizes \subseteq Nat
    /\ Existing \subseteq File /\ InUse \subseteq Existing
    /\ Kinds \subseteq {"mknod", "open", "write", "extend", "shrink", "unlink", "mkdir",
                        "close", "finfo"}
    /\ Budget \in Nat
    /\ MaxMounts \in Nat \ {0}
    /\ RemountKilled \in BOOLEAN
    /\ None \notin Thread
    /\ None \notin [0 .. EntriesPerSector - 1 -> Int]

\* FAT_32_FAT_EOC, and FAT_32_FAT_FREE_ENTRY.
EOC == -1
Free == 0

Sector == 0 .. FatSectors - 1
Slot == 0 .. EntriesPerSector - 1

\* getFatEntrySector and getFatEntryOffset.
SectorOf(c) == c \div EntriesPerSector
SlotOf(c) == c % EntriesPerSector

\* A number that is a cluster: EOC taken for one lies outside the volume.
InFat(c) == c \in 0 .. EntriesPerSector * FatSectors - 1

\* Altered: rounded down.
ReserveWhole(bytes) == bytes \div ClusterBytes

\* Clusters that so many bytes need.
Reserve(bytes) == (bytes + ClusterBytes - 1) \div ClusterBytes

VARIABLES
    stage,              \* of the process: up, unmounted, flushed, down or killed
    mounts,
    fat,                \* the FAT on the volume
    fsInfo,             \* the next free cluster that FSInfo records
    entry,              \* the directory entries on the volume
    cached,             \* the FAT cache
    modificado,         \* CacheSectorRecord.modificado
    nextFreeCluster,
    fatLock,
    handle,             \* the FatFile of an open file
    pc,                 \* a thread,
    cur, nxt,           \*   currentFree and next while it allocates,
    loc,                \*   and its other locals
    calls,              \* made so far
    given,              \* history: clusters handed out, in order
    reserved,           \* history: how many under each name
    chains,             \* history: the clusters of a file, as they were linked
    plain               \* history: nothing was freed, no file was made longer
                        \*   behind the FatFile of one who has it open, no
                        \*   flush unmarked a change it had not written, no
                        \*   late answer overwrote a newer sector in the cache,
                        \*   and no end of a chain was marked past a sector

volumeVars == <<fat, fsInfo, entry>>
cacheVars == <<cached, modificado>>
allocVars == <<nextFreeCluster, fatLock>>
history == <<given, reserved, chains, plain>>
threadVars == <<pc, cur, nxt, loc, calls>>
processVars == <<stage, mounts>>
vars == <<processVars, volumeVars, cacheVars, allocVars, handle, threadVars, history>>

FatFile == [first : Int, next : Int, size : Nat, eoc : Int, write : Int]

\* openNonRootDirectory: a FatFile of its own for every call.
Opened(e) == [first |-> e.first, next |-> e.first, size |-> e.size, eoc |-> 0, write |-> 0]

NoEntry == [used |-> FALSE, first |-> 0, size |-> 0]

NoLoc == [op |-> "none", file |-> None, f |-> Opened(NoEntry), size |-> 0, offset |-> 0,
          todo |-> 0, chain |-> FALSE, last |-> 0, slot |-> 0, cluster |-> 0,
          fetched |-> None, sector |-> None, block |-> None]

\* Where a thread reads a sector of the FAT, and where it holds a copy of it
\* that it changes and puts back.
ReadPc == {"scan", "eoc", "walk", "peek", "shrink", "after"}
ChangePc == {"mark", "link", "free", "cut", "drop"}
FatPc == ReadPc \cup ChangePc

InLock == {"scan", "mark", "link", "unlock"}

TypeOK ==
    /\ stage \in {"up", "unmounted", "flushed", "down", "killed"}
    /\ mounts \in 1 .. MaxMounts
    /\ fat \in [Sector -> [Slot -> Int]]
    /\ fsInfo \in Nat
    /\ entry \in [File -> [used : BOOLEAN, first : Int, size : Nat]]
    /\ \A s \in Sector : cached[s] # None => cached[s] \in [Slot -> Int]
    /\ modificado \in [Sector -> BOOLEAN]
    /\ nextFreeCluster \in Nat
    /\ fatLock \in Thread \cup {None}
    /\ \A f \in File : handle[f] # None => handle[f] \in FatFile
    /\ pc \in [Thread -> FatPc \cup InLock \cup
                  {"idle", "lock", "block", "put", "data", "flush", "clear", "outside"}]
    /\ cur \in [Thread -> Nat]
    /\ nxt \in [Thread -> Nat]
    /\ calls \in 0 .. Budget
    /\ given \in Seq(Nat)
    /\ reserved \in [File -> Nat]
    /\ chains \subseteq Seq(Nat)
    /\ plain \in BOOLEAN
-----------------------------------------------------------------------------
(* Control of a thread.  A target is a program counter with its locals.    *)

Goto(t, target) ==
    /\ pc' = [pc EXCEPT ![t] = target[1]]
    /\ loc' = [loc EXCEPT ![t] = target[2]]

Return == <<"idle", NoLoc>>

\* Read the entry of a cluster at a place of FatPc.
Read(place, l, c) ==
    <<place, [l EXCEPT !.cluster = c, !.fetched = None, !.sector = None]>>

\* The kernel lets one call at a time write, cut or unlink a file, and one at
\* a time change the names of the directory.
Busy(f) == \E t \in Thread : pc[t] # "idle" /\ loc[t].file = f
Naming == \E t \in Thread : pc[t] # "idle" /\ loc[t].op \in {"mknod", "unlink", "mkdir"}

\* Extending: the first cluster of an empty file, the end of the chain unless
\* the FatFile has it, then the clusters that are still to be reserved, and
\* at last the entry.
More(l) ==
    IF l.todo > 0 THEN <<"lock", [l EXCEPT !.chain = TRUE]>>
                  ELSE <<"block", [l EXCEPT !.f.size = l.size]>>

FromEnd(l) ==
    IF l.f.eoc = 0 THEN Read("eoc", l, l.f.next)
                   ELSE More([l EXCEPT !.last = l.f.eoc])

Extend(l) ==
    IF l.f.next = 0 THEN <<"lock", [l EXCEPT !.chain = FALSE]>> ELSE FromEnd(l)

\* getBlockFromNthClusterWrite, or one step from where it left off.
Seek(l) ==
    LET nth == Reserve(l.offset) IN
    IF l.f.write # 0
    THEN Read("walk", [l EXCEPT !.todo = 1], l.f.write)
    ELSE Read(IF nth > 1 THEN "walk" ELSE "data", [l EXCEPT !.todo = nth - 1], l.f.first)

\* The locals of a call at its start.
Enter(op, f) == [NoLoc EXCEPT !.op = op, !.file = f]

Call(t, op, f, target) ==
    /\ stage = "up"
    /\ op \in Kinds
    /\ pc[t] = "idle"
    /\ calls < Budget
    /\ calls' = calls + 1
    /\ Goto(t, target)
    /\ plain' = (plain /\ op \notin {"unlink", "shrink"}
                       /\ (op = "extend" => handle[f] = None))
    /\ UNCHANGED <<processVars, volumeVars, cacheVars, allocVars, cur, nxt,
                   given, reserved, chains>>

-----------------------------------------------------------------------------
(* The FUSE operations, and one of the console, which is a thread too.     *)

Mknod(t, f) ==
    /\ ~entry[f].used /\ ~Busy(f) /\ ~Naming
    /\ Call(t, "mknod", f, <<"block", Enter("mknod", f)>>)
    /\ UNCHANGED handle

Mkdir(t) ==
    /\ ~Naming
    /\ Call(t, "mkdir", None, <<"lock", Enter("mkdir", None)>>)
    /\ UNCHANGED handle

Open(t, f) ==
    /\ entry[f].used /\ ~Busy(f) /\ handle[f] = None
    /\ Call(t, "open", f, Return)
    /\ handle' = [handle EXCEPT ![f] = Opened(entry[f])]

\* A write of at most one page that leaves no hole.
Write(t, f) ==
    /\ handle[f] # None /\ ~Busy(f)
    /\ \E x \in Extents :
          LET h == handle[f]
              l == [Enter("write", f) EXCEPT !.f = h, !.offset = x.offset]
              inCluster == (x.offset % ClusterBytes) + x.size
          IN /\ x.offset <= h.size /\ inCluster <= ClusterBytes
             /\ Call(t, "write", f,
                  IF inCluster > Reserve(h.size) * ClusterBytes \/ x.offset >= h.size
                  THEN Extend([l EXCEPT !.size = h.size + x.size, !.todo = Reserve(x.size)])
                  ELSE IF x.offset + x.size > h.size
                       THEN <<"block", [l EXCEPT !.f.size = x.offset + x.size]>>
                       ELSE Seek(l))
    /\ UNCHANGED handle

\* truncate opens the file for itself, whoever else has it open.
TruncateUp(t, f) ==
    /\ entry[f].used /\ ~Busy(f)
    /\ \E n \in Sizes :
          /\ n > entry[f].size
          /\ Call(t, "extend", f,
                  Extend([Enter("extend", f) EXCEPT !.f = Opened(entry[f]),
                                                    !.size = n, !.todo = Reserve(n)]))
    /\ UNCHANGED handle

TruncateDown(t, f) ==
    /\ entry[f].used /\ ~Busy(f)
    /\ \E n \in Sizes :
          /\ n <= entry[f].size
          /\ Call(t, "shrink", f,
                  <<"block", [Enter("shrink", f) EXCEPT !.f = Opened(entry[f]),
                                                        !.size = n, !.todo = Reserve(n)]>>)
    /\ UNCHANGED handle

Unlink(t, f) ==
    /\ entry[f].used /\ ~Busy(f) /\ ~Naming /\ handle[f] = None
    /\ Call(t, "unlink", f, <<"block", [Enter("unlink", f) EXCEPT !.f = Opened(entry[f])]>>)
    /\ UNCHANGED handle

\* The console's finfo goes along the chain for as many clusters as the size
\* says, at most 20.
Finfo(t, f) ==
    /\ entry[f].used
    /\ LET n == IF Reserve(entry[f].size) < 20 THEN Reserve(entry[f].size) ELSE 20 IN
       Call(t, "finfo", f,
            IF n = 0 THEN Return
                     ELSE Read("walk", [Enter("finfo", None) EXCEPT !.todo = n], entry[f].first))
    /\ UNCHANGED handle

\* flush goes through the FAT cache; release drops the FatFile.
Close(t, f) ==
    /\ handle[f] # None /\ ~Busy(f)
    /\ Call(t, "close", f,
            <<"flush", [Enter("close", f) EXCEPT !.block = {s \in Sector : cached[s] # None}]>>)
    /\ UNCHANGED handle
-----------------------------------------------------------------------------
(* callCachedGetSector: the cache, or the volume and then the cache.       *)

Wants(t) == pc[t] \in FatPc /\ loc[t].sector = None

Found(t) ==
    /\ loc[t].fetched = None
    /\ InFat(loc[t].cluster)
    /\ cached[SectorOf(loc[t].cluster)] # None

Hit(t) ==
    /\ Wants(t) /\ Found(t)
    /\ pc[t] \in ChangePc
    /\ loc' = [loc EXCEPT ![t].sector = cached[SectorOf(loc[t].cluster)]]
    /\ UNCHANGED <<processVars, volumeVars, cacheVars, allocVars, handle, pc, cur, nxt, calls,
                   history>>

Miss(t) ==
    /\ Wants(t) /\ loc[t].fetched = None
    /\ InFat(loc[t].cluster)
    /\ cached[SectorOf(loc[t].cluster)] = None
    /\ loc' = [loc EXCEPT ![t].fetched = fat[SectorOf(loc[t].cluster)]]
    /\ UNCHANGED <<processVars, volumeVars, cacheVars, allocVars, handle, pc, cur, nxt, calls,
                   history>>

\* putInCache: a sector that is there is overwritten and marked, a new one
\* comes unmarked.
PutInCache(s, content) ==
    /\ cached' = [cached EXCEPT ![s] = content]
    /\ modificado' = [modificado EXCEPT ![s] = cached[s] # None]

Fill(t) ==
    /\ Wants(t) /\ loc[t].fetched # None
    /\ PutInCache(SectorOf(loc[t].cluster), loc[t].fetched)
    /\ loc' = [loc EXCEPT ![t].sector = loc[t].fetched, ![t].fetched = None]
    /\ plain' = (plain /\ cached[SectorOf(loc[t].cluster)] \in {None, loc[t].fetched})
    /\ UNCHANGED <<processVars, volumeVars, allocVars, handle, pc, cur, nxt, calls,
                   given, reserved, chains>>

\* A sector outside the volume: the disks that are asked for it do not answer.
Outside(t) ==
    /\ Wants(t)
    /\ ~InFat(loc[t].cluster)
    /\ Goto(t, <<"outside", loc[t]>>)
    /\ UNCHANGED <<processVars, volumeVars, cacheVars, allocVars, handle, cur, nxt, calls, history>>

\* The thread is at a place and has the sector it asked for; the entry in it.
At(t, place) ==
    /\ pc[t] = place
    /\ loc[t].sector # None \/ (pc[t] \in ReadPc /\ Found(t))

Content(t) == IF loc[t].sector # None THEN loc[t].sector ELSE cached[SectorOf(loc[t].cluster)]
Entry(t) == Content(t)[SlotOf(loc[t].cluster)]

\* The sector goes back with one entry changed.
PutEntry(t, slot, value) ==
    PutInCache(SectorOf(loc[t].cluster), [loc[t].sector EXCEPT ![slot] = value])

\* markEndOfChain writes the entry after that of the cluster; past the end of
\* the sector it writes none.
PutEndOfChain(t) ==
    LET slot == SlotOf(loc[t].cluster) + 1 IN
    PutInCache(SectorOf(loc[t].cluster),
               [k \in Slot |-> IF k = slot THEN EOC ELSE loc[t].sector[k]])
-----------------------------------------------------------------------------
(* assignCluster and allocateNewCluster.                                   *)

\* Altered: the lock is not waited for.
LockAtOnce(t) ==
    /\ pc[t] = "lock"
    /\ fatLock' = t
    /\ cur' = [cur EXCEPT ![t] = nextFreeCluster]
    /\ nxt' = [nxt EXCEPT ![t] = nextFreeCluster + 1]
    /\ Goto(t, Read("scan", [loc[t] EXCEPT !.slot = SlotOf(nextFreeCluster + 1)],
                    nextFreeCluster + 1))
    /\ UNCHANGED <<processVars, volumeVars, cacheVars, nextFreeCluster, handle, calls, history>>

Lock(t) ==
    /\ pc[t] = "lock"
    /\ fatLock = None
    /\ fatLock' = t
    /\ cur' = [cur EXCEPT ![t] = nextFreeCluster]
    /\ nxt' = [nxt EXCEPT ![t] = nextFreeCluster + 1]
    /\ Goto(t, Read("scan", [loc[t] EXCEPT !.slot = SlotOf(nextFreeCluster + 1)],
                    nextFreeCluster + 1))
    /\ UNCHANGED <<processVars, volumeVars, cacheVars, nextFreeCluster, handle, calls, history>>

\* A free entry in what is left of the sector is the next free cluster, and
\* so is v->clusters.  At the end of the sector the same sector is read again.
Scan(t) ==
    LET from == loc[t].slot
        at(k) == nxt[t] + k - from
        free == {k \in from .. EntriesPerSector - 1 :
                    at(k) >= Clusters \/ Content(t)[k] = Free}
    IN
    /\ At(t, "scan")
    /\ \/ \E k \in free :
             /\ \A j \in free : k <= j
             /\ nxt' = [nxt EXCEPT ![t] = at(k)]
             /\ Goto(t, Read("mark", loc[t], cur[t]))
       \/ /\ free = {}
          /\ nxt' = [nxt EXCEPT ![t] = at(EntriesPerSector)]
          /\ Goto(t, Read("scan", [loc[t] EXCEPT !.slot = 0], loc[t].cluster))
    /\ UNCHANGED <<processVars, volumeVars, cacheVars, allocVars, handle, cur, calls, history>>

Mark(t) ==
    /\ At(t, "mark")
    /\ PutEndOfChain(t)
    /\ plain' = (plain /\ SlotOf(loc[t].cluster) + 1 \in Slot)
    /\ Goto(t, IF loc[t].chain THEN Read("link", loc[t], loc[t].last) ELSE <<"unlock", loc[t]>>)
    /\ UNCHANGED <<processVars, volumeVars, allocVars, handle, cur, nxt, calls,
                   given, reserved, chains>>

\* expandChain
Link(t) ==
    /\ At(t, "link")
    /\ PutEntry(t, SlotOf(loc[t].cluster), cur[t])
    /\ Goto(t, <<"unlock", loc[t]>>)
    /\ UNCHANGED <<processVars, volumeVars, allocVars, handle, cur, nxt, calls, history>>

\* What the caller does with its cluster.  mkdir puts the two entries of the
\* new directory into the block it shares with the files.
Allocated(l, c) ==
    IF l.op = "mkdir" THEN <<"block", l>>
    ELSE IF l.chain THEN More([l EXCEPT !.f.eoc = c, !.last = c, !.todo = @ - 1])
                    ELSE FromEnd([l EXCEPT !.f.first = c, !.f.next = c, !.todo = @ - 1])

Unlock(t) ==
    /\ pc[t] = "unlock"
    /\ nextFreeCluster' = nxt[t]
    /\ fatLock' = None
    /\ given' = Append(given, cur[t])
    /\ reserved' = IF loc[t].op = "mkdir" THEN reserved
                   ELSE [reserved EXCEPT ![loc[t].file] = @ + 1]
    /\ chains' = IF loc[t].op = "mkdir" \/ ~loc[t].chain THEN chains \cup {<<cur[t]>>}
                 ELSE {IF c[Len(c)] = loc[t].last THEN Append(c, cur[t]) ELSE c : c \in chains}
    /\ Goto(t, Allocated(loc[t], cur[t]))
    /\ UNCHANGED <<processVars, volumeVars, cacheVars, handle, cur, nxt, calls, plain>>

\* Altered: the search stays where it is.
FindEOCStays(t) ==
    /\ At(t, "eoc")
    /\ Goto(t, IF Entry(t) = EOC
               THEN More([loc[t] EXCEPT !.f.eoc = loc[t].cluster, !.last = loc[t].cluster])
               ELSE Read("eoc", loc[t], loc[t].cluster))
    /\ UNCHANGED <<processVars, volumeVars, cacheVars, allocVars, handle, cur, nxt, calls, history>>

FindEOC(t) ==
    /\ At(t, "eoc")
    /\ Goto(t, IF Entry(t) = EOC
               THEN More([loc[t] EXCEPT !.f.eoc = loc[t].cluster, !.last = loc[t].cluster])
               ELSE Read("eoc", loc[t], Entry(t)))
    /\ UNCHANGED <<processVars, volumeVars, cacheVars, allocVars, handle, cur, nxt, calls, history>>
-----------------------------------------------------------------------------
(* The directory entry: the block is read, changed and written back whole. *)

GetBlock(t) ==
    /\ pc[t] = "block"
    /\ Goto(t, <<"put", [loc[t] EXCEPT !.block = entry]>>)
    /\ UNCHANGED <<processVars, volumeVars, cacheVars, allocVars, handle, cur, nxt, calls, history>>

\* Altered: the FatFile in place of its short entry.
NewEntryOfFile(l) ==
    LET e == l.block[l.file] IN
    CASE l.op = "mknod" -> [used |-> TRUE, first |-> 0, size |-> 0]
      [] l.op = "unlink" -> NoEntry
      [] l.op = "shrink" ->
            [e EXCEPT !.size = l.size, !.first = IF l.size = 0 THEN 0 ELSE @]
      [] OTHER -> l.f

NewEntry(l) ==
    LET e == l.block[l.file] IN
    CASE l.op = "mknod" -> [used |-> TRUE, first |-> 0, size |-> 0]
      [] l.op = "unlink" -> NoEntry
      [] l.op = "shrink" ->
            [e EXCEPT !.size = l.size, !.first = IF l.size = 0 THEN 0 ELSE @]
      [] OTHER -> [e EXCEPT !.first = l.f.first, !.size = l.f.size]

\* mkdir's own entries are left out, but not that the rest of the block goes
\* back as it was read.
PutBlock(t) ==
    LET l == loc[t] IN
    /\ pc[t] = "put"
    /\ entry' = IF l.op = "mkdir" THEN l.block
                ELSE [l.block EXCEPT ![l.file] = NewEntry(l)]
    /\ Goto(t, CASE l.op = "write" -> Seek(l)
                 [] l.op = "unlink" -> Read("peek", l, l.f.next)
                 [] l.op = "shrink" ->
                       Read(IF l.todo > 0 THEN "shrink" ELSE "after", l, l.f.next)
                 [] OTHER -> Return)
    /\ UNCHANGED <<processVars, fat, fsInfo, cacheVars, allocVars, handle, cur, nxt,
                   calls, history>>

\* write: on to the cluster the data goes to ...
Walk(t) ==
    /\ At(t, "walk")
    /\ Goto(t, IF loc[t].op = "finfo" /\ loc[t].todo = 1 THEN Return
               ELSE Read(IF loc[t].todo > 1 THEN "walk" ELSE "data",
                         [loc[t] EXCEPT !.todo = @ - 1], Entry(t)))
    /\ UNCHANGED <<processVars, volumeVars, cacheVars, allocVars, handle, cur, nxt, calls, history>>

\* ... which the FatFile remembers when it was looked for from the start.
Data(t) ==
    LET l == loc[t] IN
    /\ pc[t] = "data"
    /\ handle' = [handle EXCEPT ![l.file] =
                     [l.f EXCEPT !.write = IF @ = 0 THEN l.cluster ELSE @]]
    /\ Goto(t, Return)
    /\ UNCHANGED <<processVars, volumeVars, cacheVars, allocVars, cur, nxt, calls, history>>
-----------------------------------------------------------------------------
(* Freeing.  unlink_FatEntryChain reads the entry twice, for the next      *)
(* cluster and for the end of the chain.                                   *)

Peek(t) ==
    /\ At(t, "peek")
    /\ Goto(t, Read("free", [loc[t] EXCEPT !.last = Entry(t)], loc[t].cluster))
    /\ UNCHANGED <<processVars, volumeVars, cacheVars, allocVars, handle, cur, nxt, calls, history>>

FreeEntry(t) ==
    /\ At(t, "free")
    /\ PutEntry(t, SlotOf(loc[t].cluster), Free)
    /\ Goto(t, IF Entry(t) = EOC THEN Return ELSE Read("peek", loc[t], loc[t].last))
    /\ UNCHANGED <<processVars, volumeVars, allocVars, handle, cur, nxt, calls, history>>

\* truncate: as many clusters on as the new size needs ...
Shrink(t) ==
    /\ At(t, "shrink")
    /\ Goto(t, Read(IF loc[t].todo > 1 THEN "shrink" ELSE "after",
                    [loc[t] EXCEPT !.todo = @ - 1], Entry(t)))
    /\ UNCHANGED <<processVars, volumeVars, cacheVars, allocVars, handle, cur, nxt, calls, history>>

After(t) ==
    /\ At(t, "after")
    /\ Goto(t, Read("cut", [loc[t] EXCEPT !.last = Entry(t)], loc[t].cluster))
    /\ UNCHANGED <<processVars, volumeVars, cacheVars, allocVars, handle, cur, nxt, calls, history>>

\* ... the end of the chain is marked there, and what follows is freed.
Cut(t) ==
    /\ At(t, "cut")
    /\ PutEndOfChain(t)
    /\ Goto(t, IF loc[t].last = EOC THEN Return ELSE Read("drop", loc[t], loc[t].last))
    /\ UNCHANGED <<processVars, volumeVars, allocVars, handle, cur, nxt, calls, history>>

Drop(t) ==
    /\ At(t, "drop")
    /\ PutEntry(t, SlotOf(loc[t].cluster), Free)
    /\ Goto(t, IF Entry(t) = EOC THEN Return ELSE Read("drop", loc[t], Entry(t)))
    /\ UNCHANGED <<processVars, volumeVars, allocVars, handle, cur, nxt, calls, history>>
-----------------------------------------------------------------------------
(* fatCacheFlush writes every modified sector and then unmarks it.         *)

FlushPut(t) ==
    /\ pc[t] = "flush"
    /\ \E s \in loc[t].block :
          LET l == [loc[t] EXCEPT !.block = @ \ {s}, !.last = s] IN
          IF modificado[s]
          THEN /\ fat' = [fat EXCEPT ![s] = cached[s]]
               /\ Goto(t, <<"clear", l>>)
          ELSE /\ Goto(t, <<"flush", l>>)
               /\ UNCHANGED fat
    /\ UNCHANGED <<processVars, fsInfo, entry, cacheVars, allocVars, handle, cur, nxt, calls,
                   history>>

FlushClear(t) ==
    /\ pc[t] = "clear"
    /\ modificado' = [modificado EXCEPT ![loc[t].last] = FALSE]
    /\ plain' = (plain /\ cached[loc[t].last] = fat[loc[t].last])
    /\ Goto(t, <<"flush", loc[t]>>)
    /\ UNCHANGED <<processVars, volumeVars, cached, allocVars, handle, cur, nxt, calls,
                   given, reserved, chains>>

Release(t) ==
    /\ pc[t] = "flush"
    /\ loc[t].block = {}
    /\ handle' = [handle EXCEPT ![loc[t].file] = None]
    /\ Goto(t, Return)
    /\ UNCHANGED <<processVars, volumeVars, cacheVars, allocVars, cur, nxt, calls, history>>
-----------------------------------------------------------------------------
(* Exit and mount.                                                         *)

\* fusermount -u succeeds when nothing is open.
Unmount ==
    /\ stage = "up"
    /\ \A t \in Thread : pc[t] = "idle"
    /\ \A f \in File : handle[f] = None
    /\ stage' = "unmounted"
    /\ UNCHANGED <<mounts, volumeVars, cacheVars, allocVars, handle, threadVars, history>>

\* pfs_launcher_exit: the FAT cache, then FSInfo.
ExitFlush ==
    /\ stage = "unmounted"
    /\ stage' = "flushed"
    /\ fat' = [s \in Sector |-> IF modificado[s] THEN cached[s] ELSE fat[s]]
    /\ modificado' = [s \in Sector |-> FALSE]
    /\ UNCHANGED <<mounts, fsInfo, entry, cached, allocVars, handle, threadVars, history>>

ExitFsInfo ==
    /\ stage = "flushed"
    /\ stage' = "down"
    /\ fsInfo' = nextFreeCluster - 1
    /\ UNCHANGED <<mounts, fat, entry, cacheVars, allocVars, handle, threadVars, history>>

\* The console's exit(1): while the launcher is still at it; or with the volume
\* mounted, because fusermount has failed (a file is open, a call under way, or
\* somebody's working directory is on it).  The memory of the dead process
\* stands as it was, and no thread takes a step any more.
EarlyExit ==
    /\ stage \in {"up", "unmounted", "flushed"}
    /\ stage' = "killed"
    /\ UNCHANGED <<mounts, volumeVars, cacheVars, allocVars, handle, threadVars, history>>

\* A process that has just been started.
NewProcess ==
    /\ fatLock' = None
    /\ handle' = [f \in File |-> None]
    /\ pc' = [t \in Thread |-> "idle"]
    /\ loc' = [t \in Thread |-> NoLoc]
    /\ UNCHANGED <<cur, nxt, calls>>

\* Altered: the next free cluster is the recorded one.
MountAsRecorded ==
    /\ stage = "down" \/ (RemountKilled /\ stage = "killed")
    /\ mounts < MaxMounts
    /\ stage' = "up"
    /\ mounts' = mounts + 1
    /\ nextFreeCluster' = fsInfo
    /\ cached' = [s \in Sector |-> IF s = 0 THEN fat[0] ELSE None]
    /\ modificado' = [s \in Sector |-> FALSE]
    /\ NewProcess
    /\ UNCHANGED <<volumeVars, history>>

\* loadVolume; the first lookup of the root then reads its FAT entry.
Mount ==
    /\ stage = "down" \/ (RemountKilled /\ stage = "killed")
    /\ mounts < MaxMounts
    /\ stage' = "up"
    /\ mounts' = mounts + 1
    /\ nextFreeCluster' = fsInfo + 1
    /\ cached' = [s \in Sector |-> IF s = 0 THEN fat[0] ELSE None]
    /\ modificado' = [s \in Sector |-> FALSE]
    /\ NewProcess
    /\ UNCHANGED <<volumeVars, history>>

\* A volume this program has used before: 0, 1, the root in 2 and the clusters
\* up to FirstFree are taken, and the entry of FirstFree is marked.
Init ==
    /\ stage = "up"
    /\ mounts = 1
    /\ fat = [s \in Sector |-> [k \in Slot |->
                IF s * EntriesPerSector + k <= FirstFree THEN EOC ELSE Free]]
    /\ fsInfo = FirstFree - 1
    /\ entry = [f \in File |-> [NoEntry EXCEPT !.used = f \in Existing]]
    /\ cached = [s \in Sector |-> IF s = 0 THEN fat[0] ELSE None]
    /\ modificado = [s \in Sector |-> FALSE]
    /\ nextFreeCluster = FirstFree
    /\ fatLock = None
    /\ handle = [f \in File |-> IF f \in InUse THEN Opened(NoEntry) ELSE None]
    /\ pc = [t \in Thread |-> "idle"]
    /\ cur = [t \in Thread |-> 0]
    /\ nxt = [t \in Thread |-> 0]
    /\ loc = [t \in Thread |-> NoLoc]
    /\ calls = 0
    /\ given = <<>>
    /\ reserved = [f \in File |-> 0]
    /\ chains = {}
    /\ plain = TRUE

Start(t) ==
    \/ Mkdir(t)
    \/ \E f \in File : \/ Mknod(t, f) \/ Open(t, f) \/ Write(t, f)
                       \/ TruncateUp(t, f) \/ TruncateDown(t, f)
                       \/ Unlink(t, f) \/ Close(t, f) \/ Finfo(t, f)

Operate(t) ==
    \/ Hit(t) \/ Miss(t) \/ Fill(t) \/ Outside(t)
    \/ Lock(t) \/ Scan(t) \/ Mark(t) \/ Link(t) \/ Unlock(t) \/ FindEOC(t)
    \/ GetBlock(t) \/ PutBlock(t) \/ Walk(t) \/ Data(t)
    \/ Peek(t) \/ FreeEntry(t) \/ Shrink(t) \/ After(t) \/ Cut(t) \/ Drop(t)
    \/ FlushPut(t) \/ FlushClear(t) \/ Release(t)

Step(t) == stage = "up" /\ Operate(t)

Process == Unmount \/ ExitFlush \/ ExitFsInfo \/ EarlyExit \/ Mount

Next == Process \/ \E t \in Thread : Start(t) \/ Step(t)

Spec == Init /\ [][Next]_vars

\* The scheduler runs every thread that is inside a call.
FairSpec == Spec /\ \A t \in Thread : WF_vars(Step(t))
-----------------------------------------------------------------------------
(* Properties.                                                             *)

\* No cluster is handed out twice, neither to two threads at a time nor after
\* the volume has been mounted again: pfs-fat-utils.c 524-621, 43-45.
HandedOutOnce ==
    \A i, j \in 1 .. Len(given) : i # j => given[i] # given[j]

\* The allocation, with its lock, its scan of the cached FAT and its exits,
\* is the dispenser of clusters of ClusterDispenser.
Dispenser == INSTANCE ClusterDispenser WITH out <- given
Dispenses == Dispenser!Spec

\* The size in a directory entry never exceeds the clusters that were reserved
\* under the name, whatever handles and calls it was written from.
Backed ==
    \A f \in File : entry[f].size <= ClusterBytes * reserved[f]

\* What the threads see of the FAT: the cache hides the volume.
FatNow(c) == (IF cached[SectorOf(c)] # None THEN cached ELSE fat)[SectorOf(c)][SlotOf(c)]

\* As long as the calls are plain, the FAT links the clusters of a file in the
\* order in which they were given, to the end of its chain, although several
\* threads change a sector of the FAT and each keeps its own copy meanwhile.
ChainsHold ==
    fatLock = None /\ plain =>
        \A c \in chains : \A i \in 1 .. Len(c) :
            FatNow(c[i]) = IF i < Len(c) THEN c[i + 1] ELSE EOC

\* A call ends, be it in the scan, in the search for the end of a chain or in
\* the wait for the lock, as long as the calls are plain and the process lives.
CallsEnd ==
    \A t \in Thread : (pc[t] # "idle") ~> (pc[t] = "idle" \/ ~plain \/ stage = "killed")
=============================================================================
