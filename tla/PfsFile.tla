------------------------------ MODULE PfsFile ------------------------------
(***************************************************************************)
(* The contents of a file (grage-pfs): what read and write do to its       *)
(* clusters, with the cache that every open of a file has for itself.      *)
(*                                                                         *)
(* A FUSE call stores in the FatFile where it wants to begin (the seek)    *)
(* and then transfers, and these are two steps: FatFile is shared by all   *)
(* calls on one open file.  Within a transfer nothing comes between; the   *)
(* chain of the file is in order and grows at its end (PfsFat has what     *)
(* makes it so).  The unit of sizes and offsets is one sector.             *)
(***************************************************************************)
EXTENDS Integers, Sequences, SequencesExt

CONSTANTS
    Handle,         \* FatFiles: opens of the file
    Writer,         \* those of them that write
    Thread,         \* threads of FUSE
    Sectors,        \* sectors of a cluster (8)
    Clusters,       \* bound: clusters that the file may grow to
    InitSize,       \* its size at first
    InRoot,         \* whether its entry is in the root, which is never cached
    EntrySector,    \* the sector of its directory that has its entry
    CacheSizes,     \* sectors that a cache may be configured to hold; 0: no cache
    Reads, Writes,  \* <<offset, size>> that the kernel asks for
    MaxCalls        \* bound: reads and writes, by the size of the caches

Ceil(n) == (n + Sectors - 1) \div Sectors
Units == Clusters * Sectors
EOC == Clusters + 1
Dir == Clusters + 2         \* the cluster of the directory

ASSUME FileAssumption ==
    /\ Writer \subseteq Handle
    /\ \A h, k \in Writer : h = k           \* two that write are in PfsFat
    /\ Sectors \in Nat \ {0} /\ Clusters \in Nat \ {0}
    /\ InitSize \in 0 .. Units
    /\ InRoot \in BOOLEAN
    /\ EntrySector \in 1 .. Sectors
    /\ CacheSizes \subseteq Nat /\ MaxCalls \in [CacheSizes -> Nat]
    /\ Reads \subseteq (0 .. Units) \X (1 .. Units)
    /\ Writes \subseteq (0 .. Units) \X (1 .. Sectors)  \* a page at a time
    /\ \A w \in Writes : w[1] + w[2] <= Units          \* within the bound

VARIABLES
    status,         \* up, or astray: a cluster that is none was asked for
    disk,           \* the sectors of the volume, by cluster
    length,         \* clusters of the file; the k-th is called k
    file,           \* the FatFile of each handle, or Closed
    call,           \* the call of each thread, or Idle
    calls,          \* calls so far
    cacheMax,       \* what the configuration says: sectors of a cache
    truth, past, kept, got                  \* history

history == <<truth, past, kept, got>>
vars == <<status, disk, length, file, call, calls, cacheMax, history>>

Closed == [open |-> FALSE]
Idle == [op |-> "none"]
None == -1
Lost == -2
Unset == -3         \* a unit that nobody has written yet
Junk == -4          \* the contents of an uninitialised block
Other == -5         \* a sector of the directory without the file's entry

\* What the k-th call writes to a unit; the file's first contents are call 0's.
Data(k, unit) == k * Units + unit

Contents == (0 .. (MaxCalls[cacheMax] + 1) * Units) \cup {Unset, Other}

IsOpen(h) == file[h] # Closed
CallsOn(h) == {t \in Thread : call[t] # Idle /\ call[t].handle = h}

Init ==
    /\ status = "up"
    /\ length = Ceil(InitSize)
    /\ disk = [c \in (1 .. Clusters) \cup {Dir} |-> [s \in 1 .. Sectors |->
          IF c = Dir THEN IF s = EntrySector THEN InitSize ELSE Other
          ELSE LET u == (c - 1) * Sectors + s - 1 IN
               IF u < InitSize THEN Data(0, u) ELSE Unset]]
    /\ file = [h \in Handle |-> Closed]
    /\ call = [t \in Thread |-> Idle]
    /\ calls = 0
    /\ cacheMax \in CacheSizes
    /\ truth = [u \in 0 .. Units - 1 |-> IF u < InitSize THEN Data(0, u) ELSE Unset]
    /\ past = [h \in Handle |-> [read |-> None, write |-> None]]
    /\ kept = TRUE
    /\ got = [regular |-> FALSE, data |-> <<>>, wanted |-> <<>>]
-----------------------------------------------------------------------------
(* The cache of a FatFile: a list of sectors, the newest first.  A view is *)
(* a cache and the volume behind it.                                       *)

Record(c, s, content) == [cluster |-> c, sector |-> s, content |-> content]

\* Where sector s of cluster c is in the cache, or 0.
Place(cache, c, s) ==
    IF \E k \in 1 .. Len(cache) : cache[k].cluster = c /\ cache[k].sector = s
    THEN CHOOSE k \in 1 .. Len(cache) : cache[k].cluster = c /\ cache[k].sector = s
    ELSE 0

Seen(v, c, s) ==
    LET k == Place(v.cache, c, s) IN
    IF k = 0 THEN v.disk[c][s] ELSE v.cache[k].content

\* Altered: what is evicted is forgotten.
EvictDropping(v) ==
    IF Len(v.cache) >= cacheMax THEN [v EXCEPT !.cache = Tail(@)] ELSE v

\* Altered: one sector late.
EvictLate(v) ==
    IF Len(v.cache) > cacheMax
    THEN LET r == Head(v.cache) IN
         [disk |-> [v.disk EXCEPT ![r.cluster][r.sector] = r.content],
          cache |-> Tail(v.cache)]
    ELSE v

\* Any record has a count of at least 0, so the first one found goes, written
\* to the volume whether it was changed or not.
Evict(v) ==
    IF Len(v.cache) >= cacheMax
    THEN LET r == Head(v.cache) IN
         [disk |-> [v.disk EXCEPT ![r.cluster][r.sector] = r.content],
          cache |-> Tail(v.cache)]
    ELSE v

AddRecord(v, c, s, content) ==
    LET w == Evict(v) IN [w EXCEPT !.cache = <<Record(c, s, content)>> \o @]

PutInFileCache(v, c, s, content) ==
    LET k == Place(v.cache, c, s) IN
    IF k = 0 THEN AddRecord(v, c, s, content)
    ELSE [v EXCEPT !.cache[k].content = content]

GetFileSector(v, c, s) ==
    IF Place(v.cache, c, s) = 0 THEN PutInFileCache(v, c, s, v.disk[c][s]) ELSE v

Cached(c) == cacheMax > 0 /\ ~(c = Dir /\ InRoot)

\* callGetBlock: the view afterwards, and the sectors as they were met.
GetBlock(v, c) ==
    LET get[s \in 0 .. Sectors] ==
            IF s = 0 THEN [view |-> v, block |-> <<>>]
            ELSE LET w == get[s - 1] IN
                 [view |-> GetFileSector(w.view, c, s),
                  block |-> Append(w.block, Seen(w.view, c, s))]
    IN IF Cached(c) THEN get[Sectors] ELSE [view |-> v, block |-> v.disk[c]]

\* callPutBlock: with a cache, every sector gets the contents of the first.
PutBlock(v, c, block) ==
    LET put[s \in 0 .. Sectors] ==
            IF s = 0 THEN v ELSE PutInFileCache(put[s - 1], c, s, block[1])
    IN IF Cached(c) THEN put[Sectors] ELSE [v EXCEPT !.disk[c] = block]

View(h) == [disk |-> disk, cache |-> file[h].cache]
-----------------------------------------------------------------------------
(* Open, flush, release.                                                   *)

\* open reads the directory; without the entry in it there is no such file.
Open(h) ==
    LET b == GetBlock([disk |-> disk, cache |-> <<>>], Dir) IN
    /\ status = "up" /\ ~IsOpen(h)
    /\ b.block[EntrySector] \in 0 .. Units
    /\ disk' = b.view.disk
    /\ file' = [file EXCEPT ![h] =
          [open |-> TRUE, size |-> b.block[EntrySector], number |-> 0, offset |-> 0,
           read |-> 0, write |-> 0, cache |-> b.view.cache]]
    /\ past' = [past EXCEPT ![h] = [read |-> None, write |-> None]]
    /\ UNCHANGED <<status, length, call, calls, truth, kept, got>>

\* The records are put one after the other and taken from the list.
Flushed(v) ==
    LET put[k \in 0 .. Len(v.cache)] ==
            IF k = 0 THEN v.disk
            ELSE LET r == v.cache[k] IN
                 [put[k - 1] EXCEPT ![r.cluster][r.sector] = r.content]
    IN [disk |-> put[Len(v.cache)], cache |-> <<>>]

\* Asked for at every close of a descriptor.
Flush(h) ==
    /\ status = "up" /\ IsOpen(h) /\ cacheMax > 0 /\ file[h].cache # <<>>
    /\ disk' = Flushed(View(h)).disk
    /\ file' = [file EXCEPT ![h].cache = Flushed(View(h)).cache]
    /\ UNCHANGED <<status, length, call, calls, history>>

\* After the last close: nothing was called since its flush.
Release(h) ==
    /\ status = "up" /\ IsOpen(h) /\ CallsOn(h) = {} /\ file[h].cache = <<>>
    /\ file' = [file EXCEPT ![h] = Closed]
    /\ UNCHANGED <<status, disk, length, call, calls, history>>
-----------------------------------------------------------------------------
(* The two halves of a read or write.                                      *)

Begin(t, c) ==
    call' = [u \in Thread |->
                IF u = t THEN [c EXCEPT !.alone = CallsOn(c.handle) = {}]
                ELSE IF u \in CallsOn(c.handle) THEN [call[u] EXCEPT !.alone = FALSE]
                ELSE call[u]]

\* seek and seekWrite: rounded up, so an offset that is a multiple of the
\* cluster's size has the number of the cluster before.
Seek(f, offset) == [f EXCEPT !.number = Ceil(offset), !.offset = offset % Sectors]

\* fuse_write: more clusters and a longer size, or a longer size, or neither.
Extends(f, offset, size) ==
    \/ (offset % Sectors) + size > Ceil(f.size) * Sectors
    \/ offset >= f.size

NewSize(f, offset, size) ==
    IF Extends(f, offset, size) THEN f.size + size
    ELSE IF offset + size > f.size THEN offset + size ELSE f.size

\* extendFileWrite, updateFilesize: the entry in its directory.
Updated(v, size) ==
    LET b == GetBlock(v, Dir) IN
    PutBlock(b.view, Dir, [b.block EXCEPT ![EntrySector] = size])

Resized(h, size) == IF size = file[h].size THEN View(h) ELSE Updated(View(h), size)

\* The kernel has one write of a file at a time.
BeginWrite(t, h, offset, size) ==
    LET f == file[h]
        more == IF Extends(f, offset, size) THEN Ceil(size) ELSE 0
        new == NewSize(f, offset, size)
        v == Resized(h, new) IN
    /\ status = "up" /\ call[t] = Idle /\ IsOpen(h) /\ h \in Writer
    /\ \A u \in Thread : call[u].op # "write"
    /\ calls < MaxCalls[cacheMax] /\ length + more <= Clusters /\ new <= Units
    /\ calls' = calls + 1
    /\ length' = length + more
    /\ disk' = v.disk
    /\ file' = [file EXCEPT ![h] = Seek([f EXCEPT !.size = new, !.cache = v.cache], offset)]
    /\ Begin(t, [op |-> "write", handle |-> h, offset |-> offset, size |-> size,
                 number |-> calls + 1, within |-> offset <= f.size, alone |-> TRUE])
    /\ UNCHANGED <<status, history>>

BeginRead(t, h, offset, size) ==
    LET f == file[h] IN
    /\ status = "up" /\ call[t] = Idle /\ IsOpen(h)
    /\ offset < f.size              \* else nothing is read, or ESPIPE
    /\ calls < MaxCalls[cacheMax]
    /\ calls' = calls + 1
    /\ file' = [file EXCEPT ![h] = Seek(f, offset)]
    /\ Begin(t, [op |-> "read", handle |-> h, offset |-> offset,
                 size |-> IF offset + size > f.size THEN f.size - offset ELSE size,
                 number |-> 0, within |-> TRUE, alone |-> TRUE])
    /\ UNCHANGED <<status, disk, length, history>>
-----------------------------------------------------------------------------
(* Which cluster a transfer begins in.                                     *)

NextInChain(c) == IF c < length THEN c + 1 ELSE EOC

\* getBlockFromNthCluster: 0 and 1 both are the first cluster.
Nth(n) == IF n <= 1 THEN 1 ELSE IF n <= length THEN n ELSE EOC

\* Altered: as a first write does.
WriteClusterAnew(f) == Nth(f.number)

\* The first write or read looks for its cluster, and the FatFile remembers
\* it.  A later one goes to the one after that, wherever it was to begin.
WriteCluster(f) == IF f.write = 0 THEN Nth(f.number) ELSE NextInChain(f.write)

ReadCluster(f) == IF f.read = 0 THEN Nth(f.number) ELSE NextInChain(f.read)

\* A call the code serves: the first of an open file begins in the first
\* cluster or inside one, a later one is in the cluster after those before.
Served(before, offset, size) ==
    IF before = None THEN offset < Sectors \/ offset % Sectors # 0
    ELSE /\ before # Lost
         /\ offset \div Sectors = before + 1
         /\ (offset % Sectors) + size <= Sectors

LastCluster(offset, size) == (offset + size - 1) \div Sectors

\* The cluster that is remembered when the call has been served.
Ended(before, offset, size) == IF before = None THEN LastCluster(offset, size) ELSE before

GoAstray ==
    /\ status' = "astray"
    /\ UNCHANGED <<disk, length, file, call, calls, history>>

Over(block, offset, data) ==
    [s \in 1 .. Sectors |->
        IF s > offset /\ s <= offset + Len(data) THEN data[s - offset] ELSE block[s]]
-----------------------------------------------------------------------------
(* fat32_write.  What does not fit in its cluster is put at the beginning  *)
(* of that same cluster.                                                   *)

Written(v, c, offset, data) ==
    LET b == GetBlock(v, c)
        fits == Sectors - offset
        one == Over(b.block, offset, SubSeq(data, 1, IF Len(data) < fits THEN Len(data) ELSE fits))
        w == PutBlock(b.view, c, one) IN
    IF Len(data) <= fits THEN w
    ELSE PutBlock(w, c, Over(one, 0, SubSeq(data, fits + 1, Len(data))))

EndWrite(t) ==
    LET c == call[t]
        h == c.handle
        f == file[h]
        p == past[h]
        at == WriteCluster(f)
        data == [k \in 1 .. c.size |-> Data(c.number, c.offset + k - 1)]
        v == Written(View(h), at, f.offset, data)
        regular == /\ c.alone /\ c.within /\ Served(p.write, c.offset, c.size)
                   /\ (c.offset % Sectors) + c.size <= Sectors IN
    /\ status = "up" /\ c.op = "write"
    /\ IF at = EOC THEN GoAstray
       ELSE /\ disk' = v.disk
            /\ file' = [file EXCEPT ![h].cache = v.cache,
                                    ![h].write = IF @ = 0 THEN at ELSE @]
            /\ call' = [call EXCEPT ![t] = Idle]
            /\ truth' = [u \in DOMAIN truth |->
                  IF u >= c.offset /\ u < c.offset + c.size THEN Data(c.number, u)
                  ELSE truth[u]]
            /\ past' = [past EXCEPT ![h].write =
                  IF regular THEN Ended(p.write, c.offset, c.size) ELSE Lost]
            /\ kept' = (kept /\ regular)
            /\ UNCHANGED <<status, length, calls, got>>
-----------------------------------------------------------------------------
(* fat32_read.  What follows the first cluster is taken from the clusters  *)
(* after the remembered one, whichever cluster was just read.              *)

\* Altered: onwards from the remembered cluster itself.
ReadOnAgain(w, from, n) ==
    LET on[k \in 0 .. n] ==
            IF k = 0 THEN w
            ELSE LET b == GetBlock(on[k - 1].view, from + k - 1) IN
                 [view |-> b.view, block |-> on[k - 1].block \o b.block]
    IN on[n]

\* The clusters f.read + 1 ... after the first, and what was seen in them.
ReadOn(w, from, n) ==
    LET on[k \in 0 .. n] ==
            IF k = 0 THEN w
            ELSE LET b == GetBlock(on[k - 1].view, from + k) IN
                 [view |-> b.view, block |-> on[k - 1].block \o b.block]
    IN on[n]

JunkBlock == [s \in 1 .. Sectors |-> Junk]

EndRead(t) ==
    LET c == call[t]
        h == c.handle
        f == file[h]
        p == past[h]
        at == ReadCluster(f)
        memory == IF f.read = 0 THEN at ELSE f.read
        more == IF f.offset + c.size > Sectors THEN Ceil(f.offset + c.size - Sectors) ELSE 0
        first == IF at = EOC THEN [view |-> View(h), block |-> JunkBlock]
                 ELSE GetBlock(View(h), at)
        all == ReadOn(first, memory, more)
        regular == c.alone /\ Served(p.read, c.offset, c.size) IN
    /\ status = "up" /\ c.op = "read"
    /\ IF memory + more > length THEN GoAstray
       ELSE /\ disk' = all.view.disk
            /\ file' = [file EXCEPT ![h].cache = all.view.cache, ![h].read = memory + more]
            /\ call' = [call EXCEPT ![t] = Idle]
            /\ past' = [past EXCEPT ![h].read =
                  IF regular THEN Ended(p.read, c.offset, c.size) ELSE Lost]
            /\ got' = [regular |-> regular,
                       data |-> SubSeq(all.block, f.offset + 1, f.offset + c.size),
                       wanted |-> [k \in 1 .. c.size |-> truth[c.offset + k - 1]]]
            /\ UNCHANGED <<status, length, calls, truth, kept>>
-----------------------------------------------------------------------------
Step ==
    \/ \E h \in Handle : Open(h) \/ Flush(h) \/ Release(h)
    \/ \E t \in Thread, h \in Handle :
          \/ \E r \in Reads : BeginRead(t, h, r[1], r[2])
          \/ \E r \in Writes : BeginWrite(t, h, r[1], r[2])
    \/ \E t \in Thread : EndRead(t) \/ EndWrite(t)

Next == Step /\ UNCHANGED cacheMax

Spec == Init /\ [][Next]_vars
-----------------------------------------------------------------------------
(* Properties.                                                             *)

CacheRecord == [cluster : (1 .. Clusters) \cup {Dir}, sector : 1 .. Sectors,
                content : Contents]

\* Every variable keeps to its type; the remembered clusters are clusters of
\* the file, and no cache holds more than it may.
TypeOK ==
    /\ status \in {"up", "astray"}
    /\ disk \in [(1 .. Clusters) \cup {Dir} -> [1 .. Sectors -> Contents]]
    /\ length \in 0 .. Clusters
    /\ calls \in 0 .. MaxCalls[cacheMax]
    /\ cacheMax \in CacheSizes
    /\ \A h \in Handle : IsOpen(h) =>
          /\ file[h].size \in 0 .. Units
          /\ file[h].number \in 0 .. Clusters /\ file[h].offset \in 0 .. Sectors - 1
          /\ file[h].read \in 0 .. length /\ file[h].write \in 0 .. length
          /\ Len(file[h].cache) <= cacheMax
          /\ \A k \in 1 .. Len(file[h].cache) : file[h].cache[k] \in CacheRecord
    /\ \A t \in Thread : call[t] # Idle =>
          call[t].handle \in Handle /\ IsOpen(call[t].handle)

Unit(u) == disk[u \div Sectors + 1][(u % Sectors) + 1]

FileIsWritten == \A u \in 0 .. Units - 1 : truth[u] \in {Unset, Unit(u)}

\* Without a cache, as long as every write was one that the code serves (not
\* beside another call on the same FatFile, within a cluster, and in the
\* cluster after the one that the first write of the open file began in), each
\* went where it was meant to and harmed nothing else of the file.
FileHolds == cacheMax = 0 /\ kept => FileIsWritten

Match(data, wanted) ==
    /\ Len(data) = Len(wanted)
    /\ \A k \in 1 .. Len(wanted) : wanted[k] \in {Unset, data[k]}

\* A read that the code serves (the first of an open file from its first
\* cluster on or from inside one, over as many clusters as it likes, a later
\* one within the cluster after those) returns what was last written.
ReadsRight == cacheMax = 0 /\ kept /\ got.regular => Match(got.data, got.wanted)

Serving(h) ==
    \/ \E t \in CallsOn(h) : call[t].op = "read" /\ call'[t] = Idle
    \/ file[h].cache # <<>> /\ file'[h] # Closed /\ file'[h].cache = <<>>

\* Whatever a read brings into a cache and drives out of it, and whatever a
\* flush writes, nothing changes in what that FatFile sees of the volume.
CacheIsTransparent ==
    [][\A h \in Handle : IsOpen(h) /\ Serving(h) =>
          \A c \in (1 .. Clusters) \cup {Dir}, s \in 1 .. Sectors :
              Seen(View(h)', c, s) = Seen(View(h), c, s)]_vars
=============================================================================
