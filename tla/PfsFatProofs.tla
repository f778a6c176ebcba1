---------------------------- MODULE PfsFatProofs ----------------------------
(***************************************************************************)
(* Invariants of PfsFat for any number of threads, files, clusters and     *)
(* mounts, the refinement of ClusterDispenser, and the chains of the FAT   *)
(* in plain runs.                                                          *)
(***************************************************************************)
EXTENDS PfsFat, SequenceTheorems, TLAPS

FatSector == [Slot -> Int]
DirEntry == [used : BOOLEAN, first : Int, size : Nat]

Place == FatPc \cup InLock \cup
         {"idle", "lock", "block", "put", "data", "flush", "clear", "outside"}

Op == {"none", "mknod", "open", "write", "extend", "shrink", "unlink", "mkdir", "close", "finfo"}

Loc == [op : Op, file : File \cup {None}, f : FatFile, size : Nat, offset : Nat,
        todo : Int, chain : BOOLEAN, last : Int, slot : Slot, cluster : Int,
        fetched : FatSector \cup {None}, sector : FatSector \cup {None},
        block : {None} \cup (SUBSET Sector) \cup [File -> DirEntry]]

\* Clusters that so many bytes fit into.
Fits(bytes, n) == bytes <= ClusterBytes * n

\* What a thread's locals are at every place, r being the clusters reserved
\* under the names: the bytes that a call writes into an entry fit into them,
\* those it allocates for fit once the clusters still to do have come.
AtPlace(p, l, r) ==
    /\ p \in Place
    /\ l \in Loc
    /\ l.file \in File => Fits(l.f.size, r[l.file])
    /\ p \in InLock \cup {"lock", "eoc"} /\ l.op # "mkdir" =>
          /\ l.file \in File /\ l.op \in {"write", "extend"}
          /\ Fits(l.size, r[l.file] + l.todo)
    /\ p \in {"block", "put"} /\ l.op # "mkdir" =>
          /\ l.file \in File
          /\ l.op = "shrink" => Fits(l.size, r[l.file])
    /\ p = "put" =>
          /\ l.block \in [File -> DirEntry]
          /\ \A g \in File : Fits(l.block[g].size, r[g])
    /\ p \in {"flush", "clear"} => l.block \in SUBSET Sector
    /\ p = "eoc" => l.op # "mkdir"

ThreadInv ==
    /\ pc \in [Thread -> Place]
    /\ loc \in [Thread -> Loc]
    /\ \A t \in Thread : AtPlace(pc[t], loc[t], reserved)

VolumeInv ==
    /\ fat \in [Sector -> FatSector]
    /\ entry \in [File -> DirEntry]
    /\ \A f \in File : Fits(entry[f].size, reserved[f])

CacheInv ==
    /\ cached \in [Sector -> FatSector \cup {None}]
    /\ modificado \in [Sector -> BOOLEAN]
    /\ \A s \in Sector : modificado[s] => cached[s] \in FatSector

HandleInv ==
    /\ handle \in [File -> FatFile \cup {None}]
    /\ \A f \in File : handle[f] # None =>
          handle[f] \in FatFile /\ Fits(handle[f].size, reserved[f])

\* The thread with the lock works on the next free cluster, and everything
\* that was handed out lies below it.
AllocInv ==
    /\ nextFreeCluster \in Nat \ {0}
    /\ fatLock \in Thread \cup {None}
    /\ cur \in [Thread -> Nat]
    /\ nxt \in [Thread -> Nat]
    /\ \A t \in Thread : pc[t] \in InLock =>
          fatLock = t /\ cur[t] = nextFreeCluster /\ nxt[t] > cur[t]
    /\ given \in Seq(Nat)
    /\ \A i \in 1 .. Len(given) : given[i] < nextFreeCluster
    /\ HandedOutOnce

\* An orderly exit finds no thread in a call, and its record is the cluster
\* before the next free one.
StageInv ==
    /\ stage \in {"up", "unmounted", "flushed", "down", "killed"}
    /\ mounts \in 1 .. MaxMounts
    /\ stage \notin {"up", "killed"} => \A t \in Thread : pc[t] = "idle"
    /\ fsInfo \in Nat
    /\ stage = "down" => fsInfo = nextFreeCluster - 1

HistoryInv ==
    /\ calls \in 0 .. Budget
    /\ reserved \in [File -> Nat]
    /\ chains \subseteq Seq(Nat)
    /\ plain \in BOOLEAN

IInv ==
    /\ ThreadInv /\ VolumeInv /\ CacheInv /\ HandleInv
    /\ AllocInv /\ StageInv /\ HistoryInv
-----------------------------------------------------------------------------
(* Arithmetic of clusters and entries.                                     *)

LEMMA SlotType == ASSUME NEW c \in Int PROVE SlotOf(c) \in Slot
  BY FatAssumption DEF SlotOf, Slot

LEMMA SectorType == ASSUME NEW c, InFat(c) PROVE SectorOf(c) \in Sector
<1> DEFINE q == c \div EntriesPerSector
<1>1. c \in Nat /\ c < EntriesPerSector * FatSectors
  BY FatAssumption DEF InFat
<1>2. q \in Nat /\ EntriesPerSector * q <= c
  BY <1>1, FatAssumption
<1>3. q < FatSectors
  <2> SUFFICES ASSUME q >= FatSectors PROVE FALSE
    BY <1>2, FatAssumption
  <2> HIDE DEF q
  <2>1. EntriesPerSector * q >= EntriesPerSector * FatSectors
    BY <1>2, FatAssumption
  <2> QED BY <2>1, <1>1, <1>2, FatAssumption
<1> QED BY <1>2, <1>3, FatAssumption DEF SectorOf, Sector

LEMMA FitsMore == ASSUME NEW b \in Nat, NEW m \in Int, NEW n \in Int, m <= n, Fits(b, m)
                  PROVE  Fits(b, n)
<1>1. ClusterBytes * m <= ClusterBytes * n
  BY FatAssumption
<1> QED BY <1>1, FatAssumption DEF Fits

\* Room for what there is and as many clusters as more bytes need.
LEMMA FitsAfter == ASSUME NEW b \in Nat, NEW x \in Nat, NEW n \in Nat, Fits(b, n)
                   PROVE  Reserve(x) \in Nat /\ Fits(b + x, n + Reserve(x))
<1> DEFINE q == (x + ClusterBytes - 1) \div ClusterBytes
<1>1. q \in Nat /\ ClusterBytes * q >= x
  BY FatAssumption
<1>2. ClusterBytes * (n + q) = ClusterBytes * n + ClusterBytes * q
  <2> HIDE DEF q
  <2> QED BY <1>1, FatAssumption
<1> QED BY <1>1, <1>2, FatAssumption DEF Fits, Reserve

\* A write that starts within the file and ends within a cluster needs none.
LEMMA FitsInCluster ==
  ASSUME NEW b \in Nat, NEW o \in Nat, NEW x \in Nat, NEW n \in Nat,
         Fits(b, n), o < b, (o % ClusterBytes) + x <= ClusterBytes
  PROVE  Fits(o + x, n)
<1> DEFINE q == o \div ClusterBytes
<1>1. q \in Nat /\ o = ClusterBytes * q + (o % ClusterBytes)
      /\ o % ClusterBytes \in Nat
  BY FatAssumption
<1> HIDE DEF q
<1>2. ClusterBytes * q < ClusterBytes * n
  BY <1>1, FatAssumption DEF Fits
<1>3. q < n
  <2> SUFFICES ASSUME q >= n PROVE FALSE
    BY <1>1
  <2>1. ClusterBytes * q >= ClusterBytes * n
    BY <1>1, FatAssumption
  <2> QED BY <2>1, <1>1, <1>2, FatAssumption
<1>4. ClusterBytes * (q + 1) <= ClusterBytes * n
  BY <1>1, <1>3, FatAssumption
<1>5. ClusterBytes * (q + 1) = ClusterBytes * q + ClusterBytes
  BY <1>1, FatAssumption
<1> QED BY <1>1, <1>4, <1>5, FatAssumption DEF Fits
-----------------------------------------------------------------------------
(* Where a thread goes next.                                               *)

Reservations == [File -> Nat]

\* What AtPlace asks of a thread that extends a file.
Extending(l, r) ==
    /\ l \in Loc
    /\ l.op \in {"write", "extend"}
    /\ l.file \in File
    /\ Fits(l.f.size, r[l.file])
    /\ Fits(l.size, r[l.file] + l.todo)

LEMMA ReadTarget ==
  ASSUME NEW l \in Loc, NEW c \in Int, NEW place
  PROVE  /\ Read(place, l, c)[1] = place
         /\ Read(place, l, c)[2] \in Loc
         /\ Read(place, l, c)[2].op = l.op
         /\ Read(place, l, c)[2].file = l.file
         /\ Read(place, l, c)[2].f = l.f
         /\ Read(place, l, c)[2].size = l.size
         /\ Read(place, l, c)[2].todo = l.todo
         /\ Read(place, l, c)[2].block = l.block
  BY DEF Read, Loc

\* A thread that goes on to read an entry of the FAT elsewhere than where a
\* file is extended.
LEMMA ReadsOn ==
  ASSUME NEW l \in Loc, NEW c, c \in Int, NEW r,
         NEW place \in (FatPc \ (InLock \cup {"eoc"})) \cup {"data"},
         l.file \in File => Fits(l.f.size, r[l.file])
  PROVE  /\ AtPlace(Read(place, l, c)[1], Read(place, l, c)[2], r)
         /\ Read(place, l, c)[1] = place
         /\ place \notin InLock
<1>1. place \in Place
      /\ place \notin InLock \cup {"lock", "eoc", "block", "put", "flush", "clear"}
  BY DEF Place, FatPc, ReadPc, ChangePc, InLock
<1> QED BY <1>1, ReadTarget DEF AtPlace

LEMMA ReturnTarget ==
  ASSUME NEW r \in Reservations
  PROVE  AtPlace(Return[1], Return[2], r) /\ Return[1] = "idle"
<1>1. NoLoc \in Loc
  <2>1. Opened(NoEntry) \in FatFile
    BY DEF Opened, NoEntry, FatFile
  <2>2. 0 \in Slot
    BY FatAssumption DEF Slot
  <2> QED BY ONLY <2>1, <2>2 DEF NoLoc, Loc, Op
<1>2. NoLoc.f.size = 0
  BY DEF NoLoc, Opened, NoEntry
<1>3. NoLoc.file \in File => Fits(NoLoc.f.size, r[NoLoc.file])
  <2> SUFFICES ASSUME NoLoc.file \in File PROVE 0 <= ClusterBytes * r[NoLoc.file]
    BY <1>2 DEF Fits
  <2>1. r[NoLoc.file] \in Nat
    BY DEF Reservations
  <2> QED BY <2>1, FatAssumption
<1> QED BY <1>1, <1>3 DEF AtPlace, Return, Place, InLock

LEMMA MoreTarget ==
  ASSUME NEW l, NEW r \in Reservations, Extending(l, r)
  PROVE  /\ AtPlace(More(l)[1], More(l)[2], r)
         /\ More(l)[1] \in {"lock", "block"}
<1> USE DEF Extending
<1>1. CASE l.todo > 0
  <2> DEFINE m == [l EXCEPT !.chain = TRUE]
  <2>1. More(l) = <<"lock", m>>
    BY <1>1 DEF More
  <2>2. /\ m \in Loc /\ m.op = l.op /\ m.file = l.file /\ m.f = l.f
        /\ m.size = l.size /\ m.todo = l.todo
    BY DEF Loc
  <2> HIDE DEF m
  <2> QED BY <2>1, <2>2 DEF AtPlace, Place, InLock
<1>2. CASE ~(l.todo > 0)
  <2> DEFINE m == [l EXCEPT !.f.size = l.size]
  <2>1. More(l) = <<"block", m>>
    BY <1>2 DEF More
  <2>2. m \in Loc /\ m.op = l.op /\ m.file = l.file /\ m.f.size = l.size
    BY DEF Loc, FatFile
  <2>3. Fits(l.size, r[l.file])
    <3>1. l.size \in Nat /\ l.todo \in Int /\ r[l.file] \in Nat
      BY DEF Loc, Reservations
    <3>2. r[l.file] + l.todo \in Int /\ r[l.file] + l.todo <= r[l.file]
      BY <3>1, <1>2
    <3> QED BY <3>1, <3>2, FitsMore
  <2> HIDE DEF m
  <2> QED BY <2>1, <2>2, <2>3 DEF AtPlace, Place, InLock
<1> QED BY <1>1, <1>2

LEMMA FromEndTarget ==
  ASSUME NEW l, NEW r \in Reservations, Extending(l, r)
  PROVE  /\ AtPlace(FromEnd(l)[1], FromEnd(l)[2], r)
         /\ FromEnd(l)[1] \in {"lock", "block", "eoc"}
<1>1. CASE l.f.eoc = 0
  <2>1. FromEnd(l) = Read("eoc", l, l.f.next)
    BY <1>1 DEF FromEnd
  <2>2. l \in Loc /\ l.f.next \in Int
    BY DEF Extending, Loc, FatFile
  <2> QED BY <2>1, <2>2, ReadTarget
    DEF AtPlace, Place, FatPc, ReadPc, InLock, Extending
<1>2. CASE l.f.eoc # 0
  <2> DEFINE m == [l EXCEPT !.last = l.f.eoc]
  <2>1. FromEnd(l) = More(m)
    BY <1>2 DEF FromEnd
  <2>2. Extending(m, r)
    BY DEF Extending, Loc, FatFile
  <2> QED BY <2>1, <2>2, MoreTarget
<1> QED BY <1>1, <1>2

LEMMA ExtendTarget ==
  ASSUME NEW l, NEW r \in Reservations, Extending(l, r)
  PROVE  /\ AtPlace(Extend(l)[1], Extend(l)[2], r)
         /\ Extend(l)[1] \in {"lock", "block", "eoc"}
<1>1. CASE l.f.next = 0
  <2> DEFINE m == [l EXCEPT !.chain = FALSE]
  <2>1. Extend(l) = <<"lock", m>>
    BY <1>1 DEF Extend
  <2>2. Extending(m, r)
    BY DEF Extending, Loc
  <2> HIDE DEF m
  <2> QED BY <2>1, <2>2 DEF AtPlace, Place, InLock, Extending
<1>2. CASE l.f.next # 0
  BY <1>2, FromEndTarget DEF Extend
<1> QED BY <1>1, <1>2

LEMMA SeekTarget ==
  ASSUME NEW l \in Loc, NEW r, l.file \in File => Fits(l.f.size, r[l.file])
  PROVE  /\ AtPlace(Seek(l)[1], Seek(l)[2], r)
         /\ Seek(l)[1] \in {"walk", "data"}
<1>1. Reserve(l.offset) \in Nat
  BY FatAssumption DEF Reserve, Loc
<1>2. {"walk", "data"} \subseteq (FatPc \ (InLock \cup {"eoc"})) \cup {"data"}
  BY DEF FatPc, ReadPc, InLock
<1>3. l.f.write \in Int /\ l.f.first \in Int
  BY DEF Loc, FatFile
<1>4. ASSUME NEW n \in Int
      PROVE  /\ [l EXCEPT !.todo = n] \in Loc
             /\ [l EXCEPT !.todo = n].file = l.file /\ [l EXCEPT !.todo = n].f = l.f
  BY DEF Loc
<1>5. ASSUME NEW n \in Int, NEW place \in {"walk", "data"}, NEW c \in Int,
             Seek(l) = Read(place, [l EXCEPT !.todo = n], c)
      PROVE  /\ AtPlace(Seek(l)[1], Seek(l)[2], r)
             /\ Seek(l)[1] \in {"walk", "data"}
  <2> DEFINE m == [l EXCEPT !.todo = n]
  <2>1. m \in Loc /\ (m.file \in File => Fits(m.f.size, r[m.file]))
    BY <1>4
  <2>2. Seek(l) = Read(place, m, c)
    BY <1>5
  <2>3. place \in (FatPc \ (InLock \cup {"eoc"})) \cup {"data"}
    BY <1>2
  <2> HIDE DEF m
  <2>4. AtPlace(Read(place, m, c)[1], Read(place, m, c)[2], r) /\ Read(place, m, c)[1] = place
    BY ONLY <2>1, <2>3, c \in Int, ReadsOn
  <2> QED BY <2>2, <2>4
<1>6. CASE l.f.write # 0
  <2>1. Seek(l) = Read("walk", [l EXCEPT !.todo = 1], l.f.write)
    BY <1>6 DEF Seek
  <2> QED BY <2>1, <1>3, <1>5
<1>7. CASE l.f.write = 0
  <2> DEFINE n == Reserve(l.offset)
             place == IF n > 1 THEN "walk" ELSE "data"
  <2>1. Seek(l) = Read(place, [l EXCEPT !.todo = n - 1], l.f.first)
    BY <1>7 DEF Seek
  <2>2. n - 1 \in Int /\ place \in {"walk", "data"}
    BY <1>1
  <2> HIDE DEF n, place
  <2> QED BY <2>1, <2>2, <1>3, <1>5
<1> QED BY <1>6, <1>7
-----------------------------------------------------------------------------
(* What a step leaves alone.                                               *)

LEMMA VolumeKept == ASSUME VolumeInv, UNCHANGED <<fat, entry, reserved>> PROVE VolumeInv'
  BY DEF VolumeInv

LEMMA CacheKept == ASSUME CacheInv, UNCHANGED cacheVars PROVE CacheInv'
  BY DEF CacheInv, cacheVars

LEMMA HandleKept == ASSUME HandleInv, UNCHANGED <<handle, reserved>> PROVE HandleInv'
  BY DEF HandleInv

LEMMA HistoryKept == ASSUME HistoryInv, UNCHANGED <<calls, history>> PROVE HistoryInv'
  BY DEF HistoryInv, history

LEMMA AllocKept ==
  ASSUME AllocInv, UNCHANGED <<allocVars, cur, nxt, given>>,
         \A t \in Thread : pc'[t] \in InLock => pc[t] \in InLock
  PROVE  AllocInv'
  BY DEF AllocInv, allocVars, HandedOutOnce

\* A thread that is in a call, or begins one, goes elsewhere with its locals.
LEMMA MovesThread ==
  ASSUME IInv, NEW t \in Thread, NEW p, NEW l, AtPlace(p, l, reserved),
         stage = "up" \/ pc[t] # "idle",
         pc' = [pc EXCEPT ![t] = p],
         loc' = [loc EXCEPT ![t] = l],
         UNCHANGED <<processVars, fsInfo, nextFreeCluster, reserved>>
  PROVE  ThreadInv' /\ StageInv' /\ \A u \in Thread : pc'[u] = IF u = t THEN p ELSE pc[u]
<1>1. pc \in [Thread -> Place] /\ loc \in [Thread -> Loc]
  BY DEF IInv, ThreadInv
<1>2. \A u \in Thread : /\ pc'[u] = IF u = t THEN p ELSE pc[u]
                        /\ loc'[u] = IF u = t THEN l ELSE loc[u]
  BY <1>1
<1>3. ThreadInv'
  <2>1. p \in Place /\ l \in Loc
    BY DEF AtPlace
  <2>2. pc' \in [Thread -> Place] /\ loc' \in [Thread -> Loc]
    BY <1>1, <2>1
  <2>3. ASSUME NEW u \in Thread PROVE AtPlace(pc'[u], loc'[u], reserved')
    BY <1>2 DEF IInv, ThreadInv
  <2> QED BY <2>2, <2>3 DEF ThreadInv
<1>4. StageInv'
  <2>1. stage \in {"up", "killed"}
    BY DEF IInv, StageInv
  <2> QED BY <2>1 DEF IInv, StageInv, processVars
<1> QED BY <1>2, <1>3, <1>4

\* The same without coming into the lock.
LEMMA Moves ==
  ASSUME IInv, NEW t \in Thread, NEW p, NEW l, AtPlace(p, l, reserved),
         p \in InLock => pc[t] \in InLock,
         stage = "up" \/ pc[t] # "idle",
         pc' = [pc EXCEPT ![t] = p],
         loc' = [loc EXCEPT ![t] = l],
         UNCHANGED <<processVars, fsInfo, allocVars, cur, nxt, given, reserved>>
  PROVE  ThreadInv' /\ AllocInv' /\ StageInv'
<1>1. ThreadInv' /\ StageInv' /\ \A u \in Thread : pc'[u] = IF u = t THEN p ELSE pc[u]
  BY MovesThread DEF allocVars
<1>2. AllocInv'
  BY <1>1, AllocKept DEF IInv
<1> QED BY <1>1, <1>2

\* Moves for an action that sends its thread to a target.
LEMMA Goes ==
  ASSUME IInv, NEW t \in Thread, NEW target, Goto(t, target),
         AtPlace(target[1], target[2], reserved),
         target[1] \in InLock => pc[t] \in InLock,
         stage = "up" \/ pc[t] # "idle",
         UNCHANGED <<processVars, fsInfo, allocVars, cur, nxt, given, reserved>>
  PROVE  ThreadInv' /\ AllocInv' /\ StageInv'
  BY Moves DEF Goto

LEMMA GoesThread ==
  ASSUME IInv, NEW t \in Thread, NEW target, Goto(t, target),
         AtPlace(target[1], target[2], reserved),
         stage = "up" \/ pc[t] # "idle",
         UNCHANGED <<processVars, fsInfo, nextFreeCluster, reserved>>
  PROVE  /\ ThreadInv' /\ StageInv'
         /\ \A u \in Thread : pc'[u] = IF u = t THEN target[1] ELSE pc[u]
  BY MovesThread DEF Goto

LEMMA CallGoes ==
  ASSUME IInv, NEW t \in Thread, NEW op, NEW f, NEW target, Call(t, op, f, target),
         AtPlace(target[1], target[2], reserved), target[1] \notin InLock
  PROVE  ThreadInv' /\ AllocInv' /\ StageInv' /\ VolumeInv' /\ CacheInv' /\ HistoryInv'
<1>1. ThreadInv' /\ AllocInv' /\ StageInv'
  BY Goes DEF Call, volumeVars
<1>2. VolumeInv' /\ CacheInv'
  BY VolumeKept, CacheKept DEF Call, volumeVars, IInv
<1>3. HistoryInv'
  <2>1. calls' \in 0 .. Budget
    BY FatAssumption DEF Call, IInv, HistoryInv
  <2>2. plain' \in BOOLEAN
    BY DEF Call
  <2> QED BY <2>1, <2>2 DEF Call, IInv, HistoryInv
<1> QED BY <1>1, <1>2, <1>3

\* A thread has at a place the sector it asked for.
LEMMA ContentType ==
  ASSUME IInv, NEW t \in Thread, NEW place, At(t, place)
  PROVE  /\ loc[t] \in Loc /\ loc[t].cluster \in Int /\ SlotOf(loc[t].cluster) \in Slot
         /\ Content(t) \in FatSector
         /\ Entry(t) \in Int
         /\ place \notin ReadPc => loc[t].sector \in FatSector
<1>1. loc[t] \in Loc
  BY DEF IInv, ThreadInv
<1>2. loc[t].cluster \in Int /\ loc[t].sector \in FatSector \cup {None}
  BY <1>1 DEF Loc
<1>3. SlotOf(loc[t].cluster) \in Slot
  BY <1>2, SlotType
<1>4. Content(t) \in FatSector
  <2>1. CASE loc[t].sector # None
    BY <2>1, <1>2 DEF Content
  <2>2. CASE loc[t].sector = None
    <3>1. SectorOf(loc[t].cluster) \in Sector /\ cached[SectorOf(loc[t].cluster)] # None
      BY <2>2, SectorType DEF At, Found
    <3> QED BY <3>1, <2>2 DEF Content, IInv, CacheInv
  <2> QED BY <2>1, <2>2
<1>5. Entry(t) \in Int
  BY <1>3, <1>4 DEF Entry, FatSector
<1>6. place \notin ReadPc => loc[t].sector \in FatSector
  BY <1>2 DEF At
<1> QED BY <1>1, <1>2, <1>3, <1>4, <1>5, <1>6

LEMMA PutType ==
  ASSUME CacheInv, NEW s, NEW content \in FatSector, PutInCache(s, content)
  PROVE  CacheInv'
  BY DEF CacheInv, PutInCache

LEMMA PutEntryType ==
  ASSUME CacheInv, NEW t, loc[t].sector \in FatSector, NEW slot, NEW value \in Int,
         PutEntry(t, slot, value)
  PROVE  CacheInv'
<1>1. [loc[t].sector EXCEPT ![slot] = value] \in FatSector
  BY DEF FatSector
<1> QED BY <1>1, PutType DEF PutEntry

LEMMA PutEndOfChainType ==
  ASSUME CacheInv, NEW t, loc[t].sector \in FatSector, PutEndOfChain(t)
  PROVE  CacheInv'
<1> DEFINE c == [k \in Slot |-> IF k = SlotOf(loc[t].cluster) + 1 THEN EOC ELSE loc[t].sector[k]]
<1>1. c \in FatSector
  BY DEF FatSector, EOC
<1>2. PutInCache(SectorOf(loc[t].cluster), c)
  BY DEF PutEndOfChain
<1> HIDE DEF c
<1> QED BY <1>1, <1>2, PutType
-----------------------------------------------------------------------------

LEMMA InitInv == Init => IInv
<1> SUFFICES ASSUME Init PROVE IInv
  OBVIOUS
<1> USE FatAssumption DEF Init
<1>1. ThreadInv
  <2>1. reserved \in Reservations
    BY DEF Reservations
  <2>2. Return[1] = "idle" /\ Return[2] = NoLoc
    BY DEF Return
  <2>3. AtPlace("idle", NoLoc, reserved)
    BY ONLY <2>1, <2>2, ReturnTarget
  <2>4. "idle" \in Place /\ NoLoc \in Loc
    BY ONLY <2>3 DEF AtPlace
  <2> QED BY <2>3, <2>4 DEF ThreadInv
<1>2. VolumeInv
  <2>1. fat \in [Sector -> FatSector]
    BY DEF FatSector, EOC, Free
  <2>2. entry \in [File -> DirEntry] /\ \A f \in File : entry[f].size = 0
    <3>1. ASSUME NEW b \in BOOLEAN
          PROVE  [NoEntry EXCEPT !.used = b] \in DirEntry /\ [NoEntry EXCEPT !.used = b].size = 0
      BY DEF NoEntry, DirEntry
    <3>2. ASSUME NEW f \in File PROVE entry[f] \in DirEntry /\ entry[f].size = 0
      <4>1. (f \in Existing) \in BOOLEAN
        OBVIOUS
      <4>2. entry[f] = [NoEntry EXCEPT !.used = f \in Existing]
        BY Zenon
      <4> QED BY <4>1, <4>2, <3>1, Zenon
    <3>3. DOMAIN entry = File /\ entry = [f \in File |-> entry[f]]
      BY Zenon
    <3> HIDE DEF Init
    <3> QED BY <3>2, <3>3, Zenon
  <2>3. \A f \in File : Fits(0, reserved[f])
    BY DEF Fits
  <2> QED BY <2>1, <2>2, <2>3 DEF VolumeInv
<1>3. CacheInv
  <2>1. 0 \in Sector /\ fat[0] \in FatSector
    BY DEF FatSector, EOC, Free, Sector
  <2> QED BY <2>1 DEF CacheInv
<1>4. HandleInv
  <2>1. Opened(NoEntry) \in FatFile /\ Opened(NoEntry).size = 0
    BY DEF Opened, NoEntry, FatFile
  <2> QED BY <2>1 DEF HandleInv, Fits
<1>5. AllocInv
  BY DEF AllocInv, HandedOutOnce, InLock
<1>6. StageInv
  BY DEF StageInv
<1>7. HistoryInv
  BY DEF HistoryInv
<1> QED BY <1>1, <1>2, <1>3, <1>4, <1>5, <1>6, <1>7 DEF IInv

-----------------------------------------------------------------------------
(* The calls.                                                              *)

\* The locals of a call at its start, with the FatFile it works on.
LEMMA EnterType ==
  ASSUME NEW op \in Op, NEW f \in File \cup {None}
  PROVE  /\ Enter(op, f) \in Loc
         /\ Enter(op, f).op = op /\ Enter(op, f).file = f
         /\ Enter(op, f).f.size = 0
<1>1. NoLoc \in Loc
  <2>1. [g \in File |-> 0] \in Reservations
    BY DEF Reservations
  <2> QED BY <2>1, ReturnTarget DEF AtPlace, Return
<1>2. NoLoc.f.size = 0
  BY DEF NoLoc, Opened, NoEntry
<1> QED BY <1>1, <1>2 DEF Enter, Loc

LEMMA OpenedType ==
  ASSUME IInv, NEW f \in File
  PROVE  /\ Opened(entry[f]) \in FatFile /\ Opened(entry[f]).size = entry[f].size
         /\ entry[f].size \in Nat /\ entry[f].first \in Int
         /\ Fits(entry[f].size, reserved[f]) /\ reserved[f] \in Nat
<1>1. entry[f] \in DirEntry /\ Fits(entry[f].size, reserved[f]) /\ reserved[f] \in Nat
  BY DEF IInv, VolumeInv, HistoryInv
<1> QED BY <1>1 DEF Opened, DirEntry, FatFile

LEMMA ReservedType == ASSUME IInv PROVE reserved \in Reservations
  BY DEF IInv, HistoryInv, Reservations

LEMMA BlockTarget ==
  ASSUME NEW l \in Loc, NEW r, l.file \in File, Fits(l.f.size, r[l.file]),
         l.op = "shrink" => Fits(l.size, r[l.file])
  PROVE  AtPlace("block", l, r) /\ "block" \notin InLock
  BY DEF AtPlace, Place, InLock

LEMMA MknodInv == ASSUME IInv, NEW t \in Thread, NEW f \in File, Mknod(t, f) PROVE IInv'
<1> DEFINE l == Enter("mknod", f)
<1>1. l \in Loc /\ l.file = f /\ l.op = "mknod" /\ Fits(l.f.size, reserved[f])
  <2>1. reserved[f] \in Nat
    BY OpenedType
  <2>2. "mknod" \in Op
    BY DEF Op
  <2> QED BY <2>1, <2>2, EnterType, FatAssumption DEF Fits
<1>2. Call(t, "mknod", f, <<"block", l>>)
  BY DEF Mknod
<1> HIDE DEF l
<1>3. AtPlace("block", l, reserved) /\ "block" \notin InLock
  BY <1>1, BlockTarget
<1>4. ThreadInv' /\ AllocInv' /\ StageInv' /\ VolumeInv' /\ CacheInv' /\ HistoryInv'
  BY <1>2, <1>3, CallGoes
<1> QED BY <1>4, HandleKept DEF IInv, Mknod, Call

LEMMA MkdirInv == ASSUME IInv, NEW t \in Thread, Mkdir(t) PROVE IInv'
<1> DEFINE l == Enter("mkdir", None)
<1>1. l \in Loc /\ l.file = None /\ l.op = "mkdir" /\ l.f.size = 0
  <2>1. "mkdir" \in Op
    BY DEF Op
  <2> QED BY <2>1, EnterType
<1>2. Call(t, "mkdir", None, <<"lock", l>>)
  BY DEF Mkdir
<1> HIDE DEF l
<1>3. l.file \in File => Fits(l.f.size, reserved[l.file])
  <2> SUFFICES ASSUME l.file \in File PROVE Fits(0, reserved[l.file])
    BY <1>1
  <2>1. reserved[l.file] \in Nat
    BY OpenedType
  <2> QED BY <2>1, FatAssumption DEF Fits
<1>4. AtPlace("lock", l, reserved) /\ "lock" \notin InLock
  BY <1>1, <1>3 DEF AtPlace, Place, InLock
<1>5. ThreadInv' /\ AllocInv' /\ StageInv' /\ VolumeInv' /\ CacheInv' /\ HistoryInv'
  BY <1>2, <1>4, CallGoes
<1> QED BY <1>5, HandleKept DEF IInv, Mkdir, Call

LEMMA OpenInv == ASSUME IInv, NEW t \in Thread, NEW f \in File, Open(t, f) PROVE IInv'
<1>1. AtPlace(Return[1], Return[2], reserved) /\ Return[1] \notin InLock
  BY ReturnTarget, ReservedType DEF InLock
<1>2. ThreadInv' /\ AllocInv' /\ StageInv' /\ VolumeInv' /\ CacheInv' /\ HistoryInv'
  BY <1>1, CallGoes DEF Open
<1>3. HandleInv'
  BY OpenedType DEF HandleInv, Open, Call, IInv
<1> QED BY <1>2, <1>3 DEF IInv

LEMMA CloseInv == ASSUME IInv, NEW t \in Thread, NEW f \in File, Close(t, f) PROVE IInv'
<1> DEFINE l == [Enter("close", f) EXCEPT !.block = {s \in Sector : cached[s] # None}]
<1>1. /\ l \in Loc /\ l.file = f /\ l.f.size = 0 /\ l.block \in SUBSET Sector
  <2>1. "close" \in Op
    BY DEF Op
  <2>2. Enter("close", f) \in Loc /\ Enter("close", f).file = f /\ Enter("close", f).f.size = 0
    BY <2>1, EnterType
  <2> QED BY <2>2 DEF Loc
<1>2. Call(t, "close", f, <<"flush", l>>)
  BY DEF Close
<1> HIDE DEF l
<1>3. AtPlace("flush", l, reserved) /\ "flush" \notin InLock
  <2>1. Fits(l.f.size, reserved[f])
    BY <1>1, OpenedType, FatAssumption DEF Fits
  <2> QED BY <1>1, <2>1 DEF AtPlace, Place, InLock
<1>4. ThreadInv' /\ AllocInv' /\ StageInv' /\ VolumeInv' /\ CacheInv' /\ HistoryInv'
  BY <1>2, <1>3, CallGoes
<1> QED BY <1>4, HandleKept DEF IInv, Close, Call

\* Locals with another size and a number of clusters to do, and with another
\* size in the FatFile.
Sized(l, n, d) == [l EXCEPT !.size = n, !.todo = d]

LEMMA SizesSet ==
  ASSUME NEW l \in Loc, NEW n \in Nat, NEW d \in Int
  PROVE  LET m == Sized(l, n, d) IN
         /\ m \in Loc /\ m.op = l.op /\ m.file = l.file /\ m.f = l.f
         /\ m.size = n /\ m.todo = d
  BY DEF Sized, Loc

LEMMA FileSizeSet ==
  ASSUME NEW l \in Loc, NEW n \in Nat
  PROVE  /\ [l EXCEPT !.f.size = n] \in Loc
         /\ [l EXCEPT !.f.size = n].op = l.op
         /\ [l EXCEPT !.f.size = n].file = l.file
         /\ [l EXCEPT !.f.size = n].f.size = n
  BY DEF Loc, FatFile

LEMMA WriteInv == ASSUME IInv, NEW t \in Thread, NEW f \in File, Write(t, f) PROVE IInv'
<1> DEFINE h == handle[f]
<1>1. h \in FatFile /\ Fits(h.size, reserved[f]) /\ h.size \in Nat /\ reserved[f] \in Nat
  <2>1. handle[f] \in FatFile /\ Fits(handle[f].size, reserved[f]) /\ reserved[f] \in Nat
    BY DEF Write, IInv, HandleInv, HistoryInv
  <2> QED BY <2>1 DEF FatFile
<1>2. PICK x \in Extents :
        LET l == [Enter("write", f) EXCEPT !.f = h, !.offset = x.offset]
            inCluster == (x.offset % ClusterBytes) + x.size
        IN /\ x.offset <= h.size /\ inCluster <= ClusterBytes
           /\ Call(t, "write", f,
                IF inCluster > Reserve(h.size) * ClusterBytes \/ x.offset >= h.size
                THEN Extend([l EXCEPT !.size = h.size + x.size, !.todo = Reserve(x.size)])
                ELSE IF x.offset + x.size > h.size
                     THEN <<"block", [l EXCEPT !.f.size = x.offset + x.size]>>
                     ELSE Seek(l))
  BY DEF Write
<1> DEFINE l == [Enter("write", f) EXCEPT !.f = h, !.offset = x.offset]
           m == [l EXCEPT !.size = h.size + x.size, !.todo = Reserve(x.size)]
           k == [l EXCEPT !.f.size = x.offset + x.size]
<1> HIDE DEF h
<1>3. x.offset \in Nat /\ x.size \in Nat
  BY FatAssumption
<1>4. l \in Loc /\ l.op = "write" /\ l.file = f /\ l.f = h
  <2>1. "write" \in Op
    BY DEF Op
  <2>2. Enter("write", f) \in Loc /\ Enter("write", f).op = "write" /\ Enter("write", f).file = f
    BY <2>1, EnterType
  <2> QED BY <1>1, <1>3, <2>2 DEF Loc
<1>5. Reserve(x.size) \in Nat /\ Fits(h.size + x.size, reserved[f] + Reserve(x.size))
  BY <1>1, <1>3, FitsAfter
<1>6. SUFFICES ASSUME NEW target, Call(t, "write", f, target),
                      AtPlace(target[1], target[2], reserved), target[1] \notin InLock
               PROVE  IInv'
  <2>1. CASE (x.offset % ClusterBytes) + x.size > Reserve(h.size) * ClusterBytes \/ x.offset >= h.size
    <3>1. Call(t, "write", f, Extend(m))
      BY <1>2, <2>1
    <3>2. Extending(m, reserved)
      <4>1. /\ m \in Loc /\ m.op = "write" /\ m.file = f /\ m.f = h
            /\ m.size = h.size + x.size /\ m.todo = Reserve(x.size)
        <5>1. h.size + x.size \in Nat
          BY <1>1, <1>3
        <5>2. m = Sized(l, h.size + x.size, Reserve(x.size))
          BY DEF Sized
        <5> HIDE DEF l, m
        <5>3. Reserve(x.size) \in Int /\ l \in Loc
          BY <1>4, <1>5
        <5>4. LET k1 == Sized(l, h.size + x.size, Reserve(x.size)) IN
              /\ k1 \in Loc /\ k1.op = l.op /\ k1.file = l.file /\ k1.f = l.f
              /\ k1.size = h.size + x.size /\ k1.todo = Reserve(x.size)
          BY ONLY <5>1, <5>3, SizesSet
        <5> QED BY <5>2, <5>4, <1>4
      <4> QED BY <4>1, <1>1, <1>5 DEF Extending
    <3> HIDE DEF m
    <3>3. AtPlace(Extend(m)[1], Extend(m)[2], reserved) /\ Extend(m)[1] \notin InLock
      BY <3>2, ExtendTarget, ReservedType DEF InLock
    <3> QED BY <3>1, <3>3, <1>6
  <2>2. CASE /\ ~((x.offset % ClusterBytes) + x.size > Reserve(h.size) * ClusterBytes
                  \/ x.offset >= h.size)
             /\ x.offset + x.size > h.size
    <3>1. Call(t, "write", f, <<"block", k>>)
      BY <1>2, <2>2
    <3>2. k \in Loc /\ k.op = "write" /\ k.file = f /\ k.f.size = x.offset + x.size
      <4>1. x.offset + x.size \in Nat
        BY <1>3
      <4> HIDE DEF l
      <4> QED BY <4>1, <1>4, FileSizeSet
    <3>3. Fits(x.offset + x.size, reserved[f])
      <4>1. x.offset < h.size
        BY <2>2, <1>1, <1>3
      <4> QED BY <4>1, <1>1, <1>2, <1>3, FitsInCluster
    <3> HIDE DEF k
    <3>4. AtPlace("block", k, reserved) /\ "block" \notin InLock
      BY <3>2, <3>3, BlockTarget
    <3> QED BY <3>1, <3>4, <1>6
  <2>3. CASE /\ ~((x.offset % ClusterBytes) + x.size > Reserve(h.size) * ClusterBytes
                  \/ x.offset >= h.size)
             /\ ~(x.offset + x.size > h.size)
    <3>1. Call(t, "write", f, Seek(l))
      BY <1>2, <2>3
    <3> HIDE DEF l
    <3>2. AtPlace(Seek(l)[1], Seek(l)[2], reserved) /\ Seek(l)[1] \notin InLock
      BY <1>1, <1>4, SeekTarget DEF InLock
    <3> QED BY <3>1, <3>2, <1>6
  <2> QED BY <2>1, <2>2, <2>3
<1>7. ThreadInv' /\ AllocInv' /\ StageInv' /\ VolumeInv' /\ CacheInv' /\ HistoryInv'
  BY <1>6, CallGoes
<1> QED BY <1>7, HandleKept DEF IInv, Write, Call

\* The locals of a call that opens a file for itself.
LEMMA OpensType ==
  ASSUME IInv, NEW op \in Op, NEW f \in File
  PROVE  LET l == [Enter(op, f) EXCEPT !.f = Opened(entry[f])] IN
         l \in Loc /\ l.op = op /\ l.file = f /\ l.f = Opened(entry[f]) /\ Fits(l.f.size, reserved[f])
<1>1. Enter(op, f) \in Loc /\ Enter(op, f).op = op /\ Enter(op, f).file = f
  BY EnterType
<1>2. Opened(entry[f]) \in FatFile /\ Fits(Opened(entry[f]).size, reserved[f])
  BY OpenedType
<1> QED BY <1>1, <1>2 DEF Loc

LEMMA TruncateUpInv == ASSUME IInv, NEW t \in Thread, NEW f \in File, TruncateUp(t, f) PROVE IInv'
<1>1. PICK n \in Sizes :
        Call(t, "extend", f, Extend([Enter("extend", f) EXCEPT !.f = Opened(entry[f]),
                                                              !.size = n, !.todo = Reserve(n)]))
  BY DEF TruncateUp
<1> DEFINE l == [Enter("extend", f) EXCEPT !.f = Opened(entry[f])]
           m == [Enter("extend", f) EXCEPT !.f = Opened(entry[f]), !.size = n, !.todo = Reserve(n)]
<1>2. l \in Loc /\ l.op = "extend" /\ l.file = f /\ Fits(l.f.size, reserved[f])
  <2>1. "extend" \in Op
    BY DEF Op
  <2> QED BY <2>1, OpensType
<1>3. n \in Nat /\ reserved[f] \in Nat
  BY FatAssumption, OpenedType
<1>4. Reserve(n) \in Nat /\ Fits(n, reserved[f] + Reserve(n))
  <2>1. Fits(0, reserved[f])
    BY <1>3, FatAssumption DEF Fits
  <2>2. Reserve(n) \in Nat /\ Fits(0 + n, reserved[f] + Reserve(n))
    BY <2>1, <1>3, FitsAfter
  <2> QED BY <2>2, <1>3
<1>5. m = Sized(l, n, Reserve(n))
  BY EnterType DEF Op, Loc, Sized
<1>6. Extending(m, reserved)
  <2> HIDE DEF m, l
  <2>1. /\ m \in Loc /\ m.op = "extend" /\ m.file = f /\ m.f = l.f
        /\ m.size = n /\ m.todo = Reserve(n)
    <3>1. Reserve(n) \in Int /\ n \in Nat /\ l \in Loc
      BY <1>2, <1>3, <1>4
    <3> QED BY ONLY <3>1, <1>2, <1>5, SizesSet
  <2> QED BY <2>1, <1>2, <1>4 DEF Extending
<1>7. Call(t, "extend", f, Extend(m))
  BY <1>1
<1> HIDE DEF m, l
<1>8. AtPlace(Extend(m)[1], Extend(m)[2], reserved) /\ Extend(m)[1] \notin InLock
  BY <1>6, ExtendTarget, ReservedType DEF InLock
<1>9. ThreadInv' /\ AllocInv' /\ StageInv' /\ VolumeInv' /\ CacheInv' /\ HistoryInv'
  BY <1>7, <1>8, CallGoes
<1> QED BY <1>9, HandleKept DEF IInv, TruncateUp, Call

LEMMA TruncateDownInv ==
  ASSUME IInv, NEW t \in Thread, NEW f \in File, TruncateDown(t, f) PROVE IInv'
<1>1. PICK n \in Sizes :
        /\ n <= entry[f].size
        /\ Call(t, "shrink", f,
             <<"block", [Enter("shrink", f) EXCEPT !.f = Opened(entry[f]),
                                                   !.size = n, !.todo = Reserve(n)]>>)
  BY DEF TruncateDown
<1> DEFINE l == [Enter("shrink", f) EXCEPT !.f = Opened(entry[f])]
           m == [Enter("shrink", f) EXCEPT !.f = Opened(entry[f]), !.size = n, !.todo = Reserve(n)]
<1>2. l \in Loc /\ l.op = "shrink" /\ l.file = f /\ Fits(l.f.size, reserved[f])
  <2>1. "shrink" \in Op
    BY DEF Op
  <2> QED BY <2>1, OpensType
<1>3. n \in Nat /\ Reserve(n) \in Nat
  BY FatAssumption DEF Reserve
<1>4. Fits(n, reserved[f])
  <2>1. entry[f].size \in Nat /\ Fits(entry[f].size, reserved[f]) /\ reserved[f] \in Nat
    BY OpenedType
  <2>2. ClusterBytes * reserved[f] \in Int
    BY <2>1, FatAssumption
  <2>3. n <= entry[f].size
    BY <1>1
  <2> QED BY ONLY <1>3, <2>1, <2>2, <2>3, SMTT(30) DEF Fits
<1>5. m = Sized(l, n, Reserve(n))
  BY EnterType DEF Op, Loc, Sized
<1>6. Call(t, "shrink", f, <<"block", m>>)
  BY <1>1
<1> HIDE DEF m, l
<1>7. m \in Loc /\ m.op = "shrink" /\ m.file = f /\ m.f = l.f /\ m.size = n
  <2>1. Reserve(n) \in Int /\ n \in Nat /\ l \in Loc
    BY <1>2, <1>3
  <2> QED BY ONLY <2>1, <1>2, <1>5, SizesSet
<1>8. AtPlace("block", m, reserved) /\ "block" \notin InLock
  BY <1>7, <1>2, <1>4, BlockTarget
<1>9. ThreadInv' /\ AllocInv' /\ StageInv' /\ VolumeInv' /\ CacheInv' /\ HistoryInv'
  BY <1>6, <1>8, CallGoes
<1> QED BY <1>9, HandleKept DEF IInv, TruncateDown, Call

LEMMA UnlinkInv == ASSUME IInv, NEW t \in Thread, NEW f \in File, Unlink(t, f) PROVE IInv'
<1> DEFINE l == [Enter("unlink", f) EXCEPT !.f = Opened(entry[f])]
<1>1. l \in Loc /\ l.op = "unlink" /\ l.file = f /\ Fits(l.f.size, reserved[f])
  <2>1. "unlink" \in Op
    BY DEF Op
  <2> QED BY <2>1, OpensType
<1>2. Call(t, "unlink", f, <<"block", l>>)
  BY DEF Unlink
<1> HIDE DEF l
<1>3. AtPlace("block", l, reserved) /\ "block" \notin InLock
  BY <1>1, BlockTarget
<1>4. ThreadInv' /\ AllocInv' /\ StageInv' /\ VolumeInv' /\ CacheInv' /\ HistoryInv'
  BY <1>2, <1>3, CallGoes
<1> QED BY <1>4, HandleKept DEF IInv, Unlink, Call

LEMMA FinfoInv == ASSUME IInv, NEW t \in Thread, NEW f \in File, Finfo(t, f) PROVE IInv'
<1> DEFINE n == IF Reserve(entry[f].size) < 20 THEN Reserve(entry[f].size) ELSE 20
           l == [Enter("finfo", None) EXCEPT !.todo = n]
<1>1. n \in Nat
  <2>1. entry[f].size \in Nat
    BY OpenedType
  <2>2. Reserve(entry[f].size) \in Nat
    BY <2>1, FatAssumption DEF Reserve
  <2> QED BY <2>2
<1>2. Call(t, "finfo", f, IF n = 0 THEN Return ELSE Read("walk", l, entry[f].first))
  BY DEF Finfo
<1>3. l \in Loc /\ l.file = None /\ l.f.size = 0
  <2>1. "finfo" \in Op
    BY DEF Op
  <2>2. Enter("finfo", None) \in Loc /\ Enter("finfo", None).file = None
        /\ Enter("finfo", None).f.size = 0
    BY <2>1, EnterType
  <2> HIDE DEF n
  <2> QED BY <2>2, <1>1 DEF Loc
<1> HIDE DEF n, l
<1>4. l.file \in File => Fits(l.f.size, reserved[l.file])
  <2> SUFFICES ASSUME l.file \in File PROVE Fits(0, reserved[l.file])
    BY <1>3
  <2>1. reserved[l.file] \in Nat
    BY OpenedType
  <2> QED BY <2>1, FatAssumption DEF Fits
<1>5. CASE n = 0
  <2>1. AtPlace(Return[1], Return[2], reserved) /\ Return[1] \notin InLock
    BY ReturnTarget, ReservedType DEF InLock
  <2>2. ThreadInv' /\ AllocInv' /\ StageInv' /\ VolumeInv' /\ CacheInv' /\ HistoryInv'
    BY <1>2, <1>5, <2>1, CallGoes
  <2> QED BY <2>2, HandleKept DEF IInv, Finfo, Call
<1>6. CASE n # 0
  <2> DEFINE target == Read("walk", l, entry[f].first)
  <2>1. "walk" \in (FatPc \ (InLock \cup {"eoc"})) \cup {"data"}
    BY DEF FatPc, ReadPc, InLock
  <2>2. AtPlace(target[1], target[2], reserved) /\ target[1] \notin InLock
    BY <1>3, <1>4, <2>1, OpenedType, ReadsOn
  <2>3. Call(t, "finfo", f, target)
    BY <1>2, <1>6
  <2> HIDE DEF target
  <2>4. ThreadInv' /\ AllocInv' /\ StageInv' /\ VolumeInv' /\ CacheInv' /\ HistoryInv'
    BY <2>2, <2>3, CallGoes
  <2> QED BY <2>4, HandleKept DEF IInv, Finfo, Call
<1> QED BY <1>5, <1>6
-----------------------------------------------------------------------------
(* Reading the FAT.                                                        *)

LEMMA ThreadAtPlace ==
  ASSUME IInv, NEW t \in Thread
  PROVE  /\ AtPlace(pc[t], loc[t], reserved) /\ loc[t] \in Loc
         /\ loc[t].file \in File => Fits(loc[t].f.size, reserved[loc[t].file])
  BY DEF IInv, ThreadInv, AtPlace

\* What AtPlace says does not depend on the sector or the cluster.
LEMMA SameRoom ==
  ASSUME NEW p, NEW l, NEW r, AtPlace(p, l, r), NEW m \in Loc,
         m.op = l.op, m.file = l.file, m.f = l.f, m.size = l.size, m.todo = l.todo,
         m.block = l.block
  PROVE  AtPlace(p, m, r)
  BY DEF AtPlace

LEMMA WantsBusy == ASSUME NEW t, Wants(t) PROVE pc[t] # "idle"
  BY DEF Wants, FatPc, ReadPc, ChangePc

LEMMA HitInv == ASSUME IInv, NEW t \in Thread, Hit(t) PROVE IInv'
<1> DEFINE c == cached[SectorOf(loc[t].cluster)]
           m == [loc[t] EXCEPT !.sector = c]
<1>1. c \in FatSector
  <2>1. SectorOf(loc[t].cluster) \in Sector /\ c # None
    BY SectorType DEF Hit, Found
  <2> QED BY <2>1 DEF IInv, CacheInv
<1>2. loc' = [loc EXCEPT ![t] = m] /\ pc' = [pc EXCEPT ![t] = pc[t]]
  BY ThreadAtPlace DEF Hit, IInv, ThreadInv
<1> HIDE DEF c
<1>3. AtPlace(pc[t], m, reserved)
  <2>1. /\ m \in Loc /\ m.op = loc[t].op /\ m.file = loc[t].file /\ m.f = loc[t].f
        /\ m.size = loc[t].size /\ m.todo = loc[t].todo /\ m.block = loc[t].block
    BY <1>1, ThreadAtPlace DEF Loc
  <2> HIDE DEF m
  <2> QED BY <2>1, ThreadAtPlace, SameRoom
<1> HIDE DEF m
<1>4. ThreadInv' /\ AllocInv' /\ StageInv'
  BY <1>2, <1>3, WantsBusy, Moves DEF Hit, volumeVars, history
<1> QED BY <1>4, VolumeKept, CacheKept, HandleKept, HistoryKept
  DEF IInv, Hit, volumeVars, history

LEMMA MissInv == ASSUME IInv, NEW t \in Thread, Miss(t) PROVE IInv'
<1> DEFINE c == fat[SectorOf(loc[t].cluster)]
           m == [loc[t] EXCEPT !.fetched = c]
<1>1. c \in FatSector
  <2>1. SectorOf(loc[t].cluster) \in Sector
    BY SectorType DEF Miss
  <2> QED BY <2>1 DEF IInv, VolumeInv
<1>2. loc' = [loc EXCEPT ![t] = m] /\ pc' = [pc EXCEPT ![t] = pc[t]]
  BY ThreadAtPlace DEF Miss, IInv, ThreadInv
<1> HIDE DEF c
<1>3. AtPlace(pc[t], m, reserved)
  <2>1. /\ m \in Loc /\ m.op = loc[t].op /\ m.file = loc[t].file /\ m.f = loc[t].f
        /\ m.size = loc[t].size /\ m.todo = loc[t].todo /\ m.block = loc[t].block
    BY <1>1, ThreadAtPlace DEF Loc
  <2> HIDE DEF m
  <2> QED BY <2>1, ThreadAtPlace, SameRoom
<1> HIDE DEF m
<1>4. ThreadInv' /\ AllocInv' /\ StageInv'
  BY <1>2, <1>3, WantsBusy, Moves DEF Miss, volumeVars, history
<1> QED BY <1>4, VolumeKept, CacheKept, HandleKept, HistoryKept
  DEF IInv, Miss, volumeVars, history

LEMMA FillInv == ASSUME IInv, NEW t \in Thread, Fill(t) PROVE IInv'
<1> DEFINE c == loc[t].fetched
           m == [loc[t] EXCEPT !.sector = c, !.fetched = None]
<1>1. c \in FatSector
  BY ThreadAtPlace DEF Fill, Loc
<1>2. loc' = [loc EXCEPT ![t] = m] /\ pc' = [pc EXCEPT ![t] = pc[t]]
  BY ThreadAtPlace DEF Fill, IInv, ThreadInv
<1>3. PutInCache(SectorOf(loc[t].cluster), c)
  BY DEF Fill
<1> HIDE DEF c
<1>4. AtPlace(pc[t], m, reserved)
  <2>1. /\ m \in Loc /\ m.op = loc[t].op /\ m.file = loc[t].file /\ m.f = loc[t].f
        /\ m.size = loc[t].size /\ m.todo = loc[t].todo /\ m.block = loc[t].block
    BY <1>1, ThreadAtPlace DEF Loc
  <2> HIDE DEF m
  <2> QED BY <2>1, ThreadAtPlace, SameRoom
<1> HIDE DEF m
<1>5. ThreadInv' /\ AllocInv' /\ StageInv'
  BY <1>2, <1>4, WantsBusy, Moves DEF Fill, volumeVars
<1>6. CacheInv'
  BY <1>1, <1>3, PutType DEF IInv
<1>7. HistoryInv'
  BY DEF Fill, IInv, HistoryInv
<1> QED BY <1>5, <1>6, <1>7, VolumeKept, HandleKept DEF IInv, Fill, volumeVars

LEMMA OutsideInv == ASSUME IInv, NEW t \in Thread, Outside(t) PROVE IInv'
<1>1. AtPlace("outside", loc[t], reserved) /\ "outside" \notin InLock
  BY ThreadAtPlace DEF AtPlace, Place, InLock
<1>2. Goto(t, <<"outside", loc[t]>>)
  BY DEF Outside
<1>3. ThreadInv' /\ AllocInv' /\ StageInv'
  BY <1>1, <1>2, WantsBusy, Goes DEF Outside, volumeVars, history
<1> QED BY <1>3, VolumeKept, CacheKept, HandleKept, HistoryKept
  DEF IInv, Outside, volumeVars, history

-----------------------------------------------------------------------------
(* Walking chains.                                                         *)

LEMMA TodoSet ==
  ASSUME NEW l \in Loc, NEW d \in Int
  PROVE  /\ [l EXCEPT !.todo = d] \in Loc
         /\ [l EXCEPT !.todo = d].file = l.file
         /\ [l EXCEPT !.todo = d].f = l.f
  BY DEF Loc

LEMMA LastSet ==
  ASSUME NEW l \in Loc, NEW d \in Int
  PROVE  /\ [l EXCEPT !.last = d] \in Loc
         /\ [l EXCEPT !.last = d].file = l.file
         /\ [l EXCEPT !.last = d].f = l.f
  BY DEF Loc

\* A thread reads on and everything else stays.
LEMMA WalksOn ==
  ASSUME IInv, NEW t \in Thread, pc[t] # "idle", NEW target, Goto(t, target),
         AtPlace(target[1], target[2], reserved), target[1] \notin InLock,
         UNCHANGED <<processVars, volumeVars, cacheVars, allocVars, handle, cur, nxt, calls,
                     history>>
  PROVE  IInv'
<1>1. ThreadInv' /\ AllocInv' /\ StageInv'
  BY Goes DEF volumeVars, history
<1> QED BY <1>1, VolumeKept, CacheKept, HandleKept, HistoryKept DEF IInv, volumeVars, history

LEMMA WalkInv == ASSUME IInv, NEW t \in Thread, Walk(t) PROVE IInv'
<1>1. pc[t] = "walk" /\ Entry(t) \in Int /\ loc[t] \in Loc /\ loc[t].todo \in Int
  BY ContentType DEF Walk, At, Loc
<1>2. CASE loc[t].op = "finfo" /\ loc[t].todo = 1
  <2>1. Goto(t, Return)
    BY <1>2 DEF Walk
  <2>2. AtPlace(Return[1], Return[2], reserved) /\ Return[1] \notin InLock
    BY ReturnTarget, ReservedType DEF InLock
  <2> QED BY <1>1, <2>1, <2>2, WalksOn DEF Walk
<1>3. CASE ~(loc[t].op = "finfo" /\ loc[t].todo = 1)
  <2> DEFINE place == IF loc[t].todo > 1 THEN "walk" ELSE "data"
             m == [loc[t] EXCEPT !.todo = loc[t].todo - 1]
             c == Entry(t)
             target == Read(place, m, c)
  <2>1. Goto(t, target)
    BY <1>3 DEF Walk
  <2>2. m \in Loc /\ (m.file \in File => Fits(m.f.size, reserved[m.file]))
    BY <1>1, ThreadAtPlace, TodoSet
  <2>3. place \in (FatPc \ (InLock \cup {"eoc"})) \cup {"data"}
    BY DEF FatPc, ReadPc, InLock
  <2>4. c \in Int
    BY <1>1
  <2> HIDE DEF place, m, c
  <2>5. AtPlace(target[1], target[2], reserved) /\ target[1] \notin InLock
    BY ONLY <2>4, <2>2, <2>3, ReadsOn
  <2> HIDE DEF target
  <2> QED BY <1>1, <2>1, <2>5, WalksOn DEF Walk
<1> QED BY <1>2, <1>3

LEMMA ShrinkInv == ASSUME IInv, NEW t \in Thread, Shrink(t) PROVE IInv'
<1>1. pc[t] = "shrink" /\ Entry(t) \in Int /\ loc[t] \in Loc /\ loc[t].todo \in Int
  BY ContentType DEF Shrink, At, Loc
<1> DEFINE place == IF loc[t].todo > 1 THEN "shrink" ELSE "after"
           m == [loc[t] EXCEPT !.todo = loc[t].todo - 1]
           c == Entry(t)
           target == Read(place, m, c)
<1>2. Goto(t, target)
  BY DEF Shrink
<1>3. m \in Loc /\ (m.file \in File => Fits(m.f.size, reserved[m.file]))
  BY <1>1, ThreadAtPlace, TodoSet
<1>4. place \in (FatPc \ (InLock \cup {"eoc"})) \cup {"data"}
  BY DEF FatPc, ReadPc, InLock
<1>5. c \in Int
  BY <1>1
<1> HIDE DEF place, m, c
<1>6. AtPlace(target[1], target[2], reserved) /\ target[1] \notin InLock
  BY ONLY <1>5, <1>3, <1>4, ReadsOn
<1> HIDE DEF target
<1> QED BY <1>1, <1>2, <1>6, WalksOn DEF Shrink

LEMMA PeekInv == ASSUME IInv, NEW t \in Thread, Peek(t) PROVE IInv'
<1>1. pc[t] = "peek" /\ Entry(t) \in Int /\ loc[t] \in Loc /\ loc[t].cluster \in Int
  BY ContentType DEF Peek, At
<1> DEFINE m == [loc[t] EXCEPT !.last = Entry(t)]
           c == loc[t].cluster
           target == Read("free", m, c)
<1>2. Goto(t, target)
  BY DEF Peek
<1>3. m \in Loc /\ (m.file \in File => Fits(m.f.size, reserved[m.file]))
  BY <1>1, ThreadAtPlace, LastSet
<1>4. "free" \in (FatPc \ (InLock \cup {"eoc"})) \cup {"data"}
  BY DEF FatPc, ChangePc, InLock
<1>5. c \in Int
  BY <1>1
<1> HIDE DEF m, c
<1>6. AtPlace(target[1], target[2], reserved) /\ target[1] \notin InLock
  BY ONLY <1>5, <1>3, <1>4, ReadsOn
<1> HIDE DEF target
<1> QED BY <1>1, <1>2, <1>6, WalksOn DEF Peek

LEMMA AfterInv == ASSUME IInv, NEW t \in Thread, After(t) PROVE IInv'
<1>1. pc[t] = "after" /\ Entry(t) \in Int /\ loc[t] \in Loc /\ loc[t].cluster \in Int
  BY ContentType DEF After, At
<1> DEFINE m == [loc[t] EXCEPT !.last = Entry(t)]
           c == loc[t].cluster
           target == Read("cut", m, c)
<1>2. Goto(t, target)
  BY DEF After
<1>3. m \in Loc /\ (m.file \in File => Fits(m.f.size, reserved[m.file]))
  BY <1>1, ThreadAtPlace, LastSet
<1>4. "cut" \in (FatPc \ (InLock \cup {"eoc"})) \cup {"data"}
  BY DEF FatPc, ChangePc, InLock
<1>5. c \in Int
  BY <1>1
<1> HIDE DEF m, c
<1>6. AtPlace(target[1], target[2], reserved) /\ target[1] \notin InLock
  BY ONLY <1>5, <1>3, <1>4, ReadsOn
<1> HIDE DEF target
<1> QED BY <1>1, <1>2, <1>6, WalksOn DEF After

-----------------------------------------------------------------------------
(* Putting a sector of the FAT back.                                       *)

LEMMA PutsOn ==
  ASSUME IInv, NEW t \in Thread, pc[t] # "idle", NEW target, Goto(t, target),
         AtPlace(target[1], target[2], reserved),
         target[1] \in InLock => pc[t] \in InLock,
         CacheInv',
         UNCHANGED <<processVars, volumeVars, allocVars, handle, cur, nxt, calls, history>>
  PROVE  IInv'
<1>1. ThreadInv' /\ AllocInv' /\ StageInv'
  BY Goes DEF volumeVars, history
<1> QED BY <1>1, VolumeKept, HandleKept, HistoryKept DEF IInv, volumeVars, history

\* On to another entry with the same locals, outside the lock, or back.
LEMMA ReadsOnOrReturns ==
  ASSUME IInv, NEW t \in Thread, NEW place \in {"peek", "drop"}, NEW c, c \in Int, NEW target,
         target = Return \/ target = Read(place, loc[t], c)
  PROVE  AtPlace(target[1], target[2], reserved) /\ target[1] \notin InLock
<1>1. place \in (FatPc \ (InLock \cup {"eoc"})) \cup {"data"}
  BY DEF FatPc, ReadPc, ChangePc, InLock
<1> DEFINE l == loc[t]
<1>2. l \in Loc /\ (l.file \in File => Fits(l.f.size, reserved[l.file]))
  BY ThreadAtPlace
<1> HIDE DEF l
<1>3. AtPlace(Read(place, l, c)[1], Read(place, l, c)[2], reserved) /\ Read(place, l, c)[1] \notin InLock
  BY ONLY <1>1, <1>2, c \in Int, ReadsOn
<1>4. AtPlace(Return[1], Return[2], reserved) /\ Return[1] \notin InLock
  BY ReturnTarget, ReservedType DEF InLock
<1> QED BY <1>3, <1>4 DEF l

LEMMA FreeEntryInv == ASSUME IInv, NEW t \in Thread, FreeEntry(t) PROVE IInv'
<1>1. pc[t] = "free" /\ loc[t].sector \in FatSector /\ loc[t].last \in Int
  BY ContentType DEF FreeEntry, At, ReadPc, Loc
<1> DEFINE c == loc[t].last
           target == IF Entry(t) = EOC THEN Return ELSE Read("peek", loc[t], c)
<1>2. Goto(t, target) /\ PutEntry(t, SlotOf(loc[t].cluster), Free)
  BY DEF FreeEntry
<1>3. c \in Int
  BY <1>1
<1> HIDE DEF c
<1>4. AtPlace(target[1], target[2], reserved) /\ target[1] \notin InLock
  BY <1>3, ReadsOnOrReturns
<1>5. CacheInv'
  BY <1>1, <1>2, PutEntryType DEF IInv, Free
<1> HIDE DEF target
<1> QED BY <1>1, <1>2, <1>4, <1>5, PutsOn DEF FreeEntry

LEMMA DropInv == ASSUME IInv, NEW t \in Thread, Drop(t) PROVE IInv'
<1>1. pc[t] = "drop" /\ loc[t].sector \in FatSector /\ Entry(t) \in Int
  BY ContentType DEF Drop, At, ReadPc, Loc
<1> DEFINE c == Entry(t)
           target == IF c = EOC THEN Return ELSE Read("drop", loc[t], c)
<1>2. Goto(t, target) /\ PutEntry(t, SlotOf(loc[t].cluster), Free)
  BY DEF Drop
<1>3. c \in Int
  BY <1>1
<1> HIDE DEF c
<1>4. AtPlace(target[1], target[2], reserved) /\ target[1] \notin InLock
  BY <1>3, ReadsOnOrReturns
<1>5. CacheInv'
  BY <1>1, <1>2, PutEntryType DEF IInv, Free
<1> HIDE DEF target
<1> QED BY <1>1, <1>2, <1>4, <1>5, PutsOn DEF Drop

LEMMA CutInv == ASSUME IInv, NEW t \in Thread, Cut(t) PROVE IInv'
<1>1. pc[t] = "cut" /\ loc[t].sector \in FatSector /\ loc[t].last \in Int
  BY ContentType DEF Cut, At, ReadPc, Loc
<1> DEFINE c == loc[t].last
           target == IF c = EOC THEN Return ELSE Read("drop", loc[t], c)
<1>2. Goto(t, target) /\ PutEndOfChain(t)
  BY DEF Cut
<1>3. c \in Int
  BY <1>1
<1> HIDE DEF c
<1>4. AtPlace(target[1], target[2], reserved) /\ target[1] \notin InLock
  BY <1>3, ReadsOnOrReturns
<1>5. CacheInv'
  BY <1>1, <1>2, PutEndOfChainType DEF IInv
<1> HIDE DEF target
<1> QED BY <1>1, <1>2, <1>4, <1>5, PutsOn DEF Cut

-----------------------------------------------------------------------------
(* The allocation.                                                         *)

\* On to another entry in the lock.
LEMMA ReadsInLock ==
  ASSUME NEW q \in InLock \cup {"lock"}, NEW l, NEW r, AtPlace(q, l, r),
         NEW c, c \in Int, NEW place \in {"scan", "mark", "link"}
  PROVE  AtPlace(Read(place, l, c)[1], Read(place, l, c)[2], r) /\ Read(place, l, c)[1] = place
<1> DEFINE m == Read(place, l, c)[2]
<1>1. l \in Loc /\ place \in Place /\ place \in InLock
  BY DEF AtPlace, Place, InLock
<1>2. /\ Read(place, l, c)[1] = place
      /\ m \in Loc /\ m.op = l.op /\ m.file = l.file /\ m.f = l.f
      /\ m.size = l.size /\ m.todo = l.todo
  BY ONLY <1>1, c \in Int, ReadTarget
<1> HIDE DEF m
<1>3. AtPlace(place, m, r)
  BY <1>1, <1>2 DEF AtPlace, InLock
<1> QED BY <1>2, <1>3 DEF m

LEMMA SlotSet ==
  ASSUME NEW p, NEW l, NEW r, AtPlace(p, l, r), NEW k \in Slot
  PROVE  AtPlace(p, [l EXCEPT !.slot = k], r)
<1> DEFINE m == [l EXCEPT !.slot = k]
<1>1. /\ m \in Loc /\ m.op = l.op /\ m.file = l.file /\ m.f = l.f
      /\ m.size = l.size /\ m.todo = l.todo /\ m.block = l.block
  BY DEF AtPlace, Loc
<1> HIDE DEF m
<1>2. AtPlace(p, m, r)
  BY <1>1, SameRoom
<1> QED BY <1>2 DEF m

LEMMA LockInv == ASSUME IInv, NEW t \in Thread, Lock(t) PROVE IInv'
<1>1. nextFreeCluster \in Nat \ {0} /\ cur \in [Thread -> Nat] /\ nxt \in [Thread -> Nat]
  BY DEF IInv, AllocInv
<1> DEFINE c == nextFreeCluster + 1
           m == [loc[t] EXCEPT !.slot = SlotOf(c)]
           target == Read("scan", m, c)
<1>2. Goto(t, target) /\ pc[t] = "lock"
  BY DEF Lock
<1>3. c \in Int /\ SlotOf(c) \in Slot
  BY <1>1, SlotType
<1>4. AtPlace("lock", m, reserved)
  <2>1. AtPlace("lock", loc[t], reserved)
    BY <1>2, ThreadAtPlace
  <2> QED BY <1>3, <2>1, SlotSet
<1> HIDE DEF c, m
<1>5. AtPlace(target[1], target[2], reserved) /\ target[1] = "scan"
  BY ONLY <1>3, <1>4, ReadsInLock
<1> HIDE DEF target
<1>6. /\ ThreadInv' /\ StageInv'
      /\ \A u \in Thread : pc'[u] = IF u = t THEN "scan" ELSE pc[u]
  <2>1. UNCHANGED <<processVars, fsInfo, nextFreeCluster, reserved>> /\ pc[t] # "idle"
    BY <1>2 DEF Lock, volumeVars, history
  <2> QED BY <1>2, <1>5, <2>1, GoesThread
<1>7. AllocInv'
  <2>1. \A u \in Thread : pc[u] \notin InLock
    BY FatAssumption DEF Lock, IInv, AllocInv
  <2>2. ASSUME NEW u \in Thread, pc'[u] \in InLock
        PROVE  fatLock' = u /\ cur'[u] = nextFreeCluster' /\ nxt'[u] > cur'[u]
    BY <1>1, <1>6, <2>1, <2>2 DEF Lock
  <2>3. fatLock' \in Thread \cup {None} /\ cur' \in [Thread -> Nat] /\ nxt' \in [Thread -> Nat]
    BY <1>1 DEF Lock
  <2> QED BY <2>2, <2>3 DEF Lock, history, IInv, AllocInv, HandedOutOnce
<1> QED BY <1>6, <1>7, VolumeKept, CacheKept, HandleKept, HistoryKept
  DEF IInv, Lock, volumeVars, history

LEMMA ScanInv == ASSUME IInv, NEW t \in Thread, Scan(t) PROVE IInv'
<1>1. /\ pc[t] = "scan" /\ AtPlace("scan", loc[t], reserved)
      /\ loc[t].slot \in Slot /\ loc[t].cluster \in Int
      /\ cur \in [Thread -> Nat] /\ nxt \in [Thread -> Nat]
  BY ThreadAtPlace DEF Scan, At, Loc, IInv, AllocInv
<1>2. "scan" \in InLock \cup {"lock"}
  BY DEF InLock
<1>3. SUFFICES ASSUME NEW n \in Nat, n >= nxt[t], nxt' = [nxt EXCEPT ![t] = n],
                      NEW target, Goto(t, target),
                      AtPlace(target[1], target[2], reserved)
               PROVE  IInv'
  <2> DEFINE at(k) == nxt[t] + k - loc[t].slot
             free == {k \in loc[t].slot .. EntriesPerSector - 1 :
                         at(k) >= Clusters \/ Content(t)[k] = Free}
  <2>1. \/ \E k \in free : /\ nxt' = [nxt EXCEPT ![t] = at(k)]
                           /\ Goto(t, Read("mark", loc[t], cur[t]))
        \/ /\ nxt' = [nxt EXCEPT ![t] = at(EntriesPerSector)]
           /\ Goto(t, Read("scan", [loc[t] EXCEPT !.slot = 0], loc[t].cluster))
    BY DEF Scan
  <2>2. ASSUME NEW k \in Nat, k >= loc[t].slot
        PROVE  at(k) \in Nat /\ at(k) >= nxt[t]
    BY <1>1, <2>2 DEF Slot
  <2>3. CASE \E k \in free : /\ nxt' = [nxt EXCEPT ![t] = at(k)]
                             /\ Goto(t, Read("mark", loc[t], cur[t]))
    <3>1. PICK k \in free : /\ nxt' = [nxt EXCEPT ![t] = at(k)]
                            /\ Goto(t, Read("mark", loc[t], cur[t]))
      BY <2>3
    <3>2. k \in Nat /\ k >= loc[t].slot
      BY <1>1 DEF Slot
    <3> DEFINE n == at(k)
               c == cur[t]
               target == Read("mark", loc[t], c)
    <3>3. n \in Nat /\ n >= nxt[t]
      BY <3>2, <2>2
    <3>4. c \in Int
      BY <1>1
    <3>5. nxt' = [nxt EXCEPT ![t] = n] /\ Goto(t, target)
      BY <3>1
    <3> HIDE DEF n, c
    <3>6. AtPlace(target[1], target[2], reserved)
      BY ONLY <1>1, <1>2, <3>4, ReadsInLock
    <3> HIDE DEF target
    <3> QED BY <3>3, <3>5, <3>6, <1>3
  <2>4. CASE /\ nxt' = [nxt EXCEPT ![t] = at(EntriesPerSector)]
             /\ Goto(t, Read("scan", [loc[t] EXCEPT !.slot = 0], loc[t].cluster))
    <3> DEFINE n == at(EntriesPerSector)
               c == loc[t].cluster
               m == [loc[t] EXCEPT !.slot = 0]
               target == Read("scan", m, c)
    <3>1. n \in Nat /\ n >= nxt[t]
      BY <1>1, <2>2, FatAssumption DEF Slot
    <3>2. c \in Int
      BY <1>1
    <3>3. nxt' = [nxt EXCEPT ![t] = n] /\ Goto(t, target)
      BY <2>4
    <3>4. AtPlace("scan", m, reserved)
      <4>1. 0 \in Slot
        BY FatAssumption DEF Slot
      <4> QED BY <4>1, <1>1, SlotSet
    <3> HIDE DEF n, c, m
    <3>5. AtPlace(target[1], target[2], reserved)
      BY ONLY <1>2, <3>2, <3>4, ReadsInLock
    <3> HIDE DEF target
    <3> QED BY <3>1, <3>3, <3>5, <1>3
  <2> QED BY <2>1, <2>3, <2>4
<1>4. /\ ThreadInv' /\ StageInv'
      /\ \A u \in Thread : pc'[u] = IF u = t THEN target[1] ELSE pc[u]
  <2>1. UNCHANGED <<processVars, fsInfo, nextFreeCluster, reserved>> /\ pc[t] # "idle"
    BY <1>1 DEF Scan, volumeVars, allocVars, history
  <2> QED BY <1>3, <2>1, GoesThread
<1>5. AllocInv'
  <2>1. pc[t] \in InLock /\ nxt[t] \in Nat /\ cur[t] \in Nat
    BY <1>1 DEF InLock
  <2>2. ASSUME NEW u \in Thread, pc'[u] \in InLock
        PROVE  fatLock' = u /\ cur'[u] = nextFreeCluster' /\ nxt'[u] > cur'[u]
    <3>1. pc[u] \in InLock
      BY <1>4, <2>1, <2>2
    <3>2. fatLock = u /\ cur[u] = nextFreeCluster /\ nxt[u] > cur[u]
      BY <3>1 DEF IInv, AllocInv
    <3>3. nxt'[u] = IF u = t THEN n ELSE nxt[u]
      BY <1>1, <1>3
    <3> QED BY <1>3, <2>1, <3>2, <3>3 DEF Scan, allocVars
  <2>3. nxt' \in [Thread -> Nat]
    BY <1>1, <1>3
  <2> QED BY <2>2, <2>3 DEF Scan, allocVars, history, IInv, AllocInv, HandedOutOnce
<1> QED BY <1>4, <1>5, VolumeKept, CacheKept, HandleKept, HistoryKept
  DEF IInv, Scan, volumeVars, history

LEMMA MarkInv == ASSUME IInv, NEW t \in Thread, Mark(t) PROVE IInv'
<1>1. /\ pc[t] = "mark" /\ loc[t].sector \in FatSector /\ loc[t].last \in Int
      /\ AtPlace("mark", loc[t], reserved)
  BY ContentType, ThreadAtPlace DEF Mark, At, ReadPc, Loc
<1>2. "mark" \in InLock \cup {"lock"} /\ pc[t] \in InLock
  BY <1>1 DEF InLock
<1> DEFINE c == loc[t].last
           target == IF loc[t].chain THEN Read("link", loc[t], c) ELSE <<"unlock", loc[t]>>
<1>3. Goto(t, target) /\ PutEndOfChain(t)
  BY DEF Mark
<1>4. c \in Int
  BY <1>1
<1> HIDE DEF c
<1>5. AtPlace(Read("link", loc[t], c)[1], Read("link", loc[t], c)[2], reserved)
  BY ONLY <1>1, <1>2, <1>4, ReadsInLock
<1>6. AtPlace("unlock", loc[t], reserved)
  BY <1>1 DEF AtPlace, Place, InLock
<1>7. AtPlace(target[1], target[2], reserved)
  BY <1>5, <1>6
<1>8. CacheInv'
  BY <1>1, <1>3, PutEndOfChainType DEF IInv
<1> HIDE DEF target
<1>9. ThreadInv' /\ AllocInv' /\ StageInv'
  <2>1. UNCHANGED <<processVars, fsInfo, allocVars, cur, nxt, given, reserved>> /\ pc[t] # "idle"
    BY <1>1 DEF Mark, volumeVars
  <2> QED BY <1>2, <1>3, <1>7, <2>1, Goes
<1>10. HistoryInv'
  <2>1. plain' \in BOOLEAN
    BY DEF Mark
  <2> QED BY <2>1 DEF Mark, IInv, HistoryInv
<1> QED BY <1>8, <1>9, <1>10, VolumeKept, HandleKept DEF IInv, Mark, volumeVars

LEMMA LinkInv == ASSUME IInv, NEW t \in Thread, Link(t) PROVE IInv'
<1>1. /\ pc[t] = "link" /\ loc[t].sector \in FatSector /\ cur[t] \in Int
      /\ AtPlace("link", loc[t], reserved) /\ pc[t] \in InLock
  <2>1. pc[t] = "link" /\ loc[t].sector \in FatSector
    BY ContentType DEF Link, At, ReadPc
  <2>2. cur[t] \in Int
    BY DEF IInv, AllocInv
  <2> QED BY <2>1, <2>2, ThreadAtPlace DEF InLock
<1> DEFINE target == <<"unlock", loc[t]>>
<1>2. Goto(t, target) /\ PutEntry(t, SlotOf(loc[t].cluster), cur[t])
  BY DEF Link
<1>3. AtPlace(target[1], target[2], reserved)
  BY <1>1 DEF AtPlace, Place, InLock
<1>4. CacheInv'
  BY <1>1, <1>2, PutEntryType DEF IInv
<1> HIDE DEF target
<1> QED BY <1>1, <1>2, <1>3, <1>4, PutsOn DEF Link

LEMMA FindEOCInv == ASSUME IInv, NEW t \in Thread, FindEOC(t) PROVE IInv'
<1>1. /\ pc[t] = "eoc" /\ Entry(t) \in Int /\ loc[t] \in Loc /\ loc[t].cluster \in Int
      /\ AtPlace("eoc", loc[t], reserved)
  BY ContentType, ThreadAtPlace DEF FindEOC, At
<1>2. Extending(loc[t], reserved)
  BY <1>1 DEF AtPlace, Extending
<1>3. CASE Entry(t) = EOC
  <2> DEFINE m == [loc[t] EXCEPT !.f.eoc = loc[t].cluster, !.last = loc[t].cluster]
             target == More(m)
  <2>1. Goto(t, target)
    BY <1>3 DEF FindEOC
  <2>2. Extending(m, reserved)
    BY <1>1, <1>2 DEF Extending, Loc, FatFile
  <2> HIDE DEF m
  <2>3. AtPlace(target[1], target[2], reserved) /\ target[1] \notin InLock
    BY <2>2, MoreTarget, ReservedType DEF InLock
  <2> HIDE DEF target
  <2> QED BY <1>1, <2>1, <2>3, WalksOn DEF FindEOC
<1>4. CASE Entry(t) # EOC
  <2> DEFINE c == Entry(t)
             target == Read("eoc", loc[t], c)
  <2>1. Goto(t, target)
    BY <1>4 DEF FindEOC
  <2>2. c \in Int
    BY <1>1
  <2> HIDE DEF c
  <2>3. LET m == target[2] IN
        /\ target[1] = "eoc"
        /\ m \in Loc /\ m.op = loc[t].op /\ m.file = loc[t].file /\ m.f = loc[t].f
        /\ m.size = loc[t].size /\ m.todo = loc[t].todo /\ m.block = loc[t].block
    BY ONLY <1>1, <2>2, ReadTarget
  <2> HIDE DEF target
  <2>4. AtPlace(target[1], target[2], reserved) /\ target[1] \notin InLock
    BY <1>1, <2>3, SameRoom DEF InLock
  <2> QED BY <1>1, <2>1, <2>4, WalksOn DEF FindEOC
<1> QED BY <1>3, <1>4

\* What holds at a place still holds when more clusters have come.
LEMMA RoomGrows ==
  ASSUME NEW p, NEW l, NEW r \in Reservations, NEW r2 \in Reservations, AtPlace(p, l, r),
         \A f \in File : r[f] <= r2[f]
  PROVE  AtPlace(p, l, r2)
<1>1. ASSUME NEW f \in File, NEW b \in Nat, NEW d \in Int, Fits(b, r[f] + d)
      PROVE  Fits(b, r2[f] + d)
  <2>1. r[f] \in Nat /\ r2[f] \in Nat /\ r[f] <= r2[f]
    BY DEF Reservations
  <2>2. r[f] + d \in Int /\ r2[f] + d \in Int /\ r[f] + d <= r2[f] + d
    BY <2>1
  <2> QED BY <2>2, <1>1, FitsMore
<1>2. ASSUME NEW f \in File, NEW b \in Nat, Fits(b, r[f])
      PROVE  Fits(b, r2[f])
  <2>1. r[f] \in Int /\ r2[f] \in Int /\ r[f] <= r2[f]
    BY DEF Reservations
  <2> QED BY <2>1, <1>2, FitsMore
<1>3. l \in Loc /\ l.f.size \in Nat /\ l.size \in Nat /\ l.todo \in Int
  BY DEF AtPlace, Loc, FatFile
<1>4. l.file \in File => Fits(l.f.size, r2[l.file])
  BY <1>2, <1>3 DEF AtPlace
<1>5. p \in InLock \cup {"lock", "eoc"} /\ l.op # "mkdir" =>
          /\ l.file \in File /\ l.op \in {"write", "extend"}
          /\ Fits(l.size, r2[l.file] + l.todo)
  BY <1>1, <1>3 DEF AtPlace
<1>6. p \in {"block", "put"} /\ l.op # "mkdir" =>
          /\ l.file \in File
          /\ l.op = "shrink" => Fits(l.size, r2[l.file])
  BY <1>2, <1>3 DEF AtPlace
<1>7. p = "put" =>
          /\ l.block \in [File -> DirEntry]
          /\ \A g \in File : Fits(l.block[g].size, r2[g])
  <2> SUFFICES ASSUME p = "put" PROVE /\ l.block \in [File -> DirEntry]
                                      /\ \A g \in File : Fits(l.block[g].size, r2[g])
    OBVIOUS
  <2>1. l.block \in [File -> DirEntry] /\ \A g \in File : Fits(l.block[g].size, r[g])
    BY DEF AtPlace
  <2>2. \A g \in File : l.block[g].size \in Nat
    BY <2>1 DEF DirEntry
  <2> QED BY <2>1, <2>2, <1>2
<1> QED BY <1>4, <1>5, <1>6, <1>7 DEF AtPlace

\* Locals with another FatFile, another last cluster and another number of
\* clusters to do, one at a time.
LEMMA FileSet ==
  ASSUME NEW l \in Loc, NEW g \in FatFile
  PROVE  LET m == [l EXCEPT !.f = g] IN
         /\ m \in Loc /\ m.op = l.op /\ m.file = l.file /\ m.f = g
         /\ m.size = l.size /\ m.todo = l.todo
  BY DEF Loc

LEMMA FromSet ==
  ASSUME NEW g \in FatFile, NEW c \in Int
  PROVE  /\ [g EXCEPT !.first = c] \in FatFile /\ [g EXCEPT !.first = c].size = g.size
         /\ [g EXCEPT !.next = c] \in FatFile /\ [g EXCEPT !.next = c].size = g.size
         /\ [g EXCEPT !.eoc = c] \in FatFile /\ [g EXCEPT !.eoc = c].size = g.size
  BY DEF FatFile

LEMMA OneDoneSet ==
  ASSUME NEW l \in Loc, NEW c \in Int, NEW d \in Int
  PROVE  /\ [l EXCEPT !.last = c] \in Loc
         /\ [l EXCEPT !.last = c].op = l.op /\ [l EXCEPT !.last = c].file = l.file
         /\ [l EXCEPT !.last = c].f = l.f /\ [l EXCEPT !.last = c].size = l.size
         /\ [l EXCEPT !.todo = d] \in Loc
         /\ [l EXCEPT !.todo = d].op = l.op /\ [l EXCEPT !.todo = d].file = l.file
         /\ [l EXCEPT !.todo = d].f = l.f /\ [l EXCEPT !.todo = d].size = l.size
         /\ [l EXCEPT !.todo = d].todo = d
  BY DEF Loc

\* A caller that has its cluster goes on with room for one more.
LEMMA AllocatedTarget ==
  ASSUME NEW l, NEW c \in Nat, NEW r \in Reservations, NEW r2 \in Reservations,
         AtPlace("unlock", l, r),
         l.op # "mkdir" => r2[l.file] = r[l.file] + 1,
         \A f \in File : r[f] <= r2[f]
  PROVE  /\ AtPlace(Allocated(l, c)[1], Allocated(l, c)[2], r2)
         /\ Allocated(l, c)[1] \notin InLock
<1>1. CASE l.op = "mkdir"
  <2>1. Allocated(l, c)[1] = "block" /\ Allocated(l, c)[2] = l
    BY <1>1 DEF Allocated
  <2>2. l \in Loc /\ (l.file \in File => Fits(l.f.size, r[l.file]))
    BY DEF AtPlace
  <2>3. l.file \in File => Fits(l.f.size, r2[l.file])
    <3> SUFFICES ASSUME l.file \in File PROVE Fits(l.f.size, r2[l.file])
      OBVIOUS
    <3>1. l.f.size \in Nat /\ r[l.file] \in Int /\ r2[l.file] \in Int /\ r[l.file] <= r2[l.file]
      BY <2>2 DEF Loc, FatFile, Reservations
    <3> QED BY <2>2, <3>1, FitsMore
  <2>4. AtPlace("block", l, r2)
    BY <1>1, <2>2, <2>3 DEF AtPlace, Place, InLock
  <2> QED BY <2>1, <2>4 DEF InLock
<1>2. CASE l.op # "mkdir"
  <2>1. /\ l \in Loc /\ l.op \in {"write", "extend"} /\ l.file \in File
        /\ Fits(l.f.size, r[l.file]) /\ Fits(l.size, r[l.file] + l.todo)
    BY <1>2 DEF AtPlace, InLock
  <2>2. /\ l.f.size \in Nat /\ l.todo \in Int
        /\ r[l.file] \in Nat /\ r2[l.file] = r[l.file] + 1
    BY <1>2, <2>1 DEF Loc, FatFile, Reservations
  <2>3. Fits(l.f.size, r2[l.file])
    BY <2>1, <2>2, FitsMore
  <2>4. r2[l.file] + (l.todo - 1) = r[l.file] + l.todo
    BY <2>2
  <2>5. CASE l.chain
    <3> DEFINE d == l.todo - 1
               m == [l EXCEPT !.f.eoc = c, !.last = c, !.todo = d]
    <3>1. Allocated(l, c) = More(m)
      BY <1>2, <2>5 DEF Allocated
    <3>2. /\ m \in Loc /\ m.op = l.op /\ m.file = l.file /\ m.f.size = l.f.size
          /\ m.size = l.size /\ m.todo = d
      <4>1. d \in Int
        BY <2>2
      <4> HIDE DEF d
      <4> DEFINE g == [l.f EXCEPT !.eoc = c]
                 k == [l EXCEPT !.f = g]
                 k2 == [k EXCEPT !.last = c]
      <4>2. l.f \in FatFile /\ c \in Int
        BY <2>1 DEF Loc
      <4>3. g \in FatFile /\ g.size = l.f.size
        BY <4>2, FromSet
      <4>4. m = [k2 EXCEPT !.todo = d]
        BY <2>1 DEF Loc, FatFile
      <4> HIDE DEF g, m
      <4>5. k \in Loc /\ k.op = l.op /\ k.file = l.file /\ k.f = g /\ k.size = l.size
        BY <2>1, <4>3, FileSet
      <4> HIDE DEF k
      <4>6. k2 \in Loc /\ k2.op = k.op /\ k2.file = k.file /\ k2.f = k.f /\ k2.size = k.size
        BY ONLY <4>1, <4>2, <4>5, OneDoneSet
      <4> HIDE DEF k2
      <4>7. /\ m \in Loc /\ m.op = k2.op /\ m.file = k2.file /\ m.f = k2.f
            /\ m.size = k2.size /\ m.todo = d
        BY ONLY <4>1, <4>2, <4>4, <4>6, OneDoneSet
      <4> QED BY <4>3, <4>5, <4>6, <4>7
    <3> HIDE DEF m
    <3>3. Extending(m, r2)
      BY <3>2, <2>1, <2>3, <2>4 DEF Extending
    <3> QED BY <3>1, <3>3, MoreTarget DEF InLock
  <2>6. CASE ~l.chain
    <3> DEFINE d == l.todo - 1
               m == [l EXCEPT !.f.first = c, !.f.next = c, !.todo = d]
    <3>1. Allocated(l, c) = FromEnd(m)
      BY <1>2, <2>6 DEF Allocated
    <3>2. /\ m \in Loc /\ m.op = l.op /\ m.file = l.file /\ m.f.size = l.f.size
          /\ m.size = l.size /\ m.todo = d
      <4>1. d \in Int
        BY <2>2
      <4> HIDE DEF d
      <4> DEFINE g1 == [l.f EXCEPT !.first = c]
                 g == [g1 EXCEPT !.next = c]
                 k == [l EXCEPT !.f = g]
      <4>2. l.f \in FatFile /\ c \in Int
        BY <2>1 DEF Loc
      <4>3. g1 \in FatFile /\ g1.size = l.f.size
        BY <4>2, FromSet
      <4>4. m = [k EXCEPT !.todo = d]
        BY <2>1 DEF Loc, FatFile
      <4> HIDE DEF g1, m
      <4>5. g \in FatFile /\ g.size = l.f.size
        BY <4>2, <4>3, FromSet
      <4> HIDE DEF g
      <4>6. k \in Loc /\ k.op = l.op /\ k.file = l.file /\ k.f = g /\ k.size = l.size
        BY <2>1, <4>5, FileSet
      <4> HIDE DEF k
      <4>7. /\ m \in Loc /\ m.op = k.op /\ m.file = k.file /\ m.f = k.f
            /\ m.size = k.size /\ m.todo = d
        BY ONLY <4>1, <4>2, <4>4, <4>6, OneDoneSet
      <4> QED BY <4>5, <4>6, <4>7
    <3> HIDE DEF m
    <3>3. Extending(m, r2)
      BY <3>2, <2>1, <2>3, <2>4 DEF Extending
    <3> QED BY <3>1, <3>3, FromEndTarget DEF InLock
  <2> QED BY <2>5, <2>6
<1> QED BY <1>1, <1>2

LEMMA UnlockInv == ASSUME IInv, NEW t \in Thread, Unlock(t) PROVE IInv'
<1>1. /\ pc[t] = "unlock" /\ AtPlace("unlock", loc[t], reserved) /\ pc[t] \in InLock
      /\ pc \in [Thread -> Place] /\ loc \in [Thread -> Loc]
  BY ThreadAtPlace DEF Unlock, InLock, IInv, ThreadInv
<1>2. /\ fatLock = t /\ cur[t] = nextFreeCluster /\ nxt[t] > cur[t]
      /\ cur[t] \in Nat /\ nxt[t] \in Nat
  BY <1>1 DEF IInv, AllocInv
<1>3. /\ reserved \in Reservations /\ reserved' \in Reservations
      /\ \A f \in File : reserved[f] <= reserved'[f]
      /\ loc[t].op # "mkdir" => reserved'[loc[t].file] = reserved[loc[t].file] + 1
  <2>1. reserved \in Reservations
    BY ReservedType
  <2>2. CASE loc[t].op = "mkdir"
    <3>1. reserved' = reserved
      BY <2>2 DEF Unlock
    <3> QED BY <2>1, <2>2, <3>1 DEF Reservations
  <2>3. CASE loc[t].op # "mkdir"
    <3>1. loc[t].file \in File
      BY <1>1, <2>3 DEF AtPlace
    <3>2. reserved' = [reserved EXCEPT ![loc[t].file] = @ + 1]
      BY <2>3 DEF Unlock
    <3> QED BY <2>1, <3>1, <3>2 DEF Reservations
  <2> QED BY <2>2, <2>3
<1> DEFINE c == cur[t]
           target == Allocated(loc[t], c)
<1>4. Goto(t, target)
  BY DEF Unlock
<1>5. AtPlace(target[1], target[2], reserved') /\ target[1] \notin InLock
  <2>1. c \in Nat
    BY <1>2
  <2> HIDE DEF c
  <2> QED BY <1>1, <1>3, <2>1, AllocatedTarget
<1> HIDE DEF target
<1>6. /\ pc' \in [Thread -> Place] /\ loc' \in [Thread -> Loc]
      /\ \A u \in Thread : /\ pc'[u] = IF u = t THEN target[1] ELSE pc[u]
                           /\ loc'[u] = IF u = t THEN target[2] ELSE loc[u]
  BY <1>1, <1>4, <1>5 DEF Goto, AtPlace
<1>7. ThreadInv'
  <2>1. ASSUME NEW u \in Thread PROVE AtPlace(pc'[u], loc'[u], reserved')
    <3>1. CASE u = t
      BY <3>1, <1>5, <1>6
    <3>2. CASE u # t
      <4>1. AtPlace(pc[u], loc[u], reserved)
        BY ThreadAtPlace
      <4>2. AtPlace(pc[u], loc[u], reserved')
        BY <4>1, <1>3, RoomGrows
      <4> QED BY <3>2, <4>2, <1>6
    <3> QED BY <3>1, <3>2
  <2> QED BY <1>6, <2>1 DEF ThreadInv
<1>8. AllocInv'
  <2>1. \A u \in Thread : pc'[u] \notin InLock
    <3> SUFFICES ASSUME NEW u \in Thread, u # t, pc[u] \in InLock PROVE FALSE
      BY <1>5, <1>6
    <3> QED BY <1>2 DEF IInv, AllocInv
  <2>2. nextFreeCluster' = nxt[t] /\ given' = Append(given, cur[t]) /\ fatLock' = None
        /\ cur' = cur /\ nxt' = nxt
    BY DEF Unlock
  <2>3. given \in Seq(Nat) /\ nextFreeCluster \in Nat
        /\ \A i \in 1 .. Len(given) : given[i] < nextFreeCluster
    BY DEF IInv, AllocInv
  <2>4. /\ given' \in Seq(Nat) /\ Len(given') = Len(given) + 1 /\ Len(given) \in Nat
        /\ \A i \in 1 .. Len(given) : given'[i] = given[i]
        /\ given'[Len(given) + 1] = cur[t]
    BY <1>2, <2>2, <2>3
  <2>5. \A i \in 1 .. Len(given') : given'[i] < nextFreeCluster'
    <3> SUFFICES ASSUME NEW i \in 1 .. Len(given') PROVE given'[i] < nextFreeCluster'
      OBVIOUS
    <3>1. CASE i = Len(given) + 1
      BY <3>1, <1>2, <2>2, <2>4
    <3>2. CASE i # Len(given) + 1
      <4>1. i \in 1 .. Len(given)
        BY <3>2, <2>4
      <4>2. given[i] \in Nat /\ given[i] < nextFreeCluster
        BY <4>1, <2>3
      <4> QED BY <4>1, <4>2, <1>2, <2>2, <2>3, <2>4
    <3> QED BY <3>1, <3>2
  <2>6. HandedOutOnce'
    <3> SUFFICES ASSUME NEW i \in 1 .. Len(given'), NEW j \in 1 .. Len(given'), i # j
                 PROVE  given'[i] # given'[j]
      BY DEF HandedOutOnce
    <3>1. \A k \in 1 .. Len(given) : given[k] # cur[t]
      BY <1>2, <2>3
    <3>2. CASE i = Len(given) + 1
      BY <3>1, <3>2, <2>4
    <3>3. CASE j = Len(given) + 1
      BY <3>1, <3>3, <2>4
    <3>4. CASE i # Len(given) + 1 /\ j # Len(given) + 1
      <4>1. i \in 1 .. Len(given) /\ j \in 1 .. Len(given)
        BY <3>4, <2>4
      <4> QED BY <4>1, <2>4 DEF IInv, AllocInv, HandedOutOnce
    <3> QED BY <3>2, <3>3, <3>4
  <2>7. nextFreeCluster' \in Nat \ {0}
    BY <1>2, <2>2
  <2> QED BY <2>1, <2>2, <2>4, <2>5, <2>6, <2>7 DEF IInv, AllocInv
<1>9. StageInv'
  <2>1. stage \in {"up", "killed"}
    BY <1>1 DEF IInv, StageInv
  <2> QED BY <2>1 DEF IInv, StageInv, Unlock, processVars, volumeVars
<1>10. ASSUME NEW f \in File, NEW b \in Nat, Fits(b, reserved[f]) PROVE Fits(b, reserved'[f])
  <2>1. reserved[f] \in Int /\ reserved'[f] \in Int /\ reserved[f] <= reserved'[f]
    BY <1>3 DEF Reservations
  <2> QED BY <2>1, <1>10, FitsMore
<1>11. VolumeInv'
  <2>1. fat' = fat /\ entry' = entry
    BY DEF Unlock, volumeVars
  <2>2. \A f \in File : entry[f].size \in Nat
    BY DEF IInv, VolumeInv, DirEntry
  <2> QED BY <2>1, <2>2, <1>10 DEF IInv, VolumeInv
<1>12. HandleInv'
  <2>1. \A f \in File : handle[f] # None => handle[f].size \in Nat
    BY DEF IInv, HandleInv, FatFile
  <2> QED BY <2>1, <1>10 DEF IInv, HandleInv, Unlock
<1>13. HistoryInv'
  <2>1. chains' \subseteq Seq(Nat)
    <3> SUFFICES ASSUME NEW k \in chains' PROVE k \in Seq(Nat)
      OBVIOUS
    <3>1. chains \subseteq Seq(Nat)
      BY DEF IInv, HistoryInv
    <3>2. CASE loc[t].op = "mkdir" \/ ~loc[t].chain
      <4>1. k \in chains \/ k = <<cur[t]>>
        BY <3>2 DEF Unlock
      <4>2. <<cur[t]>> \in Seq(Nat)
        BY <1>2
      <4> QED BY ONLY <4>1, <4>2, <3>1
    <3>3. CASE ~(loc[t].op = "mkdir" \/ ~loc[t].chain)
      <4>1. PICK q \in chains : k = IF q[Len(q)] = loc[t].last THEN Append(q, cur[t]) ELSE q
        BY <3>3 DEF Unlock
      <4> QED BY <4>1, <3>1, <1>2
    <3> QED BY <3>2, <3>3
  <2>2. calls' = calls /\ plain' = plain
    BY DEF Unlock
  <2> QED BY <2>1, <2>2, <1>3 DEF IInv, HistoryInv, Reservations
<1> QED BY <1>7, <1>8, <1>9, <1>11, <1>12, <1>13, CacheKept DEF IInv, Unlock

-----------------------------------------------------------------------------
(* The directory block and the FatFile.                                    *)

LEMMA GetBlockInv == ASSUME IInv, NEW t \in Thread, GetBlock(t) PROVE IInv'
<1> DEFINE m == [loc[t] EXCEPT !.block = entry]
           target == <<"put", m>>
<1>1. pc[t] = "block" /\ Goto(t, target) /\ AtPlace("block", loc[t], reserved)
  BY ThreadAtPlace DEF GetBlock
<1>2. entry \in [File -> DirEntry] /\ \A f \in File : Fits(entry[f].size, reserved[f])
  BY DEF IInv, VolumeInv
<1>3. /\ m \in Loc /\ m.op = loc[t].op /\ m.file = loc[t].file /\ m.f = loc[t].f
      /\ m.size = loc[t].size /\ m.block = entry
  BY <1>2, ThreadAtPlace DEF Loc
<1> HIDE DEF m
<1>4. AtPlace("put", m, reserved)
  BY <1>1, <1>2, <1>3 DEF AtPlace, Place, InLock
<1>5. AtPlace(target[1], target[2], reserved) /\ target[1] \notin InLock
  BY <1>4 DEF InLock
<1> HIDE DEF target
<1> QED BY <1>1, <1>5, WalksOn DEF GetBlock

\* What is put into the entry of a file is backed.
LEMMA NewEntryType ==
  ASSUME NEW l, NEW r \in Reservations, AtPlace("put", l, r), l.op # "mkdir"
  PROVE  NewEntry(l) \in DirEntry /\ Fits(NewEntry(l).size, r[l.file])
<1>1. /\ l \in Loc /\ l.file \in File /\ Fits(l.f.size, r[l.file])
      /\ l.op = "shrink" => Fits(l.size, r[l.file])
      /\ l.block \in [File -> DirEntry]
  BY DEF AtPlace
<1>2. l.f.size \in Nat /\ l.f.first \in Int /\ l.size \in Nat /\ r[l.file] \in Nat
  BY <1>1 DEF Loc, FatFile, Reservations
<1>3. Fits(0, r[l.file])
  BY <1>2, FatAssumption DEF Fits
<1> DEFINE e == l.block[l.file]
<1>4. e \in DirEntry
  BY <1>1
<1> HIDE DEF e
<1>5. CASE l.op = "mknod"
  BY <1>3, <1>5 DEF NewEntry, DirEntry
<1>6. CASE l.op = "unlink"
  BY <1>3, <1>6 DEF NewEntry, NoEntry, DirEntry
<1>7. CASE l.op = "shrink"
  <2> DEFINE k == [e EXCEPT !.size = l.size, !.first = IF l.size = 0 THEN 0 ELSE @]
  <2>1. NewEntry(l) = k
    BY <1>7 DEF NewEntry, e
  <2>2. k \in DirEntry /\ k.size = l.size
    <3> DEFINE k1 == [e EXCEPT !.size = l.size]
               first == IF l.size = 0 THEN 0 ELSE k1.first
    <3>1. k1 \in DirEntry /\ k1.size = l.size
      BY <1>2, <1>4 DEF DirEntry
    <3>2. first \in Int
      BY <3>1 DEF DirEntry
    <3>3. k = [k1 EXCEPT !.first = first]
      BY <1>4 DEF DirEntry
    <3> HIDE DEF k, k1, first
    <3> QED BY <3>1, <3>2, <3>3 DEF DirEntry
  <2> HIDE DEF k
  <2> QED BY <1>1, <1>7, <2>1, <2>2
<1>8. CASE l.op \notin {"mknod", "unlink", "shrink"}
  <2> DEFINE k == [e EXCEPT !.first = l.f.first, !.size = l.f.size]
  <2>1. NewEntry(l) = k
    BY <1>8 DEF NewEntry, e
  <2>2. k \in DirEntry /\ k.size = l.f.size
    BY <1>2, <1>4 DEF DirEntry
  <2> HIDE DEF k
  <2> QED BY <1>1, <2>1, <2>2
<1> QED BY <1>5, <1>6, <1>7, <1>8

LEMMA PutBlockInv == ASSUME IInv, NEW t \in Thread, PutBlock(t) PROVE IInv'
<1> DEFINE l == loc[t]
           target == CASE l.op = "write" -> Seek(l)
                       [] l.op = "unlink" -> Read("peek", l, l.f.next)
                       [] l.op = "shrink" ->
                             Read(IF l.todo > 0 THEN "shrink" ELSE "after", l, l.f.next)
                       [] OTHER -> Return
<1>1. /\ pc[t] = "put" /\ AtPlace("put", l, reserved)
      /\ entry' = IF l.op = "mkdir" THEN l.block
                  ELSE [l.block EXCEPT ![l.file] = NewEntry(l)]
      /\ Goto(t, target)
  BY ThreadAtPlace DEF PutBlock
<1>2. l \in Loc /\ (l.file \in File => Fits(l.f.size, reserved[l.file]))
  BY ThreadAtPlace
<1> HIDE DEF l
<1>3. AtPlace(target[1], target[2], reserved) /\ target[1] \notin InLock
  <2> DEFINE c == l.f.next
  <2>1. c \in Int
    BY <1>2 DEF Loc, FatFile
  <2>2. CASE l.op = "write"
    <3>1. target = Seek(l)
      BY <2>2
    <3> HIDE DEF target
    <3> QED BY <1>2, <3>1, SeekTarget DEF InLock
  <2>3. CASE l.op = "unlink"
    <3>1. target = Read("peek", l, c)
      BY <2>3
    <3>2. "peek" \in (FatPc \ (InLock \cup {"eoc"})) \cup {"data"}
      BY DEF FatPc, ReadPc, InLock
    <3> HIDE DEF target, c
    <3> QED BY ONLY <1>2, <2>1, <3>1, <3>2, ReadsOn
  <2>4. CASE l.op = "shrink"
    <3> DEFINE place == IF l.todo > 0 THEN "shrink" ELSE "after"
    <3>1. target = Read(place, l, c)
      BY <2>4
    <3>2. place \in (FatPc \ (InLock \cup {"eoc"})) \cup {"data"}
      BY DEF FatPc, ReadPc, InLock
    <3> HIDE DEF target, c, place
    <3> QED BY ONLY <1>2, <2>1, <3>1, <3>2, ReadsOn
  <2>5. CASE l.op \notin {"write", "unlink", "shrink"}
    <3>1. target = Return
      BY <2>5
    <3> HIDE DEF target
    <3> QED BY <3>1, ReturnTarget, ReservedType DEF InLock
  <2> QED BY <2>2, <2>3, <2>4, <2>5
<1> HIDE DEF target
<1>4. ThreadInv' /\ AllocInv' /\ StageInv'
  BY <1>1, <1>3, Goes DEF PutBlock, history
<1>5. VolumeInv'
  <2>1. l.op # "mkdir" =>
           NewEntry(l) \in DirEntry /\ Fits(NewEntry(l).size, reserved[l.file])
    BY <1>1, NewEntryType, ReservedType
  <2>2. /\ l.block \in [File -> DirEntry]
        /\ \A f \in File : Fits(l.block[f].size, reserved[f])
    BY <1>1 DEF AtPlace
  <2>3. CASE l.op = "mkdir"
    BY <1>1, <2>2, <2>3 DEF IInv, VolumeInv, PutBlock, history
  <2>4. CASE l.op # "mkdir"
    <3>1. /\ entry' \in [File -> DirEntry]
          /\ \A f \in File : entry'[f] = IF f = l.file THEN NewEntry(l) ELSE l.block[f]
      BY <1>1, <2>1, <2>2, <2>4
    <3>2. \A f \in File : Fits(entry'[f].size, reserved[f])
      BY <2>1, <2>2, <2>4, <3>1
    <3> QED BY <3>1, <3>2 DEF IInv, VolumeInv, PutBlock, history
  <2> QED BY <2>3, <2>4
<1> QED BY <1>4, <1>5, CacheKept, HandleKept, HistoryKept DEF IInv, PutBlock, history

LEMMA DataInv == ASSUME IInv, NEW t \in Thread, Data(t) PROVE IInv'
<1> DEFINE l == loc[t]
           w == IF l.f.write = 0 THEN l.cluster ELSE l.f.write
           g == [l.f EXCEPT !.write = w]
<1>1. pc[t] = "data" /\ Goto(t, Return)
  BY DEF Data
<1>2. AtPlace(Return[1], Return[2], reserved) /\ Return[1] \notin InLock
  BY ReturnTarget, ReservedType DEF InLock
<1>3. ThreadInv' /\ AllocInv' /\ StageInv'
  BY <1>1, <1>2, Goes DEF Data, volumeVars, history
<1>4. HandleInv'
  <2>1. l \in Loc /\ (l.file \in File => Fits(l.f.size, reserved[l.file]))
    BY ThreadAtPlace
  <2>2. handle' = [handle EXCEPT ![l.file] = g]
    BY DEF Data
  <2> HIDE DEF l
  <2>3. l.f \in FatFile /\ w \in Int
    BY <2>1 DEF Loc, FatFile
  <2> HIDE DEF w
  <2>4. g \in FatFile /\ g.size = l.f.size
    BY <2>3 DEF FatFile
  <2> HIDE DEF g
  <2>5. handle \in [File -> FatFile \cup {None}] /\ reserved' = reserved
    BY DEF IInv, HandleInv, Data, history
  <2>6. /\ handle' \in [File -> FatFile \cup {None}]
        /\ \A f \in File : handle'[f] = IF f = l.file THEN g ELSE handle[f]
    BY <2>2, <2>4, <2>5
  <2>7. ASSUME NEW f \in File, handle'[f] # None
        PROVE  handle'[f] \in FatFile /\ Fits(handle'[f].size, reserved'[f])
    <3>1. CASE f = l.file
      BY <3>1, <2>1, <2>4, <2>5, <2>6
    <3>2. CASE f # l.file
      BY <3>2, <2>5, <2>6, <2>7 DEF IInv, HandleInv
    <3> QED BY <3>1, <3>2
  <2> QED BY <2>6, <2>7 DEF HandleInv
<1> QED BY <1>3, <1>4, VolumeKept, CacheKept, HistoryKept DEF IInv, Data, volumeVars, history

-----------------------------------------------------------------------------
(* Flush and release.                                                      *)

LEMMA FlushPutInv == ASSUME IInv, NEW t \in Thread, FlushPut(t) PROVE IInv'
<1>1. /\ pc[t] = "flush" /\ loc[t] \in Loc /\ loc[t].block \in SUBSET Sector
      /\ loc[t].file \in File => Fits(loc[t].f.size, reserved[loc[t].file])
  BY ThreadAtPlace DEF FlushPut, AtPlace
<1>2. PICK s \in loc[t].block :
        LET l == [loc[t] EXCEPT !.block = @ \ {s}, !.last = s] IN
        IF modificado[s]
        THEN fat' = [fat EXCEPT ![s] = cached[s]] /\ Goto(t, <<"clear", l>>)
        ELSE Goto(t, <<"flush", l>>) /\ UNCHANGED fat
  BY DEF FlushPut
<1> DEFINE b == loc[t].block \ {s}
           l == [loc[t] EXCEPT !.block = b, !.last = s]
<1>3. s \in Sector /\ s \in Int /\ b \in SUBSET Sector
  BY <1>1 DEF Sector
<1>4. PICK place \in {"clear", "flush"} : Goto(t, <<place, l>>)
  BY <1>2
<1> HIDE DEF b
<1>5. AtPlace(place, l, reserved)
  <2> DEFINE l1 == [loc[t] EXCEPT !.block = b]
  <2>1. l1 \in Loc /\ l1.file = loc[t].file /\ l1.f = loc[t].f /\ l1.block = b
    BY <1>1, <1>3 DEF Loc
  <2>2. l = [l1 EXCEPT !.last = s]
    BY <1>1 DEF Loc
  <2> HIDE DEF l, l1
  <2>3. l \in Loc /\ l.file = l1.file /\ l.f = l1.f /\ l.block = l1.block
    BY <1>3, <2>1, <2>2 DEF Loc
  <2> QED BY <1>1, <1>3, <2>1, <2>3 DEF AtPlace, Place, InLock
<1> HIDE DEF l
<1> DEFINE target == <<place, l>>
<1>6. Goto(t, target) /\ AtPlace(target[1], target[2], reserved) /\ target[1] \notin InLock
  BY <1>4, <1>5 DEF InLock
<1> HIDE DEF target
<1>7. ThreadInv' /\ AllocInv' /\ StageInv'
  BY <1>1, <1>6, Goes DEF FlushPut, history
<1>8. VolumeInv'
  <2>1. fat' \in [Sector -> FatSector]
    BY <1>2, <1>3 DEF IInv, VolumeInv, CacheInv
  <2> QED BY <2>1 DEF IInv, VolumeInv, FlushPut, history
<1> QED BY <1>7, <1>8, CacheKept, HandleKept, HistoryKept DEF IInv, FlushPut, history

LEMMA FlushClearInv == ASSUME IInv, NEW t \in Thread, FlushClear(t) PROVE IInv'
<1> DEFINE target == <<"flush", loc[t]>>
<1>1. pc[t] = "clear" /\ Goto(t, target)
  BY DEF FlushClear
<1>2. AtPlace(target[1], target[2], reserved) /\ target[1] \notin InLock
  BY <1>1, ThreadAtPlace DEF AtPlace, Place, InLock
<1> HIDE DEF target
<1>3. ThreadInv' /\ AllocInv' /\ StageInv'
  BY <1>1, <1>2, Goes DEF FlushClear, volumeVars
<1>4. CacheInv'
  BY DEF IInv, CacheInv, FlushClear
<1>5. HistoryInv'
  BY DEF IInv, HistoryInv, FlushClear
<1> QED BY <1>3, <1>4, <1>5, VolumeKept, HandleKept DEF IInv, FlushClear, volumeVars

LEMMA ReleaseInv == ASSUME IInv, NEW t \in Thread, Release(t) PROVE IInv'
<1>1. pc[t] = "flush" /\ Goto(t, Return)
  BY DEF Release
<1>2. AtPlace(Return[1], Return[2], reserved) /\ Return[1] \notin InLock
  BY ReturnTarget, ReservedType DEF InLock
<1>3. ThreadInv' /\ AllocInv' /\ StageInv'
  BY <1>1, <1>2, Goes DEF Release, volumeVars, history
<1>4. HandleInv'
  BY DEF IInv, HandleInv, Release, history
<1> QED BY <1>3, <1>4, VolumeKept, CacheKept, HistoryKept DEF IInv, Release, volumeVars, history

-----------------------------------------------------------------------------
(* Exit and mount, when the volume is not mounted again after an early     *)
(* exit.                                                                   *)

LEMMA ThreadKept == ASSUME ThreadInv, UNCHANGED <<pc, loc, reserved>> PROVE ThreadInv'
  BY DEF ThreadInv

LEMMA ProcessInv == ASSUME RemountKilled = FALSE, IInv, Process PROVE IInv'
<1>1. ASSUME Unmount \/ ExitFlush \/ ExitFsInfo \/ EarlyExit
      PROVE  ThreadInv' /\ HandleInv' /\ HistoryInv'
  BY <1>1, ThreadKept, HandleKept, HistoryKept
  DEF IInv, Unmount, ExitFlush, ExitFsInfo, EarlyExit, threadVars, history
<1>2. CASE Unmount
  <2>1. VolumeInv' /\ CacheInv' /\ AllocInv'
    BY <1>2, VolumeKept, CacheKept, AllocKept DEF IInv, Unmount, volumeVars, threadVars, history
  <2>2. StageInv'
    BY <1>2 DEF IInv, StageInv, Unmount, volumeVars, threadVars
  <2> QED BY <1>1, <1>2, <2>1, <2>2 DEF IInv
<1>3. CASE ExitFlush
  <2>1. AllocInv'
    BY <1>3, AllocKept DEF IInv, ExitFlush, threadVars, history
  <2>2. CacheInv'
    BY <1>3 DEF IInv, CacheInv, ExitFlush
  <2>3. VolumeInv'
    BY <1>3 DEF IInv, VolumeInv, CacheInv, ExitFlush, history
  <2>4. StageInv'
    BY <1>3 DEF IInv, StageInv, ExitFlush, threadVars
  <2> QED BY <1>1, <1>3, <2>1, <2>2, <2>3, <2>4 DEF IInv
<1>4. CASE ExitFsInfo
  <2>1. VolumeInv' /\ CacheInv' /\ AllocInv'
    BY <1>4, VolumeKept, CacheKept, AllocKept DEF IInv, ExitFsInfo, threadVars, history
  <2>2. nextFreeCluster - 1 \in Nat
    BY DEF IInv, AllocInv
  <2>3. StageInv'
    BY <1>4, <2>2 DEF IInv, StageInv, ExitFsInfo, threadVars, allocVars
  <2> QED BY <1>1, <1>4, <2>1, <2>3 DEF IInv
<1>5. CASE EarlyExit
  <2>1. VolumeInv' /\ CacheInv' /\ AllocInv'
    BY <1>5, VolumeKept, CacheKept, AllocKept
    DEF IInv, EarlyExit, volumeVars, threadVars, history
  <2>2. StageInv'
    BY <1>5 DEF IInv, StageInv, EarlyExit, volumeVars, threadVars
  <2> QED BY <1>1, <1>5, <2>1, <2>2 DEF IInv
<1>6. CASE Mount
  <2> USE DEF NewProcess
  <2>1. nextFreeCluster' = nextFreeCluster
    BY <1>6 DEF IInv, StageInv, AllocInv, Mount
  <2>2. \A t \in Thread : pc'[t] = "idle" /\ loc'[t] = NoLoc
    BY <1>6 DEF Mount
  <2>3. ThreadInv'
    <3>1. AtPlace("idle", NoLoc, reserved)
      BY ReturnTarget, ReservedType DEF Return
    <3>2. NoLoc \in Loc /\ "idle" \in Place /\ reserved' = reserved
      BY <1>6, <3>1 DEF AtPlace, Mount, history
    <3>3. pc' \in [Thread -> Place] /\ loc' \in [Thread -> Loc]
      BY <1>6, <3>2 DEF Mount
    <3> QED BY <2>2, <3>1, <3>2, <3>3 DEF ThreadInv
  <2>4. HandleInv' /\ HistoryInv'
    <3>1. HandleInv'
      BY <1>6 DEF HandleInv, Mount
    <3> QED BY <1>6, <3>1, HistoryKept DEF IInv, Mount, history
  <2>5. VolumeInv'
    BY <1>6, VolumeKept DEF IInv, Mount, volumeVars, history
  <2>6. AllocInv'
    <3>1. \A t \in Thread : pc'[t] \notin InLock
      BY <2>2 DEF InLock
    <3>2. fatLock' = None /\ UNCHANGED <<cur, nxt, given>>
      BY <1>6 DEF Mount, history
    <3> QED BY <2>1, <3>1, <3>2 DEF IInv, AllocInv, HandedOutOnce
  <2>7. CacheInv'
    <3>1. 0 \in Sector => fat[0] \in FatSector
      BY DEF IInv, VolumeInv
    <3> QED BY <1>6, <3>1 DEF CacheInv, Mount
  <2>8. StageInv'
    BY <1>6, FatAssumption DEF IInv, StageInv, Mount, volumeVars
  <2> QED BY <2>3, <2>4, <2>5, <2>6, <2>7, <2>8 DEF IInv
<1> QED BY <1>2, <1>3, <1>4, <1>5, <1>6 DEF Process

LEMMA StartInv == ASSUME IInv, NEW t \in Thread, Start(t) PROVE IInv'
<1>1. CASE Mkdir(t)
  BY <1>1, MkdirInv
<1>2. ASSUME NEW f \in File,
             \/ Mknod(t, f) \/ Open(t, f) \/ Write(t, f)
             \/ TruncateUp(t, f) \/ TruncateDown(t, f)
             \/ Unlink(t, f) \/ Close(t, f) \/ Finfo(t, f)
      PROVE  IInv'
  BY <1>2, MknodInv, OpenInv, WriteInv, TruncateUpInv, TruncateDownInv, UnlinkInv, CloseInv,
     FinfoInv
<1> QED BY <1>1, <1>2 DEF Start

LEMMA StepInv == ASSUME IInv, NEW t \in Thread, Step(t) PROVE IInv'
<1>1. CASE Hit(t) \/ Miss(t) \/ Fill(t) \/ Outside(t)
  BY <1>1, HitInv, MissInv, FillInv, OutsideInv
<1>2. CASE Lock(t) \/ Scan(t) \/ Mark(t) \/ Link(t) \/ Unlock(t) \/ FindEOC(t)
  BY <1>2, LockInv, ScanInv, MarkInv, LinkInv, UnlockInv, FindEOCInv
<1>3. CASE GetBlock(t) \/ PutBlock(t) \/ Walk(t) \/ Data(t)
  BY <1>3, GetBlockInv, PutBlockInv, WalkInv, DataInv
<1>4. CASE Peek(t) \/ FreeEntry(t) \/ Shrink(t) \/ After(t) \/ Cut(t) \/ Drop(t)
  BY <1>4, PeekInv, FreeEntryInv, ShrinkInv, AfterInv, CutInv, DropInv
<1>5. CASE FlushPut(t) \/ FlushClear(t) \/ Release(t)
  BY <1>5, FlushPutInv, FlushClearInv, ReleaseInv
<1> QED BY <1>1, <1>2, <1>3, <1>4, <1>5 DEF Step, Operate

LEMMA StutterInv == ASSUME IInv, UNCHANGED vars PROVE IInv'
<1> USE DEF vars, processVars, volumeVars, threadVars, history
<1>1. ThreadInv' /\ VolumeInv' /\ CacheInv' /\ HandleInv' /\ HistoryInv'
  BY ThreadKept, VolumeKept, CacheKept, HandleKept, HistoryKept DEF IInv
<1>2. AllocInv'
  BY AllocKept DEF IInv
<1>3. StageInv'
  BY DEF IInv, StageInv, allocVars
<1> QED BY <1>1, <1>2, <1>3 DEF IInv

\* The inductive invariant: who is in the lock and on which cluster, that
\* everything handed out lies below it, what an exit records, and what every
\* thread, entry and FatFile may say of a size.
THEOREM Invariant == ASSUME RemountKilled = FALSE PROVE Spec => []IInv
<1>1. IInv /\ [Next]_vars => IInv'
  <2> SUFFICES ASSUME IInv, [Next]_vars PROVE IInv'
    OBVIOUS
  <2> QED BY StartInv, StepInv, ProcessInv, StutterInv DEF Next
<1> QED BY <1>1, InitInv, PTL DEF Spec

\* Every variable keeps to its type: in particular the next free cluster and
\* its record are never negative, and a sector of the cache is one of the FAT.
THEOREM TypeCorrect == ASSUME RemountKilled = FALSE PROVE Spec => []TypeOK
<1>1. IInv => TypeOK
  <2> SUFFICES ASSUME IInv PROVE TypeOK
    OBVIOUS
  <2>1. pc \in [Thread -> FatPc \cup InLock \cup
                  {"idle", "lock", "block", "put", "data", "flush", "clear", "outside"}]
    BY DEF IInv, ThreadInv, Place
  <2>2. fat \in [Sector -> [Slot -> Int]] /\ entry \in [File -> [used : BOOLEAN, first : Int, size : Nat]]
    BY DEF IInv, VolumeInv, FatSector, DirEntry
  <2>3. /\ \A s \in Sector : cached[s] # None => cached[s] \in [Slot -> Int]
        /\ modificado \in [Sector -> BOOLEAN]
    BY DEF IInv, CacheInv, FatSector
  <2>4. \A f \in File : handle[f] # None => handle[f] \in FatFile
    BY DEF IInv, HandleInv
  <2> QED BY <2>1, <2>2, <2>3, <2>4 DEF IInv, AllocInv, StageInv, HistoryInv, TypeOK
<1> QED BY <1>1, Invariant, PTL

\* The size in a directory entry never exceeds the clusters reserved under the
\* name, although calls write it from copies of the block and of the FatFile
\* that may be out of date.
THEOREM SizesBacked == ASSUME RemountKilled = FALSE PROVE Spec => []Backed
<1>1. IInv => Backed
  BY DEF IInv, VolumeInv, Fits, Backed
<1> QED BY <1>1, Invariant, PTL

\* No cluster is handed out twice, by whatever threads and through however
\* many orderly exits and mounts.
THEOREM NoneTwice == ASSUME RemountKilled = FALSE PROVE Spec => []HandedOutOnce
<1>1. IInv => HandedOutOnce
  BY DEF IInv, AllocInv
<1> QED BY <1>1, Invariant, PTL

-----------------------------------------------------------------------------
(* The refinement: what is handed out is the only thing the dispenser has, *)
(* and the end of an allocation is its step.                               *)

LEMMA CallGivesNone ==
  ASSUME NEW t, NEW op, NEW f, NEW target, Call(t, op, f, target) PROVE given' = given
  BY DEF Call

LEMMA OthersGiveNone ==
  ASSUME [Next]_vars, given' # given
  PROVE  \E t \in Thread : Unlock(t)
<1>1. CASE Process
  BY <1>1 DEF Process, Unmount, ExitFlush, ExitFsInfo, EarlyExit, Mount, history
<1>2. ASSUME NEW t \in Thread, Start(t) PROVE FALSE
  <2>1. ~Mkdir(t)
    BY CallGivesNone DEF Mkdir
  <2>2. ASSUME NEW f \in File PROVE ~(Mknod(t, f) \/ Open(t, f) \/ Unlink(t, f))
    BY CallGivesNone DEF Mknod, Open, Unlink
  <2>3. ASSUME NEW f \in File PROVE ~(Write(t, f) \/ TruncateUp(t, f) \/ TruncateDown(t, f))
    BY CallGivesNone DEF Write, TruncateUp, TruncateDown
  <2>4. ASSUME NEW f \in File PROVE ~(Close(t, f) \/ Finfo(t, f))
    BY CallGivesNone DEF Close, Finfo
  <2> QED BY <1>2, <2>1, <2>2, <2>3, <2>4 DEF Start
<1>3. ASSUME NEW t \in Thread, Step(t) PROVE Unlock(t)
  <2> USE DEF history
  <2>1. ~(Hit(t) \/ Miss(t) \/ Fill(t) \/ Outside(t))
    BY DEF Hit, Miss, Fill, Outside
  <2>2. ~(Lock(t) \/ Scan(t) \/ Mark(t) \/ Link(t) \/ FindEOC(t))
    BY DEF Lock, Scan, Mark, Link, FindEOC
  <2>3. ~(GetBlock(t) \/ PutBlock(t) \/ Walk(t) \/ Data(t))
    BY DEF GetBlock, PutBlock, Walk, Data
  <2>4. ~(Peek(t) \/ FreeEntry(t) \/ Shrink(t) \/ After(t) \/ Cut(t) \/ Drop(t))
    BY DEF Peek, FreeEntry, Shrink, After, Cut, Drop
  <2>5. ~(FlushPut(t) \/ FlushClear(t) \/ Release(t))
    BY DEF FlushPut, FlushClear, Release
  <2> QED BY <1>3, <2>1, <2>2, <2>3, <2>4, <2>5 DEF Step, Operate
<1>4. CASE UNCHANGED vars
  BY <1>4 DEF vars, history
<1> QED BY <1>1, <1>2, <1>3, <1>4 DEF Next

\* The allocation implements ClusterDispenser.
THEOREM Implements == ASSUME RemountKilled = FALSE PROVE Spec => Dispenses
<1>1. Init => Dispenser!Init
  BY DEF Init, Dispenser!Init
<1>2. IInv /\ [Next]_vars => [Dispenser!Next]_given
  <2> SUFFICES ASSUME IInv, [Next]_vars, given' # given PROVE Dispenser!Next
    OBVIOUS
  <2>1. PICK t \in Thread : Unlock(t)
    BY OthersGiveNone
  <2>2. /\ cur[t] \in Nat /\ cur[t] = nextFreeCluster
        /\ given \in Seq(Nat) /\ \A i \in 1 .. Len(given) : given[i] < nextFreeCluster
    BY <2>1 DEF Unlock, InLock, IInv, AllocInv
  <2>3. given' = Append(given, cur[t])
    BY <2>1 DEF Unlock
  <2>4. given'[Len(given')] = cur[t] /\ given' # <<>>
    BY <2>2, <2>3
  <2>5. cur[t] \notin Dispenser!Given
    BY <2>2 DEF Dispenser!Given
  <2> QED BY <2>3, <2>4, <2>5 DEF Dispenser!Next, Dispenser!Give
<1> QED BY <1>1, <1>2, Invariant, PTL DEF Spec, Dispenses, Dispenser!Spec
-----------------------------------------------------------------------------
(* The chains of the FAT in plain runs.  What is said of a thread is said  *)
(* of its place p, its locals l, its allocation cu and nx, the cache ca,   *)
(* the volume fa, the chains ch, and own, the file that a chain was made   *)
(* for, by the first cluster of the chain.                                 *)

EndOf(c) == c[Len(c)]

\* The entry of a cluster as it is seen through a cache.
Seen(ca, fa, c) == (IF ca[SectorOf(c)] # None THEN ca ELSE fa)[SectorOf(c)][SlotOf(c)]

\* A first cluster that an entry or a FatFile of a file names.
Owned(x, f, own, ch) == x # 0 => own[x] = f /\ \E c \in ch : c[1] = x

\* A FatFile of a file has the chain of its first cluster, and its end if any.
Sound(h, f, own, ch) ==
    /\ h.first = h.next
    /\ h.next = 0 => h.eoc = 0
    /\ Owned(h.next, f, own, ch)
    /\ h.next # 0 => \E c \in ch : c[1] = h.next /\ h.eoc \in {0, EndOf(c)}

\* An answer of the volume that is under way is what the cache does not have
\* yet, and a sector that a thread has read is in the cache.
Answer(p, l, ca, fa) ==
    p \in FatPc =>
        /\ p \in {"scan", "eoc", "walk", "mark", "link"}
        /\ l.fetched # None =>
              /\ InFat(l.cluster)
              /\ ca[SectorOf(l.cluster)] = None => l.fetched = fa[SectorOf(l.cluster)]
        /\ l.sector # None => InFat(l.cluster) /\ ca[SectorOf(l.cluster)] # None

\* The thread in the lock has sectors that nobody has changed since, takes the
\* cluster after its own for the next free one, and has marked it in advance.
Locker(p, l, cu, nx, ca, fa) ==
    /\ p \in InLock => nx = cu + 1
    /\ p = "scan" => l.cluster = nx /\ l.slot = SlotOf(nx)
    /\ p = "mark" => l.cluster = cu
    /\ p = "link" => l.chain /\ l.cluster = l.last
    /\ p \in {"scan", "mark", "link"} /\ l.sector # None => l.sector = ca[SectorOf(l.cluster)]
    /\ p \in {"link", "unlock"} => InFat(cu) /\ InFat(nx) /\ Seen(ca, fa, nx) = EOC
    /\ p = "unlock" /\ l.chain => InFat(l.last) /\ Seen(ca, fa, l.last) = cu

\* The cluster to link to is the end of the file's chain, and the search for it
\* is on that chain.
Extender(p, l, ca, fa, ch) ==
    /\ p \in InLock \cup {"lock"} =>
          /\ l.op \in {"write", "extend", "mkdir"}
          /\ l.chain => l.op # "mkdir" /\ l.last = l.f.eoc /\ l.f.eoc # 0
          /\ ~l.chain => l.op = "mkdir" \/ l.f.next = 0
    /\ p = "eoc" =>
          /\ l.op \in {"write", "extend"} /\ l.f.next # 0 /\ l.f.eoc = 0
          /\ \E c \in ch : c[1] = l.f.next /\ \E i \in 1 .. Len(c) : l.cluster = c[i]
          /\ l.sector # None => l.sector[SlotOf(l.cluster)] = Seen(ca, fa, l.cluster)

Caller(p, l, own, ch) ==
    /\ p # "idle" /\ l.op \in {"write", "extend"} =>
          l.file \in File /\ Sound(l.f, l.file, own, ch)
    /\ p \in {"block", "put"} => l.op \in {"mknod", "write", "extend", "mkdir"}
    /\ p = "put" => \A g \in File : Owned(l.block[g].first, g, own, ch)
    /\ p = "data" => l.op = "write"
    /\ p = "walk" => l.op \in {"write", "finfo"}
    /\ p = "walk" /\ l.op = "finfo" => l.todo >= 1
    /\ p \in {"flush", "clear"} => l.op = "close"

OnChain(p, l, cu, nx, own, ca, fa, ch) ==
    /\ Answer(p, l, ca, fa)
    /\ Locker(p, l, cu, nx, ca, fa)
    /\ Extender(p, l, ca, fa, ch)
    /\ Caller(p, l, own, ch)

Extends(t) == pc[t] # "idle" /\ loc[t].op \in {"write", "extend"}

\* Chains are of clusters handed out, and have none in common.
ChainShape ==
    /\ \A c \in chains : Len(c) > 0
    /\ \A c \in chains : \A i \in 1 .. Len(c) :
          InFat(c[i]) /\ 0 < c[i] /\ c[i] < nextFreeCluster
    /\ \A c, d \in chains : \A i \in 1 .. Len(c), j \in 1 .. Len(d) :
          c[i] = d[j] => c = d /\ i = j

Linking(x) == \E t \in Thread : pc[t] = "unlock" /\ loc[t].chain /\ loc[t].last = x

Linked ==
    \A c \in chains : \A i \in 1 .. Len(c) :
        IF i < Len(c) THEN Seen(cached, fat, c[i]) = c[i + 1]
                      ELSE Seen(cached, fat, c[i]) = EOC \/ Linking(c[i])

\* The next free cluster is marked already and all above it are free.
FreeAbove ==
    /\ InFat(nextFreeCluster) => Seen(cached, fat, nextFreeCluster) = EOC
    /\ \A c : InFat(c) /\ c > nextFreeCluster /\ Seen(cached, fat, c) # Free =>
          c = nextFreeCluster + 1 /\ \E t \in Thread : pc[t] \in {"link", "unlock"}

\* What is in the cache and not marked is on the volume.
UnmarkedWritten ==
    /\ \A s \in Sector : cached[s] # None /\ ~modificado[s] => cached[s] = fat[s]
    /\ stage \in {"flushed", "down"} => \A s \in Sector : ~modificado[s]

FilesApart ==
    \A t, u \in Thread : Extends(t) /\ Extends(u) /\ loc[t].file = loc[u].file => t = u

Entries(own) == \A f \in File : Owned(entry[f].first, f, own, chains)

\* An open file's FatFile is sound but while a write of the file is under way,
\* and nobody makes the file longer behind it.
Handles(own) ==
    \A f \in File : handle[f] # None =>
        \/ \E t \in Thread : pc[t] # "idle" /\ loc[t].op = "write" /\ loc[t].file = f
        \/ /\ Sound(handle[f], f, own, chains)
           /\ \A t \in Thread : pc[t] # "idle" /\ loc[t].file = f => loc[t].op # "extend"

Threads(own) ==
    \A t \in Thread : OnChain(pc[t], loc[t], cur[t], nxt[t], own, cached, fat, chains)

Plainly(own) ==
    /\ ChainShape /\ Linked /\ FreeAbove /\ UnmarkedWritten /\ FilesApart
    /\ Entries(own) /\ Handles(own) /\ Threads(own)

Owners == [Int -> File \cup {None}]

ChainsInv == plain => \E own \in Owners : Plainly(own)
-----------------------------------------------------------------------------
(* Entries and their sectors.                                              *)

LEMMA Coordinates ==
  ASSUME NEW c, InFat(c), NEW d, InFat(d), SectorOf(c) = SectorOf(d), SlotOf(c) = SlotOf(d)
  PROVE  c = d
<1> DEFINE q == c \div EntriesPerSector
           r == d \div EntriesPerSector
<1>1. c \in Nat /\ d \in Nat
  BY FatAssumption DEF InFat
<1>2. q \in Nat /\ c = EntriesPerSector * q + (c % EntriesPerSector)
  BY <1>1, FatAssumption
<1>3. r \in Nat /\ d = EntriesPerSector * r + (d % EntriesPerSector)
  BY <1>1, FatAssumption
<1>4. q = r /\ c % EntriesPerSector = d % EntriesPerSector
  BY DEF SectorOf, SlotOf
<1> QED BY ONLY <1>2, <1>3, <1>4

LEMMA NextSlot ==
  ASSUME NEW c, InFat(c), SlotOf(c) + 1 \in Slot
  PROVE  /\ InFat(c + 1) /\ c \in Nat
         /\ SectorOf(c + 1) = SectorOf(c) /\ SlotOf(c + 1) = SlotOf(c) + 1
<1> DEFINE E == EntriesPerSector
           q == c \div E
           r == c % E
<1>1. c \in Nat /\ c < E * FatSectors
  BY FatAssumption DEF InFat
<1>2. q \in Nat /\ r \in 0 .. E - 1 /\ c = E * q + r /\ r + 1 < E
  BY <1>1, FatAssumption DEF SlotOf, Slot
<1>3. q < FatSectors
  BY SectorType, FatAssumption DEF SectorOf, Sector
<1>4. E * (q + 1) <= E * FatSectors
  <2> HIDE DEF q
  <2> QED BY <1>2, <1>3, FatAssumption
<1>5. E * (q + 1) = E * q + E
  BY <1>2, FatAssumption
<1>6. c + 1 = E * q + (r + 1)
  BY <1>2, FatAssumption
<1>7. InFat(c + 1)
  BY <1>1, <1>2, <1>4, <1>5, <1>6, FatAssumption DEF InFat
<1>8. (c + 1) \div E = q /\ (c + 1) % E = r + 1
  <2> HIDE DEF q, r
  <2> QED BY <1>1, <1>2, <1>6, FatAssumption
<1> QED BY <1>1, <1>7, <1>8 DEF SectorOf, SlotOf
-----------------------------------------------------------------------------
(* Changes of the cache and the volume.                                    *)

\* The cache gets what the volume has, and the volume what the cache has.
Quiet(ca, fa, ca2, fa2) ==
    \A s \in Sector :
        /\ ca[s] # None => ca2[s] = ca[s]
        /\ ca[s] = None => fa2[s] = fa[s] /\ ca2[s] \in {None, fa[s]}

LEMMA QuietSeen ==
  ASSUME NEW ca, NEW fa, NEW ca2, NEW fa2, Quiet(ca, fa, ca2, fa2), NEW c, InFat(c)
  PROVE  Seen(ca2, fa2, c) = Seen(ca, fa, c)
<1>1. SectorOf(c) \in Sector
  BY SectorType
<1> QED BY <1>1 DEF Quiet, Seen

LEMMA QuietOnChain ==
  ASSUME NEW p, NEW l, NEW cu, NEW nx, NEW own, NEW ca, NEW fa, NEW ch,
         OnChain(p, l, cu, nx, own, ca, fa, ch),
         NEW ca2, NEW fa2, Quiet(ca, fa, ca2, fa2)
  PROVE  OnChain(p, l, cu, nx, own, ca2, fa2, ch)
<1>1. Answer(p, l, ca2, fa2)
  <2>1. InFat(l.cluster) => SectorOf(l.cluster) \in Sector
    BY SectorType
  <2> QED BY <2>1 DEF OnChain, Answer, Quiet
<1>2. Locker(p, l, cu, nx, ca2, fa2)
  <2>1. InFat(l.cluster) => SectorOf(l.cluster) \in Sector
    BY SectorType
  <2>2. p \in {"scan", "mark", "link"} /\ l.sector # None => l.sector = ca2[SectorOf(l.cluster)]
    BY <2>1 DEF OnChain, Answer, Locker, Quiet, FatPc, ReadPc, ChangePc
  <2>3. p \in {"link", "unlock"} => Seen(ca2, fa2, nx) = EOC
    BY QuietSeen DEF OnChain, Locker
  <2>4. p = "unlock" /\ l.chain => Seen(ca2, fa2, l.last) = cu
    BY QuietSeen DEF OnChain, Locker
  <2> QED BY <2>2, <2>3, <2>4 DEF OnChain, Locker
<1>3. Extender(p, l, ca2, fa2, ch)
  <2>1. p = "eoc" /\ l.sector # None => Seen(ca2, fa2, l.cluster) = Seen(ca, fa, l.cluster)
    BY QuietSeen DEF OnChain, Answer, FatPc, ReadPc
  <2> QED BY <2>1 DEF OnChain, Extender
<1> QED BY <1>1, <1>2, <1>3 DEF OnChain

\* One entry of a cached sector gets a value.
PutsEntry(ca, ca2, e, v) ==
    ca2 = [ca EXCEPT ![SectorOf(e)] = [ca[SectorOf(e)] EXCEPT ![SlotOf(e)] = v]]

LEMMA PutSectors ==
  ASSUME NEW ca \in [Sector -> FatSector \cup {None}], NEW ca2, NEW e, NEW v \in Int,
         InFat(e), ca[SectorOf(e)] # None, PutsEntry(ca, ca2, e, v)
  PROVE  /\ \A s \in Sector : ca2[s] = None <=> ca[s] = None
         /\ \A s \in Sector : s # SectorOf(e) => ca2[s] = ca[s]
<1> DEFINE s0 == SectorOf(e)
           new == [ca[s0] EXCEPT ![SlotOf(e)] = v]
<1>1. s0 \in Sector /\ ca[s0] \in FatSector
  BY SectorType
<1>2. new \in FatSector /\ None \notin FatSector
  BY <1>1, FatAssumption DEF FatSector, Slot
<1>3. \A s \in Sector : ca2[s] = IF s = s0 THEN new ELSE ca[s]
  BY <1>1 DEF PutsEntry
<1> HIDE DEF new
<1> QED BY <1>1, <1>2, <1>3

LEMMA PutSeen ==
  ASSUME NEW ca \in [Sector -> FatSector \cup {None}], NEW fa, NEW ca2, NEW e, NEW v \in Int,
         InFat(e), ca[SectorOf(e)] # None, PutsEntry(ca, ca2, e, v)
  PROVE  /\ \A s \in Sector : ca2[s] = None <=> ca[s] = None
         /\ \A s \in Sector : s # SectorOf(e) => ca2[s] = ca[s]
         /\ \A c : InFat(c) => Seen(ca2, fa, c) = IF c = e THEN v ELSE Seen(ca, fa, c)
<1> DEFINE s0 == SectorOf(e)
           k0 == SlotOf(e)
           new == [ca[s0] EXCEPT ![k0] = v]
<1>1. s0 \in Sector /\ ca[s0] \in FatSector
  BY SectorType
<1>2. e \in Int /\ k0 \in Slot
  <2>1. e \in Int
    BY FatAssumption DEF InFat
  <2> QED BY <2>1, SlotType
<1>3. new \in FatSector
  BY <1>1 DEF FatSector
<1>4. None \notin FatSector
  BY FatAssumption DEF FatSector, Slot
<1>5. \A s \in Sector : ca2[s] = IF s = s0 THEN new ELSE ca[s]
  BY <1>1 DEF PutsEntry
<1>6. ASSUME NEW c, InFat(c) PROVE Seen(ca2, fa, c) = IF c = e THEN v ELSE Seen(ca, fa, c)
  <2>1. SectorOf(c) \in Sector /\ SlotOf(c) \in Slot
    <3>1. c \in Int
      BY <1>6, FatAssumption DEF InFat
    <3> QED BY <3>1, <1>6, SlotType, SectorType
  <2>2. CASE SectorOf(c) # s0
    BY <2>1, <2>2, <1>5 DEF Seen
  <2>3. CASE SectorOf(c) = s0
    <3>1. Seen(ca2, fa, c) = new[SlotOf(c)] /\ Seen(ca, fa, c) = ca[s0][SlotOf(c)]
      BY <2>1, <2>3, <1>1, <1>3, <1>4, <1>5 DEF Seen
    <3>2. new[SlotOf(c)] = IF SlotOf(c) = k0 THEN v ELSE ca[s0][SlotOf(c)]
      BY <2>1, <1>1 DEF FatSector
    <3>3. SlotOf(c) = k0 <=> c = e
      BY <2>3, <1>6, Coordinates
    <3> QED BY <3>1, <3>2, <3>3
  <2> QED BY <2>2, <2>3
<1> HIDE DEF new
<1> QED BY <1>1, <1>3, <1>4, <1>5, <1>6

\* Who is outside the lock is not touched by a change of another entry.
LEMMA PutOnChain ==
  ASSUME NEW p, NEW l, NEW cu, NEW nx, NEW own, NEW fa, NEW ch,
         NEW ca \in [Sector -> FatSector \cup {None}], NEW ca2, NEW e, NEW v \in Int,
         OnChain(p, l, cu, nx, own, ca, fa, ch), p \notin InLock,
         InFat(e), ca[SectorOf(e)] # None, PutsEntry(ca, ca2, e, v),
         p = "eoc" => l.cluster # e
  PROVE  OnChain(p, l, cu, nx, own, ca2, fa, ch)
<1>1. /\ \A s \in Sector : ca2[s] = None <=> ca[s] = None
      /\ \A c : InFat(c) => Seen(ca2, fa, c) = IF c = e THEN v ELSE Seen(ca, fa, c)
  BY PutSeen
<1>2. Answer(p, l, ca2, fa)
  <2>1. InFat(l.cluster) => SectorOf(l.cluster) \in Sector
    BY SectorType
  <2> QED BY <1>1, <2>1 DEF OnChain, Answer
<1>3. Locker(p, l, cu, nx, ca2, fa)
  BY DEF InLock, OnChain, Locker
<1>4. Extender(p, l, ca2, fa, ch)
  <2>1. p = "eoc" /\ l.sector # None => Seen(ca2, fa, l.cluster) = Seen(ca, fa, l.cluster)
    BY <1>1 DEF OnChain, Answer, FatPc, ReadPc
  <2> QED BY <2>1 DEF OnChain, Extender
<1> QED BY <1>2, <1>3, <1>4 DEF OnChain
-----------------------------------------------------------------------------
(* Steps of a thread.                                                      *)

\* One thread is at another place with other locals.
OneMoves(t, p, l) ==
    \A u \in Thread :
        /\ pc'[u] = IF u = t THEN p ELSE pc[u]
        /\ loc'[u] = IF u = t THEN l ELSE loc[u]
        /\ u # t => cur'[u] = cur[u] /\ nxt'[u] = nxt[u]

LEMMA GotoMoves ==
  ASSUME IInv, NEW t \in Thread, NEW target, Goto(t, target),
         \A u \in Thread : u # t => cur'[u] = cur[u] /\ nxt'[u] = nxt[u]
  PROVE  OneMoves(t, target[1], target[2])
<1>1. pc \in [Thread -> Place] /\ loc \in [Thread -> Loc]
  BY DEF IInv, ThreadInv
<1> QED BY <1>1 DEF OneMoves, Goto

LEMMA StepThreads ==
  ASSUME NEW own, Threads(own), NEW t \in Thread, NEW p, NEW l, OneMoves(t, p, l),
         Quiet(cached, fat, cached', fat'), chains' = chains,
         OnChain(p, l, cur'[t], nxt'[t], own, cached', fat', chains)
  PROVE  Threads(own)'
<1> SUFFICES ASSUME NEW u \in Thread
             PROVE  OnChain(pc'[u], loc'[u], cur'[u], nxt'[u], own, cached', fat', chains')
  BY DEF Threads
<1>1. CASE u = t
  BY <1>1 DEF OneMoves
<1>2. CASE u # t
  <2>1. OnChain(pc[u], loc[u], cur[u], nxt[u], own, cached, fat, chains)
    BY DEF Threads
  <2>2. OnChain(pc[u], loc[u], cur[u], nxt[u], own, cached', fat', chains)
    BY <2>1, QuietOnChain
  <2> QED BY <2>2, <1>2 DEF OneMoves
<1> QED BY <1>1, <1>2

LEMMA StepState ==
  ASSUME IInv, NEW own, Plainly(own), NEW t \in Thread, NEW p, NEW l, OneMoves(t, p, l),
         pc[t] # "unlock", pc[t] = "link" => p = "link",
         Quiet(cached, fat, cached', fat'), UNCHANGED <<chains, nextFreeCluster>>
  PROVE  ChainShape' /\ Linked' /\ FreeAbove'
<1>1. ChainShape'
  BY DEF Plainly, ChainShape
<1>2. Linked'
  <2> SUFFICES ASSUME NEW c \in chains, NEW i \in 1 .. Len(c)
               PROVE  IF i < Len(c) THEN Seen(cached', fat', c[i]) = c[i + 1]
                      ELSE Seen(cached', fat', c[i]) = EOC \/ Linking(c[i])'
    BY DEF Linked
  <2>1. InFat(c[i])
    BY DEF Plainly, ChainShape
  <2>2. Seen(cached', fat', c[i]) = Seen(cached, fat, c[i])
    BY <2>1, QuietSeen
  <2>3. Linking(c[i]) => Linking(c[i])'
    <3> SUFFICES ASSUME NEW u \in Thread, pc[u] = "unlock", loc[u].chain, loc[u].last = c[i]
                 PROVE  Linking(c[i])'
      BY DEF Linking
    <3>1. pc'[u] = "unlock" /\ loc'[u] = loc[u]
      BY DEF OneMoves
    <3> QED BY <3>1 DEF Linking
  <2> QED BY <2>2, <2>3 DEF Plainly, Linked
<1>3. FreeAbove'
  <2>1. \A c : InFat(c) => Seen(cached', fat', c) = Seen(cached, fat, c)
    BY QuietSeen
  <2>2. (\E u \in Thread : pc[u] \in {"link", "unlock"})
        => \E u \in Thread : pc'[u] \in {"link", "unlock"}
    BY DEF OneMoves
  <2> QED BY <2>1, <2>2 DEF Plainly, FreeAbove
<1> QED BY <1>1, <1>2, <1>3

\* A thread goes on with its call, or returns from one that is no write.
LEMMA StepCalls ==
  ASSUME NEW own, Plainly(own), NEW t \in Thread, NEW p, NEW l, OneMoves(t, p, l),
         \/ pc[t] # "idle" /\ p # "idle" /\ l.op = loc[t].op /\ l.file = loc[t].file
         \/ p = "idle" /\ (pc[t] = "idle" \/ loc[t].op # "write"),
         UNCHANGED <<handle, chains>>
  PROVE  FilesApart' /\ Handles(own)'
<1>1. FilesApart'
  <2>1. \A u \in Thread : Extends(u)' => Extends(u) /\ loc'[u].file = loc[u].file
    BY DEF OneMoves, Extends
  <2> QED BY <2>1 DEF Plainly, FilesApart
<1>2. Handles(own)'
  <2> SUFFICES ASSUME NEW f \in File, handle[f] # None
               PROVE  \/ \E u \in Thread : pc'[u] # "idle" /\ loc'[u].op = "write" /\ loc'[u].file = f
                      \/ /\ Sound(handle[f], f, own, chains)
                         /\ \A u \in Thread : pc'[u] # "idle" /\ loc'[u].file = f
                                                  => loc'[u].op # "extend"
    BY DEF Handles
  <2>1. CASE \E u \in Thread : pc[u] # "idle" /\ loc[u].op = "write" /\ loc[u].file = f
    BY <2>1 DEF OneMoves
  <2>2. CASE /\ Sound(handle[f], f, own, chains)
             /\ \A u \in Thread : pc[u] # "idle" /\ loc[u].file = f => loc[u].op # "extend"
    BY <2>2 DEF OneMoves
  <2> QED BY <2>1, <2>2 DEF Plainly, Handles
<1> QED BY <1>1, <1>2

LEMMA EntriesKept ==
  ASSUME NEW own, Plainly(own), UNCHANGED <<entry, chains>> PROVE Entries(own)'
  BY DEF Plainly, Entries

LEMMA UnmarkedKept ==
  ASSUME UnmarkedWritten, UNCHANGED <<cacheVars, fat, stage>> PROVE UnmarkedWritten'
  BY DEF UnmarkedWritten, cacheVars

\* A step that changes nothing but where the thread is.
LEMMA StepPlainly ==
  ASSUME IInv, NEW own, Plainly(own), NEW t \in Thread, NEW p, NEW l, OneMoves(t, p, l),
         pc[t] # "unlock", pc[t] = "link" => p = "link",
         \/ pc[t] # "idle" /\ p # "idle" /\ l.op = loc[t].op /\ l.file = loc[t].file
         \/ p = "idle" /\ (pc[t] = "idle" \/ loc[t].op # "write"),
         UNCHANGED <<cacheVars, fat, stage, chains, nextFreeCluster, entry, handle>>,
         OnChain(p, l, cur'[t], nxt'[t], own, cached, fat, chains)
  PROVE  Plainly(own)'
<1>1. Quiet(cached, fat, cached', fat')
  BY DEF Quiet, cacheVars
<1>2. ChainShape' /\ Linked' /\ FreeAbove'
  BY <1>1, StepState
<1>3. FilesApart' /\ Entries(own)' /\ Handles(own)'
  BY StepCalls, EntriesKept
<1>4. UnmarkedWritten'
  BY UnmarkedKept DEF Plainly
<1>5. Threads(own)'
  <2>1. OnChain(p, l, cur'[t], nxt'[t], own, cached', fat', chains)
    BY DEF cacheVars
  <2>2. Threads(own) /\ chains' = chains
    BY DEF Plainly
  <2> QED BY <1>1, <2>1, <2>2, StepThreads
<1> QED BY <1>2, <1>3, <1>4, <1>5 DEF Plainly
-----------------------------------------------------------------------------
(* Where a thread goes next.                                               *)

LEMMA ReadHas ==
  ASSUME NEW l \in Loc, NEW c, NEW place
  PROVE  LET m == Read(place, l, c)[2] IN
         /\ Read(place, l, c)[1] = place
         /\ m.op = l.op /\ m.file = l.file /\ m.f = l.f /\ m.todo = l.todo /\ m.chain = l.chain
         /\ m.last = l.last /\ m.slot = l.slot /\ m.block = l.block
         /\ m.cluster = c /\ m.fetched = None /\ m.sector = None
  BY DEF Read, Loc

\* What a thread has that writes a file or makes it longer.
GoodFile(l, own, ch) ==
    /\ l \in Loc /\ l.op \in {"write", "extend"} /\ l.file \in File
    /\ Sound(l.f, l.file, own, ch)

\* The target is a place on the chain, in the same call.
TargetOn(target, l, own, ca, fa, ch) ==
    /\ target[1] \notin InLock \cup {"idle"}
    /\ target[2].op = l.op /\ target[2].file = l.file
    /\ \A cu, nx : OnChain(target[1], target[2], cu, nx, own, ca, fa, ch)

LEMMA LockOn ==
  ASSUME NEW own, NEW ca, NEW fa, NEW ch, NEW l, GoodFile(l, own, ch),
         l.chain => l.last = l.f.eoc /\ l.f.eoc # 0, ~l.chain => l.f.next = 0
  PROVE  TargetOn(<<"lock", l>>, l, own, ca, fa, ch)
  BY DEF TargetOn, OnChain, Answer, Locker, Extender, Caller, GoodFile, FatPc, ReadPc, ChangePc,
         InLock

LEMMA BlockOn ==
  ASSUME NEW own, NEW ca, NEW fa, NEW ch, NEW l, GoodFile(l, own, ch)
  PROVE  TargetOn(<<"block", l>>, l, own, ca, fa, ch)
  BY DEF TargetOn, OnChain, Answer, Locker, Extender, Caller, GoodFile, FatPc, ReadPc, ChangePc,
         InLock

LEMMA MoreOn ==
  ASSUME NEW own, NEW ca, NEW fa, NEW ch, NEW l, GoodFile(l, own, ch),
         l.last = l.f.eoc, l.f.eoc # 0
  PROVE  TargetOn(More(l), l, own, ca, fa, ch)
<1>1. CASE l.todo > 0
  <2> DEFINE m == [l EXCEPT !.chain = TRUE]
  <2>1. More(l) = <<"lock", m>>
    BY <1>1 DEF More
  <2>2. GoodFile(m, own, ch) /\ m.chain /\ m.last = l.last /\ m.f = l.f
        /\ m.op = l.op /\ m.file = l.file
    BY DEF GoodFile, Loc
  <2> HIDE DEF m
  <2>3. TargetOn(<<"lock", m>>, m, own, ca, fa, ch)
    BY <2>2, LockOn
  <2> QED BY <2>1, <2>2, <2>3 DEF TargetOn
<1>2. CASE ~(l.todo > 0)
  <2> DEFINE m == [l EXCEPT !.f.size = l.size]
  <2>1. More(l) = <<"block", m>>
    BY <1>2 DEF More
  <2>2. GoodFile(m, own, ch) /\ m.op = l.op /\ m.file = l.file
    <3>1. /\ m \in Loc /\ m.op = l.op /\ m.file = l.file
          /\ m.f.first = l.f.first /\ m.f.next = l.f.next /\ m.f.eoc = l.f.eoc
      BY DEF GoodFile, Loc, FatFile
    <3> HIDE DEF m
    <3> QED BY <3>1 DEF GoodFile, Sound
  <2> HIDE DEF m
  <2>3. TargetOn(<<"block", m>>, m, own, ca, fa, ch)
    BY <2>2, BlockOn
  <2> QED BY <2>1, <2>2, <2>3 DEF TargetOn
<1> QED BY <1>1, <1>2

LEMMA FromEndOn ==
  ASSUME NEW own, NEW ca, NEW fa, NEW ch, NEW l, GoodFile(l, own, ch), l.f.next # 0,
         \A c \in ch : Len(c) \in Nat \ {0}
  PROVE  TargetOn(FromEnd(l), l, own, ca, fa, ch)
<1>1. CASE l.f.eoc = 0
  <2> DEFINE m == Read("eoc", l, l.f.next)[2]
  <2>1. FromEnd(l) = Read("eoc", l, l.f.next)
    BY <1>1 DEF FromEnd
  <2>2. /\ Read("eoc", l, l.f.next)[1] = "eoc"
        /\ m.op = l.op /\ m.file = l.file /\ m.f = l.f
        /\ m.cluster = l.f.next /\ m.fetched = None /\ m.sector = None
    BY ReadHas DEF GoodFile
  <2> HIDE DEF m
  <2>3. \E c \in ch : c[1] = m.f.next /\ \E i \in 1 .. Len(c) : m.cluster = c[i]
    <3>1. PICK c \in ch : c[1] = l.f.next
      BY DEF GoodFile, Sound
    <3>2. 1 \in 1 .. Len(c)
      OBVIOUS
    <3> QED BY <3>1, <3>2, <2>2
  <2>4. \A cu, nx : OnChain("eoc", m, cu, nx, own, ca, fa, ch)
    BY <1>1, <2>2, <2>3
       DEF OnChain, Answer, Locker, Extender, Caller, GoodFile, InLock
  <2> QED BY <2>1, <2>2, <2>4 DEF TargetOn, m, InLock
<1>2. CASE l.f.eoc # 0
  <2> DEFINE m == [l EXCEPT !.last = l.f.eoc]
  <2>1. FromEnd(l) = More(m)
    BY <1>2 DEF FromEnd
  <2>2. GoodFile(m, own, ch) /\ m.last = m.f.eoc /\ m.f.eoc # 0 /\ m.op = l.op /\ m.file = l.file
    BY <1>2 DEF GoodFile, Loc, FatFile
  <2> HIDE DEF m
  <2>3. TargetOn(More(m), m, own, ca, fa, ch)
    BY <2>2, MoreOn
  <2> QED BY <2>1, <2>2, <2>3 DEF TargetOn
<1> QED BY <1>1, <1>2

LEMMA ExtendOn ==
  ASSUME NEW own, NEW ca, NEW fa, NEW ch, NEW l, GoodFile(l, own, ch),
         \A c \in ch : Len(c) \in Nat \ {0}
  PROVE  TargetOn(Extend(l), l, own, ca, fa, ch)
<1>1. CASE l.f.next = 0
  <2> DEFINE m == [l EXCEPT !.chain = FALSE]
  <2>1. Extend(l) = <<"lock", m>>
    BY <1>1 DEF Extend
  <2>2. GoodFile(m, own, ch) /\ ~m.chain /\ m.f.next = 0 /\ m.op = l.op /\ m.file = l.file
    BY <1>1 DEF GoodFile, Loc
  <2> HIDE DEF m
  <2>3. TargetOn(<<"lock", m>>, m, own, ca, fa, ch)
    BY <2>2, LockOn
  <2> QED BY <2>1, <2>2, <2>3 DEF TargetOn
<1>2. CASE l.f.next # 0
  BY <1>2, FromEndOn DEF Extend
<1> QED BY <1>1, <1>2

LEMMA WalkOn ==
  ASSUME NEW own, NEW ca, NEW fa, NEW ch, NEW l \in Loc, NEW c, NEW place \in {"walk", "data"},
         l.op = "write" => GoodFile(l, own, ch),
         l.op = "write" \/ (l.op = "finfo" /\ place = "walk" /\ l.todo >= 1)
  PROVE  TargetOn(Read(place, l, c), l, own, ca, fa, ch)
<1> DEFINE m == Read(place, l, c)[2]
<1>1. /\ Read(place, l, c)[1] = place
      /\ m.op = l.op /\ m.file = l.file /\ m.f = l.f /\ m.todo = l.todo
      /\ m.fetched = None /\ m.sector = None
  BY ReadHas
<1> HIDE DEF m
<1>2. \A cu, nx : OnChain(place, m, cu, nx, own, ca, fa, ch)
  BY <1>1 DEF OnChain, Answer, Locker, Extender, Caller, GoodFile, InLock, FatPc, ReadPc, ChangePc
<1> QED BY <1>1, <1>2 DEF TargetOn, m, InLock

LEMMA SeekOn ==
  ASSUME NEW own, NEW ca, NEW fa, NEW ch, NEW l, GoodFile(l, own, ch), l.op = "write"
  PROVE  TargetOn(Seek(l), l, own, ca, fa, ch)
<1>1. ASSUME NEW n \in Int, NEW place \in {"walk", "data"}, NEW c,
             Seek(l) = Read(place, [l EXCEPT !.todo = n], c)
      PROVE  TargetOn(Seek(l), l, own, ca, fa, ch)
  <2> DEFINE m == [l EXCEPT !.todo = n]
  <2>1. m \in Loc /\ m.op = l.op /\ m.file = l.file /\ GoodFile(m, own, ch)
    BY DEF GoodFile, Loc
  <2>2. Seek(l) = Read(place, m, c)
    BY <1>1
  <2> HIDE DEF m
  <2>3. TargetOn(Read(place, m, c), m, own, ca, fa, ch)
    BY <2>1, WalkOn
  <2> QED BY <2>1, <2>2, <2>3 DEF TargetOn
<1>2. Reserve(l.offset) \in Nat
  <2>1. l.offset \in Nat
    BY DEF Loc, GoodFile
  <2> QED BY <2>1, FatAssumption DEF Reserve
<1>3. CASE l.f.write # 0
  <2>1. Seek(l) = Read("walk", [l EXCEPT !.todo = 1], l.f.write)
    BY <1>3 DEF Seek
  <2> QED BY <2>1, <1>1
<1>4. CASE l.f.write = 0
  <2> DEFINE n == Reserve(l.offset)
             place == IF n > 1 THEN "walk" ELSE "data"
  <2>1. Seek(l) = Read(place, [l EXCEPT !.todo = n - 1], l.f.first)
    BY <1>4 DEF Seek
  <2>2. n - 1 \in Int /\ place \in {"walk", "data"}
    BY <1>2
  <2> HIDE DEF n, place
  <2> QED BY <2>1, <2>2, <1>1
<1> QED BY <1>3, <1>4

LEMMA ReturnOn ==
  ASSUME NEW own, NEW ca, NEW fa, NEW ch, NEW cu, NEW nx
  PROVE  OnChain("idle", NoLoc, cu, nx, own, ca, fa, ch)
  BY DEF OnChain, Answer, Locker, Extender, Caller, FatPc, ReadPc, ChangePc, InLock
-----------------------------------------------------------------------------
(* Reading the FAT.                                                        *)

LEMMA HereOn ==
  ASSUME IInv, NEW own, Plainly(own), NEW t \in Thread
  PROVE  /\ loc[t] \in Loc /\ OnChain(pc[t], loc[t], cur[t], nxt[t], own, cached, fat, chains)
         /\ Extends(t) => GoodFile(loc[t], own, chains)
         /\ \A c \in chains : Len(c) \in Nat \ {0}
<1>1. loc[t] \in Loc /\ chains \subseteq Seq(Nat)
  BY DEF IInv, ThreadInv, HistoryInv
<1>2. OnChain(pc[t], loc[t], cur[t], nxt[t], own, cached, fat, chains)
  BY DEF Plainly, Threads
<1>3. Extends(t) => GoodFile(loc[t], own, chains)
  BY <1>1, <1>2 DEF Extends, OnChain, Caller, GoodFile
<1>4. \A c \in chains : Len(c) \in Nat \ {0}
  BY <1>1 DEF Plainly, ChainShape
<1> QED BY <1>1, <1>2, <1>3, <1>4

LEMMA TargetStep ==
  ASSUME IInv, NEW own, Plainly(own), NEW t \in Thread, NEW target, Goto(t, target),
         TargetOn(target, loc[t], own, cached, fat, chains),
         pc[t] \notin {"link", "unlock", "idle"},
         UNCHANGED <<cacheVars, fat, stage, chains, nextFreeCluster, entry, handle, cur, nxt>>
  PROVE  Plainly(own)'
<1>1. OneMoves(t, target[1], target[2])
  BY GotoMoves
<1>2. /\ OnChain(target[1], target[2], cur'[t], nxt'[t], own, cached, fat, chains)
      /\ target[1] # "idle" /\ target[2].op = loc[t].op /\ target[2].file = loc[t].file
  BY DEF TargetOn
<1> QED BY <1>1, <1>2, StepPlainly

\* The locals with an answer or a sector.
LEMMA SectorSet ==
  ASSUME NEW l \in Loc, NEW x
  PROVE  /\ LET m == [l EXCEPT !.sector = x] IN
            /\ m.op = l.op /\ m.file = l.file /\ m.f = l.f /\ m.todo = l.todo /\ m.chain = l.chain
            /\ m.last = l.last /\ m.slot = l.slot /\ m.block = l.block /\ m.cluster = l.cluster
            /\ m.fetched = l.fetched /\ m.sector = x
         /\ LET m == [l EXCEPT !.fetched = x] IN
            /\ m.op = l.op /\ m.file = l.file /\ m.f = l.f /\ m.todo = l.todo /\ m.chain = l.chain
            /\ m.last = l.last /\ m.slot = l.slot /\ m.block = l.block /\ m.cluster = l.cluster
            /\ m.fetched = x /\ m.sector = l.sector
         /\ LET m == [l EXCEPT !.sector = x, !.fetched = None] IN
            /\ m.op = l.op /\ m.file = l.file /\ m.f = l.f /\ m.todo = l.todo /\ m.chain = l.chain
            /\ m.last = l.last /\ m.slot = l.slot /\ m.block = l.block /\ m.cluster = l.cluster
            /\ m.fetched = None /\ m.sector = x
  BY DEF Loc

\* A thread that keeps its place.
LEMMA StaysMoves ==
  ASSUME IInv, NEW t \in Thread, NEW l, loc' = [loc EXCEPT ![t] = l], UNCHANGED <<pc, cur, nxt>>
  PROVE  OneMoves(t, pc[t], l)
  BY DEF OneMoves, IInv, ThreadInv

LEMMA HitPlainly ==
  ASSUME IInv, NEW own, Plainly(own), NEW t \in Thread, Hit(t) PROVE Plainly(own)'
<1> DEFINE x == cached[SectorOf(loc[t].cluster)]
           l == [loc[t] EXCEPT !.sector = x]
<1>1. /\ pc[t] \in ChangePc /\ loc' = [loc EXCEPT ![t] = l]
      /\ InFat(loc[t].cluster) /\ x # None
  <2>1. loc' = [loc EXCEPT ![t] = l]
    BY DEF Hit
  <2> QED BY <2>1 DEF Hit, Found
<1>2. UNCHANGED <<cacheVars, fat, stage, chains, nextFreeCluster, entry, handle, cur, nxt, pc>>
  BY DEF Hit, processVars, volumeVars, allocVars, history
<1>3. /\ loc[t] \in Loc /\ OnChain(pc[t], loc[t], cur[t], nxt[t], own, cached, fat, chains)
  BY HereOn
<1>4. /\ l.op = loc[t].op /\ l.file = loc[t].file /\ l.f = loc[t].f /\ l.todo = loc[t].todo
      /\ l.chain = loc[t].chain /\ l.last = loc[t].last /\ l.slot = loc[t].slot
      /\ l.block = loc[t].block /\ l.cluster = loc[t].cluster
      /\ l.fetched = loc[t].fetched /\ l.sector = x
  BY <1>3, SectorSet
<1> HIDE DEF l
<1>5. OnChain(pc[t], l, cur'[t], nxt'[t], own, cached, fat, chains)
  <2>1. cur'[t] = cur[t] /\ nxt'[t] = nxt[t]
    BY <1>2
  <2>2. Answer(pc[t], l, cached, fat)
    BY <1>1, <1>3, <1>4 DEF OnChain, Answer
  <2>3. Locker(pc[t], l, cur[t], nxt[t], cached, fat)
    BY <1>1, <1>3, <1>4 DEF OnChain, Locker
  <2>4. Extender(pc[t], l, cached, fat, chains)
    BY <1>1, <1>3, <1>4 DEF OnChain, Extender, ChangePc
  <2>5. Caller(pc[t], l, own, chains)
    BY <1>1, <1>3, <1>4 DEF OnChain, Caller
  <2> QED BY <2>1, <2>2, <2>3, <2>4, <2>5 DEF OnChain
<1>6. OneMoves(t, pc[t], l)
  BY <1>1, <1>2, StaysMoves
<1>7. pc[t] \notin {"unlock", "idle"}
  BY <1>1 DEF ChangePc
<1> QED BY <1>2, <1>4, <1>5, <1>6, <1>7, StepPlainly

LEMMA MissPlainly ==
  ASSUME IInv, NEW own, Plainly(own), NEW t \in Thread, Miss(t) PROVE Plainly(own)'
<1> DEFINE x == fat[SectorOf(loc[t].cluster)]
           l == [loc[t] EXCEPT !.fetched = x]
<1>1. /\ pc[t] \in FatPc /\ loc' = [loc EXCEPT ![t] = l]
      /\ InFat(loc[t].cluster) /\ loc[t].sector = None
  <2>1. loc' = [loc EXCEPT ![t] = l]
    BY DEF Miss
  <2> QED BY <2>1 DEF Miss, Wants
<1>2. UNCHANGED <<cacheVars, fat, stage, chains, nextFreeCluster, entry, handle, cur, nxt, pc>>
  BY DEF Miss, processVars, volumeVars, allocVars, history
<1>3. /\ loc[t] \in Loc /\ OnChain(pc[t], loc[t], cur[t], nxt[t], own, cached, fat, chains)
  BY HereOn
<1>4. /\ l.op = loc[t].op /\ l.file = loc[t].file /\ l.f = loc[t].f /\ l.todo = loc[t].todo
      /\ l.chain = loc[t].chain /\ l.last = loc[t].last /\ l.slot = loc[t].slot
      /\ l.block = loc[t].block /\ l.cluster = loc[t].cluster
      /\ l.fetched = x /\ l.sector = loc[t].sector
  BY <1>3, SectorSet
<1> HIDE DEF l
<1>5. OnChain(pc[t], l, cur'[t], nxt'[t], own, cached, fat, chains)
  <2>1. cur'[t] = cur[t] /\ nxt'[t] = nxt[t]
    BY <1>2
  <2>2. Answer(pc[t], l, cached, fat)
    BY <1>1, <1>3, <1>4 DEF OnChain, Answer
  <2>3. Locker(pc[t], l, cur[t], nxt[t], cached, fat)
    BY <1>1, <1>3, <1>4 DEF OnChain, Locker
  <2>4. Extender(pc[t], l, cached, fat, chains)
    BY <1>1, <1>3, <1>4 DEF OnChain, Extender
  <2>5. Caller(pc[t], l, own, chains)
    BY <1>1, <1>3, <1>4 DEF OnChain, Caller
  <2> QED BY <2>1, <2>2, <2>3, <2>4, <2>5 DEF OnChain
<1>6. OneMoves(t, pc[t], l)
  BY <1>1, <1>2, StaysMoves
<1>7. pc[t] \notin {"unlock", "idle"}
  BY <1>1 DEF FatPc, ReadPc, ChangePc
<1> QED BY <1>2, <1>4, <1>5, <1>6, <1>7, StepPlainly

\* The answer is put in the cache: it is the sector that is there, or the
\* first to come.
LEMMA FillPlainly ==
  ASSUME IInv, NEW own, Plainly(own), NEW t \in Thread, Fill(t), plain' PROVE Plainly(own)'
<1> DEFINE s == SectorOf(loc[t].cluster)
           x == loc[t].fetched
           l == [loc[t] EXCEPT !.sector = x, !.fetched = None]
<1>1. /\ pc[t] \in FatPc /\ x # None
      /\ cached' = [cached EXCEPT ![s] = x]
      /\ modificado' = [modificado EXCEPT ![s] = cached[s] # None]
      /\ cached[s] \in {None, x}
  BY DEF Fill, Wants, PutInCache
<1>2. /\ UNCHANGED <<fat, stage, chains, nextFreeCluster, entry, handle, cur, nxt, pc>>
      /\ loc' = [loc EXCEPT ![t] = l]
  BY DEF Fill, processVars, volumeVars, allocVars
<1>3. /\ loc[t] \in Loc /\ OnChain(pc[t], loc[t], cur[t], nxt[t], own, cached, fat, chains)
  BY HereOn
<1>4. /\ l.op = loc[t].op /\ l.file = loc[t].file /\ l.f = loc[t].f /\ l.todo = loc[t].todo
      /\ l.chain = loc[t].chain /\ l.last = loc[t].last /\ l.slot = loc[t].slot
      /\ l.block = loc[t].block /\ l.cluster = loc[t].cluster
      /\ l.fetched = None /\ l.sector = x
  BY <1>3, SectorSet
<1> HIDE DEF l
<1>5. /\ InFat(loc[t].cluster) /\ s \in Sector
      /\ cached[s] = None => x = fat[s]
  <2>1. InFat(loc[t].cluster) /\ (cached[s] = None => x = fat[s])
    BY <1>1, <1>3 DEF OnChain, Answer
  <2> QED BY <2>1, SectorType
<1>6. \A r \in Sector : /\ cached'[r] = IF r = s THEN x ELSE cached[r]
                        /\ modificado'[r] = IF r = s THEN cached[s] # None ELSE modificado[r]
  <2>1. cached \in [Sector -> FatSector \cup {None}] /\ modificado \in [Sector -> BOOLEAN]
    BY DEF IInv, CacheInv
  <2> HIDE DEF s, x
  <2> QED BY <1>1, <2>1
<1>7. Quiet(cached, fat, cached', fat')
  BY <1>1, <1>2, <1>5, <1>6 DEF Quiet
<1>8. OneMoves(t, pc[t], l)
  BY <1>2, StaysMoves
<1>9. OnChain(pc[t], l, cur'[t], nxt'[t], own, cached', fat', chains)
  <2>1. OnChain(pc[t], loc[t], cur[t], nxt[t], own, cached', fat', chains)
    BY <1>3, <1>7, QuietOnChain
  <2>2. cached'[s] = x
    BY <1>5, <1>6
  <2>3. Answer(pc[t], l, cached', fat')
    BY <1>1, <1>4, <1>5, <2>1, <2>2 DEF OnChain, Answer
  <2>4. Locker(pc[t], l, cur[t], nxt[t], cached', fat')
    BY <1>4, <2>1, <2>2 DEF OnChain, Locker
  <2>5. Extender(pc[t], l, cached', fat', chains)
    <3>1. l.sector[SlotOf(l.cluster)] = Seen(cached', fat', l.cluster)
      BY <1>1, <1>4, <2>2 DEF Seen
    <3> QED BY <3>1, <1>4, <2>1 DEF OnChain, Extender
  <2>6. Caller(pc[t], l, own, chains)
    BY <1>4, <2>1 DEF OnChain, Caller
  <2>7. cur'[t] = cur[t] /\ nxt'[t] = nxt[t]
    BY <1>2
  <2> QED BY <2>3, <2>4, <2>5, <2>6, <2>7 DEF OnChain
<1>10. pc[t] \notin {"unlock", "idle"}
  BY <1>1 DEF FatPc, ReadPc, ChangePc
<1>11. ChainShape' /\ Linked' /\ FreeAbove'
  BY <1>2, <1>7, <1>8, <1>10, StepState
<1>12. FilesApart' /\ Entries(own)' /\ Handles(own)'
  BY <1>2, <1>4, <1>8, <1>10, StepCalls, EntriesKept
<1>13. Threads(own)'
  BY <1>2, <1>7, <1>8, <1>9, StepThreads DEF Plainly
<1>14. UnmarkedWritten'
  <2>1. stage \in {"up", "killed"}
    BY <1>10 DEF IInv, StageInv
  <2> QED BY <2>1, <1>2, <1>5, <1>6 DEF Plainly, UnmarkedWritten
<1> QED BY <1>11, <1>12, <1>13, <1>14 DEF Plainly
LEMMA LastOfFile ==
  ASSUME NEW own, NEW ch, NEW l, GoodFile(l, own, ch), l.f.eoc # 0
  PROVE  \E c \in ch : c[1] = l.f.next /\ EndOf(c) = l.f.eoc
  BY DEF GoodFile, Sound

\* Two threads do not have the same chain.
LEMMA ChainOwner ==
  ASSUME IInv, NEW own, Plainly(own), NEW t \in Thread, NEW u \in Thread,
         Extends(t), Extends(u), NEW c \in chains, c[1] = loc[t].f.next, c[1] = loc[u].f.next
  PROVE  t = u
<1>1. GoodFile(loc[t], own, chains) /\ GoodFile(loc[u], own, chains) /\ Len(c) \in Nat \ {0}
  BY HereOn
<1>2. c[1] # 0
  <2>1. 1 \in 1 .. Len(c)
    BY <1>1
  <2> QED BY <2>1 DEF Plainly, ChainShape
<1>3. loc[t].file = own[c[1]] /\ loc[u].file = own[c[1]]
  BY <1>1, <1>2 DEF GoodFile, Sound, Owned
<1> QED BY <1>3 DEF Plainly, FilesApart

LEMMA OutsidePlainly ==
  ASSUME IInv, NEW own, Plainly(own), NEW t \in Thread, Outside(t) PROVE Plainly(own)'
<1> DEFINE target == <<"outside", loc[t]>>
<1>1. /\ pc[t] \in FatPc /\ ~InFat(loc[t].cluster) /\ Goto(t, target)
      /\ UNCHANGED <<cacheVars, fat, stage, chains, nextFreeCluster, entry, handle, cur, nxt>>
  BY DEF Outside, Wants, processVars, volumeVars, allocVars, history
<1>2. OnChain(pc[t], loc[t], cur[t], nxt[t], own, cached, fat, chains)
  BY HereOn
<1>3. pc[t] \notin {"unlock", "idle"}
  BY <1>1 DEF FatPc, ReadPc, ChangePc
<1>4. pc[t] # "link"
  <2> SUFFICES ASSUME pc[t] = "link" PROVE FALSE
    OBVIOUS
  <2>1. /\ loc[t].cluster = loc[t].f.eoc /\ loc[t].f.eoc # 0 /\ Extends(t)
    BY <1>2 DEF OnChain, Locker, Extender, InLock, Extends
  <2>2. PICK c \in chains : EndOf(c) = loc[t].f.eoc
    BY <2>1, HereOn, LastOfFile
  <2>3. Len(c) \in 1 .. Len(c)
    BY HereOn
  <2>4. InFat(EndOf(c))
    BY <2>3 DEF Plainly, ChainShape, EndOf
  <2> QED BY <1>1, <2>1, <2>2, <2>4
<1>5. TargetOn(target, loc[t], own, cached, fat, chains)
  BY <1>2, <1>3 DEF TargetOn, OnChain, Answer, Locker, Extender, Caller, FatPc, ReadPc, ChangePc,
                    InLock
<1> HIDE DEF target
<1> QED BY <1>1, <1>3, <1>4, <1>5, TargetStep

\* Where the search is, the thread reads what all see.
LEMMA SearchSees ==
  ASSUME IInv, NEW own, Plainly(own), NEW t \in Thread, At(t, "eoc")
  PROVE  Entry(t) = Seen(cached, fat, loc[t].cluster)
<1>1. OnChain("eoc", loc[t], cur[t], nxt[t], own, cached, fat, chains)
  BY HereOn DEF At
<1>2. CASE loc[t].sector # None
  BY <1>1, <1>2 DEF OnChain, Extender, Entry, Content
<1>3. CASE loc[t].sector = None
  BY <1>3 DEF At, Found, Entry, Content, Seen
<1> QED BY <1>2, <1>3

LEMMA FindEOCPlainly ==
  ASSUME IInv, NEW own, Plainly(own), NEW t \in Thread, FindEOC(t) PROVE Plainly(own)'
<1>1. /\ pc[t] = "eoc" /\ At(t, "eoc")
      /\ UNCHANGED <<cacheVars, fat, stage, chains, nextFreeCluster, entry, handle, cur, nxt>>
  BY DEF FindEOC, At, processVars, volumeVars, allocVars, history
<1> DEFINE l == loc[t]
<1>2. l \in Loc /\ OnChain("eoc", l, cur[t], nxt[t], own, cached, fat, chains)
  BY <1>1, HereOn
<1>3. /\ Extends(t) /\ GoodFile(l, own, chains)
      /\ l.f.next # 0 /\ l.f.eoc = 0
  <2>1. Extends(t) /\ l.f.next # 0 /\ l.f.eoc = 0
    BY <1>1, <1>2 DEF OnChain, Extender, Extends
  <2> QED BY <2>1, HereOn
<1>4. PICK c \in chains : c[1] = l.f.next /\ \E i \in 1 .. Len(c) : l.cluster = c[i]
  BY <1>2 DEF OnChain, Extender
<1>5. PICK i \in 1 .. Len(c) : l.cluster = c[i]
  BY <1>4
<1>6. /\ Len(c) \in Nat \ {0} /\ \A j \in 1 .. Len(c) : c[j] > 0 /\ c[j] \in Int
  <2>1. Len(c) \in Nat \ {0} /\ c \in Seq(Nat)
    BY HereOn DEF IInv, HistoryInv
  <2> QED BY <2>1 DEF Plainly, ChainShape
<1>7. Entry(t) = IF i < Len(c) THEN c[i + 1] ELSE EOC
  <2>1. Entry(t) = Seen(cached, fat, c[i])
    BY <1>1, <1>5, SearchSees
  <2>2. CASE i < Len(c)
    BY <2>1, <2>2 DEF Plainly, Linked
  <2>3. CASE ~(i < Len(c))
    <3>1. Seen(cached, fat, c[i]) = EOC \/ Linking(c[i])
      BY <2>3 DEF Plainly, Linked
    <3>2. ~Linking(c[i])
      <4> SUFFICES ASSUME NEW u \in Thread, pc[u] = "unlock", loc[u].chain, loc[u].last = c[i]
                   PROVE  FALSE
        BY DEF Linking
      <4>1. OnChain("unlock", loc[u], cur[u], nxt[u], own, cached, fat, chains)
        BY HereOn
      <4>2. Extends(u) /\ loc[u].f.eoc = c[i] /\ loc[u].f.eoc # 0
        BY <4>1 DEF OnChain, Extender, InLock, Extends
      <4>3. PICK d \in chains : d[1] = loc[u].f.next /\ EndOf(d) = loc[u].f.eoc
        BY <4>2, HereOn, LastOfFile
      <4>4. Len(d) \in 1 .. Len(d)
        BY HereOn
      <4>5. d = c
        BY <4>2, <4>3, <4>4 DEF Plainly, ChainShape, EndOf
      <4>6. u = t
        BY <1>3, <1>4, <4>2, <4>3, <4>5, ChainOwner
      <4> QED BY <1>1, <4>6
    <3> QED BY <2>1, <2>3, <3>1, <3>2
  <2> QED BY <2>2, <2>3
<1>8. CASE Entry(t) = EOC
  <2> DEFINE m == [l EXCEPT !.f.eoc = l.cluster, !.last = l.cluster]
             target == More(m)
  <2>1. Goto(t, target)
    BY <1>8 DEF FindEOC
  <2>2. i = Len(c)
    <3> SUFFICES ASSUME i < Len(c) PROVE FALSE
      BY <1>6
    <3>1. c[i + 1] > 0 /\ c[i + 1] = EOC
      BY <1>6, <1>7, <1>8
    <3> QED BY <3>1 DEF EOC
  <2>3. l.cluster = EndOf(c) /\ l.cluster # 0
    BY <1>5, <1>6, <2>2 DEF EndOf
  <2>4. /\ m \in Loc /\ m.op = l.op /\ m.file = l.file /\ m.last = l.cluster
        /\ m.f.eoc = l.cluster /\ m.f.first = l.f.first /\ m.f.next = l.f.next
    BY <1>2 DEF Loc, FatFile
  <2> HIDE DEF m
  <2>5. GoodFile(m, own, chains)
    BY <1>3, <1>4, <2>3, <2>4 DEF GoodFile, Sound
  <2>6. TargetOn(target, m, own, cached, fat, chains)
    BY <2>3, <2>4, <2>5, MoreOn
  <2>7. TargetOn(target, l, own, cached, fat, chains)
    BY <2>4, <2>6 DEF TargetOn
  <2> HIDE DEF target, l
  <2> QED BY <1>1, <2>1, <2>7, TargetStep DEF l
<1>9. CASE Entry(t) # EOC
  <2> DEFINE d == Entry(t)
             target == Read("eoc", l, d)
  <2>1. Goto(t, target)
    BY <1>9 DEF FindEOC
  <2>2. i < Len(c) /\ d = c[i + 1] /\ i + 1 \in 1 .. Len(c)
    BY <1>6, <1>7, <1>9
  <2> HIDE DEF d
  <2> DEFINE m == target[2]
  <2>3. /\ target[1] = "eoc" /\ m.op = l.op /\ m.file = l.file /\ m.f = l.f
        /\ m.cluster = d /\ m.fetched = None /\ m.sector = None
    BY <1>2, ReadHas
  <2> HIDE DEF target
  <2>4. TargetOn(target, l, own, cached, fat, chains)
    <3>1. \E k \in chains : k[1] = m.f.next /\ \E j \in 1 .. Len(k) : m.cluster = k[j]
      BY <1>4, <2>2, <2>3
    <3> HIDE DEF l, m
    <3>2. \A cu, nx : OnChain("eoc", m, cu, nx, own, cached, fat, chains)
      BY <1>3, <2>3, <3>1 DEF OnChain, Answer, Locker, Extender, Caller, GoodFile, InLock
    <3> QED BY <2>3, <3>2 DEF TargetOn, InLock, m
  <2> HIDE DEF l
  <2> QED BY <1>1, <2>1, <2>4, TargetStep DEF l
<1> QED BY <1>8, <1>9
-----------------------------------------------------------------------------
(* The directory block, the FatFile, and the cluster of the data.          *)

LEMMA WalkPlainly ==
  ASSUME IInv, NEW own, Plainly(own), NEW t \in Thread, Walk(t) PROVE Plainly(own)'
<1>1. /\ pc[t] = "walk" /\ Entry(t) \in Int
      /\ UNCHANGED <<cacheVars, fat, stage, chains, nextFreeCluster, entry, handle, cur, nxt>>
  BY ContentType DEF Walk, At, processVars, volumeVars, allocVars, history
<1> DEFINE l == loc[t]
<1>2. l \in Loc /\ OnChain("walk", l, cur[t], nxt[t], own, cached, fat, chains)
  BY <1>1, HereOn
<1>3. /\ l.op \in {"write", "finfo"} /\ (l.op = "finfo" => l.todo >= 1)
      /\ l.op = "write" => GoodFile(l, own, chains)
      /\ l.todo \in Int
  BY <1>1, <1>2, HereOn DEF OnChain, Caller, Extends, Loc
<1>4. CASE l.op = "finfo" /\ l.todo = 1
  <2>1. Goto(t, Return)
    BY <1>4 DEF Walk
  <2>2. OneMoves(t, "idle", NoLoc)
    BY <1>1, <2>1, GotoMoves DEF Return
  <2> QED BY <1>1, <1>4, <2>2, ReturnOn, StepPlainly
<1>5. CASE ~(l.op = "finfo" /\ l.todo = 1)
  <2> DEFINE place == IF l.todo > 1 THEN "walk" ELSE "data"
             m == [l EXCEPT !.todo = @ - 1]
             target == Read(place, m, Entry(t))
  <2>1. Goto(t, target)
    BY <1>5 DEF Walk
  <2>2. /\ m \in Loc /\ m.op = l.op /\ m.file = l.file /\ m.f = l.f /\ m.todo = l.todo - 1
    BY <1>2, <1>3 DEF Loc
  <2> HIDE DEF m
  <2>3. place \in {"walk", "data"} /\ (l.op = "finfo" => place = "walk" /\ m.todo >= 1)
    BY <1>3, <1>5, <2>2
  <2>4. m.op = "write" => GoodFile(m, own, chains)
    BY <1>3, <2>2 DEF GoodFile
  <2> HIDE DEF place
  <2>5. TargetOn(target, m, own, cached, fat, chains)
    BY <1>3, <2>2, <2>3, <2>4, WalkOn
  <2>6. TargetOn(target, l, own, cached, fat, chains)
    BY <2>2, <2>5 DEF TargetOn
  <2> HIDE DEF target, l
  <2> QED BY <1>1, <2>1, <2>6, TargetStep DEF l
<1> QED BY <1>4, <1>5

LEMMA GetBlockPlainly ==
  ASSUME IInv, NEW own, Plainly(own), NEW t \in Thread, GetBlock(t) PROVE Plainly(own)'
<1>1. /\ pc[t] = "block"
      /\ UNCHANGED <<cacheVars, fat, stage, chains, nextFreeCluster, entry, handle, cur, nxt>>
  BY DEF GetBlock, processVars, volumeVars, allocVars, history
<1> DEFINE l == loc[t]
           m == [l EXCEPT !.block = entry]
           target == <<"put", m>>
<1>2. l \in Loc /\ OnChain("block", l, cur[t], nxt[t], own, cached, fat, chains)
  BY <1>1, HereOn
<1>3. m.op = l.op /\ m.file = l.file /\ m.f = l.f /\ m.block = entry
  BY <1>2 DEF Loc
<1>4. Goto(t, target)
  BY DEF GetBlock
<1> HIDE DEF m
<1>5. TargetOn(target, l, own, cached, fat, chains)
  <2>1. \A g \in File : Owned(m.block[g].first, g, own, chains)
    BY <1>3 DEF Plainly, Entries
  <2> HIDE DEF l
  <2>2. \A cu, nx : OnChain("put", m, cu, nx, own, cached, fat, chains)
    BY <1>2, <1>3, <2>1 DEF OnChain, Answer, Locker, Extender, Caller, InLock, FatPc, ReadPc,
                            ChangePc
  <2> QED BY <1>3, <2>2 DEF TargetOn, InLock
<1> HIDE DEF target, l
<1> QED BY <1>1, <1>4, <1>5, TargetStep DEF l

LEMMA PutBlockPlainly ==
  ASSUME IInv, NEW own, Plainly(own), NEW t \in Thread, PutBlock(t) PROVE Plainly(own)'
<1> DEFINE l == loc[t]
<1>1. /\ pc[t] = "put"
      /\ entry' = IF l.op = "mkdir" THEN l.block
                  ELSE [l.block EXCEPT ![l.file] = NewEntry(l)]
      /\ UNCHANGED <<cacheVars, fat, stage, chains, nextFreeCluster, handle, cur, nxt>>
  BY DEF PutBlock, processVars, allocVars, history
<1>2. /\ l \in Loc /\ OnChain("put", l, cur[t], nxt[t], own, cached, fat, chains)
      /\ AtPlace("put", l, reserved)
  BY <1>1, HereOn, ThreadAtPlace
<1>3. /\ l.op \in {"mknod", "write", "extend", "mkdir"}
      /\ l.op # "mkdir" => l.file \in File
      /\ l.block \in [File -> DirEntry]
      /\ \A g \in File : Owned(l.block[g].first, g, own, chains)
      /\ l.op \notin {"mknod", "mkdir"} => GoodFile(l, own, chains)
  <2>1. /\ l.op \in {"mknod", "write", "extend", "mkdir"}
        /\ \A g \in File : Owned(l.block[g].first, g, own, chains)
    BY <1>2 DEF OnChain, Caller
  <2>2. l.op \notin {"mknod", "mkdir"} => GoodFile(l, own, chains)
    BY <1>1, <2>1, HereOn DEF Extends
  <2> QED BY <1>2, <2>1, <2>2 DEF AtPlace
<1>4. Entries(own)'
  <2> SUFFICES ASSUME NEW g \in File PROVE Owned(entry'[g].first, g, own, chains)
    BY <1>1 DEF Entries
  <2>1. CASE g # l.file \/ l.op = "mkdir"
    BY <1>1, <1>3, <2>1
  <2>2. CASE g = l.file /\ l.op # "mkdir"
    <3>1. entry'[g] = NewEntry(l)
      BY <1>1, <1>3, <2>2
    <3>2. CASE l.op = "mknod"
      BY <3>1, <3>2 DEF NewEntry, Owned
    <3>3. CASE l.op \notin {"mknod", "mkdir"}
      <4>1. l.block[l.file] \in DirEntry
        BY <1>3, <3>3
      <4>2. NewEntry(l).first = l.f.first
        BY <1>3, <3>3, <4>1 DEF NewEntry, DirEntry
      <4>3. Owned(l.f.first, l.file, own, chains)
        BY <1>3, <3>3 DEF GoodFile, Sound
      <4> QED BY <2>2, <3>1, <4>2, <4>3
    <3> QED BY <2>2, <3>2, <3>3
  <2> QED BY <2>1, <2>2
<1>5. SUFFICES ASSUME NEW p, NEW m, OneMoves(t, p, m),
                      \/ p # "idle" /\ m.op = l.op /\ m.file = l.file
                      \/ p = "idle" /\ l.op # "write",
                      OnChain(p, m, cur'[t], nxt'[t], own, cached, fat, chains)
               PROVE  Plainly(own)'
  <2>1. CASE l.op = "write"
    <3> DEFINE target == Seek(l)
    <3>1. Goto(t, target)
      BY <2>1 DEF PutBlock
    <3>2. TargetOn(target, l, own, cached, fat, chains)
      BY <1>3, <2>1, SeekOn
    <3> HIDE DEF target, l
    <3>3. OneMoves(t, target[1], target[2])
      BY <1>1, <3>1, GotoMoves
    <3> QED BY <1>5, <3>2, <3>3 DEF TargetOn
  <2>2. CASE l.op # "write"
    <3>1. Goto(t, Return)
      BY <1>3, <2>2 DEF PutBlock
    <3>2. OneMoves(t, "idle", NoLoc)
      BY <1>1, <3>1, GotoMoves DEF Return
    <3> QED BY <1>5, <2>2, <3>2, ReturnOn
  <2> QED BY <2>1, <2>2
<1> HIDE DEF l
<1>6. Quiet(cached, fat, cached', fat')
  BY <1>1 DEF Quiet, cacheVars
<1>7. ChainShape' /\ Linked' /\ FreeAbove'
  BY <1>1, <1>5, <1>6, StepState
<1>8. FilesApart' /\ Handles(own)'
  <2>1. pc[t] # "idle"
    BY <1>1
  <2> QED BY <1>1, <1>5, <2>1, StepCalls DEF l
<1>9. UnmarkedWritten'
  BY <1>1, UnmarkedKept DEF Plainly
<1>10. Threads(own)'
  <2>1. OnChain(p, m, cur'[t], nxt'[t], own, cached', fat', chains)
    BY <1>1, <1>5 DEF cacheVars
  <2> QED BY <1>1, <1>5, <1>6, <2>1, StepThreads DEF Plainly
<1> QED BY <1>4, <1>7, <1>8, <1>9, <1>10 DEF Plainly

\* A write leaves its FatFile to the handle.
LEMMA DataPlainly ==
  ASSUME IInv, NEW own, Plainly(own), NEW t \in Thread, Data(t) PROVE Plainly(own)'
<1> DEFINE l == loc[t]
           g == [l.f EXCEPT !.write = IF @ = 0 THEN l.cluster ELSE @]
<1>1. /\ pc[t] = "data" /\ handle' = [handle EXCEPT ![l.file] = g] /\ Goto(t, Return)
      /\ UNCHANGED <<cacheVars, fat, stage, chains, nextFreeCluster, entry, cur, nxt>>
  BY DEF Data, processVars, volumeVars, allocVars, history
<1>2. OneMoves(t, "idle", NoLoc)
  BY <1>1, GotoMoves DEF Return
<1>3. /\ l.op = "write" /\ Extends(t) /\ GoodFile(l, own, chains)
  <2>1. l.op = "write"
    BY <1>1, HereOn DEF OnChain, Caller
  <2> QED BY <1>1, <2>1, HereOn DEF Extends
<1>4. Quiet(cached, fat, cached', fat')
  BY <1>1 DEF Quiet, cacheVars
<1>5. ChainShape' /\ Linked' /\ FreeAbove'
  BY <1>1, <1>2, <1>4, StepState
<1>6. FilesApart'
  <2>1. \A u \in Thread : Extends(u)' => Extends(u) /\ loc'[u].file = loc[u].file
    BY <1>2 DEF OneMoves, Extends
  <2> QED BY <2>1 DEF Plainly, FilesApart
<1>7. Handles(own)'
  <2>1. g.first = l.f.first /\ g.next = l.f.next /\ g.eoc = l.f.eoc
    BY <1>3 DEF GoodFile, Loc, FatFile
  <2> HIDE DEF g
  <2>2. Sound(g, l.file, own, chains)
    BY <1>3, <2>1 DEF GoodFile, Sound
  <2> SUFFICES ASSUME NEW f \in File, handle'[f] # None
               PROVE  \/ \E u \in Thread : pc'[u] # "idle" /\ loc'[u].op = "write" /\ loc'[u].file = f
                      \/ /\ Sound(handle'[f], f, own, chains)
                         /\ \A u \in Thread : pc'[u] # "idle" /\ loc'[u].file = f
                                                  => loc'[u].op # "extend"
    BY <1>1 DEF Handles
  <2>3. handle \in [File -> FatFile \cup {None}]
    BY DEF IInv, HandleInv
  <2>4. CASE f = l.file
    <3>1. handle'[f] = g
      BY <1>1, <2>3, <2>4
    <3>2. ASSUME NEW u \in Thread, pc'[u] # "idle", loc'[u].file = f, loc'[u].op = "extend"
          PROVE  FALSE
      <4>1. u # t /\ Extends(u) /\ loc[u].file = f
        BY <1>2, <3>2 DEF OneMoves, Extends
      <4> QED BY <1>3, <2>4, <4>1 DEF Plainly, FilesApart
    <3> QED BY <2>2, <2>4, <3>1, <3>2
  <2>5. CASE f # l.file
    <3>1. handle'[f] = handle[f]
      BY <1>1, <2>3, <2>5
    <3>2. CASE \E u \in Thread : pc[u] # "idle" /\ loc[u].op = "write" /\ loc[u].file = f
      BY <1>2, <2>5, <3>2 DEF OneMoves
    <3>3. CASE /\ Sound(handle[f], f, own, chains)
               /\ \A u \in Thread : pc[u] # "idle" /\ loc[u].file = f => loc[u].op # "extend"
      BY <1>2, <3>1, <3>3 DEF OneMoves
    <3> QED BY <3>1, <3>2, <3>3 DEF Plainly, Handles
  <2> QED BY <2>4, <2>5
<1>8. UnmarkedWritten'
  BY <1>1, UnmarkedKept DEF Plainly
<1>9. Threads(own)'
  <2>1. OnChain("idle", NoLoc, cur'[t], nxt'[t], own, cached', fat', chains)
    BY ReturnOn
  <2> QED BY <1>1, <1>2, <1>4, <2>1, StepThreads DEF Plainly
<1>10. Entries(own)'
  BY <1>1, EntriesKept
<1> QED BY <1>5, <1>6, <1>7, <1>8, <1>9, <1>10 DEF Plainly

\* Nothing is freed.
LEMMA NothingFreed ==
  ASSUME IInv, NEW own, Plainly(own), NEW t \in Thread
  PROVE  ~(Peek(t) \/ FreeEntry(t) \/ Shrink(t) \/ After(t) \/ Cut(t) \/ Drop(t))
<1>1. OnChain(pc[t], loc[t], cur[t], nxt[t], own, cached, fat, chains)
  BY HereOn
<1>2. pc[t] \notin {"peek", "free", "shrink", "after", "cut", "drop"}
  BY <1>1 DEF OnChain, Answer, FatPc, ReadPc, ChangePc
<1> QED BY <1>2 DEF Peek, FreeEntry, Shrink, After, Cut, Drop, At
-----------------------------------------------------------------------------
(* The flush of a file that is closed.                                     *)

\* A step that changes the cache and the volume so that nobody sees it.
LEMMA QuietPlainly ==
  ASSUME IInv, NEW own, Plainly(own), NEW t \in Thread, NEW p, NEW l, OneMoves(t, p, l),
         pc[t] \notin {"unlock", "link", "idle"}, p # "idle",
         l.op = loc[t].op, l.file = loc[t].file,
         Quiet(cached, fat, cached', fat'), UnmarkedWritten',
         UNCHANGED <<chains, nextFreeCluster, entry, handle>>,
         OnChain(p, l, cur'[t], nxt'[t], own, cached', fat', chains)
  PROVE  Plainly(own)'
<1>1. ChainShape' /\ Linked' /\ FreeAbove'
  BY StepState
<1>2. FilesApart' /\ Entries(own)' /\ Handles(own)'
  BY StepCalls, EntriesKept
<1>3. Threads(own)'
  BY StepThreads DEF Plainly
<1> QED BY <1>1, <1>2, <1>3 DEF Plainly

LEMMA CloseOn ==
  ASSUME NEW own, NEW ca, NEW fa, NEW ch, NEW l, l.op = "close", NEW p \in {"flush", "clear"},
         NEW cu, NEW nx
  PROVE  OnChain(p, l, cu, nx, own, ca, fa, ch)
  BY DEF OnChain, Answer, Locker, Extender, Caller, FatPc, ReadPc, ChangePc, InLock

LEMMA FlushPutPlainly ==
  ASSUME IInv, NEW own, Plainly(own), NEW t \in Thread, FlushPut(t) PROVE Plainly(own)'
<1>1. /\ pc[t] = "flush" /\ loc[t].op = "close" /\ loc[t] \in Loc
      /\ UNCHANGED <<cacheVars, stage, chains, nextFreeCluster, entry, handle, cur, nxt>>
  BY HereOn DEF OnChain, Caller, FlushPut, processVars, allocVars, history
<1>2. PICK s \in loc[t].block :
        LET l == [loc[t] EXCEPT !.block = @ \ {s}, !.last = s] IN
        IF modificado[s]
        THEN fat' = [fat EXCEPT ![s] = cached[s]] /\ Goto(t, <<"clear", l>>)
        ELSE Goto(t, <<"flush", l>>) /\ UNCHANGED fat
  BY DEF FlushPut
<1> DEFINE l == [loc[t] EXCEPT !.block = @ \ {s}, !.last = s]
<1>3. l.op = loc[t].op /\ l.file = loc[t].file
  BY <1>1 DEF Loc
<1>4. PICK place \in {"clear", "flush"} : Goto(t, <<place, l>>)
  BY <1>2
<1> HIDE DEF l
<1>5. OneMoves(t, place, l)
  BY <1>1, <1>4, GotoMoves
<1>6. ASSUME NEW r \in Sector
      PROVE  fat'[r] = fat[r] \/ (cached[r] # None /\ fat'[r] = cached[r])
  <2>1. fat \in [Sector -> FatSector] /\ (modificado[r] => cached[r] # None)
    BY FatAssumption DEF IInv, VolumeInv, CacheInv, FatSector, Slot
  <2> QED BY <1>2, <2>1
<1>7. Quiet(cached, fat, cached', fat')
  BY <1>1, <1>6 DEF Quiet, cacheVars
<1>8. UnmarkedWritten'
  <2>1. stage \in {"up", "killed"}
    BY <1>1 DEF IInv, StageInv
  <2> QED BY <1>1, <1>6, <2>1 DEF Plainly, UnmarkedWritten, cacheVars
<1>9. OnChain(place, l, cur'[t], nxt'[t], own, cached', fat', chains)
  BY <1>1, <1>3, CloseOn
<1> QED BY <1>1, <1>3, <1>5, <1>7, <1>8, <1>9, QuietPlainly

\* Nobody has changed the sector since it was written.
LEMMA FlushClearPlainly ==
  ASSUME IInv, NEW own, Plainly(own), NEW t \in Thread, FlushClear(t), plain'
  PROVE  Plainly(own)'
<1>1. /\ pc[t] = "clear" /\ loc[t].op = "close" /\ Goto(t, <<"flush", loc[t]>>)
      /\ modificado' = [modificado EXCEPT ![loc[t].last] = FALSE]
      /\ cached[loc[t].last] = fat[loc[t].last]
      /\ UNCHANGED <<cached, fat, stage, chains, nextFreeCluster, entry, handle, cur, nxt>>
  BY HereOn DEF OnChain, Caller, FlushClear, processVars, volumeVars, allocVars
<1>2. OneMoves(t, "flush", loc[t])
  BY <1>1, GotoMoves
<1>3. Quiet(cached, fat, cached', fat')
  BY <1>1 DEF Quiet
<1>4. UnmarkedWritten'
  <2>1. stage \in {"up", "killed"}
    BY <1>1 DEF IInv, StageInv
  <2>2. modificado \in [Sector -> BOOLEAN]
    BY DEF IInv, CacheInv
  <2> QED BY <1>1, <2>1, <2>2 DEF Plainly, UnmarkedWritten
<1>5. OnChain("flush", loc[t], cur'[t], nxt'[t], own, cached', fat', chains)
  BY <1>1, CloseOn
<1> QED BY <1>1, <1>2, <1>3, <1>4, <1>5, QuietPlainly

LEMMA ReleasePlainly ==
  ASSUME IInv, NEW own, Plainly(own), NEW t \in Thread, Release(t) PROVE Plainly(own)'
<1>1. /\ pc[t] = "flush" /\ loc[t].op = "close" /\ Goto(t, Return)
      /\ handle' = [handle EXCEPT ![loc[t].file] = None]
      /\ UNCHANGED <<cacheVars, fat, stage, chains, nextFreeCluster, entry, cur, nxt>>
  BY HereOn DEF OnChain, Caller, Release, processVars, volumeVars, allocVars, history
<1>2. OneMoves(t, "idle", NoLoc)
  BY <1>1, GotoMoves DEF Return
<1>3. Quiet(cached, fat, cached', fat')
  BY <1>1 DEF Quiet, cacheVars
<1>4. ChainShape' /\ Linked' /\ FreeAbove'
  BY <1>1, <1>2, <1>3, StepState
<1>5. FilesApart'
  <2>1. \A u \in Thread : Extends(u)' => Extends(u) /\ loc'[u].file = loc[u].file
    BY <1>2 DEF OneMoves, Extends
  <2> QED BY <2>1 DEF Plainly, FilesApart
<1>6. Handles(own)'
  <2> SUFFICES ASSUME NEW f \in File, handle'[f] # None
               PROVE  \/ \E u \in Thread : pc'[u] # "idle" /\ loc'[u].op = "write" /\ loc'[u].file = f
                      \/ /\ Sound(handle'[f], f, own, chains)
                         /\ \A u \in Thread : pc'[u] # "idle" /\ loc'[u].file = f
                                                  => loc'[u].op # "extend"
    BY <1>1 DEF Handles
  <2>1. handle'[f] = handle[f]
    BY <1>1 DEF IInv, HandleInv
  <2>2. CASE \E u \in Thread : pc[u] # "idle" /\ loc[u].op = "write" /\ loc[u].file = f
    BY <1>1, <1>2, <2>2 DEF OneMoves
  <2>3. CASE /\ Sound(handle[f], f, own, chains)
             /\ \A u \in Thread : pc[u] # "idle" /\ loc[u].file = f => loc[u].op # "extend"
    BY <1>2, <2>1, <2>3 DEF OneMoves
  <2> QED BY <2>1, <2>2, <2>3 DEF Plainly, Handles
<1>7. UnmarkedWritten'
  BY <1>1, UnmarkedKept DEF Plainly
<1>8. Threads(own)'
  BY <1>1, <1>2, <1>3, ReturnOn, StepThreads DEF Plainly
<1>9. Entries(own)'
  BY <1>1, EntriesKept
<1> QED BY <1>4, <1>5, <1>6, <1>7, <1>8, <1>9 DEF Plainly
-----------------------------------------------------------------------------
(* The allocation under the lock.                                          *)

LEMMA LockPlainly ==
  ASSUME IInv, NEW own, Plainly(own), NEW t \in Thread, Lock(t) PROVE Plainly(own)'
<1> DEFINE c == nextFreeCluster + 1
           m == [loc[t] EXCEPT !.slot = SlotOf(c)]
           target == Read("scan", m, c)
<1>1. /\ pc[t] = "lock" /\ Goto(t, target)
      /\ cur' = [cur EXCEPT ![t] = nextFreeCluster] /\ nxt' = [nxt EXCEPT ![t] = c]
      /\ UNCHANGED <<cacheVars, fat, stage, chains, nextFreeCluster, entry, handle>>
  BY DEF Lock, processVars, volumeVars, history
<1>2. cur'[t] = nextFreeCluster /\ nxt'[t] = c
      /\ \A u \in Thread : u # t => cur'[u] = cur[u] /\ nxt'[u] = nxt[u]
  BY <1>1 DEF IInv, AllocInv
<1>3. loc[t] \in Loc /\ OnChain("lock", loc[t], cur[t], nxt[t], own, cached, fat, chains)
  BY <1>1, HereOn
<1>4. c \in Int /\ SlotOf(c) \in Slot
  BY SlotType DEF IInv, AllocInv
<1>5. /\ m \in Loc /\ m.op = loc[t].op /\ m.file = loc[t].file /\ m.f = loc[t].f
      /\ m.chain = loc[t].chain /\ m.last = loc[t].last /\ m.slot = SlotOf(c)
  BY <1>3, <1>4 DEF Loc
<1> HIDE DEF m
<1> DEFINE l == target[2]
<1>6. /\ target[1] = "scan" /\ l.op = loc[t].op /\ l.file = loc[t].file /\ l.f = loc[t].f
      /\ l.chain = loc[t].chain /\ l.last = loc[t].last /\ l.slot = SlotOf(c)
      /\ l.cluster = c /\ l.fetched = None /\ l.sector = None
  BY <1>5, ReadHas
<1> HIDE DEF target
<1>7. OneMoves(t, "scan", l)
  BY <1>1, <1>2, <1>6, GotoMoves
<1>8. OnChain("scan", l, cur'[t], nxt'[t], own, cached, fat, chains)
  <2>1. Answer("scan", l, cached, fat)
    BY <1>6 DEF Answer
  <2>2. Locker("scan", l, cur'[t], nxt'[t], cached, fat)
    BY <1>2, <1>6 DEF Locker
  <2>3. Extender("scan", l, cached, fat, chains)
    BY <1>3, <1>6 DEF OnChain, Extender, InLock
  <2>4. Caller("scan", l, own, chains)
    BY <1>3, <1>6 DEF OnChain, Caller
  <2> QED BY <2>1, <2>2, <2>3, <2>4 DEF OnChain
<1> HIDE DEF l
<1> QED BY <1>1, <1>6, <1>7, <1>8, StepPlainly DEF l

\* The cluster after the next free one is free, so that the scan ends there.
LEMMA ScanPlainly ==
  ASSUME IInv, NEW own, Plainly(own), NEW t \in Thread, Scan(t) PROVE Plainly(own)'
<1>1. /\ pc[t] = "scan" /\ At(t, "scan")
      /\ UNCHANGED <<cacheVars, fat, stage, chains, nextFreeCluster, entry, handle, cur>>
  BY DEF Scan, At, processVars, volumeVars, allocVars, history
<1>2. loc[t] \in Loc /\ OnChain("scan", loc[t], cur[t], nxt[t], own, cached, fat, chains)
  BY <1>1, HereOn
<1>3. /\ fatLock = t /\ cur[t] = nextFreeCluster /\ nxt[t] = cur[t] + 1 /\ cur[t] \in Nat
      /\ \A u \in Thread : pc[u] \in InLock => u = t
      /\ nxt \in [Thread -> Nat]
  <2>1. pc[t] \in InLock
    BY <1>1 DEF InLock
  <2>2. nxt[t] = cur[t] + 1
    BY <1>2 DEF OnChain, Locker, InLock
  <2> QED BY <2>1, <2>2 DEF IInv, AllocInv
<1>4. /\ loc[t].cluster = nxt[t] /\ InFat(nxt[t]) /\ loc[t].slot = SlotOf(nxt[t])
      /\ cached[SectorOf(nxt[t])] # None /\ Content(t) = cached[SectorOf(nxt[t])]
  <2>1. loc[t].cluster = nxt[t] /\ loc[t].slot = SlotOf(nxt[t])
    BY <1>2 DEF OnChain, Locker
  <2>2. CASE loc[t].sector # None
    BY <1>2, <2>1, <2>2 DEF OnChain, Locker, Answer, FatPc, ReadPc, Content
  <2>3. CASE loc[t].sector = None
    BY <1>1, <2>1, <2>3 DEF At, Found, Content
  <2> QED BY <2>1, <2>2, <2>3
<1> DEFINE from == loc[t].slot
           at(k) == nxt[t] + k - from
           free == {k \in from .. EntriesPerSector - 1 :
                       at(k) >= Clusters \/ Content(t)[k] = Free}
<1>5. from \in free
  <2>1. from \in from .. EntriesPerSector - 1
    BY <1>2, FatAssumption DEF Loc, Slot
  <2>2. Content(t)[from] = Seen(cached, fat, nxt[t])
    BY <1>4 DEF Seen
  <2>3. ~ \E u \in Thread : pc[u] \in {"link", "unlock"}
    BY <1>1, <1>3 DEF InLock
  <2>4. nxt[t] > nextFreeCluster
    BY <1>3
  <2>5. Seen(cached, fat, nxt[t]) = Free
    BY <1>4, <2>3, <2>4 DEF Plainly, FreeAbove
  <2> QED BY <2>1, <2>2, <2>5
<1> DEFINE target == Read("mark", loc[t], cur[t])
<1>6. nxt' = [nxt EXCEPT ![t] = nxt[t]] /\ Goto(t, target)
  <2>1. \/ \E k \in free : /\ \A j \in free : k <= j
                           /\ nxt' = [nxt EXCEPT ![t] = at(k)]
                           /\ Goto(t, target)
        \/ free = {}
    BY DEF Scan
  <2> HIDE DEF target
  <2>2. PICK k \in free : /\ \A j \in free : k <= j
                          /\ nxt' = [nxt EXCEPT ![t] = at(k)]
                          /\ Goto(t, target)
    BY <1>5, <2>1
  <2>3. k = from
    BY <1>2, <1>5, <2>2, FatAssumption DEF Loc, Slot
  <2>4. at(k) = nxt[t]
    BY <1>2, <1>3, <2>3 DEF Loc, Slot
  <2> QED BY <2>2, <2>4
<1> HIDE DEF free, from
<1>7. nxt' = nxt
  BY <1>3, <1>6
<1> DEFINE l == target[2]
<1>8. /\ target[1] = "mark" /\ l.op = loc[t].op /\ l.file = loc[t].file /\ l.f = loc[t].f
      /\ l.chain = loc[t].chain /\ l.last = loc[t].last
      /\ l.cluster = cur[t] /\ l.fetched = None /\ l.sector = None
  BY <1>2, ReadHas
<1> HIDE DEF target
<1>9. OneMoves(t, "mark", l)
  BY <1>1, <1>6, <1>7, <1>8, GotoMoves
<1>10. OnChain("mark", l, cur'[t], nxt'[t], own, cached, fat, chains)
  <2>1. Answer("mark", l, cached, fat)
    BY <1>8 DEF Answer
  <2>2. Locker("mark", l, cur[t], nxt[t], cached, fat)
    BY <1>3, <1>8 DEF Locker
  <2>3. Extender("mark", l, cached, fat, chains)
    BY <1>2, <1>8 DEF OnChain, Extender, InLock
  <2>4. Caller("mark", l, own, chains)
    BY <1>2, <1>8 DEF OnChain, Caller
  <2> QED BY <1>1, <1>7, <2>1, <2>2, <2>3, <2>4 DEF OnChain
<1> HIDE DEF l
<1> QED BY <1>1, <1>8, <1>9, <1>10, StepPlainly DEF l

\* One alone is in the lock, on the next free cluster, and what is in chains
\* lies below it.
LEMMA AloneInLock ==
  ASSUME IInv, NEW own, Plainly(own), NEW t \in Thread, pc[t] \in InLock
  PROVE  /\ cur[t] = nextFreeCluster /\ nxt[t] = cur[t] + 1 /\ cur[t] \in Nat
         /\ \A u \in Thread : pc[u] \in InLock => u = t
         /\ \A c \in chains : \A i \in 1 .. Len(c) :
               InFat(c[i]) /\ 0 < c[i] /\ c[i] < cur[t] /\ c[i] \in Nat
<1>1. /\ cur[t] = nextFreeCluster /\ cur[t] \in Nat
      /\ \A u \in Thread : pc[u] \in InLock => u = t
  BY DEF IInv, AllocInv
<1>2. nxt[t] = cur[t] + 1
  BY HereOn DEF OnChain, Locker
<1>3. \A c \in chains : c \in Seq(Nat)
  BY DEF IInv, HistoryInv
<1> QED BY <1>1, <1>2, <1>3 DEF Plainly, ChainShape

LEMMA PutSees ==
  ASSUME CacheInv, NEW e, NEW v \in Int, InFat(e), cached[SectorOf(e)] # None,
         PutsEntry(cached, cached', e, v), fat' = fat
  PROVE  /\ \A s \in Sector : cached'[s] = None <=> cached[s] = None
         /\ \A s \in Sector : s # SectorOf(e) => cached'[s] = cached[s]
         /\ \A c : InFat(c) => Seen(cached', fat', c) = IF c = e THEN v ELSE Seen(cached, fat, c)
<1>1. cached \in [Sector -> FatSector \cup {None}]
  BY DEF CacheInv
<1>2. /\ \A s \in Sector : cached'[s] = None <=> cached[s] = None
      /\ \A s \in Sector : s # SectorOf(e) => cached'[s] = cached[s]
  BY <1>1, PutSectors
<1>3. \A c : InFat(c) => Seen(cached', fat, c) = IF c = e THEN v ELSE Seen(cached, fat, c)
  BY <1>1, PutSeen
<1> QED BY <1>2, <1>3

\* The thread in the lock changes an entry of a sector that is in the cache.
LEMMA PutPlainly ==
  ASSUME IInv, NEW own, Plainly(own), NEW t \in Thread, NEW p, NEW l, OneMoves(t, p, l),
         pc[t] \in {"mark", "link"}, p \in {"link", "unlock"},
         l.op = loc[t].op, l.file = loc[t].file,
         NEW e, NEW v \in Int, InFat(e), cached[SectorOf(e)] # None,
         PutsEntry(cached, cached', e, v),
         modificado' = [modificado EXCEPT ![SectorOf(e)] = TRUE],
         \A u \in Thread : u # t /\ pc[u] = "eoc" => loc[u].cluster # e,
         \A c \in chains : \A i \in 1 .. Len(c) :
            c[i] = e => i = Len(c) /\ Linking(e)',
         e = nextFreeCluster + 1 \/ e < nextFreeCluster, e \in Nat,
         UNCHANGED <<fat, stage, chains, nextFreeCluster, entry, handle>>,
         OnChain(p, l, cur'[t], nxt'[t], own, cached', fat, chains)
  PROVE  Plainly(own)'
<1>1. cached \in [Sector -> FatSector \cup {None}] /\ modificado \in [Sector -> BOOLEAN]
  BY DEF IInv, CacheInv
<1>2. /\ \A s \in Sector : cached'[s] = None <=> cached[s] = None
      /\ \A s \in Sector : s # SectorOf(e) => cached'[s] = cached[s]
      /\ \A c : InFat(c) => Seen(cached', fat', c) = IF c = e THEN v ELSE Seen(cached, fat, c)
  <2>1. fat' = fat
    OBVIOUS
  <2> QED BY <2>1, PutSees DEF IInv
<1>3. pc[t] \in InLock /\ pc[t] # "unlock" /\ pc[t] # "idle" /\ p # "idle"
  BY DEF InLock
<1>4. ChainShape'
  BY DEF Plainly, ChainShape
<1>5. Linked'
  <2> SUFFICES ASSUME NEW c \in chains, NEW i \in 1 .. Len(c)
               PROVE  IF i < Len(c) THEN Seen(cached', fat', c[i]) = c[i + 1]
                      ELSE Seen(cached', fat', c[i]) = EOC \/ Linking(c[i])'
    BY DEF Linked
  <2>1. InFat(c[i])
    BY DEF Plainly, ChainShape
  <2>2. CASE c[i] = e
    BY <2>2
  <2>3. CASE c[i] # e
    <3>1. Seen(cached', fat', c[i]) = Seen(cached, fat, c[i])
      BY <1>2, <2>1, <2>3
    <3>2. Linking(c[i]) => Linking(c[i])'
      BY <1>3 DEF Linking, OneMoves
    <3> QED BY <3>1, <3>2 DEF Plainly, Linked
  <2> QED BY <2>2, <2>3
<1>6. FreeAbove'
  <2>1. nextFreeCluster \in Nat
    BY DEF IInv, AllocInv
  <2>2. \E u \in Thread : pc'[u] \in {"link", "unlock"}
    BY DEF OneMoves
  <2>3. InFat(nextFreeCluster) => Seen(cached', fat', nextFreeCluster) = EOC
    BY <1>2, <2>1 DEF Plainly, FreeAbove
  <2>4. ASSUME NEW c, InFat(c), c > nextFreeCluster, Seen(cached', fat', c) # Free
        PROVE  c = nextFreeCluster + 1
    <3>1. CASE c = e
      <4>1. e \in Nat /\ nextFreeCluster \in Nat /\ ~(e < nextFreeCluster)
        BY <2>1, <2>4, <3>1
      <4> QED BY <3>1, <4>1
    <3>2. CASE c # e
      BY <1>2, <2>4, <3>2 DEF Plainly, FreeAbove
    <3> QED BY <3>1, <3>2
  <2> QED BY <2>2, <2>3, <2>4 DEF FreeAbove
<1>7. UnmarkedWritten'
  <2>1. stage \in {"up", "killed"}
    BY <1>3 DEF IInv, StageInv
  <2>2. \A s \in Sector : modificado'[s] = IF s = SectorOf(e) THEN TRUE ELSE modificado[s]
    BY <1>1
  <2> QED BY <1>2, <2>1, <2>2 DEF Plainly, UnmarkedWritten
<1>8. FilesApart' /\ Entries(own)' /\ Handles(own)'
  BY <1>3, StepCalls, EntriesKept
<1>9. Threads(own)'
  <2> SUFFICES ASSUME NEW u \in Thread
               PROVE  OnChain(pc'[u], loc'[u], cur'[u], nxt'[u], own, cached', fat', chains')
    BY DEF Threads
  <2>1. CASE u = t
    BY <2>1 DEF OneMoves
  <2>2. CASE u # t
    <3>1. OnChain(pc[u], loc[u], cur[u], nxt[u], own, cached, fat, chains) /\ pc[u] \notin InLock
      BY <1>3, <2>2, HereOn, AloneInLock
    <3>2. OnChain(pc[u], loc[u], cur[u], nxt[u], own, cached', fat, chains)
      BY <1>1, <2>2, <3>1, PutOnChain
    <3> QED BY <2>2, <3>2 DEF OneMoves
  <2> QED BY <2>1, <2>2
<1> QED BY <1>4, <1>5, <1>6, <1>7, <1>8, <1>9 DEF Plainly

\* The end of the chain is marked after the own cluster, in the same sector.
LEMMA MarkPlainly ==
  ASSUME IInv, NEW own, Plainly(own), NEW t \in Thread, Mark(t), plain' PROVE Plainly(own)'
<1>1. /\ pc[t] = "mark" /\ At(t, "mark") /\ PutEndOfChain(t)
      /\ SlotOf(loc[t].cluster) + 1 \in Slot
      /\ UNCHANGED <<fat, stage, chains, nextFreeCluster, entry, handle, cur, nxt>>
  BY DEF Mark, At, processVars, volumeVars, allocVars
<1>2. loc[t] \in Loc /\ OnChain("mark", loc[t], cur[t], nxt[t], own, cached, fat, chains)
  BY <1>1, HereOn
<1>3. loc[t].sector \in FatSector /\ loc[t].sector # None
  <2>1. loc[t].sector # None
    BY <1>1 DEF At, ReadPc
  <2> QED BY <1>2, <2>1 DEF Loc
<1>4. /\ loc[t].cluster = cur[t] /\ InFat(cur[t])
      /\ cached[SectorOf(cur[t])] # None /\ loc[t].sector = cached[SectorOf(cur[t])]
  BY <1>2, <1>3 DEF OnChain, Answer, Locker, FatPc, ReadPc, ChangePc
<1> DEFINE e == cur[t] + 1
<1>5. /\ InFat(e) /\ SectorOf(e) = SectorOf(cur[t]) /\ SlotOf(e) = SlotOf(cur[t]) + 1
  BY <1>1, <1>4, NextSlot
<1>6. /\ cur[t] = nextFreeCluster /\ nxt[t] = e /\ cur[t] \in Nat
      /\ \A c \in chains : \A i \in 1 .. Len(c) : c[i] < cur[t] /\ c[i] \in Nat
  BY <1>1, AloneInLock DEF InLock
<1>7. PutsEntry(cached, cached', e, EOC)
  <2> DEFINE x == [k \in Slot |-> IF k = SlotOf(e) THEN EOC ELSE loc[t].sector[k]]
  <2>1. x = [loc[t].sector EXCEPT ![SlotOf(e)] = EOC]
    BY <1>3 DEF FatSector
  <2>2. cached' = [cached EXCEPT ![SectorOf(e)] = x]
    BY <1>1, <1>4, <1>5 DEF PutEndOfChain, PutInCache
  <2> HIDE DEF x, e
  <2> QED BY <1>4, <1>5, <2>1, <2>2 DEF PutsEntry
<1>8. modificado' = [modificado EXCEPT ![SectorOf(e)] = TRUE]
  BY <1>1, <1>4, <1>5 DEF PutEndOfChain, PutInCache
<1>9. Seen(cached', fat, e) = EOC
  <2>1. cached \in [Sector -> FatSector \cup {None}] /\ EOC \in Int
    BY DEF IInv, CacheInv, EOC
  <2> HIDE DEF e
  <2> QED BY <1>4, <1>5, <1>7, <2>1, PutSeen
<1> DEFINE target == IF loc[t].chain THEN Read("link", loc[t], loc[t].last)
                                     ELSE <<"unlock", loc[t]>>
           p == target[1]
           l == target[2]
<1>10. Goto(t, target)
  BY DEF Mark
<1>11. /\ l.op = loc[t].op /\ l.file = loc[t].file /\ l.f = loc[t].f
       /\ l.chain = loc[t].chain /\ l.last = loc[t].last
       /\ \/ p = "link" /\ l.chain /\ l.cluster = l.last /\ l.fetched = None /\ l.sector = None
          \/ p = "unlock" /\ ~l.chain
  BY <1>2, ReadHas
<1> HIDE DEF target
<1>12. OneMoves(t, p, l)
  BY <1>1, <1>10, GotoMoves
<1>13. OnChain(p, l, cur'[t], nxt'[t], own, cached', fat, chains)
  <2> HIDE DEF p, l, e
  <2>1. Answer(p, l, cached', fat)
    BY <1>11 DEF Answer, FatPc, ReadPc, ChangePc
  <2>2. Locker(p, l, cur[t], nxt[t], cached', fat)
    BY <1>4, <1>5, <1>6, <1>9, <1>11 DEF Locker, e
  <2>3. Extender(p, l, cached', fat, chains)
    BY <1>2, <1>11 DEF OnChain, Extender, InLock
  <2>4. Caller(p, l, own, chains)
    BY <1>2, <1>11 DEF OnChain, Caller
  <2> QED BY <1>1, <2>1, <2>2, <2>3, <2>4 DEF OnChain
<1>14. \A c \in chains : \A i \in 1 .. Len(c) : c[i] # e
  BY <1>6
<1>15. \A u \in Thread : u # t /\ pc[u] = "eoc" => loc[u].cluster # e
  <2> HIDE DEF e
  <2>1. ASSUME NEW u \in Thread, pc[u] = "eoc"
        PROVE  \E c \in chains : \E i \in 1 .. Len(c) : loc[u].cluster = c[i]
    BY <2>1, HereOn DEF OnChain, Extender
  <2> QED BY <1>14, <2>1
<1>16. p \in {"link", "unlock"} /\ e = nextFreeCluster + 1 /\ e \in Nat /\ EOC \in Int
  BY <1>6, <1>11 DEF EOC
<1> HIDE DEF p, l, e
<1> QED BY <1>1, <1>4, <1>5, <1>7, <1>8, <1>11, <1>12, <1>13, <1>14, <1>15, <1>16, PutPlainly

\* The end of the own chain gets the cluster.
LEMMA LinkPlainly ==
  ASSUME IInv, NEW own, Plainly(own), NEW t \in Thread, Link(t) PROVE Plainly(own)'
<1> SUFFICES ASSUME NEW l, l = loc[t], NEW e, e = l.last PROVE Plainly(own)'
  OBVIOUS
<1>1. /\ pc[t] = "link" /\ At(t, "link") /\ PutEntry(t, SlotOf(l.cluster), cur[t])
      /\ Goto(t, <<"unlock", l>>)
      /\ UNCHANGED <<fat, stage, chains, nextFreeCluster, entry, handle, cur, nxt>>
  BY DEF Link, At, processVars, volumeVars, allocVars, history
<1>2. l \in Loc /\ OnChain("link", l, cur[t], nxt[t], own, cached, fat, chains)
  BY <1>1, HereOn
<1>3. l.sector # None
  BY <1>1 DEF At, ReadPc
<1>4. /\ l.chain /\ l.cluster = e /\ InFat(e)
      /\ cached[SectorOf(e)] # None /\ l.sector = cached[SectorOf(e)]
      /\ InFat(cur[t]) /\ InFat(nxt[t]) /\ Seen(cached, fat, nxt[t]) = EOC
  BY <1>2, <1>3 DEF OnChain, Answer, Locker, FatPc, ReadPc, ChangePc
<1>5. /\ Extends(t) /\ e = l.f.eoc /\ e # 0
  BY <1>1, <1>2, <1>4 DEF OnChain, Extender, InLock, Extends
<1>6. PICK c \in chains : c[1] = l.f.next /\ EndOf(c) = e
  BY <1>5, HereOn, LastOfFile
<1>7. Len(c) \in 1 .. Len(c) /\ c[Len(c)] = e
  BY <1>6, HereOn DEF EndOf
<1>8. /\ cur[t] = nextFreeCluster /\ nxt[t] = cur[t] + 1 /\ cur[t] \in Nat
      /\ e < cur[t] /\ e \in Nat
  BY <1>1, <1>7, AloneInLock DEF InLock
<1>9. PutsEntry(cached, cached', e, cur[t])
  BY <1>1, <1>4 DEF PutEntry, PutInCache, PutsEntry
<1>10. modificado' = [modificado EXCEPT ![SectorOf(e)] = TRUE]
  BY <1>1, <1>4 DEF PutEntry, PutInCache
<1>11. OneMoves(t, "unlock", l)
  BY <1>1, GotoMoves
<1>12. OnChain("unlock", l, cur'[t], nxt'[t], own, cached', fat, chains)
  <2>1. cached \in [Sector -> FatSector \cup {None}] /\ cur[t] \in Int
    BY <1>8 DEF IInv, CacheInv
  <2>2. Seen(cached', fat, e) = cur[t] /\ Seen(cached', fat, nxt[t]) = EOC
    <3>1. nxt[t] # e
      BY <1>8
    <3>2. InFat(e) /\ cached[SectorOf(e)] # None
      BY <1>4
    <3>3. \A x : InFat(x) => Seen(cached', fat, x) = IF x = e THEN cur[t] ELSE Seen(cached, fat, x)
      <4> DEFINE ca2 == cached'
      <4>1. PutsEntry(cached, ca2, e, cur[t])
        BY <1>9
      <4> HIDE DEF ca2
      <4> QED BY ONLY <2>1, <3>2, <4>1, PutSeen, SMTT(60) DEF ca2
    <3> QED BY ONLY <1>4, <3>1, <3>2, <3>3
  <2>3. Answer("unlock", l, cached', fat)
    BY DEF Answer, FatPc, ReadPc, ChangePc
  <2>4. Locker("unlock", l, cur[t], nxt[t], cached', fat)
    BY <1>4, <1>8, <2>2 DEF Locker
  <2>5. Extender("unlock", l, cached', fat, chains)
    BY <1>2 DEF OnChain, Extender, InLock
  <2>6. Caller("unlock", l, own, chains)
    BY <1>2 DEF OnChain, Caller
  <2> QED BY <1>1, <2>3, <2>4, <2>5, <2>6 DEF OnChain
<1>13. \A d \in chains : \A i \in 1 .. Len(d) : d[i] = e => d = c /\ i = Len(d)
  BY <1>7 DEF Plainly, ChainShape
<1>14. Linking(e)'
  BY <1>4, <1>11 DEF Linking, OneMoves
<1>15. ASSUME NEW u \in Thread, u # t, pc[u] = "eoc" PROVE loc[u].cluster # e
  <2> SUFFICES ASSUME loc[u].cluster = e PROVE FALSE
    OBVIOUS
  <2>1. OnChain("eoc", loc[u], cur[u], nxt[u], own, cached, fat, chains)
    BY <1>15, HereOn
  <2>2. Extends(u)
    BY <1>15, <2>1 DEF OnChain, Extender, Extends
  <2>3. PICK d \in chains : d[1] = loc[u].f.next /\ \E i \in 1 .. Len(d) : e = d[i]
    BY <2>1 DEF OnChain, Extender
  <2>4. d = c
    BY <1>13, <2>3
  <2>5. c[1] = loc[t].f.next /\ c[1] = loc[u].f.next
    BY <1>6, <2>3, <2>4
  <2>6. t = u
    BY <1>5, <2>2, <2>5, ChainOwner, ZenonT(60)
  <2> QED BY <1>15, <2>6
<1>16. cur[t] \in Int /\ e < nextFreeCluster
  BY <1>8
<1>17. l.op = loc[t].op /\ l.file = loc[t].file
  OBVIOUS
<1> QED BY <1>1, <1>4, <1>8, <1>9, <1>10, <1>11, <1>12, <1>13, <1>14, <1>15, <1>16, <1>17, PutPlainly, ZenonT(60)
-----------------------------------------------------------------------------
(* The end of an allocation.  The chains of others, and what is said of    *)
(* them, stay: the new cluster is above all that is in chains.             *)

OnFrom(x, y, ch) == \E c \in ch : c[1] = x /\ \E i \in 1 .. Len(c) : y = c[i]

Grows(l, own, ch, own2, ch2) ==
    /\ \A x, f : Owned(x, f, own, ch) => Owned(x, f, own2, ch2)
    /\ \A h, f : Sound(h, f, own, ch) /\ (l.chain => f # l.file) => Sound(h, f, own2, ch2)
    /\ \A x, y : OnFrom(x, y, ch) => OnFrom(x, y, ch2)

AllLinked(ca, fa, ch) ==
    \A c \in ch : \A i \in 1 .. Len(c) :
        IF i < Len(c) THEN Seen(ca, fa, c[i]) = c[i + 1] ELSE Seen(ca, fa, c[i]) = EOC

Owning(own, n, f) == [own EXCEPT ![n] = f]

Longer(l, n, ch) == {IF c[Len(c)] = l.last THEN Append(c, n) ELSE c : c \in ch}

\* A chain of one cluster that was handed out is new.
LEMMA NewChain ==
  ASSUME IInv, NEW own \in Owners, Plainly(own), NEW t \in Thread, NEW l, l = loc[t],
         pc[t] = "unlock", ~l.chain, NEW n, n = cur[t],
         NEW own2, own2 = Owning(own, n, l.file),
         NEW s, Len(s) = 1, s[1] = n, chains' = chains \cup {s}, nextFreeCluster' = n + 1
  PROVE  /\ own2 \in Owners /\ Grows(l, own, chains, own2, chains') /\ ChainShape'
         /\ own2[n] = l.file
         /\ AllLinked(cached, fat, chains')
<1>1. /\ n = nextFreeCluster /\ n \in Nat \ {0}
      /\ \A c \in chains : \A i \in 1 .. Len(c) :
            InFat(c[i]) /\ 0 < c[i] /\ c[i] < n /\ c[i] \in Nat
      /\ \A u \in Thread : pc[u] \in InLock => u = t
  BY AloneInLock DEF InLock, IInv, AllocInv
<1>2. InFat(n) /\ Seen(cached, fat, n) = EOC
  <2>1. InFat(n)
    BY HereOn DEF OnChain, Locker
  <2> QED BY <1>1, <2>1 DEF Plainly, FreeAbove
<1>3. l.file \in File \cup {None}
  BY HereOn DEF Loc
<1>4. own2 \in Owners /\ own2[n] = l.file /\ \A x : x # n => own2[x] = own[x]
  BY <1>1, <1>3 DEF Owners, Owning
<1>5. \A c \in chains : Len(c) \in Nat \ {0} /\ c[1] # n
  <2> SUFFICES ASSUME NEW c \in chains PROVE Len(c) \in Nat \ {0} /\ c[1] # n
    OBVIOUS
  <2>1. Len(c) \in Nat \ {0}
    BY HereOn
  <2>2. 1 \in 1 .. Len(c)
    BY <2>1
  <2>3. c[1] < n /\ c[1] \in Nat
    BY <1>1, <2>2
  <2> QED BY <1>1, <2>1, <2>3
<1>6. Grows(l, own, chains, own2, chains')
  <2>1. \A x, f : Owned(x, f, own, chains) => Owned(x, f, own2, chains')
    BY <1>4, <1>5 DEF Owned
  <2>2. \A h, f : Sound(h, f, own, chains) => Sound(h, f, own2, chains')
    BY <2>1 DEF Sound
  <2>3. \A x, y : OnFrom(x, y, chains) => OnFrom(x, y, chains')
    BY DEF OnFrom
  <2> QED BY <2>1, <2>2, <2>3 DEF Grows
<1>7. Len(s) = 1 /\ s[1] = n /\ chains' = chains \cup {s}
  OBVIOUS
<1>8. ChainShape'
  <2>1. ASSUME NEW c \in chains'
        PROVE  Len(c) > 0 /\ \A i \in 1 .. Len(c) : InFat(c[i]) /\ 0 < c[i] /\ c[i] < n + 1
    <3>1. CASE c \in chains
      BY <1>1, <1>5, <3>1
    <3>2. CASE c = s
      <4>1. Len(c) = 1 /\ c[1] = n
        BY <1>7, <3>2
      <4> QED BY <1>1, <1>2, <4>1
    <3> QED BY <1>7, <3>1, <3>2
  <2>2. ASSUME NEW c \in chains', NEW d \in chains', NEW i \in 1 .. Len(c), NEW j \in 1 .. Len(d),
               c[i] = d[j]
        PROVE  c = d /\ i = j
    <3>1. CASE c \in chains /\ d \in chains
      BY <2>2, <3>1 DEF Plainly, ChainShape
    <3>2. CASE c = s /\ d = s
      <4>1. Len(c) = 1 /\ Len(d) = 1 /\ c = d
        BY <1>7, <3>2
      <4> QED BY <4>1
    <3>3. CASE c = s /\ d \in chains
      <4>1. Len(c) = 1 /\ c[1] = n
        BY <1>7, <3>3
      <4>2. c[i] = n
        BY <4>1
      <4> QED BY <1>1, <2>2, <3>3, <4>2
    <3>4. CASE c \in chains /\ d = s
      <4>1. Len(d) = 1 /\ d[1] = n
        BY <1>7, <3>4
      <4>2. d[j] = n
        BY <4>1
      <4> QED BY <1>1, <2>2, <3>4, <4>2
    <3> QED BY <1>7, <3>1, <3>2, <3>3, <3>4
  <2> QED BY <2>1, <2>2 DEF ChainShape
<1>9. ASSUME NEW c \in chains', NEW i \in 1 .. Len(c)
      PROVE  IF i < Len(c) THEN Seen(cached, fat, c[i]) = c[i + 1]
                           ELSE Seen(cached, fat, c[i]) = EOC
  <2>1. CASE c \in chains
    <3>1. ~ \E x : Linking(x)
      BY <1>1 DEF Linking, InLock
    <3> QED BY <2>1, <3>1 DEF Plainly, Linked
  <2>2. CASE c = s
    <3>1. Len(c) = 1 /\ c[1] = n
      BY <1>7, <2>2
    <3> QED BY <1>2, <3>1
  <2> QED BY <1>7, <2>1, <2>2
<1> QED BY <1>4, <1>6, <1>8, <1>9 DEF AllLinked

\* The chain that ends in the last cluster gets the cluster at its end.
LEMMA LongerChain ==
  ASSUME IInv, NEW own \in Owners, Plainly(own), NEW t \in Thread, NEW l, l = loc[t],
         pc[t] = "unlock", l.chain, NEW n, n = cur[t],
         chains' = Longer(l, n, chains),
         nextFreeCluster' = n + 1
  PROVE  /\ Grows(l, own, chains, own, chains') /\ ChainShape'
         /\ \E c \in chains' : c[1] = l.f.next /\ EndOf(c) = n
         /\ AllLinked(cached, fat, chains')
<1>1. /\ n = nextFreeCluster /\ n \in Nat \ {0}
      /\ \A c \in chains : \A i \in 1 .. Len(c) :
            InFat(c[i]) /\ 0 < c[i] /\ c[i] < n /\ c[i] \in Nat
      /\ \A u \in Thread : pc[u] \in InLock => u = t
  BY AloneInLock DEF InLock, IInv, AllocInv
<1>2. /\ InFat(n) /\ Seen(cached, fat, n) = EOC
      /\ Seen(cached, fat, l.last) = n
      /\ l.last = l.f.eoc /\ l.last # 0 /\ Extends(t) /\ l.op # "mkdir"
  <2>1. /\ InFat(n) /\ Seen(cached, fat, l.last) = n
        /\ l.last = l.f.eoc /\ l.f.eoc # 0 /\ l.op \in {"write", "extend", "mkdir"} \ {"mkdir"}
    BY HereOn DEF OnChain, Locker, Extender, InLock
  <2>2. Seen(cached, fat, n) = EOC
    BY <1>1, <2>1 DEF Plainly, FreeAbove
  <2> QED BY <2>1, <2>2 DEF Extends
<1>3. PICK b \in chains : b[1] = l.f.next /\ EndOf(b) = l.last
  BY <1>2, HereOn, LastOfFile
<1>4. \A c \in chains : Len(c) \in Nat \ {0} /\ c \in Seq(Nat)
  BY HereOn DEF IInv, HistoryInv
<1>5. \A c \in chains : c[Len(c)] = l.last <=> c = b
  BY <1>3, <1>4 DEF Plainly, ChainShape, EndOf
<1> DEFINE a == Append(b, n)
<1>6. /\ Len(a) = Len(b) + 1 /\ Len(b) \in Nat \ {0} /\ a[Len(b) + 1] = n
      /\ \A i \in 1 .. Len(b) : a[i] = b[i]
      /\ a[1] = b[1]
  BY <1>1, <1>4
<1> HIDE DEF a
<1>7. chains' = (chains \ {b}) \cup {a}
  BY <1>5 DEF a, Longer
<1>8. own[b[1]] = l.file
  <2>1. GoodFile(l, own, chains)
    BY <1>2, HereOn
  <2>2. l.f.next # 0
    BY <1>2, <2>1 DEF GoodFile, Sound
  <2> QED BY <1>3, <2>1, <2>2 DEF GoodFile, Sound, Owned
<1>9. Grows(l, own, chains, own, chains')
  <2>1. \A x : (\E c \in chains : c[1] = x) => \E c \in chains' : c[1] = x
    BY <1>6, <1>7
  <2>2. \A x, f : Owned(x, f, own, chains) => Owned(x, f, own, chains')
    BY <2>1 DEF Owned
  <2>3. ASSUME NEW h, NEW f, Sound(h, f, own, chains), f # l.file
        PROVE  Sound(h, f, own, chains')
    <3>1. CASE h.next = 0
      BY <2>2, <2>3, <3>1 DEF Sound
    <3>2. CASE h.next # 0
      <4>1. PICK c \in chains : c[1] = h.next /\ h.eoc \in {0, EndOf(c)}
        BY <2>3, <3>2 DEF Sound
      <4>2. c # b
        BY <1>8, <2>3, <3>2, <4>1 DEF Sound, Owned
      <4>3. c \in chains'
        BY <1>7, <4>2
      <4> QED BY <2>2, <2>3, <3>2, <4>1, <4>3 DEF Sound
    <3> QED BY <3>1, <3>2
  <2>4. ASSUME NEW c \in chains, NEW i \in 1 .. Len(c)
        PROVE  OnFrom(c[1], c[i], chains')
    <3>1. CASE c = b
      <4>1. a[1] = c[1] /\ i \in 1 .. Len(a) /\ c[i] = a[i]
        BY <1>6, <2>4, <3>1
      <4> QED BY <1>7, <4>1 DEF OnFrom
    <3>2. CASE c # b
      BY <1>7, <2>4, <3>2 DEF OnFrom
    <3> QED BY <3>1, <3>2
  <2>5. \A x, y : OnFrom(x, y, chains) => OnFrom(x, y, chains')
    <3> SUFFICES ASSUME NEW x, NEW y, OnFrom(x, y, chains) PROVE OnFrom(x, y, chains')
      OBVIOUS
    <3>1. PICK c \in chains : c[1] = x /\ \E i \in 1 .. Len(c) : y = c[i]
      BY DEF OnFrom
    <3>2. PICK i \in 1 .. Len(c) : y = c[i]
      BY <3>1
    <3>3. OnFrom(c[1], c[i], chains')
      BY <2>4
    <3> QED BY <3>1, <3>2, <3>3
  <2> QED BY <2>2, <2>3, <2>5 DEF Grows
<1>10. ChainShape'
  <2>1. ASSUME NEW c \in chains'
        PROVE  Len(c) > 0 /\ \A i \in 1 .. Len(c) : InFat(c[i]) /\ 0 < c[i] /\ c[i] < n + 1
    <3>1. CASE c \in chains
      BY <1>1, <1>4, <3>1
    <3>2. CASE c = a
      <4>1. ASSUME NEW i \in 1 .. Len(a) PROVE InFat(a[i]) /\ 0 < a[i] /\ a[i] < n + 1
        <5>1. CASE i \in 1 .. Len(b)
          BY <1>1, <1>6, <5>1
        <5>2. CASE i = Len(b) + 1
          BY <1>1, <1>2, <1>6, <5>2
        <5> QED BY <1>6, <5>1, <5>2
      <4> QED BY <1>6, <3>2, <4>1
    <3> QED BY <1>7, <3>1, <3>2
  <2>2. ASSUME NEW c \in chains, c # b, NEW i \in 1 .. Len(c), NEW j \in 1 .. Len(a)
        PROVE  c[i] # a[j]
    <3>1. CASE j \in 1 .. Len(b)
      BY <1>6, <2>2, <3>1 DEF Plainly, ChainShape
    <3>2. CASE j = Len(b) + 1
      BY <1>1, <1>6, <2>2, <3>2
    <3> QED BY <1>6, <3>1, <3>2
  <2>3. ASSUME NEW i \in 1 .. Len(a), NEW j \in 1 .. Len(a), a[i] = a[j]
        PROVE  i = j
    <3>1. CASE i \in 1 .. Len(b) /\ j \in 1 .. Len(b)
      BY <1>6, <2>3, <3>1 DEF Plainly, ChainShape
    <3>2. CASE i \in 1 .. Len(b) /\ j = Len(b) + 1
      BY <1>1, <1>6, <2>3, <3>2
    <3>3. CASE i = Len(b) + 1 /\ j \in 1 .. Len(b)
      BY <1>1, <1>6, <2>3, <3>3
    <3> QED BY <1>6, <3>1, <3>2, <3>3
  <2>4. ASSUME NEW c \in chains', NEW d \in chains', NEW i \in 1 .. Len(c), NEW j \in 1 .. Len(d),
               c[i] = d[j]
        PROVE  c = d /\ i = j
    <3>1. CASE c # a /\ d # a
      <4>1. c \in chains /\ d \in chains
        BY <1>7, <3>1
      <4> QED BY <2>4, <4>1 DEF Plainly, ChainShape
    <3>2. CASE c = a /\ d = a
      BY <2>3, <2>4, <3>2
    <3>3. CASE c = a /\ d # a
      BY <1>7, <2>2, <2>4, <3>3
    <3>4. CASE c # a /\ d = a
      BY <1>7, <2>2, <2>4, <3>4
    <3> QED BY <3>1, <3>2, <3>3, <3>4
  <2> QED BY <2>1, <2>4 DEF ChainShape
<1>11. \E c \in chains' : c[1] = l.f.next /\ EndOf(c) = n
  BY <1>3, <1>6, <1>7 DEF EndOf
<1>12. ASSUME NEW c \in chains', NEW i \in 1 .. Len(c)
       PROVE  IF i < Len(c) THEN Seen(cached, fat, c[i]) = c[i + 1]
                            ELSE Seen(cached, fat, c[i]) = EOC
  <2>1. CASE c \in chains /\ c # b
    <3>1. i \in Nat /\ (i < Len(c) \/ i = Len(c))
      BY <1>4, <2>1
    <3>2. i = Len(c) => ~Linking(c[i])
      BY <1>1, <1>5, <2>1 DEF Linking, InLock
    <3> QED BY <2>1, <3>1, <3>2 DEF Plainly, Linked
  <2>2. CASE c = a
    <3>1. CASE i \in 1 .. Len(b) - 1
      <4>1. /\ i \in 1 .. Len(b) /\ i + 1 \in 1 .. Len(b) /\ i < Len(b) /\ i < Len(a)
        BY <1>6, <3>1
      <4>2. Seen(cached, fat, b[i]) = b[i + 1]
        BY <4>1 DEF Plainly, Linked
      <4> QED BY <1>6, <2>2, <4>1, <4>2
    <3>2. CASE i = Len(b)
      <4>1. a[i] = l.last /\ a[i + 1] = n /\ i < Len(a)
        BY <1>3, <1>6, <3>2 DEF EndOf
      <4> QED BY <1>2, <2>2, <4>1
    <3>3. CASE i = Len(b) + 1
      BY <1>2, <1>6, <2>2, <3>3
    <3> QED BY <1>6, <2>2, <3>1, <3>2, <3>3
  <2> QED BY <1>7, <2>1, <2>2
<1> QED BY <1>9, <1>10, <1>11, <1>12 DEF AllLinked

\* Who works on another file goes on with the chains that have grown.
LEMMA GrowsOnChain ==
  ASSUME NEW p, NEW l, NEW cu, NEW nx, NEW own, NEW ca, NEW fa, NEW ch,
         OnChain(p, l, cu, nx, own, ca, fa, ch), p \notin InLock,
         NEW m, NEW own2, NEW ch2, Grows(m, own, ch, own2, ch2),
         p # "idle" /\ l.op \in {"write", "extend"} /\ m.chain => l.file # m.file
  PROVE  OnChain(p, l, cu, nx, own2, ca, fa, ch2)
<1>1. Answer(p, l, ca, fa) /\ Locker(p, l, cu, nx, ca, fa)
  BY DEF OnChain
<1>2. Extender(p, l, ca, fa, ch2)
  <2>1. OnFrom(l.f.next, l.cluster, ch) => OnFrom(l.f.next, l.cluster, ch2)
    BY DEF Grows
  <2> QED BY <2>1 DEF OnChain, Extender, OnFrom
<1>3. Caller(p, l, own2, ch2)
  <2>1. p # "idle" /\ l.op \in {"write", "extend"} => Sound(l.f, l.file, own2, ch2)
    BY DEF OnChain, Caller, Grows
  <2>2. p = "put" => \A g \in File : Owned(l.block[g].first, g, own2, ch2)
    BY DEF OnChain, Caller, Grows
  <2> QED BY <2>1, <2>2 DEF OnChain, Caller
<1> QED BY <1>1, <1>2, <1>3 DEF OnChain

\* What the end of an allocation does to the chains.
LEMMA UnlockGrows ==
  ASSUME IInv, NEW own \in Owners, Plainly(own), NEW t \in Thread, Unlock(t),
         NEW l, l = loc[t], NEW n, n = cur[t]
  PROVE  \E own2 \in Owners :
           /\ Grows(l, own, chains, own2, chains') /\ ChainShape'
           /\ l.chain => /\ own2 = own
                         /\ \E c \in chains' : c[1] = l.f.next /\ EndOf(c) = n
           /\ ~l.chain => /\ own2[n] = l.file
                          /\ \E c \in chains' : c[1] = n
           /\ AllLinked(cached, fat, chains')
<1>1. /\ pc[t] = "unlock" /\ nextFreeCluster' = nxt[t]
      /\ chains' = IF l.op = "mkdir" \/ ~l.chain THEN chains \cup {<<n>>}
                   ELSE Longer(l, n, chains)
  BY DEF Unlock, Longer
<1>2. nxt[t] = n + 1 /\ (l.chain => l.op # "mkdir")
  <2>1. OnChain("unlock", l, n, nxt[t], own, cached, fat, chains)
    BY <1>1, HereOn
  <2> QED BY <2>1 DEF OnChain, Locker, Extender, InLock
<1>3. CASE l.chain
  <2>1. chains' = Longer(l, n, chains)
    BY <1>1, <1>2, <1>3
  <2>2. nextFreeCluster' = n + 1
    BY <1>1, <1>2
  <2>3. pc[t] = "unlock"
    BY <1>1
  <2>4. Grows(l, own, chains, own, chains') /\ ChainShape' /\ AllLinked(cached, fat, chains')
    BY <1>3, <2>1, <2>2, <2>3, LongerChain
  <2>5. \E c \in chains' : c[1] = l.f.next /\ EndOf(c) = n
    BY <1>3, <2>1, <2>2, <2>3, LongerChain
  <2> QED BY <1>3, <2>4, <2>5
<1>4. CASE ~l.chain
  <2> DEFINE s == <<n>>
             own2 == Owning(own, n, l.file)
  <2>1. Len(s) = 1 /\ s[1] = n /\ chains' = chains \cup {s}
    BY <1>1, <1>4
  <2>2. \E c \in chains' : c[1] = n
    BY <2>1
  <2> HIDE DEF s
  <2>4. nextFreeCluster' = n + 1
    BY <1>1, <1>2
  <2>3. /\ own2 \in Owners /\ Grows(l, own, chains, own2, chains') /\ ChainShape'
        /\ own2[n] = l.file
        /\ AllLinked(cached, fat, chains')
    BY ONLY IInv, own \in Owners, Plainly(own), t \in Thread, l = loc[t], n = cur[t],
            <1>1, <1>4, <2>1, <2>4, NewChain
  <2> HIDE DEF own2
  <2> QED BY <1>4, <2>2, <2>3
<1> QED BY <1>3, <1>4

\* Where the thread goes on with its cluster.
LEMMA AllocatedOn ==
  ASSUME IInv, NEW own, Plainly(own), NEW t \in Thread, NEW l, l = loc[t], pc[t] = "unlock",
         NEW n, n = cur[t], NEW own2, NEW ch2, Grows(l, own, chains, own2, ch2),
         \A c \in ch2 : Len(c) \in Nat \ {0},
         l.chain => \E c \in ch2 : c[1] = l.f.next /\ EndOf(c) = n,
         ~l.chain => own2[n] = l.file /\ \E c \in ch2 : c[1] = n,
         l.op # "mkdir"
  PROVE  TargetOn(Allocated(l, n), l, own2, cached, fat, ch2)
<1>1. l \in Loc /\ OnChain("unlock", l, n, nxt[t], own, cached, fat, chains)
  BY HereOn
<1>2. n \in Nat \ {0} /\ n \in Int /\ l.todo \in Int
  <2>1. n = nextFreeCluster
    BY AloneInLock DEF InLock
  <2> QED BY <1>1, <2>1 DEF IInv, AllocInv, Loc
<1>3. /\ l.op \in {"write", "extend"} /\ GoodFile(l, own, chains)
      /\ l.chain => l.f.eoc # 0
      /\ ~l.chain => l.f.next = 0
  <2>1. /\ l.op \in {"write", "extend"}
        /\ l.chain => l.f.eoc # 0
        /\ ~l.chain => l.f.next = 0
    BY <1>1 DEF OnChain, Extender, InLock
  <2> QED BY <2>1, HereOn DEF Extends
<1>4. l.f.first = l.f.next /\ (l.f.next = 0 => l.f.eoc = 0)
  BY <1>3 DEF GoodFile, Sound
<1>5. CASE l.chain
  <2> DEFINE m == [l EXCEPT !.f.eoc = n, !.last = n, !.todo = @ - 1]
  <2>1. Allocated(l, n) = More(m)
    BY <1>3, <1>5 DEF Allocated
  <2>2. /\ m \in Loc /\ m.op = l.op /\ m.file = l.file /\ m.last = n
        /\ m.f.eoc = n /\ m.f.first = l.f.first /\ m.f.next = l.f.next
    <3> DEFINE g == [l.f EXCEPT !.eoc = n]
               k == [l EXCEPT !.f = g]
               k2 == [k EXCEPT !.last = n]
               d == l.todo - 1
    <3>1. g \in FatFile /\ g.eoc = n /\ g.first = l.f.first /\ g.next = l.f.next
      BY <1>1, <1>2 DEF Loc, FatFile
    <3>2. d \in Int
      BY <1>2
    <3>3. m = [k2 EXCEPT !.todo = d]
      BY <1>1 DEF Loc, FatFile
    <3> HIDE DEF d, g, m
    <3>4. k \in Loc /\ k.op = l.op /\ k.file = l.file /\ k.f = g
      BY <1>1, <3>1, FileSet
    <3> HIDE DEF k
    <3>5. k2 \in Loc /\ k2.op = k.op /\ k2.file = k.file /\ k2.f = k.f /\ k2.last = n
      BY <1>2, <3>4 DEF Loc
    <3> HIDE DEF k2
    <3>6. m \in Loc /\ m.op = k2.op /\ m.file = k2.file /\ m.f = k2.f /\ m.last = k2.last
      BY <3>2, <3>3, <3>5 DEF Loc
    <3> QED BY <3>1, <3>4, <3>5, <3>6
  <2> HIDE DEF m
  <2>3. Owned(l.f.next, l.file, own2, ch2)
    BY <1>3 DEF GoodFile, Sound, Grows
  <2>4. GoodFile(m, own2, ch2)
    BY <1>2, <1>3, <1>4, <1>5, <2>2, <2>3 DEF GoodFile, Sound
  <2>5. TargetOn(More(m), m, own2, cached, fat, ch2)
    BY <1>2, <2>2, <2>4, MoreOn
  <2> QED BY <2>1, <2>2, <2>5 DEF TargetOn
<1>6. CASE ~l.chain
  <2> DEFINE m == [l EXCEPT !.f.first = n, !.f.next = n, !.todo = @ - 1]
  <2>1. Allocated(l, n) = FromEnd(m)
    BY <1>3, <1>6 DEF Allocated
  <2>2. /\ m \in Loc /\ m.op = l.op /\ m.file = l.file
        /\ m.f.eoc = l.f.eoc /\ m.f.first = n /\ m.f.next = n
    <3> DEFINE g == [l.f EXCEPT !.first = n, !.next = n]
               k == [l EXCEPT !.f = g]
               d == l.todo - 1
    <3>1. g \in FatFile /\ g.eoc = l.f.eoc /\ g.first = n /\ g.next = n
      BY <1>1, <1>2 DEF Loc, FatFile
    <3>2. d \in Int
      BY <1>2
    <3>3. m = [k EXCEPT !.todo = d]
      BY <1>1 DEF Loc, FatFile
    <3> HIDE DEF d, g, m
    <3>4. k \in Loc /\ k.op = l.op /\ k.file = l.file /\ k.f = g
      BY <1>1, <3>1, FileSet
    <3> HIDE DEF k
    <3>5. m \in Loc /\ m.op = k.op /\ m.file = k.file /\ m.f = k.f
      BY <3>2, <3>3, <3>4 DEF Loc
    <3> QED BY <3>1, <3>4, <3>5
  <2> HIDE DEF m
  <2>3. l.file \in File
    BY <1>3 DEF GoodFile
  <2>4. GoodFile(m, own2, ch2)
    BY <1>2, <1>3, <1>4, <1>6, <2>2, <2>3 DEF GoodFile, Sound, Owned
  <2>5. TargetOn(FromEnd(m), m, own2, cached, fat, ch2)
    BY <1>2, <2>2, <2>4, FromEndOn
  <2> QED BY <2>1, <2>2, <2>5 DEF TargetOn
<1> QED BY <1>5, <1>6

LEMMA UnlockPlainly ==
  ASSUME IInv, NEW own \in Owners, Plainly(own), NEW t \in Thread, Unlock(t)
  PROVE  \E own2 \in Owners : Plainly(own2)'
<1> SUFFICES ASSUME NEW l, l = loc[t], NEW n, n = cur[t]
             PROVE  \E own2 \in Owners : Plainly(own2)'
  OBVIOUS
<1>1. /\ pc[t] = "unlock" /\ nextFreeCluster' = nxt[t] /\ Goto(t, Allocated(l, n))
      /\ UNCHANGED <<cacheVars, fat, stage, entry, handle, cur, nxt>>
  BY DEF Unlock, processVars, volumeVars
<1>2. PICK own2 \in Owners :
           /\ Grows(l, own, chains, own2, chains') /\ ChainShape'
           /\ l.chain => /\ own2 = own
                         /\ \E c \in chains' : c[1] = l.f.next /\ EndOf(c) = n
           /\ ~l.chain => /\ own2[n] = l.file
                          /\ \E c \in chains' : c[1] = n
           /\ AllLinked(cached, fat, chains')
  BY UnlockGrows
<1>3. /\ n = nextFreeCluster /\ nxt[t] = n + 1 /\ n \in Nat
      /\ \A u \in Thread : pc[u] \in InLock => u = t
  BY <1>1, AloneInLock DEF InLock
<1>4. OnChain("unlock", l, n, nxt[t], own, cached, fat, chains)
  BY <1>1, HereOn
<1>5. /\ l.op \in {"write", "extend", "mkdir"}
      /\ l.op # "mkdir" => Extends(t) /\ l.file \in File
      /\ l.chain => l.op # "mkdir"
  <2>1. l.op \in {"write", "extend", "mkdir"} /\ (l.chain => l.op # "mkdir")
    BY <1>4 DEF OnChain, Extender, InLock
  <2>2. l.op # "mkdir" => Extends(t)
    BY <1>1, <2>1 DEF Extends
  <2> QED BY <2>1, <2>2, HereOn DEF GoodFile
<1>6. PICK p, m : /\ OneMoves(t, p, m)
                  /\ OnChain(p, m, cur'[t], nxt'[t], own2, cached, fat, chains')
                  /\ p # "idle" /\ m.op = l.op /\ m.file = l.file
  <2>1. CASE l.op = "mkdir"
    <3> DEFINE target == <<"block", l>>
    <3>1. Goto(t, target)
      BY <1>1, <2>1 DEF Allocated
    <3>2. OneMoves(t, target[1], target[2])
      BY <1>1, <3>1, GotoMoves
    <3>3. OnChain("block", l, cur'[t], nxt'[t], own2, cached, fat, chains')
      BY <2>1 DEF OnChain, Answer, Locker, Extender, Caller, FatPc, ReadPc, ChangePc, InLock
    <3> QED BY <3>2, <3>3
  <2>2. CASE l.op # "mkdir"
    <3> DEFINE target == Allocated(l, n)
    <3>1. \A c \in chains' : Len(c) \in Nat \ {0}
      <4>1. chains' \subseteq Seq(Nat)
        BY UnlockInv, StepInv DEF IInv, HistoryInv
      <4> QED BY <1>2, <4>1 DEF ChainShape
    <3>2. TargetOn(target, l, own2, cached, fat, chains')
      BY <1>1, <1>2, <2>2, <3>1, AllocatedOn
    <3> HIDE DEF target
    <3>3. Goto(t, target)
      BY <1>1 DEF target
    <3>4. OneMoves(t, target[1], target[2])
      BY <1>1, <3>3, GotoMoves
    <3> QED BY <2>2, <3>2, <3>4 DEF TargetOn
  <2> QED BY <2>1, <2>2
<1>7. Linked'
  <2> SUFFICES ASSUME NEW c \in chains', NEW i \in 1 .. Len(c)
               PROVE  IF i < Len(c) THEN Seen(cached', fat', c[i]) = c[i + 1]
                      ELSE Seen(cached', fat', c[i]) = EOC \/ Linking(c[i])'
    BY DEF Linked
  <2>1. cached' = cached /\ fat' = fat
    BY <1>1 DEF cacheVars
  <2> QED BY <1>2, <2>1 DEF AllLinked
<1>8. FreeAbove'
  <2>1. cached' = cached /\ fat' = fat /\ nextFreeCluster' = n + 1
    BY <1>1, <1>3 DEF cacheVars
  <2>2. Seen(cached, fat, n + 1) = EOC
    BY <1>3, <1>4 DEF OnChain, Locker
  <2>3. ASSUME NEW c, InFat(c), c > n + 1 PROVE Seen(cached, fat, c) = Free
    <3>1. c \in Int
      BY <2>3, FatAssumption DEF InFat
    <3>2. c > nextFreeCluster /\ c # nextFreeCluster + 1
      BY <1>3, <2>3, <3>1
    <3> QED BY <2>3, <3>2 DEF Plainly, FreeAbove
  <2> QED BY <2>1, <2>2, <2>3 DEF FreeAbove
<1>9. UnmarkedWritten'
  BY <1>1, UnmarkedKept DEF Plainly
<1>10. FilesApart'
  <2>1. \A u \in Thread : Extends(u)' => Extends(u) /\ loc'[u].file = loc[u].file
    BY <1>1, <1>5, <1>6 DEF OneMoves, Extends
  <2> QED BY <2>1 DEF Plainly, FilesApart
<1>11. Entries(own2)'
  <2>1. \A f \in File : Owned(entry[f].first, f, own2, chains')
    BY <1>2 DEF Plainly, Entries, Grows
  <2> QED BY <1>1, <2>1 DEF Entries
<1>12. Handles(own2)'
  <2> SUFFICES ASSUME NEW f \in File, handle[f] # None
               PROVE  \/ \E u \in Thread : pc'[u] # "idle" /\ loc'[u].op = "write" /\ loc'[u].file = f
                      \/ /\ Sound(handle[f], f, own2, chains')
                         /\ \A u \in Thread : pc'[u] # "idle" /\ loc'[u].file = f
                                                  => loc'[u].op # "extend"
    BY <1>1 DEF Handles
  <2>1. CASE \E u \in Thread : pc[u] # "idle" /\ loc[u].op = "write" /\ loc[u].file = f
    BY <1>5, <1>6, <2>1 DEF OneMoves
  <2>2. CASE /\ Sound(handle[f], f, own, chains)
             /\ \A u \in Thread : pc[u] # "idle" /\ loc[u].file = f => loc[u].op # "extend"
    <3>1. CASE l.op = "write" /\ l.file = f
      BY <1>6, <3>1 DEF OneMoves
    <3>2. CASE ~(l.op = "write" /\ l.file = f)
      <4>1. l.chain => f # l.file
        BY <1>1, <1>5, <2>2, <3>2
      <4>2. Sound(handle[f], f, own2, chains')
        BY <1>2, <2>2, <4>1 DEF Grows
      <4>3. \A u \in Thread : pc'[u] # "idle" /\ loc'[u].file = f => loc'[u].op # "extend"
        BY <1>1, <1>6, <2>2 DEF OneMoves
      <4> QED BY <4>2, <4>3
    <3> QED BY <3>1, <3>2
  <2> QED BY <2>1, <2>2 DEF Plainly, Handles
<1>13. Threads(own2)'
  <2> SUFFICES ASSUME NEW u \in Thread
               PROVE  OnChain(pc'[u], loc'[u], cur'[u], nxt'[u], own2, cached', fat', chains')
    BY DEF Threads
  <2>1. cached' = cached /\ fat' = fat
    BY <1>1 DEF cacheVars
  <2>2. CASE u = t
    BY <1>6, <2>1, <2>2 DEF OneMoves
  <2>3. CASE u # t
    <3>1. OnChain(pc[u], loc[u], cur[u], nxt[u], own, cached, fat, chains) /\ pc[u] \notin InLock
      BY <1>3, <2>3, HereOn
    <3>2. pc[u] # "idle" /\ loc[u].op \in {"write", "extend"} /\ l.chain => loc[u].file # l.file
      BY <1>5, <2>3 DEF Plainly, FilesApart, Extends
    <3>3. OnChain(pc[u], loc[u], cur[u], nxt[u], own2, cached, fat, chains')
      BY <1>2, <3>1, <3>2, GrowsOnChain
    <3> QED BY <1>6, <2>1, <2>3, <3>3 DEF OneMoves
  <2> QED BY <2>2, <2>3
<1>14. Plainly(own2)'
  BY <1>2, <1>7, <1>8, <1>9, <1>10, <1>11, <1>12, <1>13 DEF Plainly
<1> QED BY <1>14
-----------------------------------------------------------------------------
(* The calls.                                                              *)

\* A call begins: only one at a time works on a file that it makes longer.
LEMMA CallPlainly ==
  ASSUME IInv, NEW own, Plainly(own), NEW t \in Thread, NEW op, NEW f, NEW target,
         Call(t, op, f, target), UNCHANGED handle,
         OnChain(target[1], target[2], cur[t], nxt[t], own, cached, fat, chains),
         target[1] # "idle" /\ target[2].op \in {"write", "extend"} =>
             target[2].file = f /\ ~Busy(f)
             /\ (target[2].op = "extend" => handle[f] = None)
  PROVE  Plainly(own)'
<1> SUFFICES ASSUME NEW p, NEW l, p = target[1], l = target[2] PROVE Plainly(own)'
  OBVIOUS
<1>1. /\ pc[t] = "idle" /\ Goto(t, target)
      /\ UNCHANGED <<cacheVars, fat, stage, chains, nextFreeCluster, entry, handle, cur, nxt>>
  BY DEF Call, processVars, volumeVars, allocVars
<1>2. OneMoves(t, p, l)
  BY <1>1, GotoMoves
<1>3. Quiet(cached, fat, cached', fat')
  BY <1>1 DEF Quiet, cacheVars
<1>4. ChainShape' /\ Linked' /\ FreeAbove'
  BY <1>1, <1>2, <1>3, StepState
<1>5. FilesApart'
  <2> SUFFICES ASSUME NEW u \in Thread, NEW v \in Thread, Extends(u)', Extends(v)',
                      loc'[u].file = loc'[v].file
               PROVE  u = v
    BY DEF FilesApart
  <2>1. \A w \in Thread : w # t /\ Extends(w)' => Extends(w) /\ loc'[w].file = loc[w].file
    BY <1>2 DEF OneMoves, Extends
  <2>2. Extends(t)' => \A w \in Thread : w # t /\ Extends(w)' => loc'[w].file # loc'[t].file
    BY <1>2, <2>1 DEF OneMoves, Extends, Busy
  <2> QED BY <2>1, <2>2 DEF Plainly, FilesApart
<1>6. Handles(own)'
  <2> SUFFICES ASSUME NEW g \in File, handle[g] # None
               PROVE  \/ \E u \in Thread : pc'[u] # "idle" /\ loc'[u].op = "write" /\ loc'[u].file = g
                      \/ /\ Sound(handle[g], g, own, chains)
                         /\ \A u \in Thread : pc'[u] # "idle" /\ loc'[u].file = g
                                                  => loc'[u].op # "extend"
    BY <1>1 DEF Handles
  <2>1. CASE \E u \in Thread : pc[u] # "idle" /\ loc[u].op = "write" /\ loc[u].file = g
    BY <1>1, <1>2, <2>1 DEF OneMoves
  <2>2. CASE /\ Sound(handle[g], g, own, chains)
             /\ \A u \in Thread : pc[u] # "idle" /\ loc[u].file = g => loc[u].op # "extend"
    BY <1>2, <2>2 DEF OneMoves
  <2> QED BY <2>1, <2>2 DEF Plainly, Handles
<1>7. UnmarkedWritten'
  BY <1>1, UnmarkedKept DEF Plainly
<1>8. Threads(own)'
  <2>1. OnChain(p, l, cur'[t], nxt'[t], own, cached', fat', chains)
    BY <1>1 DEF cacheVars
  <2> QED BY <1>1, <1>2, <1>3, <2>1, StepThreads DEF Plainly
<1>9. Entries(own)'
  BY <1>1, EntriesKept
<1> QED BY <1>4, <1>5, <1>6, <1>7, <1>8, <1>9 DEF Plainly

\* An open file nobody works on has a sound FatFile, and so has one who opens it.
LEMMA HandleSound ==
  ASSUME NEW own, Plainly(own), NEW f \in File, handle[f] # None, ~Busy(f)
  PROVE  Sound(handle[f], f, own, chains)
  BY DEF Plainly, Handles, Busy

LEMMA OpenedSound ==
  ASSUME NEW own, Plainly(own), NEW f \in File
  PROVE  Sound(Opened(entry[f]), f, own, chains)
<1>1. Owned(entry[f].first, f, own, chains)
  BY DEF Plainly, Entries
<1> QED BY <1>1 DEF Opened, Sound, Owned

LEMMA MknodPlainly ==
  ASSUME IInv, NEW own, Plainly(own), NEW t \in Thread, NEW f \in File, Mknod(t, f)
  PROVE  Plainly(own)'
<1> DEFINE l == Enter("mknod", f)
           target == <<"block", l>>
<1>1. Call(t, "mknod", f, target) /\ UNCHANGED handle
  BY DEF Mknod
<1>2. l.op = "mknod"
  BY EnterType DEF Op
<1> HIDE DEF l
<1>3. OnChain("block", l, cur[t], nxt[t], own, cached, fat, chains)
  BY <1>2 DEF OnChain, Answer, Locker, Extender, Caller, FatPc, ReadPc, ChangePc, InLock
<1> QED BY <1>1, <1>2, <1>3, CallPlainly

LEMMA MkdirPlainly ==
  ASSUME IInv, NEW own, Plainly(own), NEW t \in Thread, Mkdir(t) PROVE Plainly(own)'
<1> DEFINE l == Enter("mkdir", None)
           target == <<"lock", l>>
<1>1. Call(t, "mkdir", None, target) /\ UNCHANGED handle
  BY DEF Mkdir
<1>2. l.op = "mkdir" /\ ~l.chain
  BY DEF Enter, NoLoc
<1> HIDE DEF l
<1>3. OnChain("lock", l, cur[t], nxt[t], own, cached, fat, chains)
  BY <1>2 DEF OnChain, Answer, Locker, Extender, Caller, FatPc, ReadPc, ChangePc, InLock
<1> QED BY <1>1, <1>2, <1>3, CallPlainly

LEMMA ClosePlainly ==
  ASSUME IInv, NEW own, Plainly(own), NEW t \in Thread, NEW f \in File, Close(t, f)
  PROVE  Plainly(own)'
<1> DEFINE b == {s \in Sector : cached[s] # None}
           l == [Enter("close", f) EXCEPT !.block = b]
           target == <<"flush", l>>
<1>1. Call(t, "close", f, target) /\ UNCHANGED handle
  BY DEF Close
<1> HIDE DEF b
<1>2. l.op = "close"
  <2>1. Enter("close", f) \in Loc /\ Enter("close", f).op = "close"
    BY EnterType DEF Op
  <2> QED BY <2>1 DEF Loc
<1> HIDE DEF l
<1>3. OnChain("flush", l, cur[t], nxt[t], own, cached, fat, chains)
  BY <1>2, CloseOn
<1> QED BY <1>1, <1>2, <1>3, CallPlainly

LEMMA FinfoPlainly ==
  ASSUME IInv, NEW own, Plainly(own), NEW t \in Thread, NEW f \in File, Finfo(t, f)
  PROVE  Plainly(own)'
<1> DEFINE n == IF Reserve(entry[f].size) < 20 THEN Reserve(entry[f].size) ELSE 20
           l == [Enter("finfo", None) EXCEPT !.todo = n]
<1>1. n \in Nat
  <2>1. entry[f].size \in Nat
    BY OpenedType
  <2>2. Reserve(entry[f].size) \in Nat
    BY <2>1, FatAssumption DEF Reserve
  <2> QED BY <2>2
<1>2. Call(t, "finfo", f, IF n = 0 THEN Return ELSE Read("walk", l, entry[f].first))
      /\ UNCHANGED handle
  BY DEF Finfo
<1> HIDE DEF n
<1>3. l \in Loc /\ l.op = "finfo" /\ l.todo = n
  <2>1. Enter("finfo", None) \in Loc /\ Enter("finfo", None).op = "finfo"
    BY EnterType DEF Op
  <2> QED BY <1>1, <2>1 DEF Loc
<1> HIDE DEF l
<1>4. CASE n = 0
  <2>1. Call(t, "finfo", f, <<"idle", NoLoc>>)
    BY <1>2, <1>4 DEF Return
  <2> QED BY <1>2, <2>1, ReturnOn, CallPlainly
<1>5. CASE n # 0
  <2> DEFINE target == Read("walk", l, entry[f].first)
  <2>1. TargetOn(target, l, own, cached, fat, chains)
    BY <1>1, <1>3, <1>5, WalkOn
  <2>2. Call(t, "finfo", f, target)
    BY <1>2, <1>5
  <2> HIDE DEF target
  <2> QED BY <1>2, <1>3, <2>1, <2>2, CallPlainly DEF TargetOn
<1> QED BY <1>4, <1>5

LEMMA TruncateUpPlainly ==
  ASSUME IInv, NEW own, Plainly(own), NEW t \in Thread, NEW f \in File, TruncateUp(t, f), plain'
  PROVE  Plainly(own)'
<1>1. PICK n \in Sizes :
        Call(t, "extend", f, Extend([Enter("extend", f) EXCEPT !.f = Opened(entry[f]),
                                                              !.size = n, !.todo = Reserve(n)]))
  BY DEF TruncateUp
<1> DEFINE l == [Enter("extend", f) EXCEPT !.f = Opened(entry[f])]
           m == [Enter("extend", f) EXCEPT !.f = Opened(entry[f]), !.size = n, !.todo = Reserve(n)]
<1>2. l \in Loc /\ l.op = "extend" /\ l.file = f /\ l.f = Opened(entry[f])
  BY OpensType DEF Op
<1>3. n \in Nat /\ Reserve(n) \in Int
  BY FatAssumption DEF Reserve
<1>4. m = Sized(l, n, Reserve(n))
  BY EnterType DEF Op, Loc, Sized
<1>5. Call(t, "extend", f, Extend(m)) /\ UNCHANGED handle /\ ~Busy(f) /\ handle[f] = None
  BY <1>1 DEF TruncateUp, Call
<1> HIDE DEF m, l
<1>6. m \in Loc /\ m.op = "extend" /\ m.file = f /\ m.f = Opened(entry[f])
  BY ONLY <1>2, <1>3, <1>4, SizesSet
<1>7. GoodFile(m, own, chains)
  BY <1>6, OpenedSound DEF GoodFile
<1> DEFINE target == Extend(m)
<1>8. TargetOn(target, m, own, cached, fat, chains)
  BY <1>7, HereOn, ExtendOn
<1> HIDE DEF target
<1>9. Call(t, "extend", f, target)
  BY <1>5 DEF target
<1> QED BY <1>5, <1>6, <1>8, <1>9, CallPlainly DEF TargetOn

LEMMA WritePlainly ==
  ASSUME IInv, NEW own, Plainly(own), NEW t \in Thread, NEW f \in File, Write(t, f)
  PROVE  Plainly(own)'
<1> DEFINE h == handle[f]
<1>1. h \in FatFile /\ h.size \in Nat
  <2>1. handle[f] \in FatFile
    BY DEF Write, IInv, HandleInv
  <2> QED BY <2>1 DEF FatFile
<1>2. Sound(h, f, own, chains) /\ ~Busy(f) /\ UNCHANGED handle
  BY HandleSound DEF Write
<1>3. PICK x \in Extents :
        LET l == [Enter("write", f) EXCEPT !.f = h, !.offset = x.offset]
            inCluster == (x.offset % ClusterBytes) + x.size
        IN Call(t, "write", f,
                IF inCluster > Reserve(h.size) * ClusterBytes \/ x.offset >= h.size
                THEN Extend([l EXCEPT !.size = h.size + x.size, !.todo = Reserve(x.size)])
                ELSE IF x.offset + x.size > h.size
                     THEN <<"block", [l EXCEPT !.f.size = x.offset + x.size]>>
                     ELSE Seek(l))
  BY DEF Write
<1> DEFINE l == [Enter("write", f) EXCEPT !.f = h, !.offset = x.offset]
           m == [l EXCEPT !.size = h.size + x.size, !.todo = Reserve(x.size)]
           k == [l EXCEPT !.f.size = x.offset + x.size]
<1> HIDE DEF h
<1>4. x.offset \in Nat /\ x.size \in Nat /\ Reserve(x.size) \in Int
  BY FatAssumption DEF Reserve
<1>5. l \in Loc /\ l.op = "write" /\ l.file = f /\ l.f = h
  <2>1. Enter("write", f) \in Loc /\ Enter("write", f).op = "write" /\ Enter("write", f).file = f
    BY EnterType DEF Op
  <2> QED BY <1>1, <1>4, <2>1 DEF Loc
<1>6. m = Sized(l, h.size + x.size, Reserve(x.size))
  BY DEF Sized
<1>7. PICK target :
        /\ Call(t, "write", f, target)
        /\ target = Extend(m) \/ target = <<"block", k>> \/ target = Seek(l)
  BY <1>3
<1> HIDE DEF l, m
<1>8. GoodFile(l, own, chains)
  BY <1>2, <1>5 DEF GoodFile
<1>9. m \in Loc /\ m.op = "write" /\ m.file = f /\ m.f = h
  <2>1. h.size + x.size \in Nat
    BY <1>1, <1>4
  <2>2. l \in Loc /\ Reserve(x.size) \in Int
    BY <1>4, <1>5
  <2>3. LET z == Sized(l, h.size + x.size, Reserve(x.size)) IN
        z \in Loc /\ z.op = l.op /\ z.file = l.file /\ z.f = l.f
    BY ONLY <2>1, <2>2, SizesSet, SMTT(60)
  <2> QED BY ONLY <1>5, <1>6, <2>3, SMTT(60)
<1>10. k \in Loc /\ k.op = "write" /\ k.file = f
       /\ k.f.first = h.first /\ k.f.next = h.next /\ k.f.eoc = h.eoc
  <2>1. x.offset + x.size \in Nat
    BY <1>4
  <2> QED BY <1>1, <1>5, <2>1 DEF Loc, FatFile
<1> HIDE DEF k
<1>11. GoodFile(m, own, chains) /\ GoodFile(k, own, chains)
  BY <1>2, <1>9, <1>10 DEF GoodFile, Sound
<1>12. ASSUME NEW w, w.op = "write", w.file = f, TargetOn(target, w, own, cached, fat, chains)
       PROVE  Plainly(own)'
  BY <1>2, <1>7, <1>12, CallPlainly DEF TargetOn
<1>13. CASE target = Extend(m)
  <2>1. TargetOn(target, m, own, cached, fat, chains)
    BY <1>11, <1>13, HereOn, ExtendOn
  <2> QED BY <1>9, <1>12, <2>1
<1>14. CASE target = <<"block", k>>
  <2>1. TargetOn(target, k, own, cached, fat, chains)
    BY <1>11, <1>14, BlockOn
  <2> QED BY <1>10, <1>12, <2>1
<1>15. CASE target = Seek(l)
  <2>1. TargetOn(target, l, own, cached, fat, chains)
    BY <1>5, <1>8, <1>15, SeekOn
  <2> QED BY <1>5, <1>12, <2>1
<1> QED BY <1>7, <1>13, <1>14, <1>15

\* A file is opened when nobody works on it.
LEMMA OpenPlainly ==
  ASSUME IInv, NEW own, Plainly(own), NEW t \in Thread, NEW f \in File, Open(t, f)
  PROVE  Plainly(own)'
<1>1. /\ pc[t] = "idle" /\ Goto(t, Return) /\ ~Busy(f)
      /\ handle' = [handle EXCEPT ![f] = Opened(entry[f])]
      /\ UNCHANGED <<cacheVars, fat, stage, chains, nextFreeCluster, entry, cur, nxt>>
  BY DEF Open, Call, processVars, volumeVars, allocVars
<1>2. OneMoves(t, "idle", NoLoc)
  BY <1>1, GotoMoves DEF Return
<1>3. Quiet(cached, fat, cached', fat')
  BY <1>1 DEF Quiet, cacheVars
<1>4. ChainShape' /\ Linked' /\ FreeAbove'
  BY <1>1, <1>2, <1>3, StepState
<1>5. FilesApart'
  <2>1. \A u \in Thread : Extends(u)' => Extends(u) /\ loc'[u].file = loc[u].file
    BY <1>2 DEF OneMoves, Extends
  <2> QED BY <2>1 DEF Plainly, FilesApart
<1>6. Handles(own)'
  <2> SUFFICES ASSUME NEW g \in File, handle'[g] # None
               PROVE  \/ \E u \in Thread : pc'[u] # "idle" /\ loc'[u].op = "write" /\ loc'[u].file = g
                      \/ /\ Sound(handle'[g], g, own, chains)
                         /\ \A u \in Thread : pc'[u] # "idle" /\ loc'[u].file = g
                                                  => loc'[u].op # "extend"
    BY <1>1 DEF Handles
  <2>1. handle'[g] = IF g = f THEN Opened(entry[f]) ELSE handle[g]
    BY <1>1 DEF IInv, HandleInv
  <2>2. CASE g = f
    <3>1. Sound(handle'[g], g, own, chains)
      BY <2>1, <2>2, OpenedSound
    <3>2. \A u \in Thread : pc'[u] # "idle" => loc'[u].file # g
      BY <1>1, <1>2, <2>2 DEF OneMoves, Busy
    <3> QED BY <3>1, <3>2
  <2>3. CASE g # f /\ \E u \in Thread : pc[u] # "idle" /\ loc[u].op = "write" /\ loc[u].file = g
    BY <1>1, <1>2, <2>3 DEF OneMoves
  <2>4. CASE /\ g # f /\ Sound(handle[g], g, own, chains)
             /\ \A u \in Thread : pc[u] # "idle" /\ loc[u].file = g => loc[u].op # "extend"
    BY <1>2, <2>1, <2>4 DEF OneMoves
  <2> QED BY <2>1, <2>2, <2>3, <2>4 DEF Plainly, Handles
<1>7. UnmarkedWritten'
  BY <1>1, UnmarkedKept DEF Plainly
<1>8. Threads(own)'
  BY <1>1, <1>2, <1>3, ReturnOn, StepThreads DEF Plainly
<1>9. Entries(own)'
  BY <1>1, EntriesKept
<1> QED BY <1>4, <1>5, <1>6, <1>7, <1>8, <1>9 DEF Plainly

LEMMA StartPlainly ==
  ASSUME IInv, NEW own, Plainly(own), NEW t \in Thread, Start(t), plain' PROVE Plainly(own)'
<1>1. CASE Mkdir(t)
  BY <1>1, MkdirPlainly
<1>2. ASSUME NEW f \in File,
             Mknod(t, f) \/ Open(t, f) \/ Write(t, f) \/ TruncateUp(t, f) \/ Close(t, f)
             \/ Finfo(t, f)
      PROVE  Plainly(own)'
  BY <1>2, MknodPlainly, OpenPlainly, WritePlainly, TruncateUpPlainly, ClosePlainly, FinfoPlainly
<1>3. ASSUME NEW f \in File, TruncateDown(t, f) \/ Unlink(t, f) PROVE FALSE
  BY <1>3 DEF TruncateDown, Unlink, Call
<1> QED BY <1>1, <1>2, <1>3 DEF Start
-----------------------------------------------------------------------------
(* Exit, mount and the first state.                                        *)

LEMMA IdleOn ==
  ASSUME NEW l, NEW cu, NEW nx, NEW own, NEW ca, NEW fa, NEW ch
  PROVE  OnChain("idle", l, cu, nx, own, ca, fa, ch)
  BY DEF OnChain, Answer, Locker, Extender, Caller, FatPc, ReadPc, ChangePc, InLock

\* The FAT is seen as before, and no thread moves.
LEMMA SameSeen ==
  ASSUME NEW own, Plainly(own), \A c : InFat(c) => Seen(cached', fat', c) = Seen(cached, fat, c),
         Threads(own)', UnmarkedWritten',
         UNCHANGED <<pc, loc, chains, nextFreeCluster, entry, handle>>
  PROVE  Plainly(own)'
<1>1. ChainShape' /\ FilesApart' /\ Entries(own)'
  BY DEF Plainly, ChainShape, FilesApart, Extends, Entries
<1>2. Handles(own)'
  BY DEF Plainly, Handles
<1>3. Linked'
  <2>1. \A c \in chains : \A i \in 1 .. Len(c) : InFat(c[i])
    BY DEF Plainly, ChainShape
  <2> QED BY <2>1 DEF Plainly, Linked, Linking
<1>4. FreeAbove'
  BY DEF Plainly, FreeAbove
<1> QED BY <1>1, <1>2, <1>3, <1>4 DEF Plainly

LEMMA QuietProcess ==
  ASSUME NEW own, Plainly(own), Quiet(cached, fat, cached', fat'), UnmarkedWritten',
         UNCHANGED <<pc, loc, cur, nxt, chains, nextFreeCluster, entry, handle>>
  PROVE  Plainly(own)'
<1>1. \A c : InFat(c) => Seen(cached', fat', c) = Seen(cached, fat, c)
  BY QuietSeen
<1>2. Threads(own)'
  BY QuietOnChain DEF Plainly, Threads
<1> QED BY <1>1, <1>2, SameSeen

LEMMA ExitFlushPlainly ==
  ASSUME IInv, NEW own, Plainly(own), ExitFlush PROVE Plainly(own)'
<1>1. /\ fat' = [s \in Sector |-> IF modificado[s] THEN cached[s] ELSE fat[s]]
      /\ modificado' = [s \in Sector |-> FALSE]
      /\ UNCHANGED <<cached, pc, loc, cur, nxt, chains, nextFreeCluster, entry, handle>>
  BY DEF ExitFlush, allocVars, threadVars, history
<1>2. \A s \in Sector : modificado[s] => cached[s] # None
  BY FatAssumption DEF IInv, CacheInv, FatSector, Slot
<1>3. Quiet(cached, fat, cached', fat')
  BY <1>1, <1>2 DEF Quiet
<1>4. UnmarkedWritten'
  BY <1>1 DEF Plainly, UnmarkedWritten
<1> QED BY <1>1, <1>3, <1>4, QuietProcess

LEMMA StagePlainly ==
  ASSUME NEW own, Plainly(own), UnmarkedWritten',
         UNCHANGED <<cached, fat, pc, loc, cur, nxt, chains, nextFreeCluster, entry, handle>>
  PROVE  Plainly(own)'
  BY QuietProcess DEF Quiet

\* After an orderly exit the volume has what the cache had.
LEMMA MountPlainly ==
  ASSUME RemountKilled = FALSE, IInv, NEW own, Plainly(own), Mount PROVE Plainly(own)'
<1>1. /\ stage = "down" /\ nextFreeCluster' = fsInfo + 1
      /\ cached' = [s \in Sector |-> IF s = 0 THEN fat[0] ELSE None]
      /\ modificado' = [s \in Sector |-> FALSE]
      /\ \A f \in File : handle'[f] = None
      /\ \A t \in Thread : pc'[t] = "idle"
      /\ UNCHANGED <<fat, chains, entry>>
  BY DEF Mount, NewProcess, volumeVars, history
<1>2. nextFreeCluster' = nextFreeCluster /\ \A t \in Thread : pc[t] = "idle"
  BY <1>1 DEF IInv, StageInv, AllocInv
<1>3. \A s \in Sector : cached[s] # None => cached[s] = fat[s]
  BY <1>1 DEF Plainly, UnmarkedWritten
<1>4. ASSUME NEW c, InFat(c) PROVE Seen(cached', fat', c) = Seen(cached, fat, c)
  <2>1. SectorOf(c) \in Sector
    BY <1>4, SectorType
  <2> QED BY <1>1, <1>3, <2>1 DEF Seen
<1>5. UnmarkedWritten'
  BY <1>1 DEF UnmarkedWritten
<1>6. Threads(own)' /\ FilesApart' /\ Handles(own)'
  BY <1>1, IdleOn DEF Threads, FilesApart, Extends, Handles
<1>7. ChainShape' /\ Entries(own)'
  BY <1>1, <1>2 DEF Plainly, ChainShape, Entries
<1>8. Linked'
  <2>1. \A c \in chains : \A i \in 1 .. Len(c) : InFat(c[i])
    BY DEF Plainly, ChainShape
  <2>2. \A x : ~Linking(x)
    BY <1>2 DEF Linking
  <2> QED BY <1>1, <1>4, <2>1, <2>2 DEF Plainly, Linked
<1>9. FreeAbove'
  BY <1>1, <1>2, <1>4 DEF Plainly, FreeAbove
<1> QED BY <1>5, <1>6, <1>7, <1>8, <1>9 DEF Plainly

LEMMA ProcessPlainly ==
  ASSUME RemountKilled = FALSE, IInv, NEW own, Plainly(own), Process PROVE Plainly(own)'
<1>1. CASE Unmount
  <2>1. /\ stage' = "unmounted"
        /\ UNCHANGED <<cached, modificado, fat, pc, loc, cur, nxt, chains, nextFreeCluster, entry,
                       handle>>
    BY <1>1 DEF Unmount, volumeVars, cacheVars, allocVars, threadVars, history
  <2>2. UnmarkedWritten'
    BY <2>1 DEF Plainly, UnmarkedWritten
  <2> QED BY <2>1, <2>2, StagePlainly
<1>2. CASE ExitFlush
  BY <1>2, ExitFlushPlainly
<1>3. CASE ExitFsInfo
  <2>1. /\ stage = "flushed" /\ stage' = "down"
        /\ UNCHANGED <<cached, modificado, fat, pc, loc, cur, nxt, chains, nextFreeCluster, entry,
                       handle>>
    BY <1>3 DEF ExitFsInfo, cacheVars, allocVars, threadVars, history
  <2>2. UnmarkedWritten'
    BY <2>1 DEF Plainly, UnmarkedWritten
  <2> QED BY <2>1, <2>2, StagePlainly
<1>4. CASE EarlyExit
  <2>1. /\ stage' = "killed"
        /\ UNCHANGED <<cached, modificado, fat, pc, loc, cur, nxt, chains, nextFreeCluster, entry,
                       handle>>
    BY <1>4 DEF EarlyExit, volumeVars, cacheVars, allocVars, threadVars, history
  <2>2. UnmarkedWritten'
    BY <2>1 DEF Plainly, UnmarkedWritten
  <2> QED BY <2>1, <2>2, StagePlainly
<1>5. CASE Mount
  BY <1>5, MountPlainly
<1> QED BY <1>1, <1>2, <1>3, <1>4, <1>5 DEF Process

LEMMA StutterPlainly == ASSUME NEW own, Plainly(own), UNCHANGED vars PROVE Plainly(own)'
<1>1. /\ UNCHANGED <<stage, cached, modificado, fat>>
      /\ UNCHANGED <<pc, loc, cur, nxt, chains, nextFreeCluster, entry, handle>>
  BY DEF vars, processVars, volumeVars, cacheVars, allocVars, threadVars, history
<1>2. UnmarkedWritten'
  BY <1>1 DEF Plainly, UnmarkedWritten
<1> QED BY <1>1, <1>2, StagePlainly

LEMMA InitPlainly == Init => ChainsInv
<1> SUFFICES ASSUME Init PROVE \E own \in Owners : Plainly(own)
  BY DEF ChainsInv
<1> DEFINE own == [x \in Int |-> None]
<1>1. own \in Owners
  BY DEF Owners
<1>2. /\ chains = {} /\ stage = "up" /\ nextFreeCluster = FirstFree
      /\ cached = [s \in Sector |-> IF s = 0 THEN fat[0] ELSE None]
      /\ \A t \in Thread : pc[t] = "idle"
  BY DEF Init
<1> HIDE DEF own
<1>3. ASSUME NEW c, InFat(c)
      PROVE  Seen(cached, fat, c) = IF c <= FirstFree THEN EOC ELSE Free
  <2>1. c \in Nat /\ SectorOf(c) \in Sector /\ SlotOf(c) \in Slot
    BY <1>3, SectorType, SlotType, FatAssumption DEF InFat
  <2>2. SectorOf(c) * EntriesPerSector + SlotOf(c) = c
    BY <2>1, FatAssumption DEF SectorOf, SlotOf
  <2>3. fat[SectorOf(c)][SlotOf(c)] = IF c <= FirstFree THEN EOC ELSE Free
    <3>1. fat[SectorOf(c)][SlotOf(c)] =
            IF SectorOf(c) * EntriesPerSector + SlotOf(c) <= FirstFree THEN EOC ELSE Free
      BY <2>1 DEF Init
    <3> QED BY <2>2, <3>1
  <2>4. Seen(cached, fat, c) = fat[SectorOf(c)][SlotOf(c)]
    BY <1>2, <2>1 DEF Seen
  <2> QED BY <2>3, <2>4
<1>4. ChainShape /\ Linked
  BY <1>2 DEF ChainShape, Linked
<1>5. FreeAbove
  <2>1. \A c : InFat(c) => c \in Nat
    BY FatAssumption DEF InFat
  <2> QED BY <1>2, <1>3, <2>1, FatAssumption DEF FreeAbove
<1>6. UnmarkedWritten
  BY <1>2 DEF UnmarkedWritten
<1>7. FilesApart
  BY <1>2 DEF FilesApart, Extends
<1>8. Entries(own)
  <2>1. \A f \in File : entry[f].first = 0
    BY DEF Init, NoEntry
  <2> QED BY <2>1 DEF Entries, Owned
<1>9. Handles(own)
  <2>1. \A f \in File : handle[f] # None => handle[f] = Opened(NoEntry)
    BY DEF Init
  <2>2. Opened(NoEntry).first = 0 /\ Opened(NoEntry).next = 0 /\ Opened(NoEntry).eoc = 0
    BY DEF Opened, NoEntry
  <2>3. ASSUME NEW f \in File PROVE Sound(Opened(NoEntry), f, own, chains)
    BY <2>2 DEF Sound, Owned
  <2> QED BY <1>2, <2>1, <2>3 DEF Handles
<1>10. Threads(own)
  BY <1>2, IdleOn DEF Threads
<1>11. Plainly(own)
  BY ONLY <1>4, <1>5, <1>6, <1>7, <1>8, <1>9, <1>10 DEF Plainly
<1> QED BY ONLY <1>1, <1>11, ZenonT(30)
-----------------------------------------------------------------------------
(* Every step of a plain run.                                              *)

LEMMA StaysPlain == ASSUME IInv, [Next]_vars, plain' PROVE plain
<1>1. CASE Process
  BY <1>1 DEF Process, Unmount, ExitFlush, ExitFsInfo, EarlyExit, Mount, history
<1>2. ASSUME NEW t \in Thread, Start(t) PROVE plain
  <2>1. CASE Mkdir(t)
    BY <2>1 DEF Mkdir, Call
  <2>2. ASSUME NEW f \in File, Mknod(t, f) \/ Open(t, f) \/ Write(t, f) PROVE plain
    BY <2>2 DEF Mknod, Open, Write, Call
  <2>3. ASSUME NEW f \in File, TruncateUp(t, f) \/ TruncateDown(t, f) PROVE plain
    BY <2>3 DEF TruncateUp, TruncateDown, Call
  <2>4. ASSUME NEW f \in File, Unlink(t, f) \/ Close(t, f) \/ Finfo(t, f) PROVE plain
    BY <2>4 DEF Unlink, Close, Finfo, Call
  <2> QED BY <1>2, <2>1, <2>2, <2>3, <2>4 DEF Start
<1>3. ASSUME NEW t \in Thread, Step(t) PROVE plain
  <2> USE DEF history
  <2>1. CASE Hit(t) \/ Miss(t) \/ Fill(t) \/ Outside(t)
    BY <2>1 DEF Hit, Miss, Fill, Outside
  <2>2. CASE Lock(t) \/ Scan(t) \/ Mark(t) \/ Link(t) \/ Unlock(t) \/ FindEOC(t)
    BY <2>2 DEF Lock, Scan, Mark, Link, Unlock, FindEOC
  <2>3. CASE GetBlock(t) \/ PutBlock(t) \/ Walk(t) \/ Data(t)
    BY <2>3 DEF GetBlock, PutBlock, Walk, Data
  <2>4. CASE Peek(t) \/ FreeEntry(t) \/ Shrink(t) \/ After(t) \/ Cut(t) \/ Drop(t)
    BY <2>4 DEF Peek, FreeEntry, Shrink, After, Cut, Drop
  <2>5. CASE FlushPut(t) \/ FlushClear(t) \/ Release(t)
    BY <2>5 DEF FlushPut, FlushClear, Release
  <2> QED BY <1>3, <2>1, <2>2, <2>3, <2>4, <2>5 DEF Step, Operate
<1>4. CASE UNCHANGED vars
  BY <1>4 DEF vars, history
<1> QED BY <1>1, <1>2, <1>3, <1>4 DEF Next

LEMMA StepsPlainly ==
  ASSUME IInv, NEW own \in Owners, Plainly(own), NEW t \in Thread, Step(t), plain'
  PROVE  \E own2 \in Owners : Plainly(own2)'
<1>1. CASE Unlock(t)
  BY <1>1, UnlockPlainly
<1>2. CASE Hit(t) \/ Miss(t) \/ Fill(t) \/ Outside(t)
  BY <1>2, HitPlainly, MissPlainly, FillPlainly, OutsidePlainly
<1>3. CASE Lock(t) \/ Scan(t) \/ Mark(t) \/ Link(t) \/ FindEOC(t)
  BY <1>3, LockPlainly, ScanPlainly, MarkPlainly, LinkPlainly, FindEOCPlainly
<1>4. CASE GetBlock(t) \/ PutBlock(t) \/ Walk(t) \/ Data(t)
  BY <1>4, GetBlockPlainly, PutBlockPlainly, WalkPlainly, DataPlainly
<1>5. CASE FlushPut(t) \/ FlushClear(t) \/ Release(t)
  BY <1>5, FlushPutPlainly, FlushClearPlainly, ReleasePlainly
<1> QED BY <1>1, <1>2, <1>3, <1>4, <1>5, NothingFreed DEF Step, Operate

\* The chains in a plain run, by an invariant that names the file a chain was
\* made for.  A chain grows only at its end, by the thread in the lock that
\* works for its file; the thread finds the end there because nobody else
\* makes that file longer, changes one entry of a sector that nobody has
\* changed since it read it, and all entries above the next free cluster are
\* free, so the mark it makes in advance is in nobody's chain.
THEOREM ChainsKept == ASSUME RemountKilled = FALSE PROVE Spec => []ChainsHold
<1>1. IInv /\ ChainsInv /\ [Next]_vars => ChainsInv'
  <2> SUFFICES ASSUME IInv, ChainsInv, [Next]_vars, plain'
               PROVE  \E own2 \in Owners : Plainly(own2)'
    BY DEF ChainsInv
  <2>1. PICK own \in Owners : Plainly(own)
    BY StaysPlain DEF ChainsInv
  <2>2. CASE Process
    BY <2>1, <2>2, ProcessPlainly
  <2>3. ASSUME NEW t \in Thread, Start(t) PROVE \E own2 \in Owners : Plainly(own2)'
    BY <2>1, <2>3, StartPlainly
  <2>4. ASSUME NEW t \in Thread, Step(t) PROVE \E own2 \in Owners : Plainly(own2)'
    BY <2>1, <2>4, StepsPlainly
  <2>5. CASE UNCHANGED vars
    BY <2>1, <2>5, StutterPlainly
  <2> QED BY <2>2, <2>3, <2>4, <2>5 DEF Next
<1>2. IInv /\ ChainsInv => ChainsHold
  <2> SUFFICES ASSUME IInv, ChainsInv, fatLock = None, plain,
                      NEW c \in chains, NEW i \in 1 .. Len(c)
               PROVE  FatNow(c[i]) = IF i < Len(c) THEN c[i + 1] ELSE EOC
    BY DEF ChainsHold
  <2>1. \A t \in Thread : pc[t] # "unlock"
    BY FatAssumption DEF IInv, AllocInv, InLock
  <2>2. FatNow(c[i]) = Seen(cached, fat, c[i])
    BY DEF FatNow, Seen
  <2> QED BY <2>1, <2>2 DEF ChainsInv, Plainly, Linked, Linking
<1> QED BY <1>1, <1>2, InitPlainly, Invariant, PTL DEF Spec
=============================================================================
