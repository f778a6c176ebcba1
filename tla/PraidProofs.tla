---------------------------- MODULE PraidProofs ----------------------------
(***************************************************************************)
(* Invariants of Praid for any number of disks, connections, requests and  *)
(* crashes, and the order in which a disk is sent the jobs of a            *)
(* connection: a PUT that walks the list of storages with no lock, while   *)
(* others leave it, skips no disk that is still served, and meets none     *)
(* twice.                                                                  *)
(***************************************************************************)
EXTENDS Praid, SequenceTheorems, WellFoundedInduction, TLAPS

\* The requests that have been issued: what may be in a queue or a message.
Known == {j \in Job : j.n \in DOMAIN issued[j.conn] /\ issued[j.conn][j.n] = j}
KnownGet == {j \in Known : IsGet(j)}

KnownPpdMessage ==
    [kind : {"job"}, job : Known]
      \cup [kind : {"syncGet", "syncEnd"}]
      \cup [kind : {"syncPut"}, data : SUBSET Job]

KnownPraidMessage ==
    [kind : {"answer"}, job : KnownGet]
      \cup [kind : {"syncEnd"}]
      \cup [kind : {"syncPut"}, data : SUBSET Job]

\* TypeOK with every job an issued one.
StorageInv ==
    /\ praidUp \in BOOLEAN
    /\ ppdStorages \in Seq(Ppd)
    /\ unlinked \in [Ppd -> Ppd \cup {None}]
    /\ connected \in [Ppd -> BOOLEAN]
    /\ pendingJobs \in [Ppd -> Seq(Known)]
    /\ sendedJobs \in [Ppd -> Seq(Known)]
    /\ pendingResponses \in [Ppd -> 0 .. CounterSize - 1]
    /\ disconnectionMutex \in [Ppd -> {"free", "sender", "listener"}]
    /\ redistributionMutex \in Ppd \cup {None}
    /\ replicationStatusActive \in BOOLEAN
    /\ syncState \in [source : Ppd \cup {None}, destiny : Ppd \cup {None}]

\* The threads, and what each has in its hands where it stands.
EntryInv ==
    /\ entry \in [pc : {"accept", "select", "add", "decide", "sleep", "fire"},
                  destiny : Ppd \cup {None}, master : Ppd \cup {None}]
    /\ entry.pc # "accept" =>
          /\ entry.destiny \in Ppd /\ ppd[entry.destiny] # "off"
          /\ senderPc[entry.destiny] = "off" /\ listenerPc[entry.destiny] = "off"
    /\ \A d \in Ppd : ppd[d] = "off" => senderPc[d] = "off" /\ listenerPc[d] = "off"
    /\ entry.pc = "add" /\ entry.master = None => Len(ppdStorages) = 0
    /\ entry.pc = "decide" /\ entry.master = None => Len(ppdStorages) <= 1
    /\ entry.pc \in {"sleep", "fire"} => entry.master \in Ppd

PfsInv ==
    /\ pfsPc \in [Pfs -> {"off", "denied", "recv", "select", "get", "walk", "put", "done"}]
    /\ pfsAt \in [Pfs -> Ppd \cup {None}]
    /\ pfsNext \in [Pfs -> Ppd \cup {None}]
    /\ issued \in [Pfs -> Seq(Job)]
    /\ \A c \in Pfs : \A k \in DOMAIN issued[c] :
          issued[c][k].conn = c /\ issued[c][k].n = k
    /\ \A c \in Pfs : pfsPc[c] \in {"select", "get", "walk", "put"} => issued[c] # <<>>
    /\ \A c \in Pfs : praidUp /\ pfsPc[c] = "get" => pfsAt[c] \in Ppd

SenderInv ==
    /\ senderPc \in [Ppd -> {"off", "test", "wait", "lock", "record", "count", "done"}]
    /\ senderJob \in [Ppd -> Known \cup {None}]
    /\ \A d \in Ppd :
          /\ senderPc[d] = "lock" => pendingJobs[d] # <<>>
          /\ senderPc[d] \in {"record", "count"} => senderJob[d] \in Known
          /\ senderPc[d] \in {"record", "count"} <=> disconnectionMutex[d] = "sender"
          /\ senderJob[d] # None => senderPc[d] \in {"record", "count"}

ListenerType ==
    /\ listenerPc \in [Ppd -> {"off", "recv", "respond", "unlist", "syncEnd", "lock",
                               "remove", "select", "assign", "done"}]
    /\ listenerJob \in [Ppd -> KnownGet \cup {None}]
    /\ orphans \in [Ppd -> Seq(Known)]
    /\ candidate \in [Ppd -> Ppd \cup {None}]

ListenerAt(d) ==
    /\ listenerPc[d] \in {"respond", "unlist"} => listenerJob[d] \in KnownGet
    /\ listenerPc[d] \in {"select", "assign"} => HasGet(orphans[d])
    /\ listenerPc[d] = "assign" => candidate[d] \in Ppd
    /\ listenerPc[d] \in {"remove", "select", "assign"}
         <=> disconnectionMutex[d] = "listener"

ListenerInv ==
    /\ ListenerType
    /\ \A d \in Ppd : ListenerAt(d)

SocketInv ==
    /\ toPpd \in [Ppd -> Seq(KnownPpdMessage)]
    /\ toPraid \in [Ppd -> Seq(KnownPraidMessage)]
    /\ inbox \in [Pfs -> Seq(KnownGet)]
    /\ \A c \in Pfs : \A i \in DOMAIN inbox[c] : inbox[c][i].conn = c

DiskInv ==
    /\ ppd \in [Ppd -> {"off", "up", "denied", "down"}]
    /\ jobsQueue \in [Ppd -> SUBSET Known]
    /\ streaming \in [Ppd -> 0 .. Sectors \cup {None}]
    /\ restoring \in [Ppd -> Nat \cup {None}]
    /\ volume \in [Ppd -> [Sector -> SUBSET Job]]
    /\ sentTo \in [Ppd -> Seq(Known)]
    /\ snapshot \in [Ppd -> [Sector -> SUBSET Job]]

IInv ==
    /\ StorageInv
    /\ EntryInv
    /\ PfsInv
    /\ SenderInv
    /\ ListenerInv
    /\ SocketInv
    /\ DiskInv

-----------------------------------------------------------------------------
(* What the operators on lists and queues return.                          *)

\* commons_list_removeNode gives back a list of storages, no longer.
LEMMA UnlinkType ==
    ASSUME NEW list \in Seq(Ppd), NEW d
    PROVE  /\ Unlink(list, d) \in Seq(Ppd)
           /\ Len(Unlink(list, d)) <= Len(list)
<1>1. CASE ~Listed(list, d)
  BY <1>1 DEF Unlink
<1>2. CASE Listed(list, d)
  <2> DEFINE i == Position(list, d)
             before == SubSeq(list, 1, i - 1)
             after == SubSeq(list, i + 1, Len(list))
  <2>1. i \in 1 .. Len(list)
    BY <1>2 DEF Listed, Position
  <2> HIDE DEF i
  <2>2. before \in Seq(Ppd) /\ Len(before) = i - 1
    BY <2>1, SubSeqProperties
  <2>3. after \in Seq(Ppd) /\ Len(after) = Len(list) - i
    BY <2>1, SubSeqProperties
  <2>4. Unlink(list, d) = before \o after
    BY <1>2 DEF Unlink, RemoveAt, i
  <2> HIDE DEF before, after
  <2>5. before \o after \in Seq(Ppd) /\ Len(before \o after) = Len(before) + Len(after)
    BY <2>2, <2>3, ConcatProperties
  <2> QED BY <2>1, <2>2, <2>3, <2>4, <2>5
<1> QED BY <1>1, <1>2

\* Striking a job off a queue leaves jobs of that queue.
LEMMA StrikeOffType ==
    ASSUME NEW S, NEW jobs \in Seq(S), NEW s
    PROVE  StrikeOff(jobs, s) \in Seq(S)
<1> DEFINE i == CHOOSE i \in DOMAIN jobs : FirstOfSector(jobs, s, i)
<1>1. CASE \E k \in DOMAIN jobs : FirstOfSector(jobs, s, k)
  <2>1. i \in 1 .. Len(jobs)
    BY <1>1
  <2> HIDE DEF i
  <2>2. SubSeq(jobs, 1, i - 1) \in Seq(S)
    BY <2>1, SubSeqProperties
  <2>3. SubSeq(jobs, i + 1, Len(jobs)) \in Seq(S)
    BY <2>1, SubSeqProperties
  <2>4. StrikeOff(jobs, s)
          = SubSeq(jobs, 1, i - 1) \o SubSeq(jobs, i + 1, Len(jobs))
    BY <1>1 DEF StrikeOff, RemoveAt, i
  <2> QED BY <2>2, <2>3, <2>4, ConcatProperties
<1>2. CASE ~\E k \in DOMAIN jobs : FirstOfSector(jobs, s, k)
  BY <1>2 DEF StrikeOff
<1> QED BY <1>1, <1>2

\* The next orphan is a GET of the queue, and what follows it a queue.
LEMMA NextGetType ==
    ASSUME NEW S, NEW jobs \in Seq(S), HasGet(jobs)
    PROVE  /\ jobs[NextGet(jobs)] \in S
           /\ AfterGet(jobs) \in Seq(S)
<1>1. NextGet(jobs) \in 1 .. Len(jobs)
  BY DEF HasGet, NextGet
<1>2. SubSeq(jobs, NextGet(jobs) + 1, Len(jobs)) \in Seq(S)
  BY <1>1, SubSeqProperties
<1> QED BY <1>1, <1>2 DEF AfterGet

\* The next pointer of a node leads to a storage or nowhere.
LEMMA NextStorageType ==
    ASSUME ppdStorages \in Seq(Ppd),
           unlinked \in [Ppd -> Ppd \cup {None}],
           NEW d \in Ppd
    PROVE  NextStorage(d) \in Ppd \cup {None}
<1>1. CASE Listed(ppdStorages, d)
  <2>1. Position(ppdStorages, d) \in 1 .. Len(ppdStorages)
    BY <1>1 DEF Listed, Position
  <2> QED BY <1>1, <2>1 DEF NextStorage
<1>2. CASE ~Listed(ppdStorages, d)
  BY <1>2 DEF NextStorage
<1> QED BY <1>1, <1>2

\* A set of rankings, or of positions, has a least member.
LEMMA LeastNatural ==
    ASSUME NEW T \in SUBSET Nat, T # {}
    PROVE  \E x \in T : \A y \in T : x <= y
<1> DEFINE Less == {ss \in Nat \X Nat : ss[1] < ss[2]}
<1>1. IsWellFoundedOn(Less, Nat)
  BY NatLessThanWellFounded DEF OpToRel
<1>2. PICK x \in T : \A y \in T : ~(<<y, x>> \in Less)
  <2> HIDE DEF Less
  <2> QED BY <1>1, WFMin
<1>3. ASSUME NEW y \in T
      PROVE  x <= y
  <2>1. ~(y < x)
    BY <1>2
  <2> QED BY <2>1
<1> QED BY <1>3

\* The balancer finds a storage whenever there is one on the list.
LEMMA SelectStorageType ==
    ASSUME ppdStorages \in Seq(Ppd),
           pendingJobs \in [Ppd -> Seq(Known)],
           pendingResponses \in [Ppd -> 0 .. CounterSize - 1]
    PROVE  /\ SelectStorage \in Ppd \cup {None}
           /\ SelectStorage = None => Len(ppdStorages) = 0
<1>1. SelectStorage \in Ppd \cup {None}
  BY DEF SelectStorage
<1>2. ASSUME Len(ppdStorages) # 0
      PROVE  \E i \in DOMAIN ppdStorages : BestAt(i)
  <2> DEFINE Rank(i) == StorageRanking(ppdStorages[i])
             Ranks == {Rank(i) : i \in 1 .. Len(ppdStorages)}
  <2>1. ASSUME NEW i \in 1 .. Len(ppdStorages)
        PROVE  Rank(i) \in Nat
    <3> DEFINE d == ppdStorages[i]
    <3>1. d \in Ppd
      OBVIOUS
    <3> HIDE DEF d
    <3>2. Len(pendingJobs[d]) \in Nat /\ pendingResponses[d] \in Nat
      BY <3>1, LenProperties
    <3>3. 2 * Len(pendingJobs[d]) + pendingResponses[d] \in Nat
      BY <3>2
    <3> QED BY <3>3 DEF StorageRanking, d
  <2> HIDE DEF Rank
  <2>2. Ranks \in SUBSET Nat /\ Ranks # {}
    BY <1>2, <2>1
  <2>3. PICK r \in Ranks : \A m \in Ranks : r <= m
    <3> HIDE DEF Ranks
    <3> QED BY <2>2, LeastNatural
  <2> DEFINE Lowest == {i \in 1 .. Len(ppdStorages) : Rank(i) = r}
  <2>4. Lowest \in SUBSET Nat /\ Lowest # {}
    BY <2>3
  <2>5. PICK i \in Lowest : \A k \in Lowest : i <= k
    <3> HIDE DEF Lowest
    <3> QED BY <2>4, LeastNatural
  <2>6. \A j \in 1 .. Len(ppdStorages) : Rank(i) < Rank(j) \/ (Rank(i) = Rank(j) /\ i <= j)
    <3> TAKE j \in 1 .. Len(ppdStorages)
    <3>1. r <= Rank(j) /\ r \in Nat /\ Rank(j) \in Nat /\ Rank(i) = r
      BY <2>1, <2>2, <2>3, <2>5
    <3>2. Rank(j) = r => i <= j
      BY <2>5
    <3> QED BY <3>1, <3>2
  <2>7. BestAt(i)
    BY <2>5, <2>6, DOMAIN ppdStorages = 1 .. Len(ppdStorages) DEF BestAt, Rank
  <2> QED BY <2>5, <2>7
<1>3. ASSUME \E i \in DOMAIN ppdStorages : BestAt(i)
      PROVE  SelectStorage \in Ppd
  BY <1>3 DEF SelectStorage
<1> QED BY <1>1, <1>2, <1>3, PraidAssumption DEF PraidAssumption

-----------------------------------------------------------------------------
(* The invariant.                                                          *)

\* A step that issues no request leaves what is known alone.
LEMMA KnownUnchanged ==
    ASSUME UNCHANGED issued
    PROVE  /\ Known' = Known
           /\ KnownGet' = KnownGet
           /\ KnownPpdMessage' = KnownPpdMessage
           /\ KnownPraidMessage' = KnownPraidMessage
<1>1. Known' = Known
  BY DEF Known
<1>2. KnownGet' = KnownGet
  BY <1>1 DEF KnownGet
<1> QED BY <1>1, <1>2 DEF KnownPpdMessage, KnownPraidMessage

\* A part of the invariant holds on while what it speaks of is left alone.
LEMMA StorageFrame ==
    ASSUME StorageInv, praidUp' \in BOOLEAN, UNCHANGED <<praidVars, issued>>
    PROVE  StorageInv'
BY KnownUnchanged
   DEF StorageInv, praidVars, storageVars, listVars, queueVars, lockVars, syncVars

LEMMA EntryFrame ==
    ASSUME EntryInv, UNCHANGED <<entry, senderPc, listenerPc, ppd, ppdStorages>>
    PROVE  EntryInv'
BY DEF EntryInv

LEMMA PfsFrame ==
    ASSUME PfsInv, praidUp, UNCHANGED pfsVars
    PROVE  PfsInv'
BY DEF PfsInv, pfsVars

LEMMA SenderFrame ==
    ASSUME SenderInv, UNCHANGED <<senderVars, pendingJobs, disconnectionMutex, issued>>
    PROVE  SenderInv'
BY KnownUnchanged DEF SenderInv, senderVars

LEMMA ListenerFrame ==
    ASSUME ListenerInv, UNCHANGED <<listenerVars, disconnectionMutex, issued>>
    PROVE  ListenerInv'
BY KnownUnchanged DEF ListenerInv, ListenerType, ListenerAt, listenerVars, heldVars

LEMMA SocketFrame ==
    ASSUME SocketInv, UNCHANGED <<socketVars, issued>>
    PROVE  SocketInv'
BY KnownUnchanged DEF SocketInv, socketVars

LEMMA DiskFrame ==
    ASSUME DiskInv, UNCHANGED <<ppdVars, historyVars, issued>>
    PROVE  DiskInv'
BY KnownUnchanged DEF DiskInv, ppdVars, copyVars, historyVars

LEMMA InitInv == Init => IInv
<1> SUFFICES ASSUME Init PROVE IInv
  OBVIOUS
<1> USE PraidAssumption DEF PraidAssumption
<1>1. StorageInv
  <2>1. connected \in [Ppd -> BOOLEAN]
    BY DEF Init, Initially
  <2>2. pendingResponses \in [Ppd -> 0 .. CounterSize - 1]
    BY DEF Init, CounterSize
  <2>3. syncState \in [source : Ppd \cup {None}, destiny : Ppd \cup {None}]
    BY DEF Init
  <2>4. praidUp \in BOOLEAN /\ replicationStatusActive \in BOOLEAN
    BY DEF Init
  <2>5. unlinked \in [Ppd -> Ppd \cup {None}] /\ redistributionMutex \in Ppd \cup {None}
    BY DEF Init
  <2>6. ppdStorages \in Seq(Ppd)
    BY DEF Init
  <2>7. /\ pendingJobs \in [Ppd -> Seq(Known)] 
        /\ sendedJobs \in [Ppd -> Seq(Known)]
    BY DEF Init
  <2>8. disconnectionMutex \in [Ppd -> {"free", "sender", "listener"}]
    BY DEF Init
  <2> QED BY <2>1, <2>2, <2>3, <2>4, <2>5, <2>6, <2>7, <2>8 DEF StorageInv
<1>2. EntryInv
  BY DEF EntryInv, Init
<1>3. PfsInv
  BY DEF PfsInv, Init
<1>4. SenderInv
  BY DEF SenderInv, Init
<1>5. ListenerInv
  BY DEF ListenerInv, ListenerType, ListenerAt, Init
<1>6. SocketInv
  BY DEF SocketInv, Init
<1>7. DiskInv
  BY DEF DiskInv, Init, EmptyVolume
<1> QED BY <1>1, <1>2, <1>3, <1>4, <1>5, <1>6, <1>7 DEF IInv

\* A message put on the socket of a disk, or lost with the disk.
LEMMA SendType ==
    ASSUME SocketInv, UNCHANGED issued, praidUp,
           NEW d, NEW m \in KnownPpdMessage, SendToPpd(d, m)
    PROVE  /\ toPpd' \in [Ppd -> Seq(KnownPpdMessage')]
           /\ praidUp' \in BOOLEAN
<1> KnownPpdMessage' = KnownPpdMessage
  BY KnownUnchanged
<1> toPpd \in [Ppd -> Seq(KnownPpdMessage)]
  BY DEF SocketInv
<1>1. CASE ppd[d] # "up"
  BY <1>1 DEF SendToPpd
<1>2. CASE d \notin Ppd /\ ppd[d] = "up"
  BY <1>2 DEF SendToPpd
<1>3. CASE d \in Ppd /\ ppd[d] = "up"
  <2>1. Append(toPpd[d], m) \in Seq(KnownPpdMessage)
    BY <1>3, AppendProperties
  <2>2. toPpd' = [toPpd EXCEPT ![d] = Append(toPpd[d], m)] /\ praidUp' = praidUp
    BY <1>3 DEF SendToPpd
  <2> QED BY <2>1, <2>2
<1> QED BY <1>1, <1>2, <1>3

\* The entrypoint listener keeps the invariant.
LEMMA EntrypointInv ==
    ASSUME IInv, praidUp, EntrypointStep
    PROVE  IInv'
<1> USE DEF IInv, praidVars, storageVars, listVars, queueVars, lockVars, syncVars,
            pfsVars, senderVars, listenerVars, heldVars, outsideVars, socketVars,
            ppdVars, copyVars, historyVars
<1>1. CASE SelectMaster
  <2>1. EntryInv'
    BY <1>1, SelectStorageType DEF SelectMaster, EntryInv, StorageInv
  <2> QED
    BY <1>1, <2>1, StorageFrame, PfsFrame, SenderFrame, ListenerFrame,
       SocketFrame, DiskFrame DEF SelectMaster
<1>2. CASE AddPpdStorage
  <2>1. /\ ppdStorages' \in Seq(Ppd)
        /\ Len(ppdStorages') = Len(ppdStorages) + 1
    <3>1. ppdStorages \in Seq(Ppd) /\ entry.destiny \in Ppd
      BY <1>2 DEF AddPpdStorage, EntryInv, StorageInv
    <3> QED BY <1>2, <3>1, AppendProperties DEF AddPpdStorage
  <2>2. EntryInv'
    <3>1. entry.destiny \in Ppd /\ entry.master \in Ppd \cup {None}
      BY <1>2 DEF AddPpdStorage, EntryInv
    <3>2. entry' = [pc |-> "decide", destiny |-> entry.destiny, master |-> entry.master]
      BY <1>2 DEF AddPpdStorage, EntryInv
    <3>3. entry'.master = None => Len(ppdStorages') <= 1
      BY <1>2, <2>1, <3>2 DEF AddPpdStorage, EntryInv
    <3> QED BY <1>2, <3>1, <3>2, <3>3 DEF AddPpdStorage, EntryInv
  <2>3. StorageInv'
    BY <1>2, <2>1, KnownUnchanged DEF AddPpdStorage, StorageInv
  <2> QED
    BY <1>2, <2>2, <2>3, PfsFrame, SenderFrame, ListenerFrame,
       SocketFrame, DiskFrame DEF AddPpdStorage
<1>3. CASE SkipReplication
  <2> [kind |-> "syncEnd"] \in KnownPpdMessage
    BY DEF KnownPpdMessage
  <2>1. praidUp' \in BOOLEAN /\ toPpd' \in [Ppd -> Seq(KnownPpdMessage')]
    BY <1>3, SendType DEF SkipReplication
  <2>2. EntryInv'
    BY <1>3 DEF SkipReplication, LaunchNewSlaveThread, EntryInv
  <2>3. SenderInv'
    BY <1>3, KnownUnchanged DEF SkipReplication, LaunchNewSlaveThread, EntryInv, SenderInv
  <2>4. ListenerInv'
    BY <1>3, KnownUnchanged DEF SkipReplication, LaunchNewSlaveThread, EntryInv, ListenerInv, ListenerType, ListenerAt
  <2>5. SocketInv'
    BY <1>3, <2>1, KnownUnchanged DEF SkipReplication, SocketInv
  <2> QED
    BY <1>3, <2>1, <2>2, <2>3, <2>4, <2>5, StorageFrame, PfsFrame, DiskFrame
    DEF SkipReplication
<1>4. CASE BeginReplication
  <2>1. entry.master \in Ppd
    <3>1. Len(ppdStorages) \in Nat
      BY DEF StorageInv
    <3> QED BY <1>4, <3>1 DEF BeginReplication, EntryInv, IsValidReplication
  <2>2. EntryInv'
    BY <1>4, <2>1 DEF BeginReplication, EntryInv
  <2> QED
    BY <1>4, <2>2, StorageFrame, PfsFrame, SenderFrame, ListenerFrame,
       SocketFrame, DiskFrame DEF BeginReplication
<1>5. CASE FireActive
  <2>1. EntryInv'
    BY <1>5 DEF FireActive, EntryInv
  <2>2. StorageInv'
    BY <1>5, KnownUnchanged DEF FireActive, StorageInv
  <2> QED
    BY <1>5, <2>1, <2>2, PfsFrame, SenderFrame, ListenerFrame, SocketFrame, DiskFrame
    DEF FireActive
<1>6. CASE FireSynchronization
  <2> [kind |-> "syncGet"] \in KnownPpdMessage
    BY DEF KnownPpdMessage
  <2>1. praidUp' \in BOOLEAN /\ toPpd' \in [Ppd -> Seq(KnownPpdMessage')]
    BY <1>6, SendType DEF FireSynchronization
  <2>2. EntryInv'
    BY <1>6 DEF FireSynchronization, LaunchNewSlaveThread, EntryInv
  <2>3. SenderInv'
    BY <1>6, KnownUnchanged DEF FireSynchronization, LaunchNewSlaveThread, EntryInv, SenderInv
  <2>4. ListenerInv'
    BY <1>6, KnownUnchanged
    DEF FireSynchronization, LaunchNewSlaveThread, EntryInv, ListenerInv, ListenerType, ListenerAt
  <2>5. SocketInv'
    BY <1>6, <2>1, KnownUnchanged DEF FireSynchronization, SocketInv
  <2>6. StorageInv'
    BY <1>6, <2>1, KnownUnchanged DEF FireSynchronization, StorageInv, EntryInv
  <2> QED
    BY <1>6, <2>2, <2>3, <2>4, <2>5, <2>6, PfsFrame, DiskFrame DEF FireSynchronization
<1> QED BY <1>1, <1>2, <1>3, <1>4, <1>5, <1>6 DEF EntrypointStep

\* A queue with one more member.
LEMMA QueuePutType ==
    ASSUME pendingJobs \in [Ppd -> Seq(Known)],
           NEW d, NEW j \in Known, QueuePut(d, j)
    PROVE  /\ pendingJobs' \in [Ppd -> Seq(Known)]
           /\ \A e \in Ppd : pendingJobs[e] # <<>> => pendingJobs'[e] # <<>>
<1>1. CASE d \notin Ppd
  BY <1>1 DEF QueuePut
<1>2. CASE d \in Ppd
  <2>1. Append(pendingJobs[d], j) \in Seq(Known) /\ Append(pendingJobs[d], j) # <<>>
    BY <1>2, AppendProperties
  <2>2. pendingJobs' = [pendingJobs EXCEPT ![d] = Append(pendingJobs[d], j)]
    BY DEF QueuePut
  <2> QED BY <1>2, <2>1, <2>2
<1> QED BY <1>1, <1>2

\* The request a PFS thread works on is an issued one.
LEMMA LastRequestType ==
    ASSUME PfsInv, NEW c \in Pfs, issued[c] # <<>>
    PROVE  LastRequest(c) \in Known
<1>1. issued[c] \in Seq(Job)
  BY DEF PfsInv
<1> DEFINE k == Len(issued[c])
           j == issued[c][k]
<1>2. k \in DOMAIN issued[c]
  BY <1>1, EmptySeq
<1>3. j \in Job /\ j.conn = c /\ j.n = k
  BY <1>1, <1>2 DEF PfsInv
<1> QED BY <1>2, <1>3 DEF LastRequest, Known

\* A new request is known from now on, and what was known still is.
LEMMA KnownGrows ==
    ASSUME StorageInv, PfsInv, NEW c \in Pfs, PfsReceive(c)
    PROVE  /\ PfsInv'
           /\ Known \subseteq Known'
           /\ KnownGet \subseteq KnownGet'
           /\ KnownPpdMessage \subseteq KnownPpdMessage'
           /\ KnownPraidMessage \subseteq KnownPraidMessage'
<1>1. PICK r \in Requests :
         issued' = [issued EXCEPT ![c] = Append(@,
            [conn |-> c, n |-> Len(@) + 1, op |-> r.op, sector |-> r.sector])]
  BY DEF PfsReceive
<1> DEFINE j == [conn |-> c, n |-> Len(issued[c]) + 1, op |-> r.op, sector |-> r.sector]
<1>2. issued \in [Pfs -> Seq(Job)] /\ issued[c] \in Seq(Job)
  BY DEF PfsInv
<1>3. j \in Job
  <2>1. r.op \in {"get", "put"} /\ r.sector \in Sector
    BY PraidAssumption DEF PraidAssumption
  <2>2. Len(issued[c]) + 1 \in Nat \ {0}
    BY <1>2
  <2> QED BY <2>1, <2>2 DEF Job
<1>4. j.conn = c /\ j.n = Len(issued[c]) + 1
  OBVIOUS
<1>5. issued' = [issued EXCEPT ![c] = Append(issued[c], j)]
  BY <1>1
<1> HIDE DEF j
<1>6. /\ Append(issued[c], j) \in Seq(Job)
      /\ Len(Append(issued[c], j)) = Len(issued[c]) + 1
      /\ \A k \in 1 .. Len(issued[c]) : Append(issued[c], j)[k] = issued[c][k]
      /\ Append(issued[c], j)[Len(issued[c]) + 1] = j
  BY <1>2, <1>3, AppendProperties
<1>7. issued' \in [Pfs -> Seq(Job)]
  BY <1>2, <1>5, <1>6
<1>8. \A x \in Pfs : \A k \in DOMAIN issued'[x] : issued'[x][k].conn = x /\ issued'[x][k].n = k
  <2> TAKE x \in Pfs
  <2>1. CASE x # c
    BY <1>2, <1>5, <2>1 DEF PfsInv
  <2>2. CASE x = c
    <3> TAKE k \in DOMAIN issued'[x]
    <3>1. k \in 1 .. Len(issued[c]) + 1 /\ issued'[x] = Append(issued[c], j)
      BY <1>2, <1>5, <1>6, <2>2
    <3>2. CASE k = Len(issued[c]) + 1
      BY <1>4, <1>6, <2>2, <3>1, <3>2
    <3>3. CASE k \in 1 .. Len(issued[c])
      <4>1. issued[c][k].conn = c /\ issued[c][k].n = k
        BY <1>2, <3>3 DEF PfsInv
      <4> QED BY <1>6, <2>2, <3>1, <3>3, <4>1
    <3> QED BY <1>2, <3>1, <3>2, <3>3
  <2> QED BY <2>1, <2>2
<1>9. issued'[c] # <<>>
  BY <1>2, <1>5, <1>6
<1>10. PfsInv'
  <2>1. FirstStorage \in Ppd \cup {None}
    BY DEF StorageInv, FirstStorage
  <2>2. /\ pfsNext' \in [Pfs -> Ppd \cup {None}]
        /\ pfsAt' \in [Pfs -> Ppd \cup {None}]
    BY <2>1 DEF PfsInv, PfsReceive
  <2>3. /\ pfsPc' \in [Pfs -> {"off", "denied", "recv", "select", "get", "walk", "put", "done"}]
        /\ pfsPc'[c] # "get"
    BY DEF PfsInv, PfsReceive
  <2>4. ASSUME NEW x \in Pfs, x # c
        PROVE  pfsPc'[x] = pfsPc[x] /\ pfsAt'[x] = pfsAt[x] /\ issued'[x] = issued[x]
    BY <2>4, <1>5 DEF PfsInv, PfsReceive
  <2>5. praidUp' = praidUp
    BY DEF PfsReceive
  <2> QED BY <1>7, <1>8, <1>9, <2>2, <2>3, <2>4, <2>5 DEF PfsInv
<1>11. Known \subseteq Known'
  <2> SUFFICES ASSUME NEW k \in Known PROVE k \in Known'
    OBVIOUS
  <2>1. k \in Job /\ k.conn \in Pfs /\ k.n \in DOMAIN issued[k.conn] /\ issued[k.conn][k.n] = k
    BY DEF Known, Job
  <2>2. k.n \in DOMAIN issued'[k.conn] /\ issued'[k.conn][k.n] = k
    BY <1>2, <1>5, <1>6, <2>1
  <2> QED BY <2>1, <2>2 DEF Known
<1>12. KnownGet \subseteq KnownGet'
  BY <1>11 DEF KnownGet
<1> QED BY <1>10, <1>11, <1>12 DEF KnownPpdMessage, KnownPraidMessage

\* A PFS thread keeps the invariant.
LEMMA PfsThreadInv ==
    ASSUME IInv, praidUp, NEW c \in Pfs,
           AcceptPfs(c) \/ PfsReceive(c) \/ PfsThreadStep(c)
    PROVE  IInv'
<1> USE DEF IInv, praidVars, storageVars, listVars, queueVars, lockVars, syncVars,
            pfsVars, senderVars, listenerVars, heldVars, outsideVars, socketVars,
            ppdVars, copyVars, historyVars
<1>1. CASE AcceptPfs(c)
  <2>1. PfsInv'
    BY <1>1 DEF AcceptPfs, PfsInv
  <2> QED
    BY <1>1, <2>1, StorageFrame, EntryFrame, SenderFrame, ListenerFrame,
       SocketFrame, DiskFrame DEF AcceptPfs, StorageInv
<1>2. CASE PfsReceive(c)
  <2>1. /\ PfsInv'
        /\ Known \subseteq Known'
        /\ KnownGet \subseteq KnownGet'
        /\ KnownPpdMessage \subseteq KnownPpdMessage'
        /\ KnownPraidMessage \subseteq KnownPraidMessage'
    BY <1>2, KnownGrows
  <2>2. StorageInv'
    BY <1>2, <2>1, SeqMonotonic DEF PfsReceive, StorageInv
  <2>3. SenderInv'
    BY <1>2, <2>1 DEF PfsReceive, SenderInv
  <2>4. ListenerInv'
    BY <1>2, <2>1, SeqMonotonic DEF PfsReceive, ListenerInv, ListenerType, ListenerAt
  <2>5. SocketInv'
    BY <1>2, <2>1, SeqMonotonic DEF PfsReceive, SocketInv
  <2>6. DiskInv'
    BY <1>2, <2>1, SeqMonotonic DEF PfsReceive, DiskInv
  <2> QED
    BY <1>2, <2>1, <2>2, <2>3, <2>4, <2>5, <2>6, EntryFrame DEF PfsReceive
<1>3. CASE SelectForGet(c)
  <2>1. PfsInv'
    BY <1>3, SelectStorageType DEF SelectForGet, PfsInv, StorageInv
  <2> QED
    BY <1>3, <2>1, StorageFrame, EntryFrame, SenderFrame, ListenerFrame,
       SocketFrame, DiskFrame DEF SelectForGet
<1>4. ASSUME pfsPc[c] \in {"get", "put"}, QueuePut(pfsAt[c], LastRequest(c)),
             UNCHANGED <<praidUp, listVars, connected, sendedJobs, pendingResponses,
                   lockVars, syncVars, issued, senderVars>>
      PROVE  StorageInv' /\ SenderInv'
  <2>1. LastRequest(c) \in Known
    BY <1>4, LastRequestType DEF PfsInv
  <2>2. /\ pendingJobs' \in [Ppd -> Seq(Known)]
        /\ \A e \in Ppd : pendingJobs[e] # <<>> => pendingJobs'[e] # <<>>
    BY <1>4, <2>1, QueuePutType DEF StorageInv
  <2>3. StorageInv'
    BY <1>4, <2>2, KnownUnchanged DEF StorageInv
  <2>4. SenderInv'
    BY <1>4, <2>2, KnownUnchanged DEF SenderInv
  <2> QED BY <2>3, <2>4
<1>5. CASE QueueGet(c)
  <2>1. StorageInv' /\ SenderInv'
    BY <1>4, <1>5 DEF QueueGet
  <2>2. PfsInv'
    BY <1>5 DEF QueueGet, AfterRequest, PfsInv
  <2> QED
    BY <1>5, <2>1, <2>2, EntryFrame, ListenerFrame, SocketFrame, DiskFrame DEF QueueGet
<1>6. CASE PutNext(c)
  <2>1. pfsNext[c] \in Ppd
    BY <1>6 DEF PutNext, PfsInv
  <2>2. NextStorage(pfsNext[c]) \in Ppd \cup {None}
    BY <2>1, NextStorageType DEF StorageInv
  <2>3. PfsInv'
    BY <1>6, <2>2 DEF PutNext, PfsInv
  <2> QED
    BY <1>6, <2>3, StorageFrame, EntryFrame, SenderFrame, ListenerFrame,
       SocketFrame, DiskFrame DEF PutNext, StorageInv
<1>7. CASE PutQueue(c)
  <2>1. StorageInv' /\ SenderInv'
    BY <1>4, <1>7 DEF PutQueue
  <2>2. PfsInv'
    BY <1>7 DEF PutQueue, PfsInv
  <2> QED
    BY <1>7, <2>1, <2>2, EntryFrame, ListenerFrame, SocketFrame, DiskFrame DEF PutQueue
<1>8. CASE PutDone(c)
  <2>1. PfsInv'
    BY <1>8 DEF PutDone, AfterRequest, PfsInv
  <2> QED
    BY <1>8, <2>1, StorageFrame, EntryFrame, SenderFrame, ListenerFrame,
       SocketFrame, DiskFrame DEF PutDone, StorageInv
<1> QED BY <1>1, <1>2, <1>3, <1>5, <1>6, <1>7, <1>8 DEF PfsThreadStep

\* The disk processes, their connections and their deaths keep the invariant.
LEMMA PpdInv ==
    ASSUME IInv, praidUp, NEW d \in Ppd,
           AcceptPpd(d) \/ PpdReceiver(d) \/ PpdWorker(d) \/ PpdCrash(d)
    PROVE  IInv'
<1> USE DEF IInv, praidVars, storageVars, listVars, queueVars, lockVars, syncVars,
            pfsVars, senderVars, listenerVars, heldVars, outsideVars, socketVars,
            ppdVars, copyVars, historyVars
<1>1. CASE AcceptPpd(d)
  <2>1. EntryInv'
    BY <1>1 DEF AcceptPpd, EntryInv, DiskInv
  <2>2. StorageInv'
    BY <1>1, KnownUnchanged DEF AcceptPpd, StorageInv
  <2>3. DiskInv'
    BY <1>1, KnownUnchanged DEF AcceptPpd, DiskInv
  <2> QED
    BY <1>1, <2>1, <2>2, <2>3, PfsFrame, SenderFrame, ListenerFrame, SocketFrame
    DEF AcceptPpd
<1>2. CASE PpdReceiver(d) \/ PpdWorker(d) \/ PpdCrash(d)
  <2>1. UNCHANGED <<praidUp, praidVars, threadVars>>
    BY <1>2 DEF PpdReceiver, PpdReceiveJob, PpdReceiveSyncGet, PpdReceiveSyncPut,
       PpdReceiveSyncEnd, PpdStream, PpdStreamEnd, PpdWorker, PpdRead, PpdWrite, PpdCrash
  <2>2. StorageInv' /\ PfsInv' /\ SenderInv' /\ ListenerInv'
    BY <2>1, StorageFrame, PfsFrame, SenderFrame, ListenerFrame DEF threadVars, StorageInv
  <2>3. EntryInv'
    <3>1. \A e \in Ppd : ppd'[e] = "off" <=> ppd[e] = "off"
      BY <1>2 DEF DiskInv, PpdReceiver, PpdReceiveJob, PpdReceiveSyncGet,
         PpdReceiveSyncPut, PpdReceiveSyncEnd, PpdStream, PpdStreamEnd, PpdWorker,
         PpdRead, PpdWrite, PpdCrash
    <3>2. UNCHANGED <<entry, senderPc, listenerPc, ppdStorages>>
      BY <2>1 DEF threadVars
    <3> QED BY <3>1, <3>2 DEF EntryInv
  <2>4. SocketInv' /\ DiskInv'
    <3> issued' = issued
      BY <2>1 DEF threadVars
    <3> KnownPpdMessage' = KnownPpdMessage /\ KnownPraidMessage' = KnownPraidMessage
          /\ Known' = Known /\ KnownGet' = KnownGet
      BY KnownUnchanged
    <3>1. ASSUME NEW kind, PpdReady(d, kind)
          PROVE  /\ toPpd[d] \in Seq(KnownPpdMessage)
                 /\ Head(toPpd[d]) \in KnownPpdMessage
                 /\ Head(toPpd[d]).kind = kind
                 /\ [toPpd EXCEPT ![d] = Tail(toPpd[d])] \in [Ppd -> Seq(KnownPpdMessage)]
      BY <3>1 DEF PpdReady, SocketInv
    <3>2. ASSUME NEW m \in KnownPraidMessage
          PROVE  [toPraid EXCEPT ![d] = Append(toPraid[d], m)] \in [Ppd -> Seq(KnownPraidMessage)]
      <4>1. Append(toPraid[d], m) \in Seq(KnownPraidMessage)
        BY AppendProperties DEF SocketInv
      <4> QED BY <4>1 DEF SocketInv
    <3>3. CASE PpdReceiveJob(d)
      <4>1. Head(toPpd[d]).job \in Known
        BY <3>1, <3>3 DEF PpdReceiveJob, KnownPpdMessage
      <4> QED BY <3>1, <3>3, <4>1 DEF PpdReceiveJob, SocketInv, DiskInv
    <3>4. CASE PpdReceiveSyncGet(d)
      <4>1. SocketInv'
        BY <3>1, <3>4 DEF PpdReceiveSyncGet, SocketInv
      <4>2. streaming' \in [Ppd -> 0 .. Sectors \cup {None}]
        BY <3>4, PraidAssumption DEF PpdReceiveSyncGet, DiskInv, PraidAssumption
      <4>3. snapshot' \in [Ppd -> [Sector -> SUBSET Job]]
        BY <3>4 DEF PpdReceiveSyncGet, DiskInv
      <4> QED BY <3>4, <4>1, <4>2, <4>3 DEF PpdReceiveSyncGet, DiskInv
    <3>5. CASE PpdReceiveSyncPut(d)
      <4>1. Head(toPpd[d]).data \in SUBSET Job
        <5>1. Head(toPpd[d]).kind = "syncPut" /\ Head(toPpd[d]) \in KnownPpdMessage
          BY <3>1, <3>5 DEF PpdReceiveSyncPut
        <5> QED BY <5>1 DEF KnownPpdMessage
      <4>2. SocketInv'
        BY <3>1, <3>5 DEF PpdReceiveSyncPut, SocketInv
      <4>3. \E at : /\ restoring' = [restoring EXCEPT ![d] = at + 1]
                    /\ at \in Nat
                    /\ \E file \in [Sector -> SUBSET Job] :
                          volume' = [volume EXCEPT ![d] = [file EXCEPT ![at] = Head(toPpd[d]).data]]
        <5>1. EmptyVolume \in [Sector -> SUBSET Job]
          BY DEF EmptyVolume
        <5>2. restoring[d] # None => restoring[d] \in Nat
          BY DEF DiskInv
        <5>3. volume[d] \in [Sector -> SUBSET Job]
          BY DEF DiskInv
        <5> QED BY <3>5, <5>1, <5>2, <5>3 DEF PpdReceiveSyncPut
      <4>4. restoring' \in [Ppd -> Nat \cup {None}]
        BY <4>3 DEF DiskInv
      <4>5. volume' \in [Ppd -> [Sector -> SUBSET Job]]
        <5>0. PICK at : \E file \in [Sector -> SUBSET Job] :
                 volume' = [volume EXCEPT ![d] = [file EXCEPT ![at] = Head(toPpd[d]).data]]
          BY <4>3
        <5>1. PICK file \in [Sector -> SUBSET Job] :
                 volume' = [volume EXCEPT ![d] = [file EXCEPT ![at] = Head(toPpd[d]).data]]
          BY <5>0
        <5> DEFINE written == [file EXCEPT ![at] = Head(toPpd[d]).data]
        <5>2. written \in [Sector -> SUBSET Job]
          BY <4>1
        <5>3. volume' = [volume EXCEPT ![d] = written]
          BY <5>1
        <5> HIDE DEF written
        <5> QED BY <5>2, <5>3 DEF DiskInv
      <4> QED BY <3>5, <4>2, <4>4, <4>5 DEF PpdReceiveSyncPut, DiskInv
    <3>6. CASE PpdReceiveSyncEnd(d)
      BY <3>1, <3>6 DEF PpdReceiveSyncEnd, SocketInv, DiskInv
    <3>7. CASE PpdStream(d)
      <4> DEFINE m == [kind |-> "syncPut", data |-> volume[d][streaming[d]]]
      <4>1. m \in KnownPraidMessage
        BY <3>7 DEF PpdStream, DiskInv, KnownPraidMessage
      <4>2. toPraid' = [toPraid EXCEPT ![d] = Append(toPraid[d], m)]
        BY <3>7 DEF PpdStream
      <4> HIDE DEF m
      <4>3. SocketInv'
        BY <3>2, <3>7, <4>1, <4>2 DEF PpdStream, SocketInv
      <4>4. streaming' \in [Ppd -> 0 .. Sectors \cup {None}]
        BY <3>7, PraidAssumption DEF PpdStream, DiskInv, Sector, PraidAssumption
      <4> QED BY <3>7, <4>3, <4>4 DEF PpdStream, DiskInv
    <3>8. CASE PpdStreamEnd(d)
      <4>1. [kind |-> "syncEnd"] \in KnownPraidMessage
        BY DEF KnownPraidMessage
      <4>2. SocketInv'
        BY <3>2, <3>8, <4>1 DEF PpdStreamEnd, SocketInv
      <4> QED BY <3>8, <4>2 DEF PpdStreamEnd, DiskInv
    <3>9. CASE PpdRead(d)
      <4>1. PICK j \in jobsQueue[d] :
               /\ IsGet(j)
               /\ jobsQueue' = [jobsQueue EXCEPT ![d] = @ \ {j}]
               /\ toPraid' = [toPraid EXCEPT ![d] = Append(@, [kind |-> "answer", job |-> j])]
        BY <3>9 DEF PpdRead
      <4> DEFINE m == [kind |-> "answer", job |-> j]
      <4>2. m \in KnownPraidMessage
        BY <4>1 DEF DiskInv, KnownGet, KnownPraidMessage
      <4>3. toPraid' = [toPraid EXCEPT ![d] = Append(toPraid[d], m)]
        BY <4>1
      <4> HIDE DEF m
      <4>4. SocketInv'
        BY <3>2, <3>9, <4>2, <4>3 DEF PpdRead, SocketInv
      <4> QED BY <3>9, <4>1, <4>4 DEF PpdRead, DiskInv
    <3>10. CASE PpdWrite(d)
      <4>1. PICK j \in jobsQueue[d] :
               /\ jobsQueue' = [jobsQueue EXCEPT ![d] = @ \ {j}]
               /\ volume' = [volume EXCEPT ![d][j.sector] = @ \cup {j}]
        BY <3>10 DEF PpdWrite
      <4>2. j \in Job
        BY <4>1 DEF DiskInv, Known
      <4>3. j.sector \in Sector
        BY <4>2 DEF Job
      <4>4. volume' \in [Ppd -> [Sector -> SUBSET Job]]
        <5>1. volume[d] \in [Sector -> SUBSET Job]
          BY DEF DiskInv
        <5> DEFINE w == [volume[d] EXCEPT ![j.sector] = @ \cup {j}]
        <5>2. w \in [Sector -> SUBSET Job]
          BY <4>2, <4>3, <5>1
        <5>3. volume' = [volume EXCEPT ![d] = w]
          BY <4>1
        <5> HIDE DEF w
        <5> QED BY <5>2, <5>3 DEF DiskInv
      <4>5. jobsQueue' \in [Ppd -> SUBSET Known]
        BY <4>1 DEF DiskInv
      <4> QED BY <3>10, <4>4, <4>5 DEF PpdWrite, SocketInv, DiskInv
    <3>11. CASE PpdCrash(d)
      BY <3>11 DEF PpdCrash, SocketInv, DiskInv
    <3> QED
      BY <1>2, <3>3, <3>4, <3>5, <3>6, <3>7, <3>8, <3>9, <3>10, <3>11
      DEF PpdReceiver, PpdWorker
  <2> QED BY <2>2, <2>3, <2>4
<1> QED BY <1>1, <1>2

\* A thread that runs belongs to a storage the entrypoint is done with.
LEMMA SenderMoves ==
    ASSUME EntryInv, NEW d \in Ppd, NEW pc, senderPc[d] # "off",
           senderPc' = [senderPc EXCEPT ![d] = pc],
           UNCHANGED <<entry, listenerPc, ppd, ppdStorages>>
    PROVE  EntryInv'
<1>1. \A e \in Ppd : senderPc[e] = "off" => senderPc'[e] = "off"
  OBVIOUS
<1> QED BY <1>1 DEF EntryInv

LEMMA ListenerMoves ==
    ASSUME EntryInv, NEW d \in Ppd, NEW pc, listenerPc[d] # "off",
           listenerPc' = [listenerPc EXCEPT ![d] = pc],
           UNCHANGED <<entry, senderPc, ppd>>,
           Len(ppdStorages') <= Len(ppdStorages),
           ppdStorages \in Seq(Ppd), ppdStorages' \in Seq(Ppd)
    PROVE  EntryInv'
<1>1. \A e \in Ppd : listenerPc[e] = "off" => listenerPc'[e] = "off"
  OBVIOUS
<1>2. /\ Len(ppdStorages) \in Nat /\ Len(ppdStorages') \in Nat
      /\ Len(ppdStorages) = 0 => Len(ppdStorages') = 0
      /\ Len(ppdStorages) <= 1 => Len(ppdStorages') <= 1
  OBVIOUS
<1> QED BY <1>1, <1>2 DEF EntryInv

\* The counter wraps around.
LEMMA CounterType ==
    ASSUME NEW k \in Int
    PROVE  Counter(k) \in 0 .. CounterSize - 1
BY DEF Counter, CounterSize

\* A sender is not disturbed by a listener that takes or gives back the lock,
\* or by a queue that grows; nor a listener by a sender.
LEMMA SenderUndisturbed ==
    ASSUME SenderInv, UNCHANGED <<senderVars, issued>>,
           \A e \in Ppd : /\ disconnectionMutex'[e] = "sender" <=> disconnectionMutex[e] = "sender"
                          /\ pendingJobs[e] # <<>> => pendingJobs'[e] # <<>>
    PROVE  SenderInv'
BY KnownUnchanged DEF SenderInv, senderVars

LEMMA ListenerUndisturbed ==
    ASSUME ListenerInv, UNCHANGED <<listenerVars, issued>>,
           \A e \in Ppd : disconnectionMutex'[e] = "listener" <=> disconnectionMutex[e] = "listener"
    PROVE  ListenerInv'
BY KnownUnchanged DEF ListenerInv, ListenerType, ListenerAt, listenerVars, heldVars

\* A sender keeps the invariant.
LEMMA SenderStepInv ==
    ASSUME IInv, praidUp, NEW d \in Ppd, Sender(d), ~CountRace(d)
    PROVE  IInv'
<1> USE DEF IInv, praidVars, storageVars, listVars, queueVars, lockVars, syncVars,
            pfsVars, senderVars, listenerVars, heldVars, outsideVars, socketVars,
            ppdVars, copyVars, historyVars
<1>1. CASE SenderTest(d) \/ SenderWait(d) \/ SenderQuit(d)
  <2>1. EntryInv'
    BY <1>1, SenderMoves DEF SenderTest, SenderWait, SenderQuit
  <2>2. SenderInv'
    BY <1>1, KnownUnchanged DEF SenderTest, SenderWait, SenderQuit, SenderInv
  <2> QED
    BY <1>1, <2>1, <2>2, StorageFrame, PfsFrame, ListenerFrame, SocketFrame, DiskFrame
    DEF SenderTest, SenderWait, SenderQuit, StorageInv
<1>2. CASE SenderSend(d)
  <2> DEFINE j == Head(pendingJobs[d])
             m == [kind |-> "job", job |-> j]
  <2>1. /\ j \in Known
        /\ pendingJobs' \in [Ppd -> Seq(Known)]
        /\ \A e \in Ppd \ {d} : pendingJobs'[e] = pendingJobs[e]
    BY <1>2 DEF SenderSend, StorageInv, SenderInv
  <2> HIDE DEF j
  <2>2. m \in KnownPpdMessage
    BY <2>1 DEF KnownPpdMessage
  <2>3. SendToPpd(d, m) /\ issued' = issued
    BY <1>2 DEF SenderSend, j
  <2> HIDE DEF m
  <2>4. praidUp' \in BOOLEAN /\ toPpd' \in [Ppd -> Seq(KnownPpdMessage')]
    BY <2>2, <2>3, SendType
  <2>5. StorageInv'
    BY <1>2, <2>1, <2>4, KnownUnchanged DEF SenderSend, StorageInv
  <2>6. EntryInv'
    BY <1>2, SenderMoves DEF SenderSend
  <2>7. SenderInv'
    BY <1>2, <2>1, KnownUnchanged, PraidAssumption
    DEF SenderSend, SenderInv, StorageInv, Known, Job, PraidAssumption, j
  <2>8. ListenerInv'
    BY <1>2, ListenerUndisturbed DEF SenderSend, StorageInv
  <2>9. SocketInv'
    BY <1>2, <2>4, KnownUnchanged DEF SenderSend, SocketInv
  <2>10. DiskInv'
    <3>1. Append(sentTo[d], j) \in Seq(Known)
      BY <2>1, AppendProperties DEF DiskInv
    <3>2. sentTo' = [sentTo EXCEPT ![d] = Append(sentTo[d], j)]
      BY <1>2 DEF SenderSend, j
    <3> QED BY <1>2, <3>1, <3>2, KnownUnchanged DEF SenderSend, DiskInv
  <2> QED BY <1>2, <2>5, <2>6, <2>7, <2>8, <2>9, <2>10, PfsFrame DEF SenderSend
<1>3. CASE SenderRecord(d)
  <2>1. sendedJobs' \in [Ppd -> Seq(Known)]
    <3>1. Append(sendedJobs[d], senderJob[d]) \in Seq(Known)
      BY <1>3, AppendProperties DEF SenderRecord, SenderInv, StorageInv
    <3> QED BY <1>3, <3>1 DEF SenderRecord, StorageInv
  <2>2. StorageInv'
    BY <1>3, <2>1, KnownUnchanged DEF SenderRecord, StorageInv
  <2>3. EntryInv'
    BY <1>3, SenderMoves DEF SenderRecord
  <2>4. SenderInv'
    BY <1>3, KnownUnchanged DEF SenderRecord, SenderInv, StorageInv
  <2>5. ListenerInv'
    BY <1>3, ListenerUndisturbed DEF SenderRecord, StorageInv, SenderInv
  <2> QED
    BY <1>3, <2>2, <2>3, <2>4, <2>5, PfsFrame, SocketFrame, DiskFrame DEF SenderRecord
<1>4. CASE SenderCount(d)
  <2>1. pendingResponses' \in [Ppd -> 0 .. CounterSize - 1]
    <3>1. pendingResponses[d] + 1 \in Int
      BY DEF StorageInv
    <3>2. Counter(pendingResponses[d] + 1) \in 0 .. CounterSize - 1
      BY <3>1, CounterType
    <3> QED BY <1>4, <3>2 DEF SenderCount, StorageInv
  <2>2. StorageInv'
    BY <1>4, <2>1, KnownUnchanged DEF SenderCount, SenderCounted, StorageInv
  <2>3. EntryInv'
    BY <1>4, SenderMoves DEF SenderCount, SenderCounted
  <2>4. SenderInv'
    BY <1>4, KnownUnchanged DEF SenderCount, SenderCounted, SenderInv, StorageInv
  <2>5. ListenerInv'
    BY <1>4, ListenerUndisturbed DEF SenderCount, SenderCounted, StorageInv, SenderInv
  <2> QED
    BY <1>4, <2>2, <2>3, <2>4, <2>5, PfsFrame, SocketFrame, DiskFrame
    DEF SenderCount, SenderCounted
<1> QED BY <1>1, <1>2, <1>3, <1>4 DEF Sender

\* What a listener does leaves the other storages alone.
LEMMA ListenerChanges ==
    ASSUME ListenerInv, issued' = issued, NEW d \in Ppd,
           ListenerType', ListenerAt(d)',
           \A e \in Ppd \ {d} : /\ listenerPc'[e] = listenerPc[e]
                                /\ listenerJob'[e] = listenerJob[e]
                                /\ orphans'[e] = orphans[e]
                                /\ candidate'[e] = candidate[e]
                                /\ disconnectionMutex'[e] = disconnectionMutex[e]
    PROVE  ListenerInv'
<1>1. ASSUME NEW e \in Ppd, e # d
      PROVE  ListenerAt(e)'
  BY <1>1, KnownUnchanged DEF ListenerInv, ListenerAt
<1> QED BY <1>1 DEF ListenerInv

\* Taking an answer off the socket of a disk.
LEMMA TakeAnswerType ==
    ASSUME SocketInv, ListenerInv, NEW d \in Ppd, TakeAnswer(d),
           UNCHANGED <<toPpd, inbox, issued>>
    PROVE  /\ SocketInv'
           /\ listenerPc[d] = "recv" /\ listenerPc' = [listenerPc EXCEPT ![d] = "respond"]
           /\ listenerJob' \in [Ppd -> KnownGet \cup {None}]
           /\ listenerJob'[d] \in KnownGet
           /\ \A e \in Ppd \ {d} : listenerJob'[e] = listenerJob[e]
<1>1. /\ toPraid[d] \in Seq(KnownPraidMessage)
      /\ Head(toPraid[d]) \in KnownPraidMessage
      /\ Head(toPraid[d]).kind = "answer"
      /\ Tail(toPraid[d]) \in Seq(KnownPraidMessage)
  BY DEF TakeAnswer, Receives, SocketInv
<1>2. Head(toPraid[d]).job \in KnownGet
  BY <1>1 DEF KnownPraidMessage
<1>3. toPraid' \in [Ppd -> Seq(KnownPraidMessage)]
  BY <1>1 DEF TakeAnswer, SocketInv
<1>4. SocketInv'
  BY <1>3, KnownUnchanged DEF SocketInv
<1> QED BY <1>2, <1>4 DEF TakeAnswer, Receives, ListenerInv, ListenerType, ListenerAt

\* A listener keeps the invariant.
LEMMA ListenerStepInv ==
    ASSUME IInv, praidUp, NEW d \in Ppd, Listener(d) \/ CountRace(d)
    PROVE  IInv'
<1> USE DEF IInv, praidVars, storageVars, listVars, queueVars, lockVars, syncVars,
            pfsVars, senderVars, listenerVars, heldVars, outsideVars, socketVars,
            ppdVars, copyVars, historyVars
<1>0. ppdStorages \in Seq(Ppd) /\ Len(ppdStorages) <= Len(ppdStorages)
  BY DEF StorageInv
<1>1. CASE ListenerAnswer(d)
  <2> issued' = issued /\ TakeAnswer(d)
    BY <1>1 DEF ListenerAnswer
  <2>1. pendingResponses' \in [Ppd -> 0 .. CounterSize - 1]
    <3>1. Counter(pendingResponses[d] - 1) \in 0 .. CounterSize - 1
      <4>1. pendingResponses[d] - 1 \in Int
        BY DEF StorageInv
      <4> QED BY <4>1, CounterType
    <3> QED BY <1>1, <3>1 DEF ListenerAnswer, StorageInv
  <2>2. StorageInv'
    BY <1>1, <2>1, KnownUnchanged DEF ListenerAnswer, StorageInv
  <2>3. EntryInv'
    BY <1>0, <1>1, ListenerMoves, TakeAnswerType DEF ListenerAnswer
  <2>4. ListenerInv'
    <3>1. ListenerType'
      BY <1>1, TakeAnswerType, KnownUnchanged
      DEF ListenerAnswer, TakeAnswer, ListenerInv, ListenerType
    <3>2. ListenerAt(d)'
      BY <1>1, TakeAnswerType, KnownUnchanged
      DEF ListenerAnswer, ListenerInv, ListenerType, ListenerAt
    <3> QED BY <1>1, <3>1, <3>2, TakeAnswerType, ListenerChanges
            DEF ListenerAnswer, TakeAnswer, ListenerInv, ListenerType
  <2>5. SocketInv'
    BY <1>1, TakeAnswerType DEF ListenerAnswer
  <2> QED
    BY <1>1, <2>2, <2>3, <2>4, <2>5, PfsFrame, SenderFrame, DiskFrame DEF ListenerAnswer
<1>2. CASE CountRace(d)
  <2> issued' = issued /\ TakeAnswer(d)
    BY <1>2 DEF CountRace
  <2>1. pendingResponses' \in [Ppd -> 0 .. CounterSize - 1]
    <3>1. \A k \in {1, -1} : Counter(pendingResponses[d] + k) \in 0 .. CounterSize - 1
      <4>1. pendingResponses[d] + 1 \in Int /\ pendingResponses[d] + (-1) \in Int
        BY DEF StorageInv
      <4> QED BY <4>1, CounterType
    <3> QED BY <1>2, <3>1 DEF CountRace, StorageInv
  <2>2. StorageInv'
    BY <1>2, <2>1, KnownUnchanged DEF CountRace, SenderCounted, StorageInv
  <2>3. EntryInv'
    <3>1. /\ \A e \in Ppd : senderPc[e] = "off" => senderPc'[e] = "off"
          /\ \A e \in Ppd : listenerPc[e] = "off" => listenerPc'[e] = "off"
      <4>1. senderPc[d] = "count" /\ senderPc' = [senderPc EXCEPT ![d] = "test"]
        BY <1>2 DEF CountRace, SenderCounted
      <4>2. listenerPc[d] = "recv" /\ listenerPc' = [listenerPc EXCEPT ![d] = "respond"]
        BY <1>2, TakeAnswerType DEF CountRace
      <4> QED BY <4>1, <4>2
    <3> QED BY <1>2, <3>1 DEF CountRace, EntryInv
  <2>4. SenderInv'
    BY <1>2, KnownUnchanged DEF CountRace, SenderCounted, SenderInv, StorageInv
  <2>5. ListenerInv'
    <3>1. ListenerType'
      BY <1>2, TakeAnswerType, KnownUnchanged
      DEF CountRace, TakeAnswer, ListenerInv, ListenerType
    <3>2. ListenerAt(d)'
      <4>1. disconnectionMutex'[d] = "free"
        BY <1>2 DEF CountRace, SenderCounted, StorageInv
      <4>2. listenerPc'[d] = "respond" /\ listenerJob'[d] \in KnownGet
        BY <1>2, TakeAnswerType DEF CountRace, ListenerInv, ListenerType
      <4> QED BY <4>1, <4>2, KnownUnchanged DEF ListenerAt
    <3>3. \A e \in Ppd \ {d} : disconnectionMutex'[e] = disconnectionMutex[e]
      BY <1>2 DEF CountRace, SenderCounted, StorageInv
    <3> QED BY <3>1, <3>2, <3>3, TakeAnswerType, ListenerChanges
            DEF TakeAnswer, ListenerInv, ListenerType
  <2>6. SocketInv'
    BY <1>2, TakeAnswerType DEF CountRace
  <2> QED
    BY <1>2, <2>2, <2>3, <2>4, <2>5, <2>6, PfsFrame, DiskFrame DEF CountRace
<1>3. CASE ListenerRespond(d)
  <2> DEFINE j == listenerJob[d]
  <2>1. j \in KnownGet /\ j.conn \in Pfs
    BY <1>3 DEF ListenerRespond, ListenerInv, ListenerType, ListenerAt, KnownGet, Known, Job
  <2>2. inbox' = [inbox EXCEPT ![j.conn] = Append(inbox[j.conn], j)]
    BY <1>3 DEF ListenerRespond
  <2> HIDE DEF j
  <2>3. SocketInv'
    <3>1. /\ inbox[j.conn] \in Seq(KnownGet)
          /\ Append(inbox[j.conn], j) \in Seq(KnownGet)
          /\ \A i \in DOMAIN Append(inbox[j.conn], j) :
                Append(inbox[j.conn], j)[i].conn = j.conn
      BY <2>1, AppendProperties DEF SocketInv
    <3>2. inbox' \in [Pfs -> Seq(KnownGet)]
      BY <2>1, <2>2, <3>1 DEF SocketInv
    <3>3. \A c \in Pfs : \A i \in DOMAIN inbox'[c] : inbox'[c][i].conn = c
      BY <2>1, <2>2, <3>1 DEF SocketInv
    <3> QED BY <1>3, <3>2, <3>3, KnownUnchanged DEF ListenerRespond, SocketInv
  <2>4. EntryInv'
    BY <1>0, <1>3, ListenerMoves DEF ListenerRespond
  <2>5. ListenerInv'
    BY <1>3, KnownUnchanged DEF ListenerRespond, ListenerInv, ListenerType, ListenerAt
  <2> QED
    BY <1>3, <2>3, <2>4, <2>5, StorageFrame, PfsFrame, SenderFrame, DiskFrame
    DEF ListenerRespond, StorageInv
<1>4. CASE ListenerUnlist(d)
  <2>1. sendedJobs' \in [Ppd -> Seq(Known)]
    <3>1. StrikeOff(sendedJobs[d], listenerJob[d].sector) \in Seq(Known)
      BY StrikeOffType DEF StorageInv
    <3> QED BY <1>4, <3>1 DEF ListenerUnlist, StorageInv
  <2>2. StorageInv'
    BY <1>4, <2>1, KnownUnchanged DEF ListenerUnlist, StorageInv
  <2>3. EntryInv'
    BY <1>0, <1>4, ListenerMoves DEF ListenerUnlist
  <2>4. ListenerInv'
    BY <1>4, KnownUnchanged DEF ListenerUnlist, ListenerInv, ListenerType, ListenerAt
  <2> QED
    BY <1>4, <2>2, <2>3, <2>4, PfsFrame, SenderFrame, SocketFrame, DiskFrame
    DEF ListenerUnlist
<1>5. CASE ListenerSyncPut(d) \/ ListenerSyncEnd(d)
  <2>1. /\ toPraid[d] \in Seq(KnownPraidMessage)
        /\ Head(toPraid[d]) \in KnownPraidMessage
        /\ Tail(toPraid[d]) \in Seq(KnownPraidMessage)
        /\ listenerPc[d] = "recv"
    BY <1>5 DEF ListenerSyncPut, ListenerSyncEnd, Receives, SocketInv
  <2>2. \E m \in KnownPpdMessage : SendToPpd(syncState.destiny, m)
    <3>1. CASE ListenerSyncPut(d)
      BY <2>1, <3>1 DEF ListenerSyncPut, Receives, KnownPraidMessage, KnownPpdMessage
    <3>2. CASE ListenerSyncEnd(d)
      <4>1. [kind |-> "syncEnd"] \in KnownPpdMessage
        BY DEF KnownPpdMessage
      <4> QED BY <3>2, <4>1 DEF ListenerSyncEnd
    <3> QED BY <1>5, <3>1, <3>2
  <2>3. issued' = issued
    BY <1>5 DEF ListenerSyncPut, ListenerSyncEnd, threadVars
  <2>4. praidUp' \in BOOLEAN /\ toPpd' \in [Ppd -> Seq(KnownPpdMessage')]
    BY <2>2, <2>3, SendType
  <2>5. SocketInv'
    BY <1>5, <2>1, <2>3, <2>4, KnownUnchanged DEF ListenerSyncPut, ListenerSyncEnd, SocketInv
  <2>6. EntryInv'
    <3>1. CASE ListenerSyncPut(d)
      BY <3>1, EntryFrame DEF ListenerSyncPut, threadVars
    <3>2. CASE ListenerSyncEnd(d)
      BY <1>0, <2>1, <3>2, ListenerMoves DEF ListenerSyncEnd
    <3> QED BY <1>5, <3>1, <3>2
  <2>7. ListenerInv'
    <3>1. CASE ListenerSyncPut(d)
      BY <2>3, <3>1, ListenerFrame DEF ListenerSyncPut, threadVars
    <3>2. CASE ListenerSyncEnd(d)
      BY <2>1, <2>3, <3>2, KnownUnchanged
      DEF ListenerSyncEnd, ListenerInv, ListenerType, ListenerAt
    <3> QED BY <1>5, <3>1, <3>2
  <2> QED
    BY <1>5, <2>4, <2>5, <2>6, <2>7, StorageFrame, PfsFrame, SenderFrame, DiskFrame
    DEF ListenerSyncPut, ListenerSyncEnd, threadVars
<1>6. CASE ListenerSyncStop(d) \/ ListenerBlank(d)
  <2>1. StorageInv'
    BY <1>6, KnownUnchanged DEF ListenerSyncStop, ListenerBlank, StorageInv
  <2>2. EntryInv'
    BY <1>0, <1>6, ListenerMoves DEF ListenerSyncStop, ListenerBlank
  <2>3. ListenerInv'
    <3>1. ListenerType'
      BY <1>6, KnownUnchanged
      DEF ListenerSyncStop, ListenerBlank, ListenerInv, ListenerType
    <3>2. ListenerAt(d)'
      BY <1>6, KnownUnchanged
      DEF ListenerSyncStop, ListenerBlank, ListenerInv, ListenerType, ListenerAt
    <3> QED BY <1>6, <3>1, <3>2, ListenerChanges
            DEF ListenerSyncStop, ListenerBlank, ListenerInv, ListenerType, StorageInv
  <2> QED
    BY <1>6, <2>1, <2>2, <2>3, PfsFrame, SenderFrame, SocketFrame, DiskFrame
    DEF ListenerSyncStop, ListenerBlank
<1>7. CASE ListenerCollect(d)
  <2>1. StorageInv'
    BY <1>7, KnownUnchanged DEF ListenerCollect, StorageInv
  <2>2. EntryInv'
    BY <1>0, <1>7, ListenerMoves DEF ListenerCollect
  <2>3. SenderInv'
    BY <1>7, KnownUnchanged DEF ListenerCollect, SenderInv, StorageInv
  <2>4. ListenerInv'
    <3>1. pendingJobs[d] \o sendedJobs[d] \in Seq(Known)
      BY ConcatProperties DEF StorageInv
    <3> QED BY <1>7, <3>1, KnownUnchanged DEF ListenerCollect, ListenerInv, ListenerType, ListenerAt, StorageInv
  <2> QED
    BY <1>7, <2>1, <2>2, <2>3, <2>4, PfsFrame, SocketFrame, DiskFrame DEF ListenerCollect
<1>8. CASE ListenerRemove(d)
  <2>1. /\ ppdStorages' \in Seq(Ppd) /\ Len(ppdStorages') <= Len(ppdStorages)
        /\ unlinked' \in [Ppd -> Ppd \cup {None}]
    BY <1>8, UnlinkType, NextStorageType DEF ListenerRemove, StorageInv
  <2>2. StorageInv'
    BY <1>8, <2>1, KnownUnchanged DEF ListenerRemove, StorageInv
  <2>3. EntryInv'
    BY <1>0, <1>8, <2>1, ListenerMoves DEF ListenerRemove
  <2>4. SenderInv'
    BY <1>8, SenderUndisturbed DEF ListenerRemove, ListenerInv, ListenerAt, StorageInv
  <2>5. ListenerInv'
    <3>1. ListenerType'
      BY <1>8, KnownUnchanged
      DEF ListenerRemove, ListenerInv, ListenerType
    <3>2. ListenerAt(d)'
      BY <1>8, KnownUnchanged
      DEF ListenerRemove, ListenerInv, ListenerType, ListenerAt, StorageInv
    <3> QED BY <1>8, <3>1, <3>2, ListenerChanges
            DEF ListenerRemove, ListenerInv, ListenerType, StorageInv
  <2> QED
    BY <1>8, <2>2, <2>3, <2>4, <2>5, PfsFrame, SocketFrame, DiskFrame DEF ListenerRemove
<1>9. CASE ListenerSelect(d)
  <2>1. SelectStorage \in Ppd \cup {None}
    BY SelectStorageType DEF StorageInv
  <2>2. StorageInv'
    BY <1>9, KnownUnchanged DEF ListenerSelect, ListenerFinish, StorageInv
  <2>3. EntryInv'
    BY <1>0, <1>9, ListenerMoves DEF ListenerSelect, ListenerFinish
  <2>4. SenderInv'
    BY <1>9, SenderUndisturbed
    DEF ListenerSelect, ListenerFinish, ListenerInv, ListenerAt, StorageInv
  <2>5. ListenerInv'
    <3>1. ListenerType'
      BY <1>9, <2>1, KnownUnchanged
      DEF ListenerSelect, ListenerFinish, ListenerInv, ListenerType
    <3>2. ListenerAt(d)'
      BY <1>9, <2>1, KnownUnchanged
      DEF ListenerSelect, ListenerFinish, ListenerInv, ListenerType, ListenerAt, StorageInv
    <3> QED BY <1>9, <3>1, <3>2, ListenerChanges
            DEF ListenerSelect, ListenerFinish, ListenerInv, ListenerType, StorageInv
  <2> QED
    BY <1>9, <2>2, <2>3, <2>4, <2>5, PfsFrame, SocketFrame, DiskFrame DEF ListenerSelect
<1>10. CASE ListenerAssign(d)
  <2>1. /\ orphans[d][NextGet(orphans[d])] \in Known
        /\ AfterGet(orphans[d]) \in Seq(Known)
    BY <1>10, NextGetType DEF ListenerAssign, ListenerInv, ListenerType, ListenerAt
  <2>2. /\ pendingJobs' \in [Ppd -> Seq(Known)]
        /\ \A e \in Ppd : pendingJobs[e] # <<>> => pendingJobs'[e] # <<>>
    BY <1>10, <2>1, QueuePutType DEF ListenerAssign, StorageInv
  <2>3. StorageInv'
    BY <1>10, <2>2, KnownUnchanged DEF ListenerAssign, ListenerFinish, StorageInv
  <2>4. EntryInv'
    BY <1>0, <1>10, ListenerMoves DEF ListenerAssign, ListenerFinish
  <2>5. SenderInv'
    BY <1>10, <2>2, SenderUndisturbed
    DEF ListenerAssign, ListenerFinish, ListenerInv, ListenerAt, StorageInv
  <2>6. ListenerInv'
    <3>1. ListenerType'
      BY <1>10, <2>1, KnownUnchanged
      DEF ListenerAssign, ListenerFinish, ListenerInv, ListenerType
    <3>2. ListenerAt(d)'
      BY <1>10, <2>1, KnownUnchanged
      DEF ListenerAssign, ListenerFinish, ListenerInv, ListenerType, ListenerAt, StorageInv
    <3> QED BY <1>10, <3>1, <3>2, ListenerChanges
            DEF ListenerAssign, ListenerFinish, ListenerInv, ListenerType, StorageInv
  <2> QED
    BY <1>10, <2>3, <2>4, <2>5, <2>6, PfsFrame, SocketFrame, DiskFrame DEF ListenerAssign
<1> QED
  BY <1>1, <1>2, <1>3, <1>4, <1>5, <1>6, <1>7, <1>8, <1>9, <1>10 DEF Listener

LEMMA NextInv == IInv /\ [Next]_vars => IInv'
<1> SUFFICES ASSUME IInv, [Next]_vars PROVE IInv'
  OBVIOUS
<1>1. CASE UNCHANGED vars
  BY <1>1, StorageFrame, EntryFrame, SenderFrame, ListenerFrame, SocketFrame, DiskFrame
  DEF vars, IInv, StorageInv, PfsInv, praidVars, storageVars, threadVars, pfsVars,
      senderVars, listenerVars, outsideVars, socketVars, ppdVars, lockVars, queueVars,
      listVars
<1>2. CASE Next
  <2>1. praidUp
    BY <1>2 DEF Next
  <2>2. CASE EntrypointStep
    BY <2>1, <2>2, EntrypointInv
  <2>3. ASSUME NEW c \in Pfs, AcceptPfs(c) \/ PfsReceive(c) \/ PfsThreadStep(c)
        PROVE  IInv'
    BY <2>1, <2>3, PfsThreadInv
  <2>4. ASSUME NEW d \in Ppd, Sender(d) \/ Listener(d)
        PROVE  IInv'
    BY <2>1, <2>4, SenderStepInv, ListenerStepInv
  <2>5. ASSUME NEW d \in Ppd,
               AcceptPpd(d) \/ PpdReceiver(d) \/ PpdWorker(d) \/ PpdCrash(d)
        PROVE  IInv'
    BY <2>1, <2>5, PpdInv
  <2> QED BY <1>2, <2>2, <2>3, <2>4, <2>5 DEF Next
<1> QED BY <1>1, <1>2

\* The invariant holds for ever.
THEOREM Invariant == Spec => []IInv
BY InitInv, NextInv, PTL DEF Spec

-----------------------------------------------------------------------------
(* What the invariant gives.                                               *)

\* Every variable keeps to its type: no counter leaves 16 bits, no thread
\* holds a job that is none, no message is malformed.
THEOREM TypeCorrect == Spec => []TypeOK
<1>1. IInv => TypeOK
  <2> SUFFICES ASSUME IInv PROVE TypeOK
    OBVIOUS
  <2>1. Known \subseteq Job /\ KnownGet \subseteq Job
    BY DEF Known, KnownGet
  <2>2. KnownPpdMessage \subseteq PpdMessage /\ KnownPraidMessage \subseteq PraidMessage
    BY <2>1 DEF KnownPpdMessage, KnownPraidMessage, PpdMessage, PraidMessage
  <2>3. \A q \in Seq(Known) : q \in Seq(Job)
    BY <2>1, SeqMonotonic
  <2>4. \A q \in Seq(KnownGet) : q \in Seq(Job)
    BY <2>1, SeqMonotonic
  <2>5. \A q \in Seq(KnownPpdMessage) : q \in Seq(PpdMessage)
    BY <2>2, SeqMonotonic
  <2>6. \A q \in Seq(KnownPraidMessage) : q \in Seq(PraidMessage)
    BY <2>2, SeqMonotonic
  <2>7. /\ pendingJobs \in [Ppd -> Seq(Job)] /\ sendedJobs \in [Ppd -> Seq(Job)]
        /\ orphans \in [Ppd -> Seq(Job)] /\ sentTo \in [Ppd -> Seq(Job)]
    BY <2>3 DEF IInv, StorageInv, ListenerInv, ListenerType, DiskInv
  <2>8. inbox \in [Pfs -> Seq(Job)]
    BY <2>4 DEF IInv, SocketInv
  <2>9. toPpd \in [Ppd -> Seq(PpdMessage)] /\ toPraid \in [Ppd -> Seq(PraidMessage)]
    BY <2>5, <2>6 DEF IInv, SocketInv
  <2>10. /\ senderJob \in [Ppd -> Job \cup {None}]
         /\ listenerJob \in [Ppd -> Job \cup {None}]
         /\ jobsQueue \in [Ppd -> SUBSET Job]
    BY <2>1 DEF IInv, SenderInv, ListenerInv, ListenerType, DiskInv
  <2> QED
    BY <2>7, <2>8, <2>9, <2>10
    DEF TypeOK, IInv, StorageInv, EntryInv, PfsInv, SenderInv, ListenerInv,
        ListenerType, DiskInv
<1> QED BY <1>1, Invariant, PTL

\* The entrypoint never asks a disk that does not exist for its volume: when
\* it chose no source there is at most the new disk on the list, and then
\* isValidReplication is false.
THEOREM SourceExists == Spec => []MasterExists
<1>1. IInv => MasterExists
  BY DEF IInv, EntryInv, MasterExists
<1> QED BY <1>1, Invariant, PTL

\* disconnectionMutex keeps the sender out while the listener collects the
\* orphans, so no job is on neither queue meanwhile.
THEOREM NoneInHands == Spec => []NoJobInHands
<1>1. IInv => NoJobInHands
  <2> SUFFICES ASSUME IInv, NEW d \in Ppd,
                      listenerPc[d] \in {"remove", "select", "assign"}
               PROVE  senderJob[d] = None
    BY DEF NoJobInHands
  <2>1. disconnectionMutex[d] = "listener"
    BY DEF IInv, ListenerInv, ListenerAt
  <2> QED BY <2>1 DEF IInv, SenderInv
<1> QED BY <1>1, Invariant, PTL

\* Whatever dies and whatever is sent again, a connection is only ever given
\* answers to its own GETs.
THEOREM OwnAnswers == Spec => []AnswersIssued
<1>1. IInv => AnswersIssued
  <2> SUFFICES ASSUME IInv, NEW c \in Pfs, NEW i \in DOMAIN inbox[c]
               PROVE  IsGet(inbox[c][i]) /\ inbox[c][i] \in ToSet(issued[c])
    BY DEF AnswersIssued
  <2> DEFINE j == inbox[c][i]
  <2>1. j \in KnownGet /\ j.conn = c
    BY DEF IInv, SocketInv
  <2> HIDE DEF j
  <2>2. IsGet(j) /\ j.n \in DOMAIN issued[c] /\ issued[c][j.n] = j
    BY <2>1 DEF KnownGet, Known
  <2>3. j \in ToSet(issued[c])
    BY <2>2 DEF ToSet
  <2> QED BY <2>2, <2>3 DEF j
<1> QED BY <1>1, Invariant, PTL

-----------------------------------------------------------------------------
(* The order of the jobs a disk is sent.                                   *)

\* The disks that were there from the start, and their places on the list.
Early == ToSet(InitialPpd)
Place(d) == CHOOSE i \in DOMAIN InitialPpd : InitialPpd[i] = d

\* The list keeps its order, the early disks before all others.
InOrder(list) ==
    \A i, j \in DOMAIN list :
        i < j /\ list[j] \in Early => list[i] \in Early /\ Place(list[i]) < Place(list[j])

\* A disk that is still connected is on the list.  Off it, a pointer leads
\* forward, and past no early disk that is still connected.
ListInv ==
    /\ InOrder(ppdStorages)
    /\ \A d \in Early : connected[d] => Listed(ppdStorages, d)
    /\ \A x \in Ppd : unlinked[x] \in Early => x \in Early /\ Place(x) < Place(unlinked[x])
    /\ \A x, d \in Early :
          ~Listed(ppdStorages, x) /\ connected[d] /\ Place(x) < Place(d) =>
              unlinked[x] \in Early /\ Place(unlinked[x]) <= Place(d)

\* An early disk connects once, and is not served once its listener has
\* found it dead.
EarlyInv ==
    /\ \A d \in Early : ppd[d] # "off"
    /\ entry.pc # "accept" => entry.destiny \notin Early
    /\ \A d \in Early :
          listenerPc[d] \in {"lock", "remove", "select", "assign", "done"} => ~connected[d]

\* A PFS thread serves its last request, and its walk goes forward.
WalkInv ==
    \A c \in Pfs :
        /\ pfsPc[c] \in {"select", "get"} => IsGet(LastRequest(c))
        /\ pfsPc[c] \in {"walk", "put"} => ~IsGet(LastRequest(c))
        /\ pfsPc[c] = "put" /\ pfsNext[c] \in Early =>
              pfsAt[c] \in Early /\ Place(pfsAt[c]) < Place(pfsNext[c])

\* The walk of the PUT in hand has not come to d yet.
Ahead(c, d) ==
    \/ pfsPc[c] \in {"walk", "put"} /\ pfsNext[c] \in Early /\ Place(pfsNext[c]) <= Place(d)
    \/ pfsPc[c] = "put" /\ pfsAt[c] = d

\* The jobs a disk was sent and those that wait.
Trace(d) == sentTo[d] \o pendingJobs[d]

Occurs(j, jobs) == \E i \in DOMAIN jobs : jobs[i] = j

\* The writes of every connection are on the way to every early disk that is
\* connected, but for one whose walk has still to come to it.
JobsInv ==
    \A d \in Early : connected[d] =>
        \A c \in Pfs : \A k \in DOMAIN issued[c] :
            ~IsGet(issued[c][k]) =>
                (Occurs(issued[c][k], Trace(d)) <=> (k < Len(issued[c]) \/ ~Ahead(c, d)))

\* The writes of requests that come before job j are among the jobs.
HasWritesBefore(requests, j, jobs) ==
    \A k \in 1 .. j.n - 1 :
        ~IsGet(requests[j.conn][k]) => Occurs(requests[j.conn][k], jobs)

\* Every job comes after the writes before it, and no write comes twice.
Orderly(requests, jobs) ==
    \A i \in DOMAIN jobs :
        /\ \A k \in 1 .. jobs[i].n - 1 :
              ~IsGet(requests[jobs[i].conn][k])
                => \E h \in 1 .. i - 1 : jobs[h] = requests[jobs[i].conn][k]
        /\ ~IsGet(jobs[i]) => \A h \in 1 .. i - 1 : jobs[h] # jobs[i]

OrderlyInv ==
    \A d \in Early :
        /\ Orderly(issued, sentTo[d])
        /\ connected[d] => Orderly(issued, Trace(d))

OInv == ListInv /\ EarlyInv /\ WalkInv /\ JobsInv /\ OrderlyInv

-----------------------------------------------------------------------------
(* Places, the list and its pointers.                                      *)

\* Early disks have places of their own.
LEMMA PlaceType ==
    ASSUME NEW d \in Early
    PROVE  /\ d \in Ppd
           /\ Place(d) \in 1 .. Len(InitialPpd)
           /\ InitialPpd[Place(d)] = d
<1>1. InitialPpd \in Seq(Ppd)
  BY PraidAssumption DEF PraidAssumption
<1>2. \E i \in DOMAIN InitialPpd : InitialPpd[i] = d
  BY DEF Early, ToSet
<1>3. Place(d) \in DOMAIN InitialPpd /\ InitialPpd[Place(d)] = d
  BY <1>2 DEF Place
<1> QED BY <1>1, <1>3

LEMMA PlaceOfItsOwn ==
    ASSUME NEW d \in Early, NEW e \in Early, Place(d) = Place(e)
    PROVE  d = e
BY PlaceType

LEMMA NoneNotEarly == None \notin Early
BY PlaceType, PraidAssumption DEF PraidAssumption

LEMMA ListedAt ==
    ASSUME NEW list \in Seq(Ppd), NEW d, Listed(list, d)
    PROVE  Position(list, d) \in 1 .. Len(list) /\ list[Position(list, d)] = d
BY DEF Listed, Position

\* A node taken out: those behind it move up.
LEMMA RemoveAtElements ==
    ASSUME NEW S, NEW list \in Seq(S), NEW i \in 1 .. Len(list)
    PROVE  /\ RemoveAt(list, i) \in Seq(S)
           /\ Len(RemoveAt(list, i)) = Len(list) - 1
           /\ \A k \in 1 .. Len(list) - 1 :
                 RemoveAt(list, i)[k] = IF k < i THEN list[k] ELSE list[k + 1]
<1> DEFINE before == SubSeq(list, 1, i - 1)
           after == SubSeq(list, i + 1, Len(list))
<1>1. /\ before \in Seq(S) /\ Len(before) = i - 1
      /\ \A k \in 1 .. i - 1 : before[k] = list[k]
  BY SubSeqProperties
<1>2. /\ after \in Seq(S) /\ Len(after) = Len(list) - i
      /\ \A k \in 1 .. Len(list) - i : after[k] = list[i + k]
  BY SubSeqProperties
<1>3. RemoveAt(list, i) = before \o after
  BY DEF RemoveAt
<1> HIDE DEF before, after
<1>4. /\ before \o after \in Seq(S)
      /\ Len(before \o after) = Len(list) - 1
      /\ \A k \in 1 .. Len(list) - 1 : (before \o after)[k] =
            IF k <= i - 1 THEN before[k] ELSE after[k - (i - 1)]
  <2>1. Len(before) + Len(after) = Len(list) - 1
    BY <1>1, <1>2
  <2>2. /\ before \o after \in Seq(S)
        /\ Len(before \o after) = Len(before) + Len(after)
        /\ \A k \in 1 .. Len(before) + Len(after) : (before \o after)[k] =
              IF k <= Len(before) THEN before[k] ELSE after[k - Len(before)]
    BY <1>1, <1>2, ConcatProperties
  <2> QED BY <1>1, <2>1, <2>2
<1>5. ASSUME NEW k \in 1 .. Len(list) - 1
      PROVE  (before \o after)[k] = IF k < i THEN list[k] ELSE list[k + 1]
  <2>1. CASE k < i
    BY <1>1, <1>4, <2>1
  <2>2. CASE ~(k < i)
    <3>1. k - (i - 1) \in 1 .. Len(list) - i /\ ~(k <= i - 1) /\ i + (k - (i - 1)) = k + 1
      BY <2>2
    <3>2. (before \o after)[k] = after[k - (i - 1)]
      BY <1>4, <3>1
    <3>3. after[k - (i - 1)] = list[i + (k - (i - 1))]
      BY <1>2, <3>1
    <3> QED BY <2>2, <3>1, <3>2, <3>3
  <2> QED BY <2>1, <2>2
<1> QED BY <1>3, <1>4, <1>5

\* Removing a node leaves the others listed, in their order.
LEMMA UnlinkOrder ==
    ASSUME NEW list \in Seq(Ppd), NEW x, InOrder(list)
    PROVE  /\ InOrder(Unlink(list, x))
           /\ \A d \in Ppd : d # x /\ Listed(list, d) => Listed(Unlink(list, x), d)
<1>1. CASE ~Listed(list, x)
  BY <1>1 DEF Unlink
<1>2. CASE Listed(list, x)
  <2> DEFINE i == Position(list, x)
             left == Unlink(list, x)
  <2>1. i \in 1 .. Len(list) /\ list[i] = x
    BY <1>2, ListedAt
  <2>2. left = RemoveAt(list, i)
    BY <1>2 DEF Unlink
  <2> HIDE DEF i, left
  <2>3. /\ left \in Seq(Ppd)
        /\ Len(left) = Len(list) - 1
        /\ \A k \in 1 .. Len(list) - 1 : left[k] = IF k < i THEN list[k] ELSE list[k + 1]
    BY <2>1, <2>2, RemoveAtElements
  <2>4. ASSUME NEW a \in DOMAIN left, NEW b \in DOMAIN left, a < b, left[b] \in Early
        PROVE  left[a] \in Early /\ Place(left[a]) < Place(left[b])
    <3>1. a \in 1 .. Len(list) - 1 /\ b \in 1 .. Len(list) - 1
      BY <2>3
    <3>2. PICK p \in 1 .. Len(list) : p = (IF a < i THEN a ELSE a + 1)
      BY <3>1
    <3>3. PICK q \in 1 .. Len(list) : q = (IF b < i THEN b ELSE b + 1)
      BY <3>1
    <3>4. left[a] = list[p] /\ left[b] = list[q] /\ p < q
      BY <2>1, <2>3, <2>4, <3>1, <3>2, <3>3
    <3> QED BY <2>4, <3>4 DEF InOrder
  <2>5. ASSUME NEW d \in Ppd, d # x, Listed(list, d)
        PROVE  Listed(left, d)
    <3>1. PICK k \in 1 .. Len(list) : list[k] = d
      BY <2>5, ListedAt
    <3>2. k # i
      BY <2>1, <2>5, <3>1
    <3>3. PICK p \in 1 .. Len(list) - 1 : p = (IF k < i THEN k ELSE k - 1)
      BY <2>1, <3>1, <3>2
    <3>4. left[p] = d
      BY <2>1, <2>3, <3>1, <3>2, <3>3
    <3> QED BY <2>3, <3>3, <3>4 DEF Listed
  <2> QED BY <2>4, <2>5 DEF InOrder, left
<1> QED BY <1>1, <1>2

\* The next pointer of a node never leads back ...
LEMMA NextForward ==
    ASSUME ppdStorages \in Seq(Ppd), ListInv, NEW x \in Ppd, NextStorage(x) \in Early
    PROVE  x \in Early /\ Place(x) < Place(NextStorage(x))
<1>1. CASE ~Listed(ppdStorages, x)
  BY <1>1 DEF NextStorage, ListInv
<1>2. CASE Listed(ppdStorages, x)
  <2>1. Position(ppdStorages, x) \in 1 .. Len(ppdStorages)
        /\ ppdStorages[Position(ppdStorages, x)] = x
    BY <1>2, ListedAt
  <2>2. Position(ppdStorages, x) < Len(ppdStorages)
        /\ NextStorage(x) = ppdStorages[Position(ppdStorages, x) + 1]
    BY <1>2, NoneNotEarly DEF NextStorage
  <2> QED BY <2>1, <2>2 DEF ListInv, InOrder
<1> QED BY <1>1, <1>2

\* ... and never past a disk that is served.
LEMMA NextSkipsNone ==
    ASSUME ppdStorages \in Seq(Ppd), ListInv,
           NEW x \in Early, NEW d \in Early, connected[d], Place(x) < Place(d)
    PROVE  NextStorage(x) \in Early /\ Place(NextStorage(x)) <= Place(d)
<1>1. CASE ~Listed(ppdStorages, x)
  BY <1>1 DEF NextStorage, ListInv
<1>2. CASE Listed(ppdStorages, x)
  <2>1. PICK i \in 1 .. Len(ppdStorages) : i = Position(ppdStorages, x) /\ ppdStorages[i] = x
    BY <1>2, ListedAt
  <2>2. PICK k \in 1 .. Len(ppdStorages) : ppdStorages[k] = d
    BY ListedAt DEF ListInv
  <2>3. Place(x) \in Nat /\ Place(d) \in Nat
    BY PlaceType
  <2>4. i < k
    BY <2>1, <2>2, <2>3 DEF ListInv, InOrder
  <2>5. NextStorage(x) = ppdStorages[i + 1]
    BY <1>2, <2>1, <2>2, <2>4 DEF NextStorage
  <2>6. CASE k = i + 1
    BY <2>2, <2>3, <2>5, <2>6
  <2>7. CASE i + 1 < k
    <3>1. ppdStorages[i + 1] \in Early /\ Place(ppdStorages[i + 1]) < Place(d)
      BY <2>1, <2>2, <2>7 DEF ListInv, InOrder
    <3>2. Place(ppdStorages[i + 1]) \in Nat
      BY <3>1, PlaceType
    <3> QED BY <2>3, <2>5, <3>1, <3>2
  <2> QED BY <2>1, <2>2, <2>4, <2>6, <2>7
<1> QED BY <1>1, <1>2

\* A walk that begins has every disk that is served ahead of it.
LEMMA FirstSkipsNone ==
    ASSUME ppdStorages \in Seq(Ppd), ListInv, NEW d \in Early, connected[d]
    PROVE  FirstStorage \in Early /\ Place(FirstStorage) <= Place(d)
<1>1. PICK k \in 1 .. Len(ppdStorages) : ppdStorages[k] = d
  BY ListedAt DEF ListInv
<1>2. FirstStorage = ppdStorages[1]
  BY <1>1 DEF FirstStorage
<1>3. Place(d) \in Nat
  BY PlaceType
<1>4. CASE k = 1
  BY <1>1, <1>2, <1>3, <1>4
<1>5. CASE k > 1
  <2>1. ppdStorages[1] \in Early /\ Place(ppdStorages[1]) < Place(d)
    BY <1>1, <1>5 DEF ListInv, InOrder
  <2>2. Place(ppdStorages[1]) \in Nat
    BY <2>1, PlaceType
  <2> QED BY <1>2, <1>3, <2>1, <2>2
<1> QED BY <1>1, <1>4, <1>5

-----------------------------------------------------------------------------
(* Sequences of jobs.                                                      *)

LEMMA OccursAppend ==
    ASSUME NEW jobs \in Seq(Job), NEW j \in Job, NEW q
    PROVE  Occurs(q, Append(jobs, j)) <=> (Occurs(q, jobs) \/ q = j)
<1> DEFINE longer == Append(jobs, j)
<1>1. /\ longer \in Seq(Job)
      /\ Len(longer) = Len(jobs) + 1 /\ Len(jobs) \in Nat
      /\ \A i \in 1 .. Len(jobs) : longer[i] = jobs[i]
      /\ longer[Len(jobs) + 1] = j
  BY AppendProperties
<1> HIDE DEF longer
<1>2. Occurs(q, longer) => Occurs(q, jobs) \/ q = j
  <2>1. \A i \in 1 .. Len(jobs) + 1 : i \in 1 .. Len(jobs) \/ i = Len(jobs) + 1
    BY <1>1
  <2> QED BY <1>1, <2>1 DEF Occurs
<1>3. Occurs(q, jobs) => Occurs(q, longer)
  <2>1. \A i \in 1 .. Len(jobs) : i \in 1 .. Len(jobs) + 1
    BY <1>1
  <2> QED BY <1>1, <2>1 DEF Occurs
<1>4. q = j => Occurs(q, longer)
  <2>1. Len(jobs) + 1 \in 1 .. Len(jobs) + 1
    BY <1>1
  <2> QED BY <1>1, <2>1 DEF Occurs
<1> QED BY <1>2, <1>3, <1>4 DEF longer

\* A job may be added behind the writes before it, a write only once.
LEMMA OrderlyAppend ==
    ASSUME NEW requests, NEW jobs \in Seq(Job), NEW j \in Job,
           Orderly(requests, jobs),
           HasWritesBefore(requests, j, jobs),
           ~IsGet(j) => ~Occurs(j, jobs)
    PROVE  Orderly(requests, Append(jobs, j))
<1> DEFINE longer == Append(jobs, j)
<1>1. /\ longer \in Seq(Job)
      /\ Len(longer) = Len(jobs) + 1 /\ Len(jobs) \in Nat
      /\ \A i \in 1 .. Len(jobs) : longer[i] = jobs[i]
      /\ longer[Len(jobs) + 1] = j
  BY AppendProperties
<1> SUFFICES Orderly(requests, longer)
  OBVIOUS
<1> HIDE DEF longer
<1> SUFFICES ASSUME NEW i \in 1 .. Len(jobs) + 1
             PROVE  /\ \A k \in 1 .. longer[i].n - 1 :
                         ~IsGet(requests[longer[i].conn][k])
                           => \E h \in 1 .. i - 1 : longer[h] = requests[longer[i].conn][k]
                    /\ ~IsGet(longer[i]) => \A h \in 1 .. i - 1 : longer[h] # longer[i]
  BY <1>1 DEF Orderly
<1>2. CASE i \in 1 .. Len(jobs)
  <2>1. longer[i] = jobs[i] /\ \A h \in 1 .. i - 1 : longer[h] = jobs[h]
    BY <1>1, <1>2
  <2>2. i \in DOMAIN jobs
    BY <1>2
  <2>3. /\ \A k \in 1 .. jobs[i].n - 1 :
              ~IsGet(requests[jobs[i].conn][k])
                => \E h \in 1 .. i - 1 : jobs[h] = requests[jobs[i].conn][k]
        /\ ~IsGet(jobs[i]) => \A h \in 1 .. i - 1 : jobs[h] # jobs[i]
    BY <2>2 DEF Orderly
  <2> QED BY <2>1, <2>3
<1>3. CASE i = Len(jobs) + 1
  <2>1. longer[i] = j /\ \A h \in 1 .. i - 1 : longer[h] = jobs[h]
    BY <1>1, <1>3
  <2>2. 1 .. i - 1 = DOMAIN jobs
    BY <1>3
  <2> QED BY <2>1, <2>2 DEF HasWritesBefore, Occurs
<1> QED BY <1>2, <1>3

\* What has been sent, with the first of the jobs that wait.
LEMMA OrderlyHead ==
    ASSUME NEW requests, NEW s \in Seq(Job), NEW t \in Seq(Job), t # <<>>,
           Orderly(requests, s \o t)
    PROVE  Orderly(requests, Append(s, Head(t)))
<1> DEFINE all == s \o t
           some == Append(s, Head(t))
<1>1. Len(t) \in Nat \ {0} /\ Head(t) \in Job /\ Head(t) = t[1]
  BY EmptySeq, HeadTailProperties
<1>2. /\ all \in Seq(Job) /\ Len(all) = Len(s) + Len(t)
      /\ \A i \in 1 .. Len(s) + Len(t) : all[i] = IF i <= Len(s) THEN s[i] ELSE t[i - Len(s)]
  BY ConcatProperties
<1>3. /\ some \in Seq(Job) /\ Len(some) = Len(s) + 1
      /\ \A i \in 1 .. Len(s) : some[i] = s[i]
      /\ some[Len(s) + 1] = Head(t)
  BY <1>1, AppendProperties
<1> HIDE DEF all, some
<1>4. ASSUME NEW i \in 1 .. Len(s) + 1
      PROVE  some[i] = all[i] /\ i \in DOMAIN all
  <2>1. i \in 1 .. Len(s) + Len(t) /\ Len(s) \in Nat
    BY <1>1
  <2>2. CASE i <= Len(s)
    BY <1>2, <1>3, <2>1, <2>2
  <2>3. CASE i = Len(s) + 1
    <3>1. i - Len(s) = 1 /\ ~(i <= Len(s))
      BY <2>1, <2>3
    <3> QED BY <1>1, <1>2, <1>3, <2>1, <2>3, <3>1
  <2> QED BY <2>1, <2>2, <2>3
<1>5. ASSUME NEW i \in DOMAIN some
      PROVE  /\ \A k \in 1 .. some[i].n - 1 :
                  ~IsGet(requests[some[i].conn][k])
                    => \E h \in 1 .. i - 1 : some[h] = requests[some[i].conn][k]
             /\ ~IsGet(some[i]) => \A h \in 1 .. i - 1 : some[h] # some[i]
  <2>1. i \in 1 .. Len(s) + 1
    BY <1>3
  <2>2. some[i] = all[i] /\ i \in DOMAIN all /\ \A h \in 1 .. i - 1 : some[h] = all[h]
    BY <1>4, <2>1
  <2>3. Orderly(requests, all)
    BY DEF all
  <2> QED BY <2>2, <2>3 DEF Orderly
<1> QED BY <1>5 DEF Orderly, some

\* A job joins those that wait.
LEMMA AppendBehind ==
    ASSUME NEW s \in Seq(Job), NEW t \in Seq(Job), NEW j \in Job
    PROVE  s \o Append(t, j) = Append(s \o t, j)
<1> DEFINE one == <<j>>
<1>1. one \in Seq(Job)
  OBVIOUS
<1>2. Append(t, j) = t \o one /\ Append(s \o t, j) = (s \o t) \o one
  BY AppendIsConcat, ConcatProperties
<1> HIDE DEF one
<1>3. (s \o t) \o one = s \o (t \o one)
  BY <1>1, ConcatAssociative
<1> QED BY <1>2, <1>3

\* The first of the waiting jobs moves over.
LEMMA TraceMoves ==
    ASSUME NEW s \in Seq(Job), NEW t \in Seq(Job), t # <<>>
    PROVE  Append(s, Head(t)) \o Tail(t) = s \o t
<1>1. /\ Len(t) \in Nat \ {0} /\ Head(t) \in Job /\ Head(t) = t[1]
      /\ Tail(t) \in Seq(Job) /\ Len(Tail(t)) = Len(t) - 1
      /\ \A i \in 1 .. Len(Tail(t)) : Tail(t)[i] = t[i + 1]
  BY EmptySeq, HeadTailProperties
<1> DEFINE u == Append(s, Head(t))
           v == Tail(t)
<1>2. /\ u \in Seq(Job) /\ Len(u) = Len(s) + 1
      /\ \A i \in 1 .. Len(s) : u[i] = s[i]
      /\ u[Len(s) + 1] = t[1]
  BY <1>1, AppendProperties
<1>3. /\ v \in Seq(Job) /\ Len(v) = Len(t) - 1
      /\ \A i \in 1 .. Len(v) : v[i] = t[i + 1]
  BY <1>1
<1> HIDE DEF u, v
<1>4. /\ u \o v \in Seq(Job) /\ Len(u \o v) = Len(u) + Len(v)
      /\ \A i \in 1 .. Len(u) + Len(v) : (u \o v)[i] = IF i <= Len(u) THEN u[i] ELSE v[i - Len(u)]
  BY <1>2, <1>3, ConcatProperties
<1>5. /\ s \o t \in Seq(Job) /\ Len(s \o t) = Len(s) + Len(t)
      /\ \A i \in 1 .. Len(s) + Len(t) : (s \o t)[i] = IF i <= Len(s) THEN s[i] ELSE t[i - Len(s)]
  BY ConcatProperties
<1>6. ASSUME NEW i \in 1 .. Len(s) + Len(t)
      PROVE  (u \o v)[i] = (s \o t)[i]
  <2>1. i \in 1 .. Len(u) + Len(v)
    BY <1>1, <1>2, <1>3
  <2>2. CASE i <= Len(s)
    BY <1>2, <1>4, <1>5, <2>1, <2>2
  <2>3. CASE i = Len(s) + 1
    BY <1>2, <1>4, <1>5, <2>1, <2>3
  <2>4. CASE i > Len(s) + 1
    <3>1. i - Len(u) \in 1 .. Len(v) /\ (i - Len(u)) + 1 = i - Len(s) /\ ~(i <= Len(u))
      BY <1>1, <1>2, <1>3, <2>4
    <3>2. (u \o v)[i] = v[i - Len(u)]
      BY <1>4, <2>1, <3>1
    <3>3. v[i - Len(u)] = t[i - Len(s)]
      BY <1>3, <3>1
    <3>4. (s \o t)[i] = t[i - Len(s)]
      <4>1. ~(i <= Len(s))
        BY <2>4
      <4> QED BY <1>5, <4>1
    <3> QED BY <3>2, <3>3, <3>4
  <2>5. Len(s) \in Nat /\ Len(t) \in Nat
    BY LenProperties
  <2>6. i <= Len(s) \/ i = Len(s) + 1 \/ i > Len(s) + 1
    BY <2>5
  <2> QED BY <2>2, <2>3, <2>4, <2>6
<1>7. Len(u \o v) = Len(s \o t)
  BY <1>1, <1>2, <1>3, <1>4, <1>5
<1> QED BY <1>4, <1>5, <1>6, <1>7, SeqEqual DEF u, v

-----------------------------------------------------------------------------
(* The parts of the invariant, left alone by most steps.                   *)

LEMMA ListFrame ==
    ASSUME ListInv, UNCHANGED <<ppdStorages, unlinked>>,
           \A d \in Early : connected'[d] => connected[d]
    PROVE  ListInv'
BY DEF ListInv

LEMMA EarlyFrame ==
    ASSUME EarlyInv, UNCHANGED <<entry, ppd, connected, listenerPc>>
    PROVE  EarlyInv'
BY DEF EarlyInv

LEMMA WalkFrame ==
    ASSUME WalkInv, UNCHANGED pfsVars
    PROVE  WalkInv'
BY DEF WalkInv, pfsVars, LastRequest

\* The jobs in the two queues are jobs.
LEMMA TraceType ==
    ASSUME IInv, NEW d \in Ppd
    PROVE  /\ sentTo[d] \in Seq(Job) /\ pendingJobs[d] \in Seq(Job)
           /\ Trace(d) \in Seq(Job)
           /\ \A i \in DOMAIN sentTo[d] : sentTo[d][i] \in Known
           /\ \A i \in DOMAIN Trace(d) : Trace(d)[i] \in Known
<1>1. sentTo[d] \in Seq(Known) /\ pendingJobs[d] \in Seq(Known)
  BY DEF IInv, StorageInv, DiskInv
<1>2. Trace(d) \in Seq(Known)
  BY <1>1, ConcatProperties DEF Trace
<1>3. \A q \in Seq(Known) : q \in Seq(Job)
  BY SeqMonotonic DEF Known
<1>4. \A q \in Seq(Known) : \A i \in DOMAIN q : q[i] \in Known
  BY ElementOfSeq
<1> QED BY <1>1, <1>2, <1>3, <1>4

\* No PUT's walk comes to a disk or leaves one, and no job is queued.
LEMMA JobsFrame ==
    ASSUME JobsInv, OrderlyInv, UNCHANGED <<issued, sentTo, pendingJobs>>,
           \A d \in Early : connected'[d] => connected[d],
           \A c \in Pfs, d \in Early : connected'[d] => (Ahead(c, d)' <=> Ahead(c, d))
    PROVE  JobsInv' /\ OrderlyInv'
<1>1. \A d \in Ppd : Trace(d)' = Trace(d)
  BY DEF Trace
<1>2. JobsInv'
  <2> SUFFICES ASSUME NEW d \in Early, connected'[d], NEW c \in Pfs,
                      NEW k \in DOMAIN issued[c], ~IsGet(issued[c][k])
               PROVE  Occurs(issued[c][k], Trace(d))
                        <=> (k < Len(issued[c]) \/ ~Ahead(c, d)')
    BY <1>1, PlaceType DEF JobsInv
  <2>1. Occurs(issued[c][k], Trace(d)) <=> (k < Len(issued[c]) \/ ~Ahead(c, d))
    BY DEF JobsInv
  <2> QED BY <2>1
<1>3. OrderlyInv'
  BY <1>1, PlaceType DEF OrderlyInv
<1> QED BY <1>2, <1>3

\* A job that joins the queue of one disk.
LEMMA TraceGrows ==
    ASSUME IInv, NEW x, NEW j \in Job, QueuePut(x, j), sentTo' = sentTo, NEW d \in Ppd
    PROVE  Trace(d)' = IF d = x THEN Append(Trace(d), j) ELSE Trace(d)
<1>1. pendingJobs' = [pendingJobs EXCEPT ![x] = Append(pendingJobs[x], j)]
  BY DEF QueuePut
<1>2. pendingJobs \in [Ppd -> Seq(Known)] /\ sentTo[d] \in Seq(Job) /\ pendingJobs[d] \in Seq(Job)
  BY TraceType DEF IInv, StorageInv
<1>3. CASE d # x
  BY <1>1, <1>2, <1>3 DEF Trace
<1>4. CASE d = x
  <2>1. Trace(d)' = sentTo[d] \o Append(pendingJobs[d], j)
    BY <1>1, <1>2, <1>4 DEF Trace
  <2>2. sentTo[d] \o Append(pendingJobs[d], j) = Append(sentTo[d] \o pendingJobs[d], j)
    BY <1>2, AppendBehind
  <2> QED BY <1>4, <2>1, <2>2 DEF Trace
<1> QED BY <1>3, <1>4

\* A read joins the queue of a disk: its connection issued nothing later.
LEMMA ReadQueued ==
    ASSUME IInv, JobsInv, OrderlyInv, UNCHANGED <<issued, sentTo, connected>>,
           NEW x, NEW j \in KnownGet, QueuePut(x, j),
           \A k \in 1 .. j.n - 1 : k < Len(issued[j.conn]),
           \A c \in Pfs, d \in Early : Ahead(c, d)' <=> Ahead(c, d)
    PROVE  JobsInv' /\ OrderlyInv'
<1>1. /\ j \in Job /\ IsGet(j) /\ j.conn \in Pfs
      /\ \A k \in 1 .. j.n - 1 : k \in DOMAIN issued[j.conn]
  <2>1. j \in Job /\ IsGet(j) /\ j.n \in DOMAIN issued[j.conn]
    BY DEF KnownGet, Known
  <2>2. j.conn \in Pfs /\ j.n \in Nat
    BY <2>1 DEF Job
  <2>3. issued[j.conn] \in Seq(Job)
    BY <2>2 DEF IInv, PfsInv
  <2> QED BY <2>1, <2>2, <2>3
<1>2. \A d \in Ppd : Trace(d)' = IF d = x THEN Append(Trace(d), j) ELSE Trace(d)
  BY <1>1, TraceGrows
<1>3. JobsInv'
  <2> SUFFICES ASSUME NEW d \in Early, connected[d], NEW c \in Pfs,
                      NEW k \in DOMAIN issued[c], ~IsGet(issued[c][k])
               PROVE  Occurs(issued[c][k], Trace(d)')
                        <=> (k < Len(issued[c]) \/ ~Ahead(c, d)')
    BY DEF JobsInv
  <2>1. d \in Ppd /\ Trace(d) \in Seq(Job)
    BY PlaceType, TraceType
  <2>2. issued[c][k] # j
    BY <1>1
  <2>3. Occurs(issued[c][k], Trace(d)') <=> Occurs(issued[c][k], Trace(d))
    <3>1. CASE d = x
      <4>1. Trace(d)' = Append(Trace(d), j)
        BY <1>2, <2>1, <3>1
      <4>2. Occurs(issued[c][k], Append(Trace(d), j)) <=> Occurs(issued[c][k], Trace(d))
        BY <1>1, <2>1, <2>2, OccursAppend
      <4> QED BY <4>1, <4>2
    <3>2. CASE d # x
      BY <1>2, <2>1, <3>2
    <3> QED BY <3>1, <3>2
  <2> QED BY <2>3 DEF JobsInv
<1>4. OrderlyInv'
  <2> SUFFICES ASSUME NEW d \in Early, connected[d]
               PROVE  Orderly(issued, Trace(d)')
    BY DEF OrderlyInv
  <2>1. d \in Ppd /\ Trace(d) \in Seq(Job) /\ Orderly(issued, Trace(d))
    BY PlaceType, TraceType DEF OrderlyInv
  <2>2. HasWritesBefore(issued, j, Trace(d))
    BY <1>1 DEF HasWritesBefore, JobsInv
  <2>3. Orderly(issued, Append(Trace(d), j))
    BY <1>1, <2>1, <2>2, OrderlyAppend
  <2> QED BY <1>2, <2>1, <2>3
<1> QED BY <1>3, <1>4

-----------------------------------------------------------------------------
(* The entrypoint listener.                                                *)

LEMMA EntrypointOrder ==
    ASSUME IInv, OInv, praidUp, EntrypointStep
    PROVE  OInv'
<1> USE DEF OInv, praidVars, storageVars, listVars, queueVars, lockVars, syncVars,
            pfsVars, senderVars, listenerVars, heldVars, outsideVars, socketVars,
            ppdVars, copyVars, historyVars
<1>1. /\ UNCHANGED <<unlinked, connected, pendingJobs, pfsVars, ppd, sentTo>>
      /\ entry.pc # "accept" /\ entry'.destiny = entry.destiny
      /\ \A d \in Ppd \ {entry.destiny} : listenerPc'[d] = listenerPc[d]
  <2>1. CASE SelectMaster \/ AddPpdStorage \/ BeginReplication \/ FireActive
    <3>1. CASE SelectMaster
      BY <3>1 DEF SelectMaster
    <3>2. CASE AddPpdStorage
      BY <3>2 DEF AddPpdStorage, IInv, EntryInv
    <3>3. CASE BeginReplication
      BY <3>3 DEF BeginReplication, IInv, EntryInv
    <3>4. CASE FireActive
      BY <3>4 DEF FireActive, IInv, EntryInv
    <3> QED BY <2>1, <3>1, <3>2, <3>3, <3>4
  <2>2. CASE SkipReplication \/ FireSynchronization
    BY <2>2 DEF SkipReplication, FireSynchronization, LaunchNewSlaveThread, IInv,
       EntryInv, ListenerInv, ListenerType
  <2> QED BY <2>1, <2>2 DEF EntrypointStep
<1>2. WalkInv'
  BY <1>1, WalkFrame
<1>3. JobsInv' /\ OrderlyInv'
  BY <1>1, JobsFrame DEF Ahead
<1>4. EarlyInv'
  BY <1>1, PlaceType DEF EarlyInv
<1>5. ListInv'
  <2>1. CASE AddPpdStorage
    <3> DEFINE d == entry.destiny
               longer == Append(ppdStorages, d)
    <3>1. d \in Ppd /\ d \notin Early /\ ppdStorages \in Seq(Ppd)
      BY <1>1 DEF IInv, StorageInv, EntryInv, EarlyInv
    <3>2. ppdStorages' = longer
      BY <2>1 DEF AddPpdStorage
    <3> HIDE DEF d
    <3>3. /\ longer \in Seq(Ppd) /\ Len(longer) = Len(ppdStorages) + 1
          /\ Len(ppdStorages) \in Nat
          /\ \A i \in 1 .. Len(ppdStorages) : longer[i] = ppdStorages[i]
          /\ longer[Len(ppdStorages) + 1] = d
      BY <3>1, AppendProperties
    <3> HIDE DEF longer
    <3>4. InOrder(longer)
      <4> SUFFICES ASSUME NEW i \in DOMAIN longer, NEW j \in DOMAIN longer,
                          i < j, longer[j] \in Early
                   PROVE  longer[i] \in Early /\ Place(longer[i]) < Place(longer[j])
        BY DEF InOrder
      <4>1. j # Len(ppdStorages) + 1
        BY <3>1, <3>3
      <4>2. i \in 1 .. Len(ppdStorages) /\ j \in 1 .. Len(ppdStorages)
        BY <3>3, <4>1
      <4>3. longer[i] = ppdStorages[i] /\ longer[j] = ppdStorages[j]
        BY <3>3, <4>2
      <4> QED BY <4>2, <4>3 DEF ListInv, InOrder
    <3>5. ASSUME NEW e, Listed(ppdStorages, e)
          PROVE  Listed(longer, e)
      <4>1. PICK i \in 1 .. Len(ppdStorages) : ppdStorages[i] = e
        BY <3>1, <3>5, ListedAt
      <4>2. i \in DOMAIN longer /\ longer[i] = e
        BY <3>3, <4>1
      <4> QED BY <4>2 DEF Listed
    <3> QED BY <1>1, <3>2, <3>4, <3>5 DEF ListInv
  <2>2. CASE ~AddPpdStorage
    <3>1. ppdStorages' = ppdStorages
      BY <2>2 DEF EntrypointStep, SelectMaster, SkipReplication, BeginReplication,
         FireActive, FireSynchronization
    <3> QED BY <1>1, <3>1, ListFrame
  <2> QED BY <2>1, <2>2
<1> QED BY <1>2, <1>3, <1>4, <1>5

-----------------------------------------------------------------------------
(* A PFS thread.                                                           *)

\* A request that comes in is the last of its connection, and known to nobody.
LEMMA NewRequest ==
    ASSUME IInv, NEW c \in Pfs, PfsReceive(c)
    PROVE  \E j \in Job :
              /\ j.conn = c /\ j.n = Len(issued[c]) + 1 /\ j \notin Known
              /\ issued' = [issued EXCEPT ![c] = Append(issued[c], j)]
              /\ pfsPc' = [pfsPc EXCEPT ![c] = IF IsGet(j) THEN "select" ELSE "walk"]
              /\ ~IsGet(j) => pfsNext' = [pfsNext EXCEPT ![c] = FirstStorage]
<1>1. PICK r \in Requests :
         /\ issued' = [issued EXCEPT ![c] = Append(@,
               [conn |-> c, n |-> Len(@) + 1, op |-> r.op, sector |-> r.sector])]
         /\ pfsPc' = [pfsPc EXCEPT ![c] = IF r.op = "get" THEN "select" ELSE "walk"]
         /\ pfsNext' = [pfsNext EXCEPT ![c] = IF r.op = "get" THEN None ELSE FirstStorage]
  BY DEF PfsReceive
<1> DEFINE j == [conn |-> c, n |-> Len(issued[c]) + 1, op |-> r.op, sector |-> r.sector]
<1>2. issued[c] \in Seq(Job)
  BY DEF IInv, PfsInv
<1>3. j \in Job
  <2>1. r.op \in {"get", "put"} /\ r.sector \in Sector
    BY PraidAssumption DEF PraidAssumption
  <2>2. Len(issued[c]) + 1 \in Nat \ {0}
    BY <1>2
  <2> QED BY <2>1, <2>2 DEF Job
<1>4. j.conn = c /\ j.n = Len(issued[c]) + 1 /\ (IsGet(j) <=> r.op = "get")
  BY DEF IsGet
<1>5. issued' = [issued EXCEPT ![c] = Append(issued[c], j)]
  BY <1>1
<1> HIDE DEF j
<1>6. j \notin Known
  <2>1. j.n \notin DOMAIN issued[c]
    BY <1>2, <1>4
  <2> QED BY <1>4, <2>1 DEF Known
<1> QED BY <1>1, <1>3, <1>4, <1>5, <1>6

\* What was orderly is so under one more request.
LEMMA OrderlyGrows ==
    ASSUME IInv, NEW c \in Pfs, NEW j \in Job,
           issued' = [issued EXCEPT ![c] = Append(issued[c], j)],
           NEW jobs, \A i \in DOMAIN jobs : jobs[i] \in Known,
           Orderly(issued, jobs)
    PROVE  Orderly(issued', jobs)
<1>1. ASSUME NEW i \in DOMAIN jobs, NEW k \in 1 .. jobs[i].n - 1
      PROVE  issued'[jobs[i].conn][k] = issued[jobs[i].conn][k]
  <2> DEFINE x == jobs[i].conn
  <2>1. /\ jobs[i] \in Job /\ jobs[i].n \in DOMAIN issued[x]
    BY DEF Known
  <2>2. x \in Pfs /\ jobs[i].n \in Nat
    BY <2>1 DEF Job
  <2> HIDE DEF x
  <2>3. issued[x] \in Seq(Job) /\ issued \in [Pfs -> Seq(Job)]
    BY <2>2 DEF IInv, PfsInv
  <2>4. k \in 1 .. Len(issued[x])
    BY <2>1, <2>2, <2>3
  <2>5. CASE x # c
    BY <2>2, <2>3, <2>5 DEF x
  <2>6. CASE x = c
    <3>1. issued'[x] = Append(issued[x], j)
      BY <2>2, <2>3, <2>6
    <3>2. Append(issued[x], j)[k] = issued[x][k]
      BY <2>3, <2>4, AppendProperties
    <3> QED BY <3>1, <3>2 DEF x
  <2> QED BY <2>5, <2>6
<1>2. ASSUME NEW i \in DOMAIN jobs
      PROVE  /\ \A k \in 1 .. jobs[i].n - 1 :
                   ~IsGet(issued'[jobs[i].conn][k])
                     => \E h \in 1 .. i - 1 : jobs[h] = issued'[jobs[i].conn][k]
             /\ ~IsGet(jobs[i]) => \A h \in 1 .. i - 1 : jobs[h] # jobs[i]
  <2>1. /\ \A k \in 1 .. jobs[i].n - 1 :
              ~IsGet(issued[jobs[i].conn][k])
                => \E h \in 1 .. i - 1 : jobs[h] = issued[jobs[i].conn][k]
        /\ ~IsGet(jobs[i]) => \A h \in 1 .. i - 1 : jobs[h] # jobs[i]
    BY DEF Orderly
  <2> QED BY <1>1, <2>1
<1> QED BY <1>2 DEF Orderly

\* A new PUT is ahead of every disk that is served, and all before it have
\* come to every one.
LEMMA ReceiveOrder ==
    ASSUME IInv, OInv, NEW c \in Pfs, PfsReceive(c)
    PROVE  WalkInv' /\ JobsInv' /\ OrderlyInv'
<1> USE DEF OInv
<1>1. PICK j \in Job :
         /\ j.conn = c /\ j.n = Len(issued[c]) + 1 /\ j \notin Known
         /\ issued' = [issued EXCEPT ![c] = Append(issued[c], j)]
         /\ pfsPc' = [pfsPc EXCEPT ![c] = IF IsGet(j) THEN "select" ELSE "walk"]
         /\ ~IsGet(j) => pfsNext' = [pfsNext EXCEPT ![c] = FirstStorage]
  BY NewRequest
<1>2. /\ issued \in [Pfs -> Seq(Job)]
      /\ pfsPc \in [Pfs -> {"off", "denied", "recv", "select", "get", "walk", "put", "done"}]
      /\ pfsNext \in [Pfs -> Ppd \cup {None}]
      /\ ppdStorages \in Seq(Ppd)
  BY DEF IInv, PfsInv, StorageInv
<1>3. /\ pfsPc[c] = "recv" /\ UNCHANGED <<pfsAt, connected, sentTo, pendingJobs>>
      /\ \A x \in Pfs \ {c} : pfsNext'[x] = pfsNext[x]
  BY <1>2 DEF PfsReceive, praidVars, storageVars, queueVars, historyVars
<1> DEFINE longer == Append(issued[c], j)
<1>4. /\ longer \in Seq(Job) /\ Len(longer) = Len(issued[c]) + 1 /\ Len(issued[c]) \in Nat
      /\ \A k \in 1 .. Len(issued[c]) : longer[k] = issued[c][k]
      /\ longer[Len(issued[c]) + 1] = j
  BY <1>2, AppendProperties
<1>5. issued'[c] = longer /\ \A x \in Pfs \ {c} : issued'[x] = issued[x]
  BY <1>1, <1>2
<1> HIDE DEF longer
<1>6. /\ \A x \in Pfs \ {c} : pfsPc'[x] = pfsPc[x]
      /\ pfsPc'[c] = IF IsGet(j) THEN "select" ELSE "walk"
      /\ ~IsGet(j) => pfsNext'[c] = FirstStorage
  BY <1>1, <1>2
<1>7. WalkInv'
  <2> SUFFICES ASSUME NEW x \in Pfs
               PROVE  /\ pfsPc'[x] \in {"select", "get"} => IsGet(issued'[x][Len(issued'[x])])
                      /\ pfsPc'[x] \in {"walk", "put"} => ~IsGet(issued'[x][Len(issued'[x])])
                      /\ pfsPc'[x] = "put" /\ pfsNext'[x] \in Early =>
                            pfsAt'[x] \in Early /\ Place(pfsAt'[x]) < Place(pfsNext'[x])
    BY DEF WalkInv, LastRequest
  <2>1. CASE x = c
    <3>1. issued'[c][Len(issued'[c])] = j
      BY <1>4, <1>5
    <3> QED BY <1>6, <2>1, <3>1
  <2>2. CASE x # c
    <3>1. /\ issued'[x] = issued[x] /\ pfsPc'[x] = pfsPc[x] /\ pfsNext'[x] = pfsNext[x]
          /\ pfsAt'[x] = pfsAt[x]
      BY <1>3, <1>5, <1>6, <2>2
    <3> QED BY <3>1 DEF WalkInv, LastRequest
  <2> QED BY <2>1, <2>2
<1>8. \A d \in Ppd : Trace(d)' = Trace(d)
  BY <1>3 DEF Trace
<1>9. JobsInv'
  <2> SUFFICES ASSUME NEW d \in Early, connected[d], NEW x \in Pfs,
                      NEW k \in DOMAIN issued'[x], ~IsGet(issued'[x][k])
               PROVE  Occurs(issued'[x][k], Trace(d))
                        <=> (k < Len(issued'[x]) \/ ~Ahead(x, d)')
    BY <1>3, <1>8, PlaceType DEF JobsInv
  <2>1. CASE x # c
    <3>1. issued'[x] = issued[x]
      BY <1>5, <2>1
    <3>2. Ahead(x, d)' <=> Ahead(x, d)
      BY <1>3, <1>6, <2>1 DEF Ahead
    <3> QED BY <3>1, <3>2 DEF JobsInv
  <2>2. CASE x = c /\ k \in 1 .. Len(issued[c])
    <3>1. issued'[x][k] = issued[c][k] /\ k < Len(issued'[x]) /\ k \in DOMAIN issued[c]
      BY <1>2, <1>4, <1>5, <2>2
    <3>2. ~Ahead(c, d)
      BY <1>3 DEF Ahead
    <3> QED BY <3>1, <3>2 DEF JobsInv
  <2>3. CASE x = c /\ k = Len(issued[c]) + 1
    <3>1. issued'[x][k] = j /\ ~(k < Len(issued'[x])) /\ ~IsGet(j)
      BY <1>4, <1>5, <2>3
    <3>2. ~Occurs(j, Trace(d))
      BY <1>1, PlaceType, TraceType DEF Occurs
    <3>3. Ahead(c, d)'
      BY <1>2, <1>6, <3>1, FirstSkipsNone DEF Ahead
    <3> QED BY <2>3, <3>1, <3>2, <3>3
  <2>4. k \in 1 .. Len(issued[c]) \/ k = Len(issued[c]) + 1 \/ x # c
    BY <1>4, <1>5
  <2> QED BY <2>1, <2>2, <2>3, <2>4
<1>10. OrderlyInv'
  <2> SUFFICES ASSUME NEW d \in Early
               PROVE  /\ Orderly(issued', sentTo[d])
                      /\ connected[d] => Orderly(issued', Trace(d))
    BY <1>3, <1>8, PlaceType DEF OrderlyInv
  <2>1. /\ \A i \in DOMAIN sentTo[d] : sentTo[d][i] \in Known
        /\ \A i \in DOMAIN Trace(d) : Trace(d)[i] \in Known
    BY PlaceType, TraceType
  <2> QED BY <1>1, <2>1, OrderlyGrows DEF OrderlyInv
<1> QED BY <1>7, <1>9, <1>10

\* The walk goes on: the disk it comes to is the next that is served, if any.
LEMMA NextOrder ==
    ASSUME IInv, OInv, NEW c \in Pfs, PutNext(c)
    PROVE  WalkInv' /\ JobsInv' /\ OrderlyInv'
<1> USE DEF OInv
<1> DEFINE x == pfsNext[c]
<1>1. /\ pfsPc[c] = "walk" /\ x # None
      /\ UNCHANGED <<issued, connected, sentTo, pendingJobs>>
      /\ pfsPc' = [pfsPc EXCEPT ![c] = "put"]
      /\ pfsAt' = [pfsAt EXCEPT ![c] = x]
      /\ pfsNext' = [pfsNext EXCEPT ![c] = NextStorage(x)]
  BY DEF PutNext, praidVars, storageVars, queueVars, historyVars
<1>2. /\ pfsPc \in [Pfs -> {"off", "denied", "recv", "select", "get", "walk", "put", "done"}]
      /\ pfsNext \in [Pfs -> Ppd \cup {None}] /\ pfsAt \in [Pfs -> Ppd \cup {None}]
      /\ ppdStorages \in Seq(Ppd)
  BY DEF IInv, PfsInv, StorageInv
<1>3. x \in Ppd
  BY <1>1, <1>2
<1> HIDE DEF x
<1>4. /\ pfsPc'[c] = "put" /\ pfsAt'[c] = x /\ pfsNext'[c] = NextStorage(x)
      /\ \A e \in Pfs \ {c} : /\ pfsPc'[e] = pfsPc[e] /\ pfsAt'[e] = pfsAt[e]
                              /\ pfsNext'[e] = pfsNext[e]
  BY <1>1, <1>2
<1>5. NextStorage(x) \in Early => x \in Early /\ Place(x) < Place(NextStorage(x))
  BY <1>2, <1>3, NextForward
<1>6. WalkInv'
  <2> SUFFICES ASSUME NEW e \in Pfs
               PROVE  /\ pfsPc'[e] \in {"select", "get"} => IsGet(LastRequest(e))
                      /\ pfsPc'[e] \in {"walk", "put"} => ~IsGet(LastRequest(e))
                      /\ pfsPc'[e] = "put" /\ pfsNext'[e] \in Early =>
                            pfsAt'[e] \in Early /\ Place(pfsAt'[e]) < Place(pfsNext'[e])
    BY <1>1 DEF WalkInv, LastRequest
  <2>1. CASE e = c
    BY <1>1, <1>4, <1>5, <2>1 DEF WalkInv
  <2>2. CASE e # c
    BY <1>4, <2>2 DEF WalkInv
  <2> QED BY <2>1, <2>2
<1>7. ASSUME NEW d \in Early, connected[d]
      PROVE  Ahead(c, d)' <=> Ahead(c, d)
  <2>1. Ahead(c, d) <=> x \in Early /\ Place(x) <= Place(d)
    BY <1>1 DEF Ahead, x
  <2>2. Ahead(c, d)' <=> (NextStorage(x) \in Early /\ Place(NextStorage(x)) <= Place(d)) \/ x = d
    BY <1>4 DEF Ahead
  <2>3. Place(d) \in Nat
    BY PlaceType
  <2>4. CASE x = d
    BY <2>1, <2>2, <2>3, <2>4
  <2>5. CASE x # d
    <3>1. ASSUME x \in Early, Place(x) <= Place(d)
          PROVE  NextStorage(x) \in Early /\ Place(NextStorage(x)) <= Place(d)
      <4>1. Place(x) \in Nat /\ Place(x) # Place(d)
        BY <2>5, <3>1, PlaceType, PlaceOfItsOwn
      <4>2. Place(x) < Place(d)
        BY <2>3, <3>1, <4>1
      <4> QED BY <1>2, <1>7, <3>1, <4>2, NextSkipsNone
    <3>2. ASSUME NextStorage(x) \in Early, Place(NextStorage(x)) <= Place(d)
          PROVE  x \in Early /\ Place(x) <= Place(d)
      <4>1. Place(x) \in Nat /\ Place(NextStorage(x)) \in Nat
        BY <1>5, <3>2, PlaceType
      <4> QED BY <1>5, <2>3, <3>2, <4>1
    <3> QED BY <2>1, <2>2, <2>5, <3>1, <3>2
  <2> QED BY <2>4, <2>5
<1>8. \A e \in Pfs \ {c}, d \in Early : Ahead(e, d)' <=> Ahead(e, d)
  BY <1>4 DEF Ahead
<1>9. JobsInv' /\ OrderlyInv'
  BY <1>1, <1>7, <1>8, JobsFrame
<1> QED BY <1>6, <1>9

\* The job is queued on the disk the walk stands at, which had it not; those
\* after it are still ahead.
LEMMA QueueOrder ==
    ASSUME IInv, OInv, NEW c \in Pfs, PutQueue(c)
    PROVE  WalkInv' /\ JobsInv' /\ OrderlyInv'
<1> USE DEF OInv
<1> DEFINE x == pfsAt[c]
           j == LastRequest(c)
<1>1. /\ pfsPc[c] = "put" /\ QueuePut(x, j)
      /\ UNCHANGED <<issued, connected, sentTo, pfsNext>>
      /\ pfsPc' = [pfsPc EXCEPT ![c] = "walk"]
      /\ pfsAt' = [pfsAt EXCEPT ![c] = None]
  BY DEF PutQueue, historyVars
<1>2. /\ pfsPc \in [Pfs -> {"off", "denied", "recv", "select", "get", "walk", "put", "done"}]
      /\ pfsAt \in [Pfs -> Ppd \cup {None}]
      /\ issued \in [Pfs -> Seq(Job)] /\ issued[c] # <<>>
  BY <1>1 DEF IInv, PfsInv
<1>3. /\ Len(issued[c]) \in DOMAIN issued[c] /\ j = issued[c][Len(issued[c])]
      /\ j \in Job /\ ~IsGet(j) /\ j.conn = c /\ j.n = Len(issued[c])
  BY <1>1, <1>2, EmptySeq DEF IInv, PfsInv, LastRequest, WalkInv
<1> HIDE DEF x, j
<1>4. /\ pfsPc'[c] = "walk" /\ pfsAt'[c] = None
      /\ \A e \in Pfs \ {c} : pfsPc'[e] = pfsPc[e] /\ pfsAt'[e] = pfsAt[e]
  BY <1>1, <1>2
<1>5. WalkInv'
  <2> SUFFICES ASSUME NEW e \in Pfs
               PROVE  /\ pfsPc'[e] \in {"select", "get"} => IsGet(LastRequest(e))
                      /\ pfsPc'[e] \in {"walk", "put"} => ~IsGet(LastRequest(e))
                      /\ pfsPc'[e] = "put" /\ pfsNext[e] \in Early =>
                            pfsAt'[e] \in Early /\ Place(pfsAt'[e]) < Place(pfsNext[e])
    BY <1>1 DEF WalkInv, LastRequest
  <2>1. CASE e = c
    BY <1>1, <1>4, <2>1 DEF WalkInv
  <2>2. CASE e # c
    BY <1>4, <2>2 DEF WalkInv
  <2> QED BY <2>1, <2>2
<1>6. \A d \in Ppd : Trace(d)' = IF d = x THEN Append(Trace(d), j) ELSE Trace(d)
  BY <1>1, <1>3, TraceGrows
<1>7. \A e \in Pfs \ {c}, d \in Early : Ahead(e, d)' <=> Ahead(e, d)
  BY <1>1, <1>4 DEF Ahead
<1>8. ASSUME NEW d \in Early, d # x
      PROVE  Ahead(c, d)' <=> Ahead(c, d)
  BY <1>1, <1>4, <1>8, NoneNotEarly DEF Ahead, x
<1>9. ASSUME NEW d \in Early, d = x
      PROVE  Ahead(c, d) /\ ~Ahead(c, d)'
  <2>1. Ahead(c, d)
    BY <1>1, <1>9 DEF Ahead, x
  <2>2. pfsNext[c] \in Early => Place(pfsAt[c]) < Place(pfsNext[c])
    BY <1>1 DEF WalkInv
  <2>3. pfsNext[c] \in Early => Place(d) \in Nat /\ Place(pfsNext[c]) \in Nat
    BY PlaceType
  <2>4. ~(pfsNext[c] \in Early /\ Place(pfsNext[c]) <= Place(d))
    BY <1>9, <2>2, <2>3 DEF x
  <2> QED BY <1>1, <1>4, <2>1, <2>4, NoneNotEarly DEF Ahead
<1>10. JobsInv'
  <2> SUFFICES ASSUME NEW d \in Early, connected[d], NEW e \in Pfs,
                      NEW k \in DOMAIN issued[e], ~IsGet(issued[e][k])
               PROVE  Occurs(issued[e][k], Trace(d)')
                        <=> (k < Len(issued[e]) \/ ~Ahead(e, d)')
    BY <1>1 DEF JobsInv
  <2>1. d \in Ppd /\ Trace(d) \in Seq(Job)
    BY PlaceType, TraceType
  <2>2. Occurs(issued[e][k], Trace(d)) <=> (k < Len(issued[e]) \/ ~Ahead(e, d))
    BY DEF JobsInv
  <2>3. CASE d # x
    <3>1. Ahead(e, d)' <=> Ahead(e, d)
      BY <1>7, <1>8, <2>3
    <3> QED BY <1>6, <2>1, <2>2, <2>3, <3>1
  <2>4. CASE d = x
    <3>1. Occurs(issued[e][k], Trace(d)') <=> Occurs(issued[e][k], Trace(d)) \/ issued[e][k] = j
      <4>1. Trace(d)' = Append(Trace(d), j)
        BY <1>6, <2>1, <2>4
      <4>2. Occurs(issued[e][k], Append(Trace(d), j))
              <=> Occurs(issued[e][k], Trace(d)) \/ issued[e][k] = j
        BY <1>3, <2>1, OccursAppend
      <4> QED BY <4>1, <4>2
    <3>2. CASE e # c
      <4>1. issued[e][k] # j
        BY <1>3, <3>2 DEF IInv, PfsInv
      <4>2. Ahead(e, d)' <=> Ahead(e, d)
        BY <1>7, <3>2
      <4> QED BY <2>2, <3>1, <4>1, <4>2
    <3>3. CASE e = c /\ k = Len(issued[c])
      <4>1. issued[e][k] = j /\ ~Ahead(e, d)'
        BY <1>3, <1>9, <2>4, <3>3
      <4> QED BY <3>1, <4>1
    <3>4. CASE e = c /\ k # Len(issued[c])
      <4>1. k < Len(issued[e])
        BY <1>2, <3>4
      <4> QED BY <2>2, <3>1, <4>1
    <3> QED BY <3>2, <3>3, <3>4
  <2> QED BY <2>3, <2>4
<1>11. OrderlyInv'
  <2> SUFFICES ASSUME NEW d \in Early, connected[d]
               PROVE  Orderly(issued, Trace(d)')
    BY <1>1 DEF OrderlyInv
  <2>1. d \in Ppd /\ Trace(d) \in Seq(Job) /\ Orderly(issued, Trace(d))
    BY PlaceType, TraceType DEF OrderlyInv
  <2>2. CASE d # x
    BY <1>6, <2>1, <2>2
  <2>3. CASE d = x
    <3>1. HasWritesBefore(issued, j, Trace(d))
      <4> SUFFICES ASSUME NEW k \in 1 .. Len(issued[c]) - 1, ~IsGet(issued[c][k])
                   PROVE  Occurs(issued[c][k], Trace(d))
        BY <1>3 DEF HasWritesBefore
      <4>1. k \in DOMAIN issued[c] /\ k < Len(issued[c])
        BY <1>2
      <4> QED BY <4>1 DEF JobsInv
    <3>2. ~Occurs(j, Trace(d))
      <4>1. Ahead(c, d) /\ ~(Len(issued[c]) < Len(issued[c]))
        BY <1>2, <1>9, <2>3
      <4> QED BY <1>3, <4>1 DEF JobsInv
    <3>3. Orderly(issued, Append(Trace(d), j))
      BY <1>3, <2>1, <3>1, <3>2, OrderlyAppend
    <3> QED BY <1>6, <2>1, <2>3, <3>3
  <2> QED BY <2>2, <2>3
<1> QED BY <1>5, <1>10, <1>11

\* The steps of a PFS thread that queue nothing, or a read.
LEMMA OtherOrder ==
    ASSUME IInv, OInv, praidUp, NEW c \in Pfs,
           AcceptPfs(c) \/ SelectForGet(c) \/ QueueGet(c) \/ PutDone(c)
    PROVE  WalkInv' /\ JobsInv' /\ OrderlyInv'
<1> USE DEF OInv, praidVars, storageVars, queueVars, historyVars
<1>1. /\ pfsPc \in [Pfs -> {"off", "denied", "recv", "select", "get", "walk", "put", "done"}]
      /\ pfsAt \in [Pfs -> Ppd \cup {None}]
  BY DEF IInv, PfsInv
<1>2. /\ UNCHANGED <<issued, connected, sentTo, pfsNext>>
      /\ \A e \in Pfs \ {c} : pfsPc'[e] = pfsPc[e] /\ pfsAt'[e] = pfsAt[e]
  BY <1>1 DEF AcceptPfs, SelectForGet, QueueGet, PutDone
<1>3. /\ pfsPc'[c] \in {"select", "get"} => pfsPc[c] \in {"select", "get"}
      /\ pfsPc'[c] \notin {"walk", "put"}
  BY <1>1 DEF AcceptPfs, SelectForGet, QueueGet, PutDone, AfterRequest
<1>4. WalkInv'
  <2> SUFFICES ASSUME NEW e \in Pfs
               PROVE  /\ pfsPc'[e] \in {"select", "get"} => IsGet(LastRequest(e))
                      /\ pfsPc'[e] \in {"walk", "put"} => ~IsGet(LastRequest(e))
                      /\ pfsPc'[e] = "put" /\ pfsNext[e] \in Early =>
                            pfsAt'[e] \in Early /\ Place(pfsAt'[e]) < Place(pfsNext[e])
    BY <1>2 DEF WalkInv, LastRequest
  <2>1. CASE e = c
    BY <1>3, <2>1 DEF WalkInv
  <2>2. CASE e # c
    BY <1>2, <2>2 DEF WalkInv
  <2> QED BY <2>1, <2>2
<1>5. ASSUME NEW d \in Early
      PROVE  ~Ahead(c, d) /\ ~Ahead(c, d)'
  <2>1. ~Ahead(c, d)'
    BY <1>3 DEF Ahead
  <2>2. ~Ahead(c, d)
    BY NoneNotEarly DEF Ahead, AcceptPfs, SelectForGet, QueueGet, PutDone
  <2> QED BY <2>1, <2>2
<1>6. \A e \in Pfs, d \in Early : Ahead(e, d)' <=> Ahead(e, d)
  <2>1. \A e \in Pfs \ {c}, d \in Early : Ahead(e, d)' <=> Ahead(e, d)
    BY <1>2 DEF Ahead
  <2> QED BY <1>5, <2>1
<1>7. CASE ~QueueGet(c)
  <2>1. pendingJobs' = pendingJobs
    BY <1>7 DEF AcceptPfs, SelectForGet, PutDone
  <2> QED BY <1>2, <1>4, <1>6, <2>1, JobsFrame
<1>8. CASE QueueGet(c)
  <2> DEFINE j == LastRequest(c)
             x == pfsAt[c]
  <2>1. pfsPc[c] = "get" /\ QueuePut(x, j) /\ issued[c] # <<>>
    BY <1>8 DEF QueueGet, IInv, PfsInv
  <2>2. j \in Known /\ IsGet(j)
    BY <2>1, LastRequestType DEF IInv, WalkInv
  <2>3. j.conn = c /\ j.n = Len(issued[c]) /\ Len(issued[c]) \in Nat
    BY <2>1, EmptySeq DEF LastRequest, IInv, PfsInv
  <2> HIDE DEF j, x
  <2>4. j \in KnownGet /\ \A k \in 1 .. j.n - 1 : k < Len(issued[j.conn])
    BY <2>2, <2>3 DEF KnownGet
  <2> QED BY <1>2, <1>4, <1>6, <2>1, <2>4, ReadQueued
<1> QED BY <1>7, <1>8

\* A PFS thread keeps the invariant.
LEMMA PfsOrder ==
    ASSUME IInv, OInv, praidUp, NEW c \in Pfs,
           AcceptPfs(c) \/ PfsReceive(c) \/ PfsThreadStep(c)
    PROVE  OInv'
<1>1. UNCHANGED <<ppdStorages, unlinked, connected, entry, ppd, listenerPc>>
  BY DEF AcceptPfs, PfsReceive, PfsThreadStep, SelectForGet, QueueGet, PutNext,
     PutQueue, PutDone, praidVars, storageVars, listVars, listenerVars, outsideVars,
     ppdVars
<1>2. ListInv' /\ EarlyInv'
  BY <1>1, ListFrame, EarlyFrame DEF OInv
<1>3. WalkInv' /\ JobsInv' /\ OrderlyInv'
  BY ReceiveOrder, NextOrder, QueueOrder, OtherOrder DEF PfsThreadStep
<1> QED BY <1>2, <1>3 DEF OInv

-----------------------------------------------------------------------------
(* The sender of a storage.                                                *)

\* A job that is sent leaves its place among the jobs of the disk.
LEMMA SendOrder ==
    ASSUME IInv, OInv, NEW x \in Ppd, SenderSend(x)
    PROVE  JobsInv' /\ OrderlyInv'
<1> USE DEF OInv
<1>1. /\ UNCHANGED <<issued, connected, pfsVars>>
      /\ connected[x] /\ pendingJobs[x] # <<>>
      /\ pendingJobs' = [pendingJobs EXCEPT ![x] = Tail(pendingJobs[x])]
      /\ sentTo' = [sentTo EXCEPT ![x] = Append(sentTo[x], Head(pendingJobs[x]))]
  BY DEF SenderSend, pfsVars, IInv, SenderInv
<1>2. /\ sentTo[x] \in Seq(Job) /\ pendingJobs[x] \in Seq(Job)
      /\ DOMAIN sentTo = Ppd /\ DOMAIN pendingJobs = Ppd
  BY TraceType DEF IInv, DiskInv, StorageInv
<1>3. ASSUME NEW d \in Ppd
      PROVE  Trace(d)' = Trace(d)
  <2>1. CASE d = x
    <3>1. Trace(d)' = Append(sentTo[x], Head(pendingJobs[x])) \o Tail(pendingJobs[x])
      BY <1>1, <1>2, <2>1 DEF Trace
    <3> QED BY <1>1, <1>2, <2>1, <3>1, TraceMoves DEF Trace
  <2>2. CASE d # x
    BY <1>1, <1>2, <2>2 DEF Trace
  <2> QED BY <2>1, <2>2
<1>4. JobsInv'
  BY <1>1, <1>3, PlaceType DEF JobsInv, Ahead, pfsVars
<1>5. OrderlyInv'
  <2> SUFFICES ASSUME NEW d \in Early
               PROVE  /\ Orderly(issued, sentTo'[d])
                      /\ connected[d] => Orderly(issued, Trace(d))
    BY <1>1, <1>3, PlaceType DEF OrderlyInv
  <2>1. connected[d] => Orderly(issued, Trace(d))
    BY DEF OrderlyInv
  <2>2. CASE d = x
    <3>1. Orderly(issued, sentTo[x] \o pendingJobs[x])
      BY <1>1, <2>1, <2>2 DEF Trace
    <3>2. Orderly(issued, Append(sentTo[x], Head(pendingJobs[x])))
      BY <1>1, <1>2, <3>1, OrderlyHead
    <3> QED BY <1>1, <1>2, <2>1, <2>2, <3>2
  <2>3. CASE d # x
    BY <1>1, <1>2, <2>1, <2>3 DEF OrderlyInv
  <2> QED BY <2>2, <2>3
<1> QED BY <1>4, <1>5

\* A sender keeps the invariant.
LEMMA SenderOrder ==
    ASSUME IInv, OInv, NEW d \in Ppd, Sender(d), ~CountRace(d)
    PROVE  OInv'
<1>1. UNCHANGED <<ppdStorages, unlinked, connected, entry, ppd, listenerPc, pfsVars>>
  BY DEF Sender, SenderTest, SenderWait, SenderQuit, SenderSend, SenderRecord,
     SenderCount, praidVars, storageVars, listVars, listenerVars, outsideVars, ppdVars
<1>2. ListInv' /\ EarlyInv' /\ WalkInv'
  BY <1>1, ListFrame, EarlyFrame, WalkFrame DEF OInv
<1>3. CASE SenderSend(d)
  BY <1>2, <1>3, SendOrder DEF OInv
<1>4. CASE ~SenderSend(d)
  <2>1. UNCHANGED <<sentTo, pendingJobs>>
    BY <1>4 DEF Sender, SenderTest, SenderWait, SenderQuit, SenderRecord, SenderCount,
       praidVars, storageVars, queueVars, historyVars
  <2>2. JobsInv' /\ OrderlyInv'
    BY <1>1, <2>1, JobsFrame DEF OInv, Ahead, pfsVars
  <2> QED BY <1>2, <2>2 DEF OInv
<1> QED BY <1>3, <1>4

-----------------------------------------------------------------------------
(* The listener of a storage.                                              *)

\* A storage leaves the list; its pointer goes on from where it stood.
LEMMA RemoveOrder ==
    ASSUME IInv, OInv, NEW x \in Ppd, ListenerRemove(x)
    PROVE  ListInv'
<1> USE DEF OInv
<1>1. /\ ppdStorages \in Seq(Ppd) /\ connected' = connected
      /\ ppdStorages' = Unlink(ppdStorages, x)
      /\ unlinked'[x] = NextStorage(x)
      /\ \A e \in Ppd \ {x} : unlinked'[e] = unlinked[e]
  BY DEF ListenerRemove, IInv, StorageInv
<1>2. /\ InOrder(Unlink(ppdStorages, x))
      /\ \A e \in Ppd : e # x /\ Listed(ppdStorages, e) => Listed(Unlink(ppdStorages, x), e)
  BY <1>1, UnlinkOrder DEF ListInv
<1>3. ASSUME NEW d \in Early, connected[d]
      PROVE  d # x /\ d \in Ppd /\ Listed(Unlink(ppdStorages, x), d)
  <2>1. d # x
    BY <1>3 DEF ListenerRemove, EarlyInv
  <2> QED BY <1>2, <1>3, <2>1, PlaceType DEF ListInv
<1>4. ASSUME NEW e \in Ppd, unlinked'[e] \in Early
      PROVE  e \in Early /\ Place(e) < Place(unlinked'[e])
  <2>1. CASE e = x
    BY <1>1, <1>4, <2>1, NextForward
  <2>2. CASE e # x
    BY <1>1, <1>4, <2>2 DEF ListInv
  <2> QED BY <2>1, <2>2
<1>5. ASSUME NEW e \in Early, NEW d \in Early,
             ~Listed(Unlink(ppdStorages, x), e), connected[d], Place(e) < Place(d)
      PROVE  unlinked'[e] \in Early /\ Place(unlinked'[e]) <= Place(d)
  <2>1. CASE e = x
    BY <1>1, <1>5, <2>1, NextSkipsNone
  <2>2. CASE e # x
    <3>1. ~Listed(ppdStorages, e)
      BY <1>2, <1>5, <2>2, PlaceType
    <3> QED BY <1>1, <1>5, <2>2, <3>1, PlaceType DEF ListInv
  <2> QED BY <2>1, <2>2
<1> QED BY <1>1, <1>2, <1>3, <1>4, <1>5 DEF ListInv

\* An orphan read is queued on another disk: it is a request of long ago.
LEMMA AssignOrder ==
    ASSUME IInv, OInv, NEW x \in Ppd, ListenerAssign(x)
    PROVE  JobsInv' /\ OrderlyInv'
<1> DEFINE jobs == orphans[x]
           j == jobs[NextGet(jobs)]
<1>1. /\ QueuePut(candidate[x], j) /\ UNCHANGED <<issued, sentTo, connected, pfsVars>>
      /\ HasGet(jobs) /\ jobs \in Seq(Known)
  BY DEF ListenerAssign, IInv, ListenerInv, ListenerType, ListenerAt, pfsVars, historyVars
<1> HIDE DEF jobs
<1>2. j \in Known /\ IsGet(j)
  BY <1>1, NextGetType DEF HasGet, NextGet, FirstGet
<1> HIDE DEF j
<1>3. j \in KnownGet
  BY <1>2 DEF KnownGet
<1>4. \A k \in 1 .. j.n - 1 : k < Len(issued[j.conn])
  <2>1. j.conn \in Pfs /\ j.n \in Nat /\ j.n \in DOMAIN issued[j.conn]
    BY <1>2 DEF Known, Job
  <2>2. issued[j.conn] \in Seq(Job)
    BY <2>1 DEF IInv, PfsInv
  <2>3. j.n <= Len(issued[j.conn]) /\ Len(issued[j.conn]) \in Nat
    BY <2>1, <2>2
  <2> QED BY <2>1, <2>3
<1>5. \A c \in Pfs, d \in Early : Ahead(c, d)' <=> Ahead(c, d)
  BY <1>1 DEF Ahead, pfsVars
<1> QED BY <1>1, <1>3, <1>4, <1>5, ReadQueued DEF OInv

\* A listener keeps the invariant.
LEMMA ListenerOrder ==
    ASSUME IInv, OInv, NEW x \in Ppd, Listener(x) \/ CountRace(x)
    PROVE  OInv'
<1> USE DEF OInv, praidVars, storageVars, listVars, queueVars, lockVars, syncVars,
            pfsVars, heldVars, outsideVars, socketVars, ppdVars, historyVars, threadVars,
            listenerVars
<1>0. /\ listenerPc \in [Ppd -> {"off", "recv", "respond", "unlist", "syncEnd", "lock",
                                 "remove", "select", "assign", "done"}]
      /\ connected \in [Ppd -> BOOLEAN]
  BY DEF IInv, StorageInv, ListenerInv, ListenerType
<1>1. /\ UNCHANGED <<entry, ppd, issued, pfsPc, pfsAt, pfsNext, sentTo>>
      /\ \A e \in Ppd \ {x} : listenerPc'[e] = listenerPc[e] /\ connected'[e] = connected[e]
  <2>1. CASE ListenerAnswer(x) \/ CountRace(x)
    BY <1>0, <2>1 DEF ListenerAnswer, CountRace, TakeAnswer
  <2>2. CASE ListenerRespond(x) \/ ListenerUnlist(x) \/ ListenerSyncPut(x) \/ ListenerSyncEnd(x)
    BY <1>0, <2>2 DEF ListenerRespond, ListenerUnlist, ListenerSyncPut, ListenerSyncEnd
  <2>3. CASE ListenerSyncStop(x) \/ ListenerBlank(x) \/ ListenerCollect(x)
    BY <1>0, <2>3 DEF ListenerSyncStop, ListenerBlank, ListenerCollect
  <2>4. CASE ListenerRemove(x) \/ ListenerSelect(x) \/ ListenerAssign(x)
    BY <1>0, <2>4 DEF ListenerRemove, ListenerSelect, ListenerAssign, ListenerFinish
  <2> QED BY <2>1, <2>2, <2>3, <2>4 DEF Listener
<1>2. /\ connected'[x] => connected[x]
      /\ listenerPc'[x] \in {"lock", "remove", "select", "assign", "done"} =>
            \/ listenerPc[x] \in {"lock", "remove", "select", "assign", "done"}
            \/ ~connected'[x]
  <2>1. CASE ListenerAnswer(x) \/ CountRace(x)
    BY <1>0, <2>1 DEF ListenerAnswer, CountRace, TakeAnswer
  <2>2. CASE ListenerRespond(x) \/ ListenerUnlist(x) \/ ListenerSyncPut(x) \/ ListenerSyncEnd(x)
    BY <1>0, <2>2 DEF ListenerRespond, ListenerUnlist, ListenerSyncPut, ListenerSyncEnd
  <2>3. CASE ListenerSyncStop(x) \/ ListenerBlank(x) \/ ListenerCollect(x)
    BY <1>0, <2>3 DEF ListenerSyncStop, ListenerBlank, ListenerCollect
  <2>4. CASE ListenerRemove(x) \/ ListenerSelect(x) \/ ListenerAssign(x)
    BY <1>0, <2>4 DEF ListenerRemove, ListenerSelect, ListenerAssign, ListenerFinish
  <2> QED BY <2>1, <2>2, <2>3, <2>4 DEF Listener
<1>3. EarlyInv'
  BY <1>1, <1>2, PlaceType DEF EarlyInv
<1>4. WalkInv'
  BY <1>1, WalkFrame
<1>5. \A d \in Early : connected'[d] => connected[d]
  BY <1>1, <1>2, PlaceType
<1>6. ListInv'
  <2>1. CASE ListenerRemove(x)
    BY <2>1, RemoveOrder
  <2>2. CASE ~ListenerRemove(x)
    <3>1. UNCHANGED <<ppdStorages, unlinked>>
      <4>1. CASE ListenerAnswer(x) \/ CountRace(x) \/ ListenerRespond(x) \/ ListenerUnlist(x)
        BY <4>1 DEF ListenerAnswer, CountRace, ListenerRespond, ListenerUnlist
      <4>2. CASE ListenerSyncPut(x) \/ ListenerSyncEnd(x) \/ ListenerSyncStop(x)
        BY <4>2 DEF ListenerSyncPut, ListenerSyncEnd, ListenerSyncStop
      <4>3. CASE ListenerBlank(x) \/ ListenerCollect(x) \/ ListenerSelect(x) \/ ListenerAssign(x)
        BY <4>3 DEF ListenerBlank, ListenerCollect, ListenerSelect, ListenerAssign
      <4> QED BY <2>2, <4>1, <4>2, <4>3 DEF Listener
    <3> QED BY <1>5, <3>1, ListFrame
  <2> QED BY <2>1, <2>2
<1>7. JobsInv' /\ OrderlyInv'
  <2>1. CASE ListenerAssign(x)
    BY <2>1, AssignOrder
  <2>2. CASE ~ListenerAssign(x)
    <3>1. pendingJobs' = pendingJobs
      <4>1. CASE ListenerAnswer(x) \/ CountRace(x) \/ ListenerRespond(x) \/ ListenerUnlist(x)
        BY <4>1 DEF ListenerAnswer, CountRace, ListenerRespond, ListenerUnlist
      <4>2. CASE ListenerSyncPut(x) \/ ListenerSyncEnd(x) \/ ListenerSyncStop(x)
        BY <4>2 DEF ListenerSyncPut, ListenerSyncEnd, ListenerSyncStop
      <4>3. CASE ListenerBlank(x) \/ ListenerCollect(x) \/ ListenerRemove(x) \/ ListenerSelect(x)
        BY <4>3 DEF ListenerBlank, ListenerCollect, ListenerRemove, ListenerSelect
      <4> QED BY <2>2, <4>1, <4>2, <4>3 DEF Listener
    <3>2. \A c \in Pfs, d \in Early : Ahead(c, d)' <=> Ahead(c, d)
      BY <1>1 DEF Ahead
    <3> QED BY <1>1, <1>5, <3>1, <3>2, JobsFrame
  <2> QED BY <2>1, <2>2
<1> QED BY <1>3, <1>4, <1>6, <1>7

-----------------------------------------------------------------------------
(* The disks, and the whole.                                               *)

\* A disk that connects is none of the early ones, and one that dies is not
\* off; what else disks do is not seen here.
LEMMA PpdOrder ==
    ASSUME IInv, OInv, NEW x \in Ppd,
           AcceptPpd(x) \/ PpdReceiver(x) \/ PpdWorker(x) \/ PpdCrash(x)
    PROVE  OInv'
<1> USE DEF OInv
<1>1. UNCHANGED <<ppdStorages, unlinked, listenerPc, pfsVars, sentTo, pendingJobs>>
  <2>1. CASE AcceptPpd(x)
    BY <2>1 DEF AcceptPpd, listVars, queueVars, listenerVars, historyVars
  <2>2. CASE ~AcceptPpd(x)
    BY <2>2 DEF PpdReceiver, PpdReceiveJob, PpdReceiveSyncGet, PpdReceiveSyncPut,
       PpdReceiveSyncEnd, PpdStream, PpdStreamEnd, PpdWorker, PpdRead, PpdWrite,
       PpdCrash, praidVars, storageVars, listVars, queueVars, threadVars,
       listenerVars, historyVars
  <2> QED BY <2>1, <2>2
<1>2. ppd \in [Ppd -> {"off", "up", "denied", "down"}] /\ connected \in [Ppd -> BOOLEAN]
  BY DEF IInv, StorageInv, DiskInv
<1>3. /\ \A d \in Early : connected'[d] = connected[d]
      /\ EarlyInv'
  <2>1. CASE AcceptPpd(x)
    <3>1. x \notin Early
      BY <2>1 DEF AcceptPpd, EarlyInv
    <3>2. /\ \A d \in Early : connected'[d] = connected[d] /\ ppd'[d] = ppd[d]
          /\ entry' = entry \/ entry'.destiny = x
      BY <1>2, <2>1, <3>1, PlaceType DEF AcceptPpd
    <3>3. listenerPc' = listenerPc
      BY <1>1
    <3> QED BY <3>1, <3>2, <3>3 DEF EarlyInv
  <2>2. CASE PpdCrash(x)
    <3>1. ppd' = [ppd EXCEPT ![x] = "down"] /\ UNCHANGED <<connected, entry, listenerPc>>
      BY <2>2 DEF PpdCrash, praidVars, storageVars, threadVars, listenerVars
    <3>2. \A d \in Early : ppd'[d] # "off"
      BY <1>2, <3>1, PlaceType DEF EarlyInv
    <3> QED BY <3>1, <3>2 DEF EarlyInv
  <2>3. CASE PpdReceiver(x) \/ PpdWorker(x)
    <3>1. UNCHANGED <<connected, entry, listenerPc, ppd>>
      BY <2>3 DEF PpdReceiver, PpdReceiveJob, PpdReceiveSyncGet, PpdReceiveSyncPut,
         PpdReceiveSyncEnd, PpdStream, PpdStreamEnd, PpdWorker, PpdRead, PpdWrite,
         praidVars, storageVars, threadVars, listenerVars
    <3> QED BY <3>1, EarlyFrame
  <2> QED BY <2>1, <2>2, <2>3
<1>4. ListInv' /\ WalkInv'
  BY <1>1, <1>3, ListFrame, WalkFrame
<1>5. JobsInv' /\ OrderlyInv'
  BY <1>1, <1>3, JobsFrame DEF Ahead, pfsVars
<1> QED BY <1>3, <1>4, <1>5

\* At first every early disk is served, and nothing has been asked for.
LEMMA InitOrder == Init => OInv
<1> SUFFICES ASSUME Init PROVE OInv
  OBVIOUS
<1> USE DEF Init
<1>1. ASSUME NEW i \in DOMAIN InitialPpd
      PROVE  InitialPpd[i] \in Early /\ Place(InitialPpd[i]) = i
  <2>1. InitialPpd[i] \in Early
    BY DEF Early, ToSet
  <2>2. Place(InitialPpd[i]) \in DOMAIN InitialPpd
        /\ InitialPpd[Place(InitialPpd[i])] = InitialPpd[i]
    BY DEF Place
  <2> QED BY <2>1, <2>2, PraidAssumption DEF PraidAssumption
<1>2. ListInv
  <2>1. InOrder(ppdStorages)
    BY <1>1 DEF InOrder
  <2>2. \A d \in Early : Listed(ppdStorages, d)
    BY PraidAssumption DEF Early, ToSet, Listed, PraidAssumption
  <2>3. \A x \in Ppd : unlinked[x] \notin Early
    BY NoneNotEarly
  <2> QED BY <2>1, <2>2, <2>3, PlaceType DEF ListInv
<1>3. EarlyInv
  BY PlaceType DEF EarlyInv, Initially, Early
<1>4. WalkInv
  BY DEF WalkInv
<1>5. JobsInv
  BY DEF JobsInv
<1>6. OrderlyInv
  <2> SUFFICES ASSUME NEW d \in Early
               PROVE  Orderly(issued, sentTo[d]) /\ Orderly(issued, Trace(d))
    BY DEF OrderlyInv
  <2>1. sentTo[d] = <<>> /\ pendingJobs[d] = <<>>
    BY PlaceType
  <2>2. Trace(d) = <<>>
    BY <2>1 DEF Trace
  <2>3. Orderly(issued, <<>>)
    BY DEF Orderly
  <2> QED BY <2>1, <2>2, <2>3
<1> QED BY <1>2, <1>3, <1>4, <1>5, <1>6 DEF OInv

LEMMA StepOrder == IInv /\ OInv /\ [Next]_vars => OInv'
<1> SUFFICES ASSUME IInv, OInv, [Next]_vars PROVE OInv'
  OBVIOUS
<1>1. CASE UNCHANGED vars
  <2>1. UNCHANGED <<ppdStorages, unlinked, connected, entry, ppd, listenerPc, pfsVars,
                    issued, sentTo, pendingJobs>>
    BY <1>1 DEF vars, praidVars, storageVars, listVars, queueVars, threadVars, pfsVars,
       listenerVars, outsideVars, ppdVars, historyVars
  <2> QED BY <2>1, ListFrame, EarlyFrame, WalkFrame, JobsFrame DEF OInv, Ahead, pfsVars
<1>2. CASE Next
  <2>1. praidUp
    BY <1>2 DEF Next
  <2>2. CASE EntrypointStep
    BY <2>1, <2>2, EntrypointOrder
  <2>3. ASSUME NEW c \in Pfs, AcceptPfs(c) \/ PfsReceive(c) \/ PfsThreadStep(c)
        PROVE  OInv'
    BY <2>1, <2>3, PfsOrder
  <2>4. ASSUME NEW d \in Ppd, Sender(d) \/ Listener(d)
        PROVE  OInv'
    BY <2>4, SenderOrder, ListenerOrder
  <2>5. ASSUME NEW d \in Ppd,
               AcceptPpd(d) \/ PpdReceiver(d) \/ PpdWorker(d) \/ PpdCrash(d)
        PROVE  OInv'
    BY <2>5, PpdOrder
  <2> QED BY <1>2, <2>2, <2>3, <2>4, <2>5 DEF Next
<1> QED BY <1>1, <1>2

\* Walks skip no disk that is served and meet none twice, whatever dies.
THEOREM OrderInvariant == Spec => [](IInv /\ OInv)
<1>1. Init => IInv /\ OInv
  BY InitInv, InitOrder
<1>2. IInv /\ OInv /\ [Next]_vars => (IInv /\ OInv)'
  BY NextInv, StepOrder
<1> QED BY <1>1, <1>2, PTL DEF Spec

\* A disk gets the writes of each connection in the order they were issued,
\* without a gap and each once, for any number of disks that die and of PUTs
\* that walk the list meanwhile.
THEOREM WritesInOrder == Spec => []PutsInOrder
<1>1. OInv => PutsInOrder
  <2> SUFFICES ASSUME OInv, NEW d \in ToSet(InitialPpd), NEW i \in DOMAIN sentTo[d],
                      ~IsGet(sentTo[d][i])
               PROVE  /\ AfterItsWrites(sentTo[d], i)
                      /\ \A h \in 1 .. i - 1 : sentTo[d][h] # sentTo[d][i]
    BY DEF PutsInOrder
  <2>1. Orderly(issued, sentTo[d])
    BY DEF OInv, OrderlyInv, Early
  <2> QED BY <2>1 DEF Orderly, AfterItsWrites
<1> QED BY <1>1, OrderInvariant, PTL

\* No GET overtakes a write of its connection on the way to a disk, also when
\* it was queued first on a disk that has died.
THEOREM ReadsAfterWrites == Spec => []ReadsFollowWrites
<1>1. OInv => ReadsFollowWrites
  <2> SUFFICES ASSUME OInv, NEW d \in ToSet(InitialPpd), NEW i \in DOMAIN sentTo[d]
               PROVE  AfterItsWrites(sentTo[d], i)
    BY DEF ReadsFollowWrites
  <2>1. Orderly(issued, sentTo[d])
    BY DEF OInv, OrderlyInv, Early
  <2> QED BY <2>1 DEF Orderly, AfterItsWrites
<1> QED BY <1>1, OrderInvariant, PTL
=============================================================================
