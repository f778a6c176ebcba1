------------------------------- MODULE Praid -------------------------------
(***************************************************************************)
(* The RAID-1 coordinator (grage-praid).  One process, many threads:       *)
(*                                                                         *)
(*   - the entrypoint listener accepts disk processes (PPD) and file       *)
(*     system connections (PFS), and starts the copy of a new disk;        *)
(*   - one thread per PFS connection turns a GET into a job of one disk    *)
(*     and a PUT into a job of every disk;                                 *)
(*   - per disk, a sender drains pendingJobs into the socket, and a        *)
(*     listener relays answers, relays the copy of a new disk, and         *)
(*     disposes of the disk when its connection ends.                      *)
(*                                                                         *)
(* A disk connection is a PPDConnectionStorage of the code: the members of *)
(* Ppd are both the disk processes and the storages built for them, each   *)
(* disk connecting once (a disk that comes back is another member).        *)
(* Sockets are FIFO channels: toPpd[d], toPraid[d], and inbox[c], which    *)
(* keeps every response ever written to connection c; the k-th GET a       *)
(* connection sends reads the k-th response, whatever it answers.          *)
(* Steps that no other thread can tell apart are taken together.           *)
(***************************************************************************)
EXTENDS Integers, FiniteSets, SequencesExt

CONSTANTS
    Ppd,                \* disk processes
    Pfs,                \* connections of the file system
    Sectors,            \* sectors of a volume
    Requests,           \* what a connection may ask for: [op, sector]
    Budget,             \* bound: requests sent on each connection
    MaxCrash,           \* bound: disks that die
    EnableReplication,  \* praid_configuration_getEnableReplication()
    Pooled,             \* praid_conf_isPooledConnections()
    InitialPpd,         \* disks already serving in the initial state, in order
    None                \* the NULL pointer

Sector == 0 .. Sectors - 1

Job == [conn : Pfs, n : Nat \ {0}, op : {"get", "put"}, sector : Sector]

ASSUME PraidAssumption ==
    /\ Sectors \in Nat \ {0}
    /\ Budget \in [Pfs -> Nat]
    /\ MaxCrash \in Nat
    /\ EnableReplication \in BOOLEAN
    /\ Pooled \in BOOLEAN
    /\ Requests \subseteq [op : {"get", "put"}, sector : Sector]
    /\ InitialPpd \in Seq(Ppd)
    /\ \A i, k \in DOMAIN InitialPpd : InitialPpd[i] = InitialPpd[k] => i = k
    /\ None \notin Ppd \cup Nat

CounterSize == 65536    \* pendingResponses is a uint16_t

PpdMessage ==
    [kind : {"job"}, job : Job]
      \cup [kind : {"syncGet", "syncEnd"}]
      \cup [kind : {"syncPut"}, data : SUBSET Job]

PraidMessage ==
    [kind : {"answer"}, job : Job]
      \cup [kind : {"syncEnd"}]
      \cup [kind : {"syncPut"}, data : SUBSET Job]

VARIABLES
    \* shared by the threads of the PRAID
    praidUp,                    \* FALSE once a signal has killed the process
    ppdStorages,                \* the list of storages
    unlinked,                   \* next pointer of a node taken off the list
    connected,                  \* storage->connected
    pendingJobs, sendedJobs,    \* the two queues of a storage
    pendingResponses,           \* storage->pendingResponses
    disconnectionMutex,         \* who holds storage->disconnectionMutex
    redistributionMutex,        \* who holds redistributionMutex
    replicationStatusActive, syncState,
    \* threads
    entry,                      \* the entrypoint listener: [pc, destiny, master]
    pfsPc,                      \* a PFS thread,
    pfsAt, pfsNext,             \*   the storage it has read, and its iterator
    senderPc, senderJob,        \* a sender, and the job in its hands
    listenerPc, listenerJob,    \* a listener, and the answer in its hands
    orphans, candidate,         \* jobs it redistributes, storage selected
    \* sockets
    toPpd, toPraid, inbox,
    \* the disk processes
    ppd,                        \* "off", "up", "denied" or "down"
    jobsQueue,                  \* jobs received and not done
    streaming,                  \* next sector of the copy it is the source of
    restoring,                  \* file position of the copy it is written by
    volume,                     \* per sector, the writes it holds
    \* history
    issued,                     \* requests of a connection, in order
    sentTo,                     \* jobs sent to a disk, in order
    snapshot                    \* what its source held when a copy was asked for

listVars == <<ppdStorages, unlinked>>
queueVars == <<pendingJobs, sendedJobs, pendingResponses>>
storageVars == <<listVars, connected, queueVars>>
lockVars == <<disconnectionMutex, redistributionMutex>>
syncVars == <<replicationStatusActive, syncState>>
praidVars == <<storageVars, lockVars, syncVars>>
pfsVars == <<pfsPc, pfsAt, pfsNext, issued>>
senderVars == <<senderPc, senderJob>>
heldVars == <<listenerJob, orphans, candidate>>
listenerVars == <<listenerPc, heldVars>>
threadVars == <<entry, pfsVars, senderVars, listenerVars>>
socketVars == <<toPpd, toPraid, inbox>>
copyVars == <<streaming, restoring, volume>>
ppdVars == <<ppd, jobsQueue, copyVars>>
outsideVars == <<socketVars, ppdVars>>
historyVars == <<sentTo, snapshot>>
vars == <<praidUp, praidVars, threadVars, outsideVars, historyVars>>

TypeOK ==
    /\ praidUp \in BOOLEAN
    /\ ppdStorages \in Seq(Ppd)
    /\ unlinked \in [Ppd -> Ppd \cup {None}]
    /\ connected \in [Ppd -> BOOLEAN]
    /\ pendingJobs \in [Ppd -> Seq(Job)]
    /\ sendedJobs \in [Ppd -> Seq(Job)]
    /\ pendingResponses \in [Ppd -> 0 .. CounterSize - 1]
    /\ disconnectionMutex \in [Ppd -> {"free", "sender", "listener"}]
    /\ redistributionMutex \in Ppd \cup {None}
    /\ replicationStatusActive \in BOOLEAN
    /\ syncState \in [source : Ppd \cup {None}, destiny : Ppd \cup {None}]
    /\ entry \in [pc : {"accept", "select", "add", "decide", "sleep", "fire"},
                  destiny : Ppd \cup {None}, master : Ppd \cup {None}]
    /\ pfsPc \in [Pfs -> {"off", "denied", "recv", "select", "get", "walk", "put", "done"}]
    /\ pfsAt \in [Pfs -> Ppd \cup {None}]
    /\ pfsNext \in [Pfs -> Ppd \cup {None}]
    /\ senderPc \in [Ppd -> {"off", "test", "wait", "lock", "record", "count", "done"}]
    /\ senderJob \in [Ppd -> Job \cup {None}]
    /\ listenerPc \in [Ppd -> {"off", "recv", "respond", "unlist", "syncEnd", "lock",
                               "remove", "select", "assign", "done"}]
    /\ listenerJob \in [Ppd -> Job \cup {None}]
    /\ orphans \in [Ppd -> Seq(Job)]
    /\ candidate \in [Ppd -> Ppd \cup {None}]
    /\ toPpd \in [Ppd -> Seq(PpdMessage)]
    /\ toPraid \in [Ppd -> Seq(PraidMessage)]
    /\ inbox \in [Pfs -> Seq(Job)]
    /\ ppd \in [Ppd -> {"off", "up", "denied", "down"}]
    /\ jobsQueue \in [Ppd -> SUBSET Job]
    /\ streaming \in [Ppd -> 0 .. Sectors \cup {None}]
    /\ restoring \in [Ppd -> Nat \cup {None}]
    /\ volume \in [Ppd -> [Sector -> SUBSET Job]]
    /\ issued \in [Pfs -> Seq(Job)]
    /\ sentTo \in [Ppd -> Seq(Job)]
    /\ snapshot \in [Ppd -> [Sector -> SUBSET Job]]

-----------------------------------------------------------------------------
(* The list of storages and the balancer.                                  *)

Listed(list, d) == \E i \in DOMAIN list : list[i] = d
Position(list, d) == CHOOSE i \in DOMAIN list : list[i] = d
Unlink(list, d) == IF Listed(list, d) THEN RemoveAt(list, Position(list, d)) ELSE list

\* Altered: the walk ends at the first storage.
NextStorageFirstOnly(d) == None

\* Altered: a node taken off the list forgets its next pointer.
NextStorageForgotten(d) ==
    IF Listed(ppdStorages, d) /\ Position(ppdStorages, d) < Len(ppdStorages)
    THEN ppdStorages[Position(ppdStorages, d) + 1]
    ELSE None

\* node->next: on the list, the storage that follows; off it, what the
\* pointer said when the node was taken off (nodes are never freed).
NextStorage(d) ==
    IF Listed(ppdStorages, d)
    THEN IF Position(ppdStorages, d) < Len(ppdStorages)
         THEN ppdStorages[Position(ppdStorages, d) + 1]
         ELSE None
    ELSE unlinked[d]

FirstStorage == IF ppdStorages = <<>> THEN None ELSE Head(ppdStorages)

StorageRanking(d) == 2 * Len(pendingJobs[d]) + pendingResponses[d]

\* The first storage of the list with the lowest ranking.
BestAt(i) ==
    /\ i \in DOMAIN ppdStorages
    /\ \A j \in DOMAIN ppdStorages :
          LET ri == StorageRanking(ppdStorages[i])
              rj == StorageRanking(ppdStorages[j])
          IN ri < rj \/ (ri = rj /\ i <= j)

SelectStorage ==
    IF \E i \in DOMAIN ppdStorages : BestAt(i)
    THEN ppdStorages[CHOOSE i \in DOMAIN ppdStorages : BestAt(i)]
    ELSE None

IsValidReplication == Len(ppdStorages) >= 2 /\ EnableReplication

-----------------------------------------------------------------------------
(* Sockets.                                                                *)

\* The connection of a storage has been closed by removeNode.
Closed(d) == listenerPc[d] \in {"select", "assign", "done"}

\* A message written to a disk that is gone is lost; unless the socket is
\* already closed on this side, a later write raises SIGPIPE, which nothing
\* handles, and the process dies.
SendToPpd(d, m) ==
    \/ /\ ppd[d] = "up"
       /\ toPpd' = [toPpd EXCEPT ![d] = Append(@, m)]
       /\ UNCHANGED praidUp
    \/ /\ ppd[d] # "up"
       /\ praidUp' \in IF Closed(d) THEN {TRUE} ELSE BOOLEAN
       /\ UNCHANGED toPpd

\* A connection sends its next request only after it has read as many
\* responses as it has sent GETs.
IsGet(j) == j.op = "get"
Gets(c) ==
    LET first[k \in 0 .. Len(issued[c])] ==      \* among the first k requests
            IF k = 0 THEN <<>>
            ELSE IF IsGet(issued[c][k]) THEN Append(first[k - 1], issued[c][k])
            ELSE first[k - 1]
    IN first[Len(issued[c])]
Waiting(c) == Len(inbox[c]) < Len(Gets(c))

-----------------------------------------------------------------------------
(* The entrypoint listener.                                                *)

\* A disk connects; it is turned away while a copy is on.
AcceptPpd(d) ==
    /\ entry.pc = "accept"
    /\ ppd[d] = "off"
    /\ IF replicationStatusActive
       THEN /\ ppd' = [ppd EXCEPT ![d] = "denied"]
            /\ UNCHANGED <<connected, entry>>
       ELSE /\ ppd' = [ppd EXCEPT ![d] = "up"]
            /\ connected' = [connected EXCEPT ![d] = TRUE]
            /\ entry' = [pc |-> "select", destiny |-> d, master |-> None]
    /\ UNCHANGED <<praidUp, listVars, queueVars, lockVars, syncVars, pfsVars,
                   senderVars, listenerVars, socketVars, jobsQueue, copyVars,
                   historyVars>>

\* A PFS connects; it is turned away when there is no disk.
AcceptPfs(c) ==
    /\ entry.pc = "accept"
    /\ pfsPc[c] = "off"
    /\ pfsPc' = [pfsPc EXCEPT ![c] = IF ppdStorages = <<>> THEN "denied" ELSE "recv"]
    /\ UNCHANGED <<praidUp, praidVars, entry, pfsAt, pfsNext, issued,
                   senderVars, listenerVars, outsideVars, historyVars>>

\* The source of a copy is chosen before the new storage is on the list.
SelectMaster ==
    /\ entry.pc = "select"
    /\ entry' = [pc |-> "add", destiny |-> entry.destiny, master |-> SelectStorage]
    /\ UNCHANGED <<praidUp, praidVars, pfsVars, senderVars, listenerVars,
                   outsideVars, historyVars>>

AddPpdStorage ==
    /\ entry.pc = "add"
    /\ ppdStorages' = Append(ppdStorages, entry.destiny)
    /\ entry' = [entry EXCEPT !.pc = "decide"]
    /\ UNCHANGED <<praidUp, unlinked, connected, queueVars, lockVars,
                   syncVars, pfsVars, senderVars, listenerVars, outsideVars,
                   historyVars>>

LaunchNewSlaveThread(d) ==
    /\ listenerPc' = [listenerPc EXCEPT ![d] = "recv"]
    /\ senderPc' = [senderPc EXCEPT ![d] = "test"]
    /\ UNCHANGED <<senderJob, heldVars>>

\* No copy is due: the disk is told to go on at once.
SkipReplication ==
    /\ entry.pc = "decide"
    /\ ~IsValidReplication
    /\ SendToPpd(entry.destiny, [kind |-> "syncEnd"])
    /\ LaunchNewSlaveThread(entry.destiny)
    /\ entry' = [entry EXCEPT !.pc = "accept"]
    /\ UNCHANGED <<praidVars, pfsVars, toPraid, inbox, ppdVars, historyVars>>

\* A copy is due: the thread prints the volume of the source (it would crash
\* on a NULL one) and sleeps three seconds.
BeginReplication ==
    /\ entry.pc = "decide"
    /\ IsValidReplication
    /\ praidUp' = (entry.master # None)
    /\ entry' = [entry EXCEPT !.pc = "sleep"]
    /\ UNCHANGED <<praidVars, pfsVars, senderVars, listenerVars, outsideVars,
                   historyVars>>

\* Altered: the flag is never raised.
FireActiveForgotten ==
    /\ entry.pc = "sleep"
    /\ entry' = [entry EXCEPT !.pc = "fire"]
    /\ UNCHANGED <<praidUp, praidVars, pfsVars, senderVars, listenerVars,
                   outsideVars, historyVars>>

\* fireSynchronization raises the flag first ...
FireActive ==
    /\ entry.pc = "sleep"
    /\ replicationStatusActive' = TRUE
    /\ entry' = [entry EXCEPT !.pc = "fire"]
    /\ UNCHANGED <<praidUp, storageVars, lockVars, syncState, pfsVars,
                   senderVars, listenerVars, outsideVars, historyVars>>

\* ... and then says who copies to whom, asks the source for its volume and
\* starts the threads of the new storage.
FireSynchronization ==
    /\ entry.pc = "fire"
    /\ syncState' = [source |-> entry.master, destiny |-> entry.destiny]
    /\ SendToPpd(entry.master, [kind |-> "syncGet"])
    /\ LaunchNewSlaveThread(entry.destiny)
    /\ entry' = [entry EXCEPT !.pc = "accept"]
    /\ UNCHANGED <<storageVars, lockVars, replicationStatusActive, pfsVars,
                   toPraid, inbox, ppdVars, historyVars>>

-----------------------------------------------------------------------------
(* The thread of a PFS connection.                                         *)

\* The next request arrives.  A PUT starts its walk over the list here.
PfsReceive(c) ==
    /\ pfsPc[c] = "recv"
    /\ ~Waiting(c)
    /\ Len(issued[c]) < Budget[c]
    /\ \E r \in Requests :
          /\ issued' = [issued EXCEPT ![c] =
                Append(@, [conn |-> c, n |-> Len(@) + 1, op |-> r.op, sector |-> r.sector])]
          /\ pfsPc' = [pfsPc EXCEPT ![c] = IF r.op = "get" THEN "select" ELSE "walk"]
          /\ pfsNext' = [pfsNext EXCEPT ![c] = IF r.op = "get" THEN None ELSE FirstStorage]
    /\ UNCHANGED <<praidUp, praidVars, entry, pfsAt, senderVars, listenerVars,
                   outsideVars, historyVars>>

AfterRequest == IF Pooled THEN "recv" ELSE "done"

LastRequest(c) == issued[c][Len(issued[c])]

\* executeGetSector: pick a disk (a NULL one is dereferenced) ...
SelectForGet(c) ==
    /\ pfsPc[c] = "select"
    /\ pfsAt' = [pfsAt EXCEPT ![c] = SelectStorage]
    /\ pfsPc' = [pfsPc EXCEPT ![c] = "get"]
    /\ praidUp' = (SelectStorage # None)
    /\ UNCHANGED <<praidVars, entry, pfsNext, issued, senderVars, listenerVars,
                   outsideVars, historyVars>>

QueuePut(d, j) == pendingJobs' = [pendingJobs EXCEPT ![d] = Append(@, j)]

\* ... and then queue the job on it, whatever became of the disk meanwhile.
QueueGet(c) ==
    /\ pfsPc[c] = "get"
    /\ QueuePut(pfsAt[c], LastRequest(c))
    /\ pfsAt' = [pfsAt EXCEPT ![c] = None]
    /\ pfsPc' = [pfsPc EXCEPT ![c] = AfterRequest]
    /\ UNCHANGED <<praidUp, listVars, connected, sendedJobs, pendingResponses,
                   lockVars, syncVars, entry, pfsNext, issued, senderVars,
                   listenerVars, outsideVars, historyVars>>

\* executePutSector walks the list without a lock.  The iterator hands out a
\* storage, having read the pointer to the one after it ...
PutNext(c) ==
    /\ pfsPc[c] = "walk"
    /\ pfsNext[c] # None
    /\ pfsAt' = [pfsAt EXCEPT ![c] = pfsNext[c]]
    /\ pfsNext' = [pfsNext EXCEPT ![c] = NextStorage(pfsNext[c])]
    /\ pfsPc' = [pfsPc EXCEPT ![c] = "put"]
    /\ UNCHANGED <<praidUp, praidVars, entry, issued, senderVars,
                   listenerVars, outsideVars, historyVars>>

\* ... and the job is queued on it.
PutQueue(c) ==
    /\ pfsPc[c] = "put"
    /\ QueuePut(pfsAt[c], LastRequest(c))
    /\ pfsAt' = [pfsAt EXCEPT ![c] = None]
    /\ pfsPc' = [pfsPc EXCEPT ![c] = "walk"]
    /\ UNCHANGED <<praidUp, listVars, connected, sendedJobs, pendingResponses,
                   lockVars, syncVars, entry, pfsNext, issued, senderVars,
                   listenerVars, outsideVars, historyVars>>

PutDone(c) ==
    /\ pfsPc[c] = "walk"
    /\ pfsNext[c] = None
    /\ pfsPc' = [pfsPc EXCEPT ![c] = AfterRequest]
    /\ UNCHANGED <<praidUp, praidVars, entry, pfsAt, pfsNext, issued,
                   senderVars, listenerVars, outsideVars, historyVars>>

-----------------------------------------------------------------------------
(* The sender of a storage.                                                *)

SenderTest(d) ==
    /\ senderPc[d] = "test"
    /\ senderPc' = [senderPc EXCEPT ![d] = IF connected[d] THEN "wait" ELSE "done"]
    /\ UNCHANGED <<praidUp, praidVars, entry, pfsVars, senderJob,
                   listenerVars, outsideVars, historyVars>>

\* Altered: the flag is not looked at; or the thread ends when it is up.
SenderWaitHeedless(d) ==
    /\ senderPc[d] = "wait"
    /\ pendingJobs[d] # <<>>
    /\ senderPc' = [senderPc EXCEPT ![d] = "lock"]
    /\ UNCHANGED <<praidUp, praidVars, entry, pfsVars, senderJob,
                   listenerVars, outsideVars, historyVars>>

SenderWaitGivesUp(d) ==
    /\ senderPc[d] = "wait"
    /\ pendingJobs[d] # <<>>
    /\ senderPc' = [senderPc EXCEPT ![d] = IF replicationStatusActive THEN "done" ELSE "lock"]
    /\ UNCHANGED <<praidUp, praidVars, entry, pfsVars, senderJob,
                   listenerVars, outsideVars, historyVars>>

\* It spins until there is a job, and goes to sleep if a copy is on.
SenderWait(d) ==
    /\ senderPc[d] = "wait"
    /\ pendingJobs[d] # <<>>
    /\ senderPc' = [senderPc EXCEPT ![d] = IF replicationStatusActive THEN "test" ELSE "lock"]
    /\ UNCHANGED <<praidUp, praidVars, entry, pfsVars, senderJob,
                   listenerVars, outsideVars, historyVars>>

\* The lock is taken, and given back because the disk is gone.
SenderQuit(d) ==
    /\ senderPc[d] = "lock"
    /\ disconnectionMutex[d] = "free"
    /\ ~connected[d]
    /\ senderPc' = [senderPc EXCEPT ![d] = "done"]
    /\ UNCHANGED <<praidUp, praidVars, entry, pfsVars, senderJob,
                   listenerVars, outsideVars, historyVars>>

\* The lock is taken and the first job is sent.
SenderSend(d) ==
    /\ senderPc[d] = "lock"
    /\ disconnectionMutex[d] = "free"
    /\ connected[d]
    /\ disconnectionMutex' = [disconnectionMutex EXCEPT ![d] = "sender"]
    /\ senderJob' = [senderJob EXCEPT ![d] = Head(pendingJobs[d])]
    /\ pendingJobs' = [pendingJobs EXCEPT ![d] = Tail(@)]
    /\ SendToPpd(d, [kind |-> "job", job |-> Head(pendingJobs[d])])
    /\ sentTo' = [sentTo EXCEPT ![d] = Append(@, Head(pendingJobs[d]))]
    /\ senderPc' = [senderPc EXCEPT ![d] = "record"]
    /\ UNCHANGED <<listVars, connected, sendedJobs, pendingResponses,
                   redistributionMutex, syncVars, entry, pfsVars,
                   listenerVars, toPraid, inbox, ppdVars, snapshot>>

\* The job is noted only after it has been sent.
SenderRecord(d) ==
    /\ senderPc[d] = "record"
    /\ sendedJobs' = [sendedJobs EXCEPT ![d] = Append(@, senderJob[d])]
    /\ IF IsGet(senderJob[d])
       THEN /\ senderPc' = [senderPc EXCEPT ![d] = "count"]
            /\ UNCHANGED <<disconnectionMutex, senderJob>>
       ELSE /\ senderPc' = [senderPc EXCEPT ![d] = "test"]
            /\ disconnectionMutex' = [disconnectionMutex EXCEPT ![d] = "free"]
            /\ senderJob' = [senderJob EXCEPT ![d] = None]
    /\ UNCHANGED <<praidUp, listVars, connected, pendingJobs,
                   pendingResponses, redistributionMutex, syncVars, entry,
                   pfsVars, listenerVars, outsideVars, historyVars>>

SenderCounted(d) ==
    /\ senderPc' = [senderPc EXCEPT ![d] = "test"]
    /\ senderJob' = [senderJob EXCEPT ![d] = None]
    /\ disconnectionMutex' = [disconnectionMutex EXCEPT ![d] = "free"]

\* Altered: a counter without a width.
CounterUnbounded(k) == k

Counter(k) == k % CounterSize

SenderCount(d) ==
    /\ senderPc[d] = "count"
    /\ pendingResponses' = [pendingResponses EXCEPT ![d] = Counter(@ + 1)]
    /\ SenderCounted(d)
    /\ UNCHANGED <<praidUp, listVars, connected, pendingJobs, sendedJobs,
                   redistributionMutex, syncVars, entry, pfsVars,
                   listenerVars, outsideVars, historyVars>>

-----------------------------------------------------------------------------
(* The listener of a storage.                                              *)

Receives(d, kind) ==
    /\ listenerPc[d] = "recv"
    /\ toPraid[d] # <<>>
    /\ Head(toPraid[d]).kind = kind

TakeAnswer(d) ==
    /\ Receives(d, "answer")
    /\ toPraid' = [toPraid EXCEPT ![d] = Tail(@)]
    /\ listenerJob' = [listenerJob EXCEPT ![d] = Head(toPraid[d]).job]
    /\ listenerPc' = [listenerPc EXCEPT ![d] = "respond"]
    /\ UNCHANGED <<orphans, candidate>>

ListenerAnswer(d) ==
    /\ TakeAnswer(d)
    /\ pendingResponses' = [pendingResponses EXCEPT ![d] = Counter(@ - 1)]
    /\ UNCHANGED <<praidUp, listVars, connected, pendingJobs, sendedJobs,
                   lockVars, syncVars, entry, pfsVars, senderVars, toPpd,
                   inbox, ppdVars, historyVars>>

\* Sender and listener change pendingResponses at once without a lock: the
\* two together may leave only one of the changes.
CountRace(d) ==
    /\ senderPc[d] = "count"
    /\ SenderCounted(d)
    /\ TakeAnswer(d)
    /\ \E k \in {1, -1} :
          pendingResponses' = [pendingResponses EXCEPT ![d] = Counter(@ + k)]
    /\ UNCHANGED <<praidUp, listVars, connected, pendingJobs, sendedJobs,
                   redistributionMutex, syncVars, entry, pfsVars, toPpd,
                   inbox, ppdVars, historyVars>>

\* The answer goes to the connection whose socket it carries.
ListenerRespond(d) ==
    /\ listenerPc[d] = "respond"
    /\ LET c == listenerJob[d].conn
       IN inbox' = [inbox EXCEPT ![c] = Append(@, listenerJob[d])]
    /\ listenerPc' = [listenerPc EXCEPT ![d] = "unlist"]
    /\ UNCHANGED <<praidUp, praidVars, entry, pfsVars, senderVars, heldVars,
                   toPpd, toPraid, ppdVars, historyVars>>

\* The first job sent for the sector, of either kind, is struck off.
FirstOfSector(jobs, s, i) ==
    /\ i \in DOMAIN jobs
    /\ jobs[i].sector = s
    /\ \A k \in DOMAIN jobs : jobs[k].sector = s => i <= k

StrikeOff(jobs, s) ==
    IF \E i \in DOMAIN jobs : FirstOfSector(jobs, s, i)
    THEN RemoveAt(jobs, CHOOSE i \in DOMAIN jobs : FirstOfSector(jobs, s, i))
    ELSE jobs

ListenerUnlist(d) ==
    /\ listenerPc[d] = "unlist"
    /\ sendedJobs' = [sendedJobs EXCEPT ![d] = StrikeOff(@, listenerJob[d].sector)]
    /\ listenerPc' = [listenerPc EXCEPT ![d] = "recv"]
    /\ listenerJob' = [listenerJob EXCEPT ![d] = None]
    /\ UNCHANGED <<praidUp, listVars, connected, pendingJobs,
                   pendingResponses, lockVars, syncVars, entry, pfsVars,
                   senderVars, orphans, candidate, outsideVars, historyVars>>

\* A piece of a copy goes on to the destiny of the moment.
ListenerSyncPut(d) ==
    /\ Receives(d, "syncPut")
    /\ toPraid' = [toPraid EXCEPT ![d] = Tail(@)]
    /\ SendToPpd(syncState.destiny, Head(toPraid[d]))
    /\ UNCHANGED <<praidVars, threadVars, inbox, ppdVars, historyVars>>

\* The end of a copy goes on to the destiny, and then the flag falls.
ListenerSyncEnd(d) ==
    /\ Receives(d, "syncEnd")
    /\ toPraid' = [toPraid EXCEPT ![d] = Tail(@)]
    /\ SendToPpd(syncState.destiny, [kind |-> "syncEnd"])
    /\ listenerPc' = [listenerPc EXCEPT ![d] = "syncEnd"]
    /\ UNCHANGED <<praidVars, entry, pfsVars, senderVars, heldVars, inbox,
                   ppdVars, historyVars>>

\* Altered: the flag stays up.
ListenerSyncStopForgotten(d) ==
    /\ listenerPc[d] = "syncEnd"
    /\ listenerPc' = [listenerPc EXCEPT ![d] = "recv"]
    /\ UNCHANGED <<praidUp, praidVars, entry, pfsVars, senderVars, heldVars,
                   outsideVars, historyVars>>

ListenerSyncStop(d) ==
    /\ listenerPc[d] = "syncEnd"
    /\ replicationStatusActive' = FALSE
    /\ listenerPc' = [listenerPc EXCEPT ![d] = "recv"]
    /\ UNCHANGED <<praidUp, storageVars, lockVars, syncState, entry, pfsVars,
                   senderVars, heldVars, outsideVars, historyVars>>

\* The connection has ended: everything the disk wrote has been read.
ListenerBlank(d) ==
    /\ listenerPc[d] = "recv"
    /\ ppd[d] = "down"
    /\ toPraid[d] = <<>>
    /\ connected' = [connected EXCEPT ![d] = FALSE]
    /\ listenerPc' = [listenerPc EXCEPT ![d] = "lock"]
    /\ UNCHANGED <<praidUp, listVars, queueVars, lockVars, syncVars, entry,
                   pfsVars, senderVars, heldVars, outsideVars, historyVars>>

\* Altered: the PUTs are handed on too.
FirstOrphan(jobs, i) ==
    /\ i \in DOMAIN jobs
    /\ \A k \in DOMAIN jobs : i <= k

\* The first GET among the jobs collected; the PUTs are let go.
FirstGet(jobs, i) ==
    /\ i \in DOMAIN jobs
    /\ IsGet(jobs[i])
    /\ \A k \in DOMAIN jobs : IsGet(jobs[k]) => i <= k

HasGet(jobs) == \E i \in DOMAIN jobs : FirstGet(jobs, i)
NextGet(jobs) == CHOOSE i \in DOMAIN jobs : FirstGet(jobs, i)

\* Altered: the job that has been handed on stays among the orphans.
AfterGetKeeps(jobs) == SubSeq(jobs, NextGet(jobs), Len(jobs))

AfterGet(jobs) == SubSeq(jobs, NextGet(jobs) + 1, Len(jobs))

\* Altered: the lock is taken without waiting for the sender.
ListenerCollectUnlocked(d) ==
    /\ listenerPc[d] = "lock"
    /\ disconnectionMutex' = [disconnectionMutex EXCEPT ![d] = "listener"]
    /\ replicationStatusActive' =
          (replicationStatusActive /\ d \notin {syncState.source, syncState.destiny})
    /\ orphans' = [orphans EXCEPT ![d] = pendingJobs[d] \o sendedJobs[d]]
    /\ listenerPc' = [listenerPc EXCEPT ![d] = "remove"]
    /\ UNCHANGED <<praidUp, storageVars, redistributionMutex, syncState,
                   entry, pfsVars, senderVars, listenerJob, candidate,
                   outsideVars, historyVars>>

\* processDisconnection: a copy the disk took part in is given up, and the
\* jobs queued on the disk or sent to it are collected.
ListenerCollect(d) ==
    /\ listenerPc[d] = "lock"
    /\ disconnectionMutex[d] = "free"
    /\ disconnectionMutex' = [disconnectionMutex EXCEPT ![d] = "listener"]
    /\ replicationStatusActive' =
          (replicationStatusActive /\ d \notin {syncState.source, syncState.destiny})
    /\ orphans' = [orphans EXCEPT ![d] = pendingJobs[d] \o sendedJobs[d]]
    /\ listenerPc' = [listenerPc EXCEPT ![d] = "remove"]
    /\ UNCHANGED <<praidUp, storageVars, redistributionMutex, syncState,
                   entry, pfsVars, senderVars, listenerJob, candidate,
                   outsideVars, historyVars>>

\* The storage leaves the list and its socket is closed.
ListenerRemove(d) ==
    /\ listenerPc[d] = "remove"
    /\ unlinked' = [unlinked EXCEPT ![d] = NextStorage(d)]
    /\ ppdStorages' = Unlink(ppdStorages, d)
    /\ IF ~HasGet(orphans[d])
       THEN /\ listenerPc' = [listenerPc EXCEPT ![d] = "done"]
            /\ disconnectionMutex' = [disconnectionMutex EXCEPT ![d] = "free"]
       ELSE /\ listenerPc' = [listenerPc EXCEPT ![d] = "select"]
            /\ UNCHANGED disconnectionMutex
    /\ UNCHANGED <<praidUp, connected, queueVars, redistributionMutex,
                   syncVars, entry, pfsVars, senderVars, heldVars,
                   outsideVars, historyVars>>

\* Every lock the listener holds is given back and the thread ends.
ListenerFinish(d) ==
    /\ listenerPc' = [listenerPc EXCEPT ![d] = "done"]
    /\ disconnectionMutex' = [disconnectionMutex EXCEPT ![d] = "free"]
    /\ redistributionMutex' = None

\* redistributeJobs: one orphan at a time goes to the best disk of the
\* moment; with no disk left the remaining orphans are dropped.
ListenerSelect(d) ==
    /\ listenerPc[d] = "select"
    /\ redistributionMutex \in {None, d}
    /\ candidate' = [candidate EXCEPT ![d] = SelectStorage]
    /\ IF SelectStorage = None
       THEN ListenerFinish(d)
       ELSE /\ listenerPc' = [listenerPc EXCEPT ![d] = "assign"]
            /\ redistributionMutex' = d
            /\ UNCHANGED disconnectionMutex
    /\ UNCHANGED <<praidUp, storageVars, syncVars, entry, pfsVars, senderVars,
                   listenerJob, orphans, outsideVars, historyVars>>

ListenerAssign(d) ==
    /\ listenerPc[d] = "assign"
    /\ QueuePut(candidate[d], orphans[d][NextGet(orphans[d])])
    /\ orphans' = [orphans EXCEPT ![d] = AfterGet(@)]
    /\ IF ~HasGet(AfterGet(orphans[d]))
       THEN ListenerFinish(d)
       ELSE /\ listenerPc' = [listenerPc EXCEPT ![d] = "select"]
            /\ UNCHANGED <<lockVars>>
    /\ UNCHANGED <<praidUp, listVars, connected, sendedJobs, pendingResponses,
                   syncVars, entry, pfsVars, senderVars, listenerJob,
                   candidate, outsideVars, historyVars>>

-----------------------------------------------------------------------------
(* The disk processes (grage-ppd), as the PRAID sees them.                 *)

EmptyVolume == [s \in Sector |-> {}]

\* The thread that reads the socket; while it sends its volume it reads
\* nothing.
PpdReady(d, kind) ==
    /\ ppd[d] = "up"
    /\ streaming[d] = None
    /\ toPpd[d] # <<>>
    /\ Head(toPpd[d]).kind = kind

PpdReceiveJob(d) ==
    /\ PpdReady(d, "job")
    /\ toPpd' = [toPpd EXCEPT ![d] = Tail(@)]
    /\ jobsQueue' = [jobsQueue EXCEPT ![d] = @ \cup {Head(toPpd[d]).job}]
    /\ UNCHANGED <<praidUp, praidVars, threadVars, toPraid, inbox, ppd,
                   copyVars, historyVars>>

PpdReceiveSyncGet(d) ==
    /\ PpdReady(d, "syncGet")
    /\ toPpd' = [toPpd EXCEPT ![d] = Tail(@)]
    /\ streaming' = [streaming EXCEPT ![d] = 0]
    /\ snapshot' = [snapshot EXCEPT ![syncState.destiny] = volume[d]]
    /\ UNCHANGED <<praidUp, praidVars, threadVars, toPraid, inbox, ppd,
                   jobsQueue, restoring, volume, sentTo>>

\* Altered: every piece truncates the file.
PpdReceiveSyncPutAnew(d) ==
    /\ PpdReady(d, "syncPut")
    /\ toPpd' = [toPpd EXCEPT ![d] = Tail(@)]
    /\ LET at == IF restoring[d] = None THEN 0 ELSE restoring[d]
       IN /\ restoring' = [restoring EXCEPT ![d] = at + 1]
          /\ volume' = [volume EXCEPT ![d] = [EmptyVolume EXCEPT ![at] = Head(toPpd[d]).data]]
    /\ UNCHANGED <<praidUp, praidVars, threadVars, toPraid, inbox, ppd,
                   jobsQueue, streaming, historyVars>>

\* replicatePut: the first piece truncates the file, and every piece lands
\* where the file position stands.
PpdReceiveSyncPut(d) ==
    /\ PpdReady(d, "syncPut")
    /\ toPpd' = [toPpd EXCEPT ![d] = Tail(@)]
    /\ LET at   == IF restoring[d] = None THEN 0 ELSE restoring[d]
           file == IF restoring[d] = None THEN EmptyVolume ELSE volume[d]
       IN /\ restoring' = [restoring EXCEPT ![d] = at + 1]
          /\ volume' = [volume EXCEPT ![d] = [file EXCEPT ![at] = Head(toPpd[d]).data]]
    /\ UNCHANGED <<praidUp, praidVars, threadVars, toPraid, inbox, ppd,
                   jobsQueue, streaming, historyVars>>

\* finishReplication: the file is closed.
PpdReceiveSyncEnd(d) ==
    /\ PpdReady(d, "syncEnd")
    /\ toPpd' = [toPpd EXCEPT ![d] = Tail(@)]
    /\ restoring' = [restoring EXCEPT ![d] = None]
    /\ UNCHANGED <<praidUp, praidVars, threadVars, toPraid, inbox, ppd,
                   jobsQueue, streaming, volume, historyVars>>

\* processFileSectors: the volume goes out sector by sector, then the end.
PpdStream(d) ==
    /\ ppd[d] = "up"
    /\ streaming[d] \in Sector
    /\ toPraid' = [toPraid EXCEPT ![d] =
          Append(@, [kind |-> "syncPut", data |-> volume[d][streaming[d]]])]
    /\ streaming' = [streaming EXCEPT ![d] = @ + 1]
    /\ UNCHANGED <<praidUp, praidVars, threadVars, toPpd, inbox, ppd,
                   jobsQueue, restoring, volume, historyVars>>

PpdStreamEnd(d) ==
    /\ ppd[d] = "up"
    /\ streaming[d] = Sectors
    /\ toPraid' = [toPraid EXCEPT ![d] = Append(@, [kind |-> "syncEnd"])]
    /\ streaming' = [streaming EXCEPT ![d] = None]
    /\ UNCHANGED <<praidUp, praidVars, threadVars, toPpd, inbox, ppd,
                   jobsQueue, restoring, volume, historyVars>>

\* Altered: a job that has been done stays queued.
PpdReadKeeps(d) ==
    /\ ppd[d] = "up"
    /\ \E j \in jobsQueue[d] :
          /\ IsGet(j)
          /\ toPraid' = [toPraid EXCEPT ![d] = Append(@, [kind |-> "answer", job |-> j])]
    /\ UNCHANGED <<praidUp, praidVars, threadVars, toPpd, inbox, ppd,
                   jobsQueue, copyVars, historyVars>>

\* The worker does the queued jobs in an order of its own.
PpdRead(d) ==
    /\ ppd[d] = "up"
    /\ \E j \in jobsQueue[d] :
          /\ IsGet(j)
          /\ jobsQueue' = [jobsQueue EXCEPT ![d] = @ \ {j}]
          /\ toPraid' = [toPraid EXCEPT ![d] = Append(@, [kind |-> "answer", job |-> j])]
    /\ UNCHANGED <<praidUp, praidVars, threadVars, toPpd, inbox, ppd,
                   copyVars, historyVars>>

PpdWrite(d) ==
    /\ ppd[d] = "up"
    /\ \E j \in jobsQueue[d] :
          /\ ~IsGet(j)
          /\ jobsQueue' = [jobsQueue EXCEPT ![d] = @ \ {j}]
          /\ volume' = [volume EXCEPT ![d][j.sector] = @ \cup {j}]
    /\ UNCHANGED <<praidUp, praidVars, threadVars, socketVars, ppd, streaming,
                   restoring, historyVars>>

Fallen == {d \in Ppd : ppd[d] = "down"}

\* A disk process dies.  What it has written to its socket can still be read.
PpdCrash(d) ==
    /\ ppd[d] = "up"
    /\ Cardinality(Fallen) < MaxCrash
    /\ ppd' = [ppd EXCEPT ![d] = "down"]
    /\ toPpd' = [toPpd EXCEPT ![d] = <<>>]
    /\ jobsQueue' = [jobsQueue EXCEPT ![d] = {}]
    /\ streaming' = [streaming EXCEPT ![d] = None]
    /\ restoring' = [restoring EXCEPT ![d] = None]
    /\ UNCHANGED <<praidUp, praidVars, threadVars, toPraid, inbox, volume,
                   historyVars>>

-----------------------------------------------------------------------------

Initially(d) == d \in ToSet(InitialPpd)

Init ==
    /\ praidUp = TRUE
    /\ ppdStorages = InitialPpd
    /\ unlinked = [d \in Ppd |-> None]
    /\ connected = [d \in Ppd |-> Initially(d)]
    /\ pendingJobs = [d \in Ppd |-> <<>>]
    /\ sendedJobs = [d \in Ppd |-> <<>>]
    /\ pendingResponses = [d \in Ppd |-> 0]
    /\ disconnectionMutex = [d \in Ppd |-> "free"]
    /\ redistributionMutex = None
    /\ replicationStatusActive = FALSE
    /\ syncState = [source |-> None, destiny |-> None]
    /\ entry = [pc |-> "accept", destiny |-> None, master |-> None]
    /\ pfsPc = [c \in Pfs |-> "off"]
    /\ pfsAt = [c \in Pfs |-> None]
    /\ pfsNext = [c \in Pfs |-> None]
    /\ senderPc = [d \in Ppd |-> IF Initially(d) THEN "test" ELSE "off"]
    /\ senderJob = [d \in Ppd |-> None]
    /\ listenerPc = [d \in Ppd |-> IF Initially(d) THEN "recv" ELSE "off"]
    /\ listenerJob = [d \in Ppd |-> None]
    /\ orphans = [d \in Ppd |-> <<>>]
    /\ candidate = [d \in Ppd |-> None]
    /\ toPpd = [d \in Ppd |-> <<>>]
    /\ toPraid = [d \in Ppd |-> <<>>]
    /\ inbox = [c \in Pfs |-> <<>>]
    /\ ppd = [d \in Ppd |-> IF Initially(d) THEN "up" ELSE "off"]
    /\ jobsQueue = [d \in Ppd |-> {}]
    /\ streaming = [d \in Ppd |-> None]
    /\ restoring = [d \in Ppd |-> None]
    /\ volume = [d \in Ppd |-> EmptyVolume]
    /\ issued = [c \in Pfs |-> <<>>]
    /\ sentTo = [d \in Ppd |-> <<>>]
    /\ snapshot = [d \in Ppd |-> EmptyVolume]

EntrypointStep ==
    \/ SelectMaster \/ AddPpdStorage \/ SkipReplication
    \/ BeginReplication \/ FireActive \/ FireSynchronization

PfsThreadStep(c) ==
    SelectForGet(c) \/ QueueGet(c) \/ PutNext(c) \/ PutQueue(c) \/ PutDone(c)

Sender(d) ==
    \/ SenderTest(d) \/ SenderWait(d) \/ SenderQuit(d) \/ SenderSend(d)
    \/ SenderRecord(d) \/ SenderCount(d) \/ CountRace(d)

Listener(d) ==
    \/ ListenerAnswer(d) \/ ListenerRespond(d) \/ ListenerUnlist(d)
    \/ ListenerSyncPut(d) \/ ListenerSyncEnd(d) \/ ListenerSyncStop(d)
    \/ ListenerBlank(d) \/ ListenerCollect(d) \/ ListenerRemove(d)
    \/ ListenerSelect(d) \/ ListenerAssign(d)

PpdReceiver(d) ==
    \/ PpdReceiveJob(d) \/ PpdReceiveSyncGet(d) \/ PpdReceiveSyncPut(d)
    \/ PpdReceiveSyncEnd(d) \/ PpdStream(d) \/ PpdStreamEnd(d)

PpdWorker(d) == PpdRead(d) \/ PpdWrite(d)

Next ==
    /\ praidUp
    /\ \/ EntrypointStep
       \/ \E c \in Pfs : AcceptPfs(c) \/ PfsReceive(c) \/ PfsThreadStep(c)
       \/ \E d \in Ppd : \/ AcceptPpd(d) \/ Sender(d) \/ Listener(d)
                         \/ PpdReceiver(d) \/ PpdWorker(d) \/ PpdCrash(d)

Spec == Init /\ [][Next]_vars

-----------------------------------------------------------------------------
(* Safety.                                                                 *)

\* The k-th response read on a connection answers the k-th GET sent on it:
\* no answer is missing, doubled, or given to another connection.  Holds
\* while no disk dies.
AnswersMatch == \A c \in Pfs : IsPrefix(inbox[c], Gets(c))

\* Whatever dies, also when the read was moved to another disk, a response is
\* one of the requests of the connection it is written to.
AnswersIssued ==
    \A c \in Pfs : \A i \in DOMAIN inbox[c] :
        /\ IsGet(inbox[c][i])
        /\ inbox[c][i] \in ToSet(issued[c])

\* A read is answered a second time only when a disk it was sent to has died
\* since, and once more for each such disk: no read is moved twice, kept by
\* the disk it was moved from, or moved while its disk may still answer it.
ReadAgainOnlyAfterDeath ==
    \A c \in Pfs : \A j \in ToSet(Gets(c)) :
        Cardinality({i \in DOMAIN inbox[c] : inbox[c][i] = j})
          <= 1 + Cardinality({d \in Fallen : j \in ToSet(sentTo[d])})

IsPutOf(c, j) == j.conn = c /\ ~IsGet(j)
Puts(c) == SelectSeq(issued[c], LAMBDA j : IsPutOf(c, j))

\* The job comes after every write its connection issued before it.
AfterItsWrites(jobs, i) ==
    LET j == jobs[i] IN
    \A k \in 1 .. j.n - 1 :
        ~IsGet(issued[j.conn][k]) => \E h \in 1 .. i - 1 : jobs[h] = issued[j.conn][k]

\* Every disk that was there from the start is sent the writes of a
\* connection in the order they were issued, each once and with no gap.
PutsInOrder ==
    \A d \in ToSet(InitialPpd) : \A i \in DOMAIN sentTo[d] :
        ~IsGet(sentTo[d][i]) =>
            /\ AfterItsWrites(sentTo[d], i)
            /\ \A h \in 1 .. i - 1 : sentTo[d][h] # sentTo[d][i]

\* A GET reaches a disk after the writes its connection issued before it,
\* also when it was first queued on a disk that has died.
ReadsFollowWrites ==
    \A d \in ToSet(InitialPpd) : \A i \in DOMAIN sentTo[d] :
        IsGet(sentTo[d][i]) => AfterItsWrites(sentTo[d], i)

\* While a listener disposes of its disk, the sender has no job in its hands
\* that is on neither queue, so the collection of orphans misses none.
NoJobInHands ==
    \A d \in Ppd : listenerPc[d] \in {"remove", "select", "assign"} => senderJob[d] = None

\* The entrypoint never starts a copy without a source.
MasterExists == entry.pc \in {"sleep", "fire"} => entry.master \in Ppd

\* A disk is sent no job while it is the destiny of the copy that is on, and
\* gets none before the copy is on its disk.  Holds while no disk dies.
NoJobsDuringCopy ==
    \A d \in Ppd :
        /\ replicationStatusActive /\ syncState.destiny = d /\ entry.pc # "fire"
             => sentTo[d] = <<>>
        /\ restoring[d] # None => jobsQueue[d] = {}

\* A copy ends with everything the source held when it was asked for it.
\* Holds while no disk dies.
CopyComplete ==
    [][\A d \in Ppd :
          restoring[d] # None /\ restoring'[d] = None /\ ppd'[d] = "up"
            => \A s \in Sector : snapshot[d][s] \subseteq volume[d][s]]_vars

\* No copy undoes a write a disk has done.  Holds while no disk dies.
WritesNotUndone ==
    [][\A d \in Ppd, s \in Sector : volume[d][s] \subseteq volume'[d][s]]_vars

-----------------------------------------------------------------------------
(* Progress, when the scheduler is fair to every thread and no disk dies.  *)

\* The scheduler runs every thread that can run; nothing makes a PFS or a
\* disk connect, or a PFS send.
Fairness ==
    /\ WF_vars(praidUp /\ EntrypointStep)
    /\ \A c \in Pfs : WF_vars(praidUp /\ PfsThreadStep(c))
    /\ \A d \in Ppd :
          /\ WF_vars(praidUp /\ Sender(d))
          /\ WF_vars(praidUp /\ Listener(d))
          /\ WF_vars(praidUp /\ PpdReceiver(d))
          /\ WF_vars(praidUp /\ PpdWorker(d))

FairSpec == Spec /\ Fairness

\* Every GET is answered.
EveryGetAnswered == \A c \in Pfs : Waiting(c) ~> ~Waiting(c)

\* A write ends up on every disk of the list.
EveryPutWritten ==
    \A c \in Pfs, d \in ToSet(InitialPpd) :
        (Puts(c) # <<>>) ~> (ToSet(Puts(c)) \subseteq UNION {volume[d][s] : s \in Sector})

\* A copy ends, and new disks are accepted again.
ReplicationEnds == replicationStatusActive ~> ~replicationStatusActive
=============================================================================
