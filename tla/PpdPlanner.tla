------------------------------ MODULE PpdPlanner ------------------------------
(***************************************************************************)
(* The planner of a disk process (grage-ppd): the queue of jobs sorted by  *)
(* seek distance, the threads that insert into it, and the worker that     *)
(* takes its first job, does it, and then says where the head is.          *)
(*                                                                         *)
(*   - in listen mode one thread per PFS connection inserts; in connect    *)
(*     mode Conn has one member, the connection of the PRAID;              *)
(*   - an insertion walks the list under its mutex and compares each job   *)
(*     with the new one by their distance to the head;                     *)
(*   - the worker takes under the mutex too, but moves the head with no    *)
(*     lock, so the head may move while an insertion walks.                *)
(*                                                                         *)
(* The sectors per cylinder are set from a pointer when the configuration  *)
(* is read (ppd-configuration.c:181), so that every sector is of cylinder  *)
(* 0 and the position of the head is one word, the sector.  The trace of   *)
(* the console, which sets them anew, is left out.                         *)
(***************************************************************************)
EXTENDS Integers, SequencesExt

CONSTANTS
    Conn,           \* connections that send requests
    Sectors,        \* sectors of the volume
    Requests,       \* what a connection may ask for: [op, sector]
    Budget,         \* bound: requests sent on each connection
    ListenMode,     \* ppd_state_isListenMode(): a GET is waited for
    None            \* nobody, nothing

Sector == 0 .. Sectors - 1

Job == [conn : Conn, n : Nat \ {0}, op : {"get", "put"}, sector : Sector]

ASSUME PlannerAssumption ==
    /\ Sectors \in Nat \ {0}
    /\ Budget \in [Conn -> Nat]
    /\ ListenMode \in BOOLEAN
    /\ Requests \subseteq [op : {"get", "put"}, sector : Sector]
    /\ None \notin Conn
    /\ None \notin Job

VARIABLES
    algorithm,      \* getPpdAlgoritmo()
    jobsQueue,      \* the list of jobs
    mutex,          \* who holds its mutex, of those that insert
    posicionActual, \* the sector the head stands at
    receiverPc,     \* a thread that serves a connection,
    aux,            \* the place its walk has reached,
    seen,           \* positions the walk has compared with (history)
    workerPc,       \* the worker,
    workerJob,      \* and the job in its hands
    issued,         \* requests of a connection, in order
    done,           \* jobs done; a GET that is done is answered
    dropped,        \* jobs that fell off the list (history)
    sortedFor       \* positions the queued jobs were compared with (history)

receiverVars == <<mutex, receiverPc, aux, seen>>
workerVars == <<workerPc, workerJob>>
listVars == <<jobsQueue, dropped, sortedFor>>
vars == <<algorithm, posicionActual, issued, receiverVars, workerVars, listVars,
          done>>

TypeOK ==
    /\ algorithm \in {"sstf", "look"}
    /\ jobsQueue \in Seq(Job)
    /\ mutex \in Conn \cup {None}
    /\ posicionActual \in Sector
    /\ receiverPc \in [Conn -> {"receive", "put", "walk", "link"}]
    /\ aux \in Nat
    /\ seen \in SUBSET Sector
    /\ workerPc \in {"pick", "do", "move"}
    /\ workerJob \in Job \cup {None}
    /\ issued \in [Conn -> Seq(Job)]
    /\ done \in SUBSET Job
    /\ dropped \in SUBSET Job
    /\ sortedFor \in SUBSET Sector

-----------------------------------------------------------------------------
(* The sorting criteria: does the queued job stay before the new one?      *)

Distance(p, s) == IF p >= s THEN p - s ELSE s - p

\* Altered: of two jobs equally far the new one goes first.
StaysBeforeUnlessEqual(p, old, new) ==
    Distance(p, old.sector) < Distance(p, new.sector)

StaysBefore(p, old, new) ==
    \/ Distance(p, old.sector) <= Distance(p, new.sector)
    \/ algorithm = "look" /\ new.sector < p

-----------------------------------------------------------------------------
(* The threads that insert.                                                *)

IsGet(j) == j.op = "get"
LastRequest(c) == issued[c][Len(issued[c])]

\* A file system waits for the answer of its GET; the PRAID for none.
MaySend(c) == ListenMode => \A j \in ToSet(issued[c]) : IsGet(j) => j \in done

Receive(c) ==
    /\ receiverPc[c] = "receive"
    /\ MaySend(c)
    /\ Len(issued[c]) < Budget[c]
    /\ \E r \in Requests :
          issued' = [issued EXCEPT ![c] =
              Append(@, [conn |-> c, n |-> Len(@) + 1, op |-> r.op, sector |-> r.sector])]
    /\ receiverPc' = [receiverPc EXCEPT ![c] = "put"]
    /\ UNCHANGED <<algorithm, posicionActual, mutex, aux, seen, workerVars,
                   listVars, done>>

\* commons_list_addNode on an empty list compares nothing.
PutFirst(c) ==
    /\ receiverPc[c] = "put"
    /\ mutex = None
    /\ jobsQueue = <<>>
    /\ jobsQueue' = <<LastRequest(c)>>
    /\ sortedFor' = {}
    /\ receiverPc' = [receiverPc EXCEPT ![c] = "receive"]
    /\ UNCHANGED <<algorithm, posicionActual, mutex, aux, seen, workerVars,
                   issued, dropped, done>>

Put(c) ==
    /\ receiverPc[c] = "put"
    /\ mutex = None
    /\ jobsQueue # <<>>
    /\ mutex' = c
    /\ aux' = 1
    /\ receiverPc' = [receiverPc EXCEPT ![c] = "walk"]
    /\ UNCHANGED <<algorithm, posicionActual, seen, workerVars, issued,
                   listVars, done>>

\* The next job stays before the new one: the walk goes on.
Walk(c) ==
    /\ receiverPc[c] = "walk"
    /\ aux < Len(jobsQueue)
    /\ StaysBefore(posicionActual, jobsQueue[aux + 1], LastRequest(c))
    /\ aux' = aux + 1
    /\ seen' = seen \cup {posicionActual}
    /\ UNCHANGED <<algorithm, posicionActual, mutex, receiverPc, workerVars,
                   issued, listVars, done>>

\* It does not: the walk ends.
WalkEnd(c) ==
    /\ receiverPc[c] = "walk"
    /\ aux < Len(jobsQueue)
    /\ ~StaysBefore(posicionActual, jobsQueue[aux + 1], LastRequest(c))
    /\ receiverPc' = [receiverPc EXCEPT ![c] = "link"]
    /\ seen' = seen \cup {posicionActual}
    /\ UNCHANGED <<algorithm, posicionActual, mutex, aux, workerVars, issued,
                   listVars, done>>

\* The walk is over and the new job gets its place: after aux or, when aux
\* itself does not stay before it, at the front of the list, followed by
\* aux.  What was before aux is on the list no more.
Linking(c) ==
    \/ receiverPc[c] = "link"
    \/ receiverPc[c] = "walk" /\ aux = Len(jobsQueue)

Compared == seen \cup {posicionActual}

\* Altered: no last comparison, as in the lines commented out (list:69-74).
LinkAfterAlways(c) ==
    /\ jobsQueue' = InsertAt(jobsQueue, aux + 1, LastRequest(c))
    /\ UNCHANGED dropped

LinkAfter(c) ==
    /\ StaysBefore(posicionActual, jobsQueue[aux], LastRequest(c))
    /\ jobsQueue' = InsertAt(jobsQueue, aux + 1, LastRequest(c))
    /\ UNCHANGED dropped

\* Altered: the new job takes the place of aux.
LinkInFrontOver(c) ==
    /\ ~StaysBefore(posicionActual, jobsQueue[aux], LastRequest(c))
    /\ jobsQueue' = <<LastRequest(c)>> \o SubSeq(jobsQueue, aux + 1, Len(jobsQueue))
    /\ dropped' = dropped \cup {jobsQueue[i] : i \in 1 .. aux}

LinkInFront(c) ==
    /\ ~StaysBefore(posicionActual, jobsQueue[aux], LastRequest(c))
    /\ jobsQueue' = <<LastRequest(c)>> \o SubSeq(jobsQueue, aux, Len(jobsQueue))
    /\ dropped' = dropped \cup {jobsQueue[i] : i \in 1 .. aux - 1}

\* Altered: the mutex is kept.
LinkKeepsMutex(c) ==
    /\ Linking(c)
    /\ LinkAfter(c) \/ LinkInFront(c)
    /\ sortedFor' = Compared \cup (IF Len(jobsQueue) = 1 THEN {} ELSE sortedFor)
    /\ seen' = {}
    /\ aux' = 0
    /\ receiverPc' = [receiverPc EXCEPT ![c] = "receive"]
    /\ UNCHANGED <<algorithm, posicionActual, mutex, workerVars, issued, done>>

Link(c) ==
    /\ Linking(c)
    /\ LinkAfter(c) \/ LinkInFront(c)
    /\ sortedFor' = Compared \cup (IF Len(jobsQueue) = 1 THEN {} ELSE sortedFor)
    /\ mutex' = None
    /\ seen' = {}
    /\ aux' = 0
    /\ receiverPc' = [receiverPc EXCEPT ![c] = "receive"]
    /\ UNCHANGED <<algorithm, posicionActual, workerVars, issued, done>>

-----------------------------------------------------------------------------
(* The worker.                                                             *)

\* It spins until there is a job, waits the delay of its kind, and takes the
\* job that is then the first.
PickFromQueue ==
    /\ workerPc = "pick"
    /\ jobsQueue # <<>>
    /\ mutex = None
    /\ workerJob' = Head(jobsQueue)
    /\ jobsQueue' = Tail(jobsQueue)
    /\ workerPc' = "do"
    /\ UNCHANGED <<algorithm, posicionActual, receiverVars, issued, dropped,
                   sortedFor, done>>

\* The sector is read and answered, or written.
DoJob ==
    /\ workerPc = "do"
    /\ done' = done \cup {workerJob}
    /\ workerPc' = "move"
    /\ UNCHANGED <<algorithm, posicionActual, workerJob, receiverVars, issued,
                   listVars>>

\* Altered: the head is left one sector further.
MoveHeadPast ==
    /\ workerPc = "move"
    /\ posicionActual' = workerJob.sector + 1
    /\ workerJob' = None
    /\ workerPc' = "pick"
    /\ UNCHANGED <<algorithm, receiverVars, issued, listVars, done>>

\* setearPosicionCabezal, with no lock.
MoveHead ==
    /\ workerPc = "move"
    /\ posicionActual' = workerJob.sector
    /\ workerJob' = None
    /\ workerPc' = "pick"
    /\ UNCHANGED <<algorithm, receiverVars, issued, listVars, done>>

-----------------------------------------------------------------------------

Init ==
    /\ algorithm \in {"sstf", "look"}
    /\ jobsQueue = <<>>
    /\ mutex = None
    /\ posicionActual = 0
    /\ receiverPc = [c \in Conn |-> "receive"]
    /\ aux = 0
    /\ seen = {}
    /\ workerPc = "pick"
    /\ workerJob = None
    /\ issued = [c \in Conn |-> <<>>]
    /\ done = {}
    /\ dropped = {}
    /\ sortedFor = {}

Insertion(c) == PutFirst(c) \/ Put(c) \/ Walk(c) \/ WalkEnd(c) \/ Link(c)

Worker == PickFromQueue \/ DoJob \/ MoveHead

Next ==
    \/ \E c \in Conn : Receive(c) \/ Insertion(c)
    \/ Worker

Spec == Init /\ [][Next]_vars

\* The scheduler runs the worker and every thread that is inserting; nothing
\* makes a client send.
Fairness ==
    /\ WF_vars(Worker)
    /\ \A c \in Conn : WF_vars(Insertion(c))

FairSpec == Spec /\ Fairness

-----------------------------------------------------------------------------
(* Safety.                                                                 *)

InWorkersHands == {j \in {workerJob} : workerPc = "do"}

\* However threads interleave, no job is on the list twice, done twice, or
\* done and still to be done.
DoneOnce ==
    /\ IsInjective(jobsQueue)
    /\ InWorkersHands \cap ToSet(jobsQueue) = {}
    /\ done \cap (InWorkersHands \cup ToSet(jobsQueue)) = {}

\* An insertion through which the head has stood still keeps every job of
\* the list, although its walk skips the first one.
KeptWhileStill ==
    [][\A c \in Conn :
          Linking(c) /\ receiverPc'[c] = "receive" /\ Compared = {posicionActual}
            => ToSet(jobsQueue') = ToSet(jobsQueue) \cup {LastRequest(c)}]_vars

\* Every pair of jobs of the list was ordered by one and the same position.
OnePosition == \E p \in Sector : sortedFor \subseteq {p}

SameSector(j, k) == j.conn = k.conn /\ j.sector = k.sector

\* As long as the jobs of the list were sorted by one position, requests of
\* one connection for one sector wait in the order they were made, by SSTF
\* (ppd-algorythm-strategy.c:26-37).
SectorOrder ==
    algorithm = "sstf" /\ OnePosition =>
        \A i, k \in DOMAIN jobsQueue :
            i < k /\ SameSector(jobsQueue[i], jobsQueue[k])
              => jobsQueue[i].n < jobsQueue[k].n

\* As long as the jobs of the list were sorted by one position, SSTF puts
\* the shortest seek from there first, and the others in order.
ShortestSeekFirst ==
    algorithm = "sstf" =>
        \A p \in sortedFor : sortedFor = {p} =>
            \A i, k \in DOMAIN jobsQueue :
                i < k => Distance(p, jobsQueue[i].sector) <= Distance(p, jobsQueue[k].sector)

-----------------------------------------------------------------------------
(* What a comment in the code says, and the code does not keep.            *)

\* "This list has synchronized access to add and remove elements"
\* (linux-commons-list.c:4-5): no element is lost.
EveryJobKept == dropped = {}

-----------------------------------------------------------------------------
(* Progress.                                                               *)

Finished(c) == ToSet(issued[c]) \subseteq done \cup dropped

\* Every request is done, but for those that fell off the list: SSTF starves
\* none of finitely many, and nobody waits for the mutex for ever.
EveryJobDone == \A c \in Conn : []<>Finished(c)
=============================================================================
