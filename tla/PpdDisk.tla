-------------------------------- MODULE PpdDisk --------------------------------
(***************************************************************************)
(* A disk process (grage-ppd) in connect mode, and the console process it  *)
(* starts (grage-ppd-console).  Four threads of control:                   *)
(*                                                                         *)
(*   receiver - the disk's main thread: it launches the console, reads     *)
(*              what the PRAID sends, queues the jobs, and takes part in a *)
(*              copy as its source or its destiny;                         *)
(*   worker   - does the queued jobs on the mapped volume, moves the head, *)
(*              and under SSTF traces a seek for the console;              *)
(*   service  - answers the console, and traces for it otherwise;          *)
(*   console  - the other process, its one request at a time.              *)
(*                                                                         *)
(* The order in which the worker takes its jobs, and the insertion into    *)
(* its queue, are those of PpdPlanner: here it takes any of them.  What a  *)
(* sector holds is left out, and the times but for the refusal of a trace. *)
(* The disk's console is enabled, and a wait for the condition variable    *)
(* ends only by a signal.                                                  *)
(***************************************************************************)
EXTENDS Integers, Sequences

CONSTANTS
    Cylinders,          \* ppd.configuration.cilinder
    PerTrack,           \* ppd.configuration.sector
    Jumped,             \* sectors that pass under the head while it changes
                        \* track: salto.pista / read.time + 1
    Pointer,            \* what perCylinder is before the first trace
    Word,               \* bound: a sector number counts modulo this (2^32)
    IntMax,             \* bound: the largest int (2^31 - 1)
    VolumeSizes,        \* what the file of the volume may hold at the start,
                        \* and after a copy, in sectors
    JobSectors,         \* sectors the PRAID asks for
    Jobs,               \* bound: jobs it sends
    Copies,             \* bound: copies it starts
    Lists,              \* what may be typed after "trace"
    Commands,           \* bound: commands typed
    Junk,               \* digits that may follow in uninitialised memory
    None

\* What is configured and what is asked for are words.  A job whose sector is
\* perCylinder * pista + sector splits again into the two, before the first
\* trace too: the pointer is larger than any sector of a track.
ASSUME DiskAssumption ==
    /\ {Cylinders, PerTrack} \subseteq 1 .. Word - 1
    /\ Word \in Nat
    /\ Jumped \in Nat
    /\ VolumeSizes \subseteq Nat
    /\ JobSectors \subseteq 0 .. Word - 1
    /\ {Jobs, Copies, Commands} \subseteq Nat
    /\ Pointer \in Nat /\ PerTrack < Pointer
    /\ Lists \subseteq {l \in Seq(Nat) : Len(l) \in 1 .. 5}
    /\ Junk \subseteq 0 .. 9
    /\ None \notin Nat

\* The product is an int for whatever may be typed, a stray digit included.
ASSUME IntAssumption ==
    /\ IntMax \in Nat
    /\ \A l \in Lists : \A i \in DOMAIN l : \A c \in {Pointer, Cylinders} :
          ((10 * l[i] + 9) \div PerTrack) * c + PerTrack <= IntMax

VARIABLES
    algorithm,      \* getPpdAlgoritmo()
    up,             \* the process of the disk is alive
    pc,             \* where each thread of control stands
    file,           \* length of the volume's file, None if there is none
    volumeSize,
    address,        \* diskStartAddress: NULL, or that of the last mapping
    mapped,         \* the sectors mapped from there
    replicationProcessActive,
    jobsQueue,      \* jobs of the queue, numbered
    job,            \* the worker's
    posicionActual, \* the head
    perCylinder,    \* cantidadSectoresPorCilindro of the disk
    walk,           \* TiempoConsumido under way, or its result
    listening,      \* the disk's end of the console's socket
    toDisk, toConsole,  \* what is in it
    list,           \* the console: the sectors still to trace,
    consolePerTrack,    \* cantidadSectoresPorCilindro of the console,
    reached,        \* and the last sector of the trace it printed
    sent, started, typed,   \* jobs, copies and commands so far
    wakeUpLost      \* the worker signalled while nobody slept (history)

volumeVars == <<file, volumeSize, address, mapped, replicationProcessActive>>
queueVars == <<jobsQueue, job>>
headVars == <<posicionActual, perCylinder, walk>>
socketVars == <<listening, toDisk, toConsole>>
consoleVars == <<list, consolePerTrack, reached, typed>>
outsideVars == <<sent, started, wakeUpLost>>
vars == <<algorithm, up, pc, volumeVars, queueVars, headVars, socketVars,
          consoleVars, outsideVars>>

Position == [pista : Nat, sectorNumber : Nat]
MessageConsolePPD ==
    [messageID : {"posicion", "porCilindro", "recorridos", "tiempo", "error"},
     pistaSector : Position]

TypeOK ==
    /\ algorithm \in {"sstf", "look"}
    /\ up \in BOOLEAN
    /\ pc["receiver"] \in {"fork", "listen", "accept", "receive", "stream",
                           "size", "unmap", "map"}
    /\ pc["worker"] \in {"off", "pick", "do", "walk", "echo", "track", "sector",
                         "signal", "answer", "move", "arrive"}
    /\ pc["service"] \in {"off", "start", "origin", "receive", "lock", "wait",
                          "walk", "echo", "track", "sector", "answer"}
    /\ pc["console"] \in {"off", "exec", "prompt", "info", "where", "geometry",
                          "trace", "unconnected", "spins", "dead"}
    /\ file \in Nat \cup {None}
    /\ volumeSize \in Nat /\ mapped \subseteq Nat
    /\ address \in {"NULL", "mapped"}
    /\ replicationProcessActive \in BOOLEAN
    /\ \A j \in jobsQueue \cup ({job} \ {None}) :
          j.n \in 0 .. Jobs /\ j.op \in {"get", "put", "trace"} /\ j.sector \in Nat
    /\ posicionActual \in Position
    /\ posicionActual.sectorNumber < Word
    /\ perCylinder \in {Pointer, Cylinders}
    /\ listening \in BOOLEAN
    /\ toDisk \in Seq(MessageConsolePPD) /\ toConsole \in Seq(MessageConsolePPD)
    /\ list \in Seq(Nat)
    /\ consolePerTrack \in {0, PerTrack}
    /\ reached \in Position \cup {None}
    /\ wakeUpLost \in BOOLEAN
    /\ sent \in 0 .. Jobs /\ started \in 0 .. Copies /\ typed \in 0 .. Commands

Go(t, to) == pc' = [pc EXCEPT ![t] = to]
At(t, here) == up /\ pc[t] = here

Message(id, p, s) == [messageID |-> id, pistaSector |-> [pista |-> p, sectorNumber |-> s]]
Blank(id) == Message(id, 0, 0)
Answer(m) == toConsole' = Append(toConsole, m)

-----------------------------------------------------------------------------
(* The launch of the disk and of its console.                              *)

\* The console is forked; it is another program only after its exec.
Fork ==
    /\ At("receiver", "fork")
    /\ pc' = [pc EXCEPT !["receiver"] = "listen", !["console"] = "exec",
                        !["worker"] = "pick"]
    /\ UNCHANGED <<algorithm, up, volumeVars, queueVars, headVars, socketVars,
                   consoleVars, outsideVars>>

Listen ==
    /\ At("receiver", "listen")
    /\ listening' = TRUE
    /\ Go("receiver", "accept")
    /\ UNCHANGED <<algorithm, up, volumeVars, queueVars, headVars, toDisk,
                   toConsole, consoleVars, outsideVars>>

\* ppd_console_connect tries once: before the disk listens it fails, and the
\* interpreter runs all the same.
Connect ==
    /\ pc["console"] = "exec"
    /\ Go("console", IF listening THEN "prompt" ELSE "unconnected")
    /\ UNCHANGED <<algorithm, up, volumeVars, queueVars, headVars, socketVars,
                   consoleVars, outsideVars>>

Connected == pc["console"] \in {"prompt", "info", "where", "geometry", "trace"}

\* Altered: the disk then listens for another console.
AcceptAgain ==
    /\ At("receiver", "accept")
    /\ Connected
    /\ pc' = [pc EXCEPT !["receiver"] = "listen", !["service"] = "start"]
    /\ UNCHANGED <<algorithm, up, volumeVars, queueVars, headVars, socketVars,
                   consoleVars, outsideVars>>

Accept ==
    /\ At("receiver", "accept")
    /\ Connected
    /\ pc' = [pc EXCEPT !["receiver"] = "receive", !["service"] = "start"]
    /\ UNCHANGED <<algorithm, up, volumeVars, queueVars, headVars, socketVars,
                   consoleVars, outsideVars>>

-----------------------------------------------------------------------------
(* The receiver.                                                           *)

ReceiveJob ==
    /\ At("receiver", "receive")
    /\ sent < Jobs
    /\ \E op \in {"get", "put"}, s \in JobSectors :
          jobsQueue' = jobsQueue \cup {[n |-> sent + 1, op |-> op, sector |-> s]}
    /\ sent' = sent + 1
    /\ UNCHANGED <<algorithm, up, pc, volumeVars, job, headVars, socketVars,
                   consoleVars, started, wakeUpLost>>

\* SYNC_PUT_SECTOR: the pieces of a copy, the first of which empties the
\* file; one action for all of them.  Pieces and jobs may come in turns.
ReceiveSyncPut ==
    /\ At("receiver", "receive")
    /\ ~replicationProcessActive
    /\ started < Copies
    /\ started' = started + 1
    /\ file' = 0
    /\ replicationProcessActive' = TRUE
    /\ UNCHANGED <<algorithm, up, pc, volumeSize, address, mapped, queueVars,
                   headVars, socketVars, consoleVars, sent, wakeUpLost>>

ReplicatePut ==
    /\ At("receiver", "receive")
    /\ replicationProcessActive
    /\ \E size \in VolumeSizes : file < size
    /\ file' = file + 1
    /\ UNCHANGED <<algorithm, up, pc, volumeSize, address, mapped,
                   replicationProcessActive, queueVars, headVars, socketVars,
                   consoleVars, outsideVars>>

\* SYNC_END; it does nothing on a disk that got no piece.
ReceiveSyncEnd ==
    /\ At("receiver", "receive")
    /\ file \in VolumeSizes
    /\ replicationProcessActive
    /\ Go("receiver", "size")
    /\ UNCHANGED <<algorithm, up, volumeVars, queueVars, headVars, socketVars,
                   consoleVars, outsideVars>>

\* SYNC_GET_SECTOR: replicateGet opens the file, or ends the process ...
ReceiveSyncGet ==
    /\ At("receiver", "receive")
    /\ ~replicationProcessActive
    /\ started < Copies
    /\ started' = started + 1
    /\ up' = (file # None)
    /\ replicationProcessActive' = TRUE
    /\ Go("receiver", "stream")
    /\ UNCHANGED <<algorithm, file, volumeSize, address, mapped, queueVars,
                   headVars, socketVars, consoleVars, sent, wakeUpLost>>

\* ... and sends all of it.
Stream ==
    /\ At("receiver", "stream")
    /\ Go("receiver", "size")
    /\ UNCHANGED <<algorithm, up, volumeVars, queueVars, headVars, socketVars,
                   consoleVars, outsideVars>>

\* finishReplication: the size anew, ...
InitializeVolumeSize ==
    /\ At("receiver", "size")
    /\ volumeSize' = file
    /\ Go("receiver", IF address = "NULL" THEN "map" ELSE "unmap")
    /\ UNCHANGED <<algorithm, up, file, address, mapped,
                   replicationProcessActive, queueVars, headVars, socketVars,
                   consoleVars, outsideVars>>

\* The sectors of a volume of that size (a sector is taken for a page).
Sectors(size) == 0 .. size - 1

\* ... the old mapping away, but in the size of the new one: of a volume that
\* has shrunk the tail stays mapped; of one that has grown what follows the
\* mapping goes with it, which may be memory that the process lives on; and
\* of no sector at all it is refused, and the process ends.  The address is
\* kept ...
UnmapDevice ==
    /\ At("receiver", "unmap")
    /\ mapped' = mapped \ Sectors(volumeSize)
    /\ up' \in BOOLEAN
    /\ volumeSize = 0 => ~up'
    /\ volumeSize # 0 /\ Sectors(volumeSize) \subseteq mapped => up'
    /\ Go("receiver", "map")
    /\ UNCHANGED <<algorithm, file, volumeSize, address, replicationProcessActive,
                   queueVars, headVars, socketVars, consoleVars, outsideVars>>

\* Altered: the copy is over before the volume is mapped again.
MapDeviceLate ==
    /\ At("receiver", "map")
    /\ IF replicationProcessActive
       THEN /\ replicationProcessActive' = FALSE
            /\ UNCHANGED <<up, address, mapped, pc>>
       ELSE /\ up' = (volumeSize # 0)
            /\ address' = "mapped"
            /\ mapped' = Sectors(volumeSize)
            /\ Go("receiver", "receive")
            /\ UNCHANGED replicationProcessActive
    /\ UNCHANGED <<algorithm, file, volumeSize, queueVars, headVars,
                   socketVars, consoleVars, outsideVars>>

\* ... and the new one; an empty file cannot be mapped.
MapDevice ==
    /\ At("receiver", "map")
    /\ up' = (volumeSize # 0)
    /\ address' = "mapped"
    /\ mapped' = Sectors(volumeSize)
    /\ replicationProcessActive' = FALSE
    /\ Go("receiver", "receive")
    /\ UNCHANGED <<algorithm, file, volumeSize, queueVars, headVars,
                   socketVars, consoleVars, outsideVars>>

\* The PRAID is gone.  The console would be killed, were its number known:
\* only the child sets it, and only when its exec has failed.
Disconnected ==
    /\ At("receiver", "receive")
    /\ up' = FALSE
    /\ UNCHANGED <<algorithm, pc, volumeVars, queueVars, headVars, socketVars,
                   consoleVars, outsideVars>>

-----------------------------------------------------------------------------
(* TiempoConsumido, on the thread t: the worker under SSTF, the service    *)
(* otherwise.                                                              *)

Distance(a, b) == IF a >= b THEN a - b ELSE b - a

\* nuevoSectorActual: where the head is after one change of track ...
NuevoSectorActual(s) ==
    LET final == s + (Jumped % PerTrack)
    IN IF final >= PerTrack THEN final - PerTrack ELSE final

\* ... and after some of them.
AfterTracks(s, tracks) ==
    LET after[i \in 0 .. tracks] ==
            IF i = 0 THEN s ELSE NuevoSectorActual(after[i - 1])
    IN after[tracks]

\* The cylinders of the disk are taken for the sectors of a cylinder.
OutOfRange(p, s) == p * Cylinders + s > PerTrack * Cylinders - 1

BeginWalk(t, p, s) ==
    /\ perCylinder' = Cylinders
    /\ IF OutOfRange(p, s)
       THEN /\ walk' = Blank("error")
            /\ Go(t, IF t = "worker" THEN "signal" ELSE "answer")
       ELSE /\ walk' = [pista |-> p, wanted |-> s,
                        sectorNumber |-> AfterTracks(posicionActual.sectorNumber,
                                                     Distance(posicionActual.pista, p))]
            /\ Go(t, "walk")

NextSector == LET s == (walk.sectorNumber + 1) % Word
              IN IF s = PerTrack THEN 0 ELSE s

\* Altered: the sector that is left is sent, not the one reached.
WalkBehind(t) ==
    /\ At(t, "walk")
    /\ walk.sectorNumber # walk.wanted
    /\ walk' = [walk EXCEPT !.sectorNumber = NextSector]
    /\ Answer(Message("recorridos", walk.pista, walk.sectorNumber))
    /\ Go(t, "echo")
    /\ UNCHANGED <<algorithm, up, volumeVars, queueVars, posicionActual,
                   perCylinder, listening, toDisk, consoleVars, outsideVars>>

Walk(t) ==
    /\ At(t, "walk")
    /\ walk.sectorNumber # walk.wanted
    /\ walk' = [walk EXCEPT !.sectorNumber = NextSector]
    /\ Answer(Message("recorridos", walk.pista, NextSector))
    /\ Go(t, "echo")
    /\ UNCHANGED <<algorithm, up, volumeVars, queueVars, posicionActual,
                   perCylinder, listening, toDisk, consoleVars, outsideVars>>

\* It waits for the console to send the sector back.
Echo(t) ==
    /\ At(t, "echo")
    /\ toDisk # <<>>
    /\ toDisk' = Tail(toDisk)
    /\ Go(t, "walk")
    /\ UNCHANGED <<algorithm, up, volumeVars, queueVars, headVars, listening,
                   toConsole, consoleVars, outsideVars>>

WalkEnd(t) ==
    /\ At(t, "walk")
    /\ walk.sectorNumber = walk.wanted
    /\ Go(t, "track")
    /\ UNCHANGED <<algorithm, up, volumeVars, queueVars, headVars, socketVars,
                   consoleVars, outsideVars>>

\* setearPosicionCabezal writes two words, with no lock.
SetTrack(t, here, p, to) ==
    /\ At(t, here)
    /\ posicionActual' = [posicionActual EXCEPT !.pista = p]
    /\ Go(t, to)
    /\ UNCHANGED <<algorithm, up, volumeVars, jobsQueue, perCylinder,
                   socketVars, consoleVars, outsideVars>>

SetSector(t, here, s, to) ==
    /\ At(t, here)
    /\ posicionActual' = [posicionActual EXCEPT !.sectorNumber = s]
    /\ Go(t, to)
    /\ UNCHANGED <<algorithm, up, volumeVars, jobsQueue, perCylinder,
                   socketVars, consoleVars, outsideVars>>

Arrive(t) ==
    \/ SetTrack(t, "track", walk.pista, "sector") /\ UNCHANGED <<job, walk>>
    \/ /\ SetSector(t, "sector", walk.sectorNumber,
                    IF t = "worker" THEN "signal" ELSE "answer")
       /\ walk' = Message("tiempo", walk.pista, walk.sectorNumber)
       /\ UNCHANGED job

TiempoConsumido(t) == Walk(t) \/ Echo(t) \/ WalkEnd(t) \/ Arrive(t)

-----------------------------------------------------------------------------
(* The worker.                                                             *)

Pista(s) == s \div perCylinder
SectorOfPista(s) == s % perCylinder

PickFromQueue ==
    /\ At("worker", "pick")
    /\ \E j \in jobsQueue : job' = j /\ jobsQueue' = jobsQueue \ {j}
    /\ Go("worker", "do")
    /\ UNCHANGED <<algorithm, up, volumeVars, headVars, socketVars,
                   consoleVars, outsideVars>>

\* The addresses a sector may be read at and written to: those mapped, and
\* not past the end of a file that was cut.
Accessible(s) == address = "mapped" /\ s \in mapped /\ s < file

ReadOrWrite ==
    /\ At("worker", "do")
    /\ job.op # "trace"
    /\ up' = Accessible(job.sector)
    /\ Go("worker", "move")
    /\ UNCHANGED <<algorithm, volumeVars, queueVars, headVars, socketVars,
                   consoleVars, outsideVars>>

\* Altered: the service is woken before the seek is traced.
BeginTraceAwake ==
    /\ At("worker", "do")
    /\ job.op = "trace"
    /\ perCylinder' = Cylinders
    /\ walk' = [pista |-> Pista(job.sector), wanted |-> SectorOfPista(job.sector),
                sectorNumber |-> posicionActual.sectorNumber]
    /\ pc' = [pc EXCEPT !["worker"] = "walk",
                        !["service"] = IF @ = "wait" THEN "receive" ELSE @]
    /\ UNCHANGED <<algorithm, up, volumeVars, queueVars, posicionActual,
                   socketVars, consoleVars, outsideVars>>

BeginTrace ==
    /\ At("worker", "do")
    /\ job.op = "trace"
    /\ BeginWalk("worker", Pista(job.sector), SectorOfPista(job.sector))
    /\ UNCHANGED <<algorithm, up, volumeVars, queueVars, posicionActual,
                   socketVars, consoleVars, outsideVars>>

\* Altered: the signal wakes nobody.
SignalUnheard ==
    /\ At("worker", "signal")
    /\ Go("worker", "answer")
    /\ wakeUpLost' = (pc["service"] # "wait")
    /\ UNCHANGED <<algorithm, up, volumeVars, queueVars, headVars, socketVars,
                   consoleVars, sent, started>>

\* Lost when the service does not wait yet.
Signal ==
    /\ At("worker", "signal")
    /\ pc' = [pc EXCEPT !["worker"] = "answer",
                        !["service"] = IF @ = "wait" THEN "receive" ELSE @]
    /\ wakeUpLost' = (pc["service"] # "wait")
    /\ UNCHANGED <<algorithm, up, volumeVars, queueVars, headVars, socketVars,
                   consoleVars, sent, started>>

AnswerTrace(t, to) ==
    /\ At(t, "answer")
    /\ Answer(walk)
    /\ walk' = None
    /\ Go(t, to)
    /\ UNCHANGED <<algorithm, up, volumeVars, queueVars, posicionActual,
                   perCylinder, listening, toDisk, consoleVars, outsideVars>>

MoveHead ==
    \/ SetTrack("worker", "move", Pista(job.sector), "arrive") /\ UNCHANGED <<job, walk>>
    \/ /\ SetSector("worker", "arrive", SectorOfPista(job.sector), "pick")
       /\ job' = None
       /\ UNCHANGED walk

Worker == \/ PickFromQueue \/ ReadOrWrite \/ BeginTrace
          \/ TiempoConsumido("worker")
          \/ Signal \/ AnswerTrace("worker", "move") \/ MoveHead

-----------------------------------------------------------------------------
(* The service of the console.                                             *)

\* The head goes to the origin when the thread starts.
Origin ==
    \/ SetTrack("service", "start", 0, "origin") /\ UNCHANGED <<job, walk>>
    \/ SetSector("service", "origin", 0, "receive") /\ UNCHANGED <<job, walk>>

Asked(id) ==
    /\ At("service", "receive")
    /\ toDisk # <<>>
    /\ Head(toDisk).messageID = id
    /\ toDisk' = Tail(toDisk)

ServePosition ==
    /\ Asked("posicion")
    /\ Answer([messageID |-> "posicion", pistaSector |-> posicionActual])
    /\ UNCHANGED <<algorithm, up, pc, volumeVars, queueVars, headVars,
                   listening, consoleVars, outsideVars>>

\* Altered: the cylinders are told.
ServeCylinders ==
    /\ Asked("porCilindro")
    /\ Answer(Message("porCilindro", 0, Cylinders))
    /\ UNCHANGED <<algorithm, up, pc, volumeVars, queueVars, headVars,
                   listening, consoleVars, outsideVars>>

ServePerTrack ==
    /\ Asked("porCilindro")
    /\ Answer(Message("porCilindro", 0, PerTrack))
    /\ UNCHANGED <<algorithm, up, pc, volumeVars, queueVars, headVars,
                   listening, consoleVars, outsideVars>>

ServeTrace ==
    /\ algorithm # "sstf"
    /\ Asked("recorridos")
    /\ LET where == Head(toDisk).pistaSector
       IN BeginWalk("service", where.pista, where.sectorNumber)
    /\ UNCHANGED <<algorithm, up, volumeVars, queueVars, posicionActual,
                   listening, toConsole, consoleVars, outsideVars>>

\* Under SSTF the trace is a job of the worker (operation 69), its sector an
\* int that does not overflow (IntAssumption) ...
QueueTrace ==
    /\ algorithm = "sstf"
    /\ Asked("recorridos")
    /\ LET where == Head(toDisk).pistaSector
       IN jobsQueue' = jobsQueue \cup
              {[n |-> 0, op |-> "trace",
                sector |-> where.pista * perCylinder + where.sectorNumber]}
    /\ Go("service", "lock")
    /\ UNCHANGED <<algorithm, up, volumeVars, job, headVars, listening,
                   toConsole, consoleVars, outsideVars>>

\* ... and the service waits until it is signalled.
CondWait ==
    /\ At("service", "lock")
    /\ Go("service", "wait")
    /\ UNCHANGED <<algorithm, up, volumeVars, queueVars, headVars, socketVars,
                   consoleVars, outsideVars>>

Service == \/ Origin
           \/ ServePosition \/ ServePerTrack \/ ServeTrace \/ QueueTrace \/ CondWait
           \/ TiempoConsumido("service")
           \/ AnswerTrace("service", "receive")

-----------------------------------------------------------------------------
(* The console.                                                            *)

\* A message to a disk that is gone ends the console (SIGPIPE).
Ask(m, to) ==
    /\ toDisk' = IF up THEN Append(toDisk, m) ELSE toDisk
    /\ Go("console", IF up THEN to ELSE "dead")

Type == typed < Commands /\ typed' = typed + 1

Info ==
    /\ pc["console"] = "prompt"
    /\ Type
    /\ Ask(Blank("posicion"), "info")
    /\ UNCHANGED <<algorithm, up, volumeVars, queueVars, headVars, listening,
                   toConsole, list, consolePerTrack, reached, outsideVars>>

\* llenarVector reads the first number into memory it has not cleared.
AsRead(s) == {s} \cup {10 * s + d : d \in Junk}

Trace ==
    /\ pc["console"] = "prompt"
    /\ Type
    /\ \E l \in Lists : \E first \in AsRead(l[1]) : list' = <<first>> \o Tail(l)
    /\ Ask(Blank("posicion"), "where")
    /\ UNCHANGED <<algorithm, up, volumeVars, queueVars, headVars, listening,
                   toConsole, consolePerTrack, reached, outsideVars>>

\* "exit" kills the parent, and then ends.
Exit ==
    /\ pc["console"] = "prompt"
    /\ Type
    /\ up' = FALSE
    /\ Go("console", "dead")
    /\ UNCHANGED <<algorithm, volumeVars, queueVars, headVars, socketVars,
                   list, consolePerTrack, reached, outsideVars>>

\* Not connected, a trace prints its own message for ever.
Unconnected ==
    /\ pc["console"] = "unconnected"
    /\ Type
    /\ \/ Go("console", "spins") /\ UNCHANGED up
       \/ Go("console", "dead") /\ up' = FALSE
    /\ UNCHANGED <<algorithm, volumeVars, queueVars, headVars, socketVars,
                   list, consolePerTrack, reached, outsideVars>>

Told(here) ==
    /\ pc["console"] = here
    /\ toConsole # <<>>
    /\ toConsole' = Tail(toConsole)

PrintPosition ==
    /\ Told("info")
    /\ Go("console", "prompt")
    /\ UNCHANGED <<algorithm, up, volumeVars, queueVars, headVars, listening,
                   toDisk, consoleVars, outsideVars>>

AskPerTrack ==
    /\ Told("where")
    /\ Ask(Blank("porCilindro"), "geometry")
    /\ UNCHANGED <<algorithm, up, volumeVars, queueVars, headVars, listening,
                   consoleVars, outsideVars>>

\* Where the console takes a sector to be.
Place(s) == [pista |-> s \div PerTrack, sectorNumber |-> s % PerTrack]

AskTrace ==
    /\ Told("geometry")
    /\ consolePerTrack' = Head(toConsole).pistaSector.sectorNumber
    /\ Ask([messageID |-> "recorridos",
            pistaSector |-> [pista |-> Head(list) \div consolePerTrack',
                             sectorNumber |-> Head(list) % consolePerTrack']], "trace")
    /\ reached' = None
    /\ UNCHANGED <<algorithm, up, volumeVars, queueVars, headVars, listening,
                   list, typed, outsideVars>>

\* It sends back what it has printed.
PrintSector ==
    /\ Told("trace")
    /\ Head(toConsole).messageID = "recorridos"
    /\ reached' = Head(toConsole).pistaSector
    /\ Ask(Head(toConsole), "trace")
    /\ UNCHANGED <<algorithm, up, volumeVars, queueVars, headVars, listening,
                   list, consolePerTrack, typed, outsideVars>>

\* The trace is over, or refused; the next of the list follows.
PrintTime ==
    /\ Told("trace")
    /\ Head(toConsole).messageID # "recorridos"
    /\ list' = Tail(list)
    /\ IF Tail(list) = <<>>
       THEN Go("console", "prompt") /\ UNCHANGED toDisk
       ELSE Ask(Blank("posicion"), "where")
    /\ reached' = None
    /\ UNCHANGED <<algorithm, up, volumeVars, queueVars, headVars, listening,
                   consolePerTrack, typed, outsideVars>>

\* A disk that is gone answers nothing: receive returns, the message is as
\* it was sent, and the next one to be sent ends the console.
EndOfFile ==
    /\ ~up
    /\ pc["console"] \in {"info", "where", "geometry", "trace"}
    /\ toConsole = <<>>
    /\ Go("console", IF pc["console"] = "info" THEN "prompt" ELSE "dead")
    /\ UNCHANGED <<algorithm, up, volumeVars, queueVars, headVars, socketVars,
                   consoleVars, outsideVars>>

Printing == PrintPosition \/ AskPerTrack \/ AskTrace \/ PrintSector \/ PrintTime
            \/ EndOfFile

-----------------------------------------------------------------------------

\* ppd_launcher_initialize: a volume that is there, and not empty, is mapped.
Init ==
    /\ algorithm \in {"sstf", "look"}
    /\ up = TRUE
    /\ pc = [t \in {"receiver", "worker", "service", "console"} |->
                IF t = "receiver" THEN "fork" ELSE "off"]
    /\ file \in VolumeSizes \cup {0, None}
    /\ volumeSize = (IF file = None THEN 0 ELSE file)
    /\ mapped = Sectors(volumeSize)
    /\ address = (IF volumeSize # 0 THEN "mapped" ELSE "NULL")
    /\ replicationProcessActive = FALSE
    /\ jobsQueue = {}
    /\ job = None
    /\ posicionActual = [pista |-> 0, sectorNumber |-> 0]
    /\ perCylinder = Pointer
    /\ walk = None
    /\ listening = FALSE
    /\ toDisk = <<>>
    /\ toConsole = <<>>
    /\ list = <<>>
    /\ consolePerTrack = 0
    /\ reached = None
    /\ sent = 0 /\ started = 0 /\ typed = 0
    /\ wakeUpLost = FALSE

Launch == Fork \/ Listen \/ Accept

FinishReplication == InitializeVolumeSize \/ UnmapDevice \/ MapDevice

Next ==
    \/ Launch \/ Connect
    \/ ReceiveJob \/ ReceiveSyncPut \/ ReplicatePut \/ ReceiveSyncEnd
    \/ ReceiveSyncGet \/ Stream \/ FinishReplication \/ Disconnected
    \/ Worker
    \/ Service
    \/ Info \/ Trace \/ Exit \/ Unconnected \/ Printing

Spec == Init /\ [][Next]_vars

\* Every thread of the disk, and the console but for what is typed, is run by
\* the scheduler.
Fairness ==
    /\ WF_vars(Launch) /\ WF_vars(Connect)
    /\ WF_vars(Stream \/ FinishReplication)
    /\ WF_vars(Worker)
    /\ WF_vars(Service)
    /\ WF_vars(Printing)

FairSpec == Spec /\ Fairness

-----------------------------------------------------------------------------
(* Properties.                                                             *)

Waiting == pc["console"] \in {"info", "where", "geometry", "trace"}

\* The console and the disk take turns on their socket although two threads
\* of the disk use it: at most one message is in it, and what the console
\* sends back in the middle of a trace finds only the thread that traces.
TakeTurns ==
    /\ Len(toDisk) + Len(toConsole) <= 1
    /\ up /\ toDisk # <<>> /\ Head(toDisk).messageID = "recorridos" /\ walk # None =>
          /\ pc["service"] # "receive"
          /\ \E t \in {"worker", "service"} : pc[t] = "echo"

\* The worker dies of an access to a sector of the volume only while a copy
\* is being made: from the end of one to the beginning of the next the
\* mapping is that of the whole file, whatever the jobs.
DiesOnlyInCopy ==
    [][ReadOrWrite /\ ~up' => \/ replicationProcessActive
                              \/ file \in {None, 0}
                              \/ job.sector >= file]_vars

\* While no copy is being made all of the volume's file is mapped, and its
\* size is the one the disk has told the PRAID or got by its last copy.
MappingIsTheFile ==
    up /\ ~replicationProcessActive /\ file \notin {None, 0} =>
        address = "mapped" /\ mapped = Sectors(volumeSize) /\ volumeSize = file

\* A trace that is not refused prints the sectors of one track one after the
\* other, to the very sector that was asked for, which is one of the disk.
TraceArrives ==
    [][/\ PrintSector /\ reached # None =>
            /\ reached'.pista = reached.pista
            /\ reached'.sectorNumber =
                  LET s == (reached.sectorNumber + 1) % Word
                  IN IF s = PerTrack THEN 0 ELSE s
       /\ PrintTime /\ Head(toConsole).messageID = "tiempo" =>
            /\ reached \in {None, Place(Head(list))}
            /\ Head(toConsole).pistaSector = Place(Head(list))
            /\ Head(list) < PerTrack * Cylinders]_vars

\* Whatever is typed is answered, unless the worker once signalled before the
\* service slept.
CommandsAnswered == Waiting ~> (~Waiting \/ wakeUpLost)
=============================================================================
