---------------------------- MODULE PpdDiskProofs ----------------------------
(***************************************************************************)
(* What PpdDisk keeps to for any volume, disk and number of jobs, copies   *)
(* and commands: the mapping of the volume; the turns that the console and *)
(* the two threads of the disk take on the console's socket; the traces,   *)
(* which arrive where the console wanted them; and, with these, the types. *)
(*                                                                         *)
(* The inductive invariant grows in three layers, each proved with those   *)
(* below it: VolumeInv, TurnInv, and TraceInv with RestInv.  TraceInv says *)
(* what a message in the socket means to who will read it, and where the   *)
(* head stands in a trace that is under way.                               *)
(***************************************************************************)
EXTENDS PpdDisk, WellFoundedInduction, TLAPS

Threads == {"receiver", "worker", "service", "console"}
Places ==
    {"fork", "listen", "accept", "receive", "stream", "size", "unmap", "map",
     "off", "pick", "do", "walk", "echo", "track", "sector", "signal", "answer",
     "move", "arrive", "start", "origin", "lock", "wait", "exec", "prompt",
     "info", "where", "geometry", "trace", "unconnected", "spins", "dead"}

PcOK == pc \in [Threads -> Places]

-----------------------------------------------------------------------------
(* The volume.                                                             *)

\* finishReplication runs in a copy, on a file that is there, and maps it
\* with the size it has just read.
CopyInv ==
    up => /\ pc["receiver"] \in {"stream", "size", "unmap", "map"} => replicationProcessActive
          /\ replicationProcessActive => file # None
          /\ pc["receiver"] \in {"unmap", "map"} => volumeSize = file

SizeInv ==
    /\ file \in Nat \cup {None}
    /\ volumeSize \in Nat
    /\ mapped \in SUBSET Nat

\* A job of the PRAID is for a sector.
JobInv ==
    /\ \A j \in jobsQueue : j.op # "trace" => j.sector \in Nat
    /\ pc["worker"] = "do" /\ job.op # "trace" => job.sector \in Nat

VolumeInv == PcOK /\ SizeInv /\ CopyInv /\ JobInv /\ MappingIsTheFile

\* Steps that leave the volume to the receiver.
Elsewhere ==
    /\ UNCHANGED volumeVars
    /\ up' => up
    /\ pc' \in [Threads -> Places]
    /\ pc'["receiver"] = pc["receiver"]

LEMMA VolumeKept ==
    ASSUME VolumeInv, Elsewhere, JobInv'
    PROVE  VolumeInv'
BY DEF VolumeInv, Elsewhere, PcOK, SizeInv, CopyInv, MappingIsTheFile, volumeVars

LEMMA ConsoleElsewhere ==
    ASSUME VolumeInv, Connect \/ Info \/ Trace \/ Exit \/ Unconnected \/ Printing
    PROVE  Elsewhere /\ JobInv'
<1> USE DEF Elsewhere, VolumeInv, PcOK, Threads, Places, JobInv, volumeVars, queueVars, Go
<1>1. CASE Connect
      BY <1>1 DEF Connect
<1>2. CASE Info
      BY <1>2 DEF Info, Ask
<1>3. CASE Trace
      BY <1>3 DEF Trace, Ask
<1>4. CASE Exit
      BY <1>4 DEF Exit
<1>5. CASE Unconnected
      BY <1>5 DEF Unconnected
<1>6. CASE PrintPosition
      BY <1>6 DEF PrintPosition
<1>7. CASE AskPerTrack
      BY <1>7 DEF AskPerTrack, Ask
<1>8. CASE AskTrace
      BY <1>8 DEF AskTrace, Ask
<1>9. CASE PrintSector
      BY <1>9 DEF PrintSector, Ask
<1>10. CASE PrintTime
      BY <1>10 DEF PrintTime, Ask
<1>11. CASE EndOfFile
      BY <1>11 DEF EndOfFile
<1> QED
    BY <1>1, <1>2, <1>3, <1>4, <1>5, <1>6, <1>7, <1>8, <1>9, <1>10, <1>11 DEF Printing

LEMMA TraceElsewhere ==
    ASSUME VolumeInv, NEW t \in {"worker", "service"}, TiempoConsumido(t)
    PROVE  Elsewhere /\ JobInv'
<1> USE DEF Elsewhere, VolumeInv, PcOK, Threads, Places, JobInv, volumeVars, queueVars, Go, At
<1>1. CASE Walk(t)
      BY <1>1 DEF Walk
<1>2. CASE Echo(t)
      BY <1>2 DEF Echo
<1>3. CASE WalkEnd(t)
      BY <1>3 DEF WalkEnd
<1>4. CASE Arrive(t)
      BY <1>4 DEF Arrive, SetTrack, SetSector
<1> QED
    BY <1>1, <1>2, <1>3, <1>4 DEF TiempoConsumido

LEMMA WorkerElsewhere ==
    ASSUME VolumeInv, Worker
    PROVE  Elsewhere /\ JobInv'
<1> USE DEF Elsewhere, VolumeInv, PcOK, Threads, Places, JobInv, volumeVars, queueVars, Go, At
<1>1. CASE PickFromQueue
      BY <1>1 DEF PickFromQueue
<1>2. CASE ReadOrWrite
      BY <1>2 DEF ReadOrWrite
<1>3. CASE BeginTrace
      BY <1>3 DEF BeginTrace, BeginWalk
<1>4. CASE TiempoConsumido("worker")
      BY <1>4, TraceElsewhere
<1>5. CASE Signal
      BY <1>5 DEF Signal
<1>6. CASE AnswerTrace("worker", "move")
      BY <1>6 DEF AnswerTrace
<1>7. CASE MoveHead
      BY <1>7 DEF MoveHead, SetTrack, SetSector
<1> QED
    BY <1>1, <1>2, <1>3, <1>4, <1>5, <1>6, <1>7 DEF Worker

LEMMA ServiceElsewhere ==
    ASSUME VolumeInv, Service
    PROVE  Elsewhere /\ JobInv'
<1> USE DEF Elsewhere, VolumeInv, PcOK, Threads, Places, JobInv, volumeVars, queueVars, Go, At
<1>1. CASE Origin
      BY <1>1 DEF Origin, SetTrack, SetSector
<1>2. CASE ServePosition
      BY <1>2 DEF ServePosition, Asked
<1>3. CASE ServePerTrack
      BY <1>3 DEF ServePerTrack, Asked
<1>4. CASE ServeTrace
      BY <1>4 DEF ServeTrace, BeginWalk, Asked
<1>5. CASE QueueTrace
      BY <1>5 DEF QueueTrace, Asked
<1>6. CASE CondWait
      BY <1>6 DEF CondWait
<1>7. CASE TiempoConsumido("service")
      BY <1>7, TraceElsewhere
<1>8. CASE AnswerTrace("service", "receive")
      BY <1>8 DEF AnswerTrace
<1> QED
    BY <1>1, <1>2, <1>3, <1>4, <1>5, <1>6, <1>7, <1>8 DEF Service

LEMMA VolumeStep ==
    ASSUME VolumeInv, [Next]_vars
    PROVE  VolumeInv'
<1> USE DiskAssumption
<1>0. JobSectors \subseteq Nat
      OBVIOUS
<1>1. CASE UNCHANGED vars
      BY <1>1 DEF vars, VolumeInv, volumeVars, queueVars, PcOK, SizeInv, CopyInv, JobInv,
                  MappingIsTheFile
<1>2. CASE Connect \/ Info \/ Trace \/ Exit \/ Unconnected \/ Printing
      BY <1>2, ConsoleElsewhere, VolumeKept
<1>3. CASE Worker
      BY <1>3, WorkerElsewhere, VolumeKept
<1>4. CASE Service
      BY <1>4, ServiceElsewhere, VolumeKept
<1>5. CASE Launch \/ ReceiveJob \/ Stream \/ Disconnected
  <2>1. SizeInv'
        BY <1>5 DEF Launch, Fork, Listen, Accept, ReceiveJob, Stream, Disconnected,
                    VolumeInv, volumeVars, SizeInv
  <2>2. PcOK' /\ CopyInv' /\ JobInv' /\ MappingIsTheFile'
        BY <1>0, <1>5 DEF Launch, Fork, Listen, Accept, ReceiveJob, Stream, Disconnected, At, Go,
                    VolumeInv, volumeVars, queueVars, PcOK, Threads, Places, CopyInv, JobInv,
                    MappingIsTheFile
  <2> QED
      BY <2>1, <2>2 DEF VolumeInv
<1>6. CASE ReceiveSyncPut
      BY <1>6 DEF ReceiveSyncPut, At, Go, VolumeInv, volumeVars,
                   queueVars, PcOK, Threads, Places, SizeInv, CopyInv, JobInv, MappingIsTheFile
<1>8. CASE ReplicatePut
      BY <1>8 DEF ReplicatePut, At, Go, VolumeInv, volumeVars,
                   queueVars, PcOK, Threads, Places, SizeInv, CopyInv, JobInv, MappingIsTheFile
<1>9. CASE ReceiveSyncEnd
      BY <1>9 DEF ReceiveSyncEnd, At, Go, VolumeInv, volumeVars,
                   queueVars, PcOK, Threads, Places, SizeInv, CopyInv, JobInv, MappingIsTheFile
<1>10. CASE ReceiveSyncGet
      BY <1>10 DEF ReceiveSyncGet, At, Go, VolumeInv, volumeVars,
                   queueVars, PcOK, Threads, Places, SizeInv, CopyInv, JobInv, MappingIsTheFile
<1>7. CASE FinishReplication
  <2>1. JobInv'
        BY <1>7 DEF FinishReplication, InitializeVolumeSize, UnmapDevice, MapDevice, Go,
                    VolumeInv, queueVars, PcOK, Threads, Places, JobInv
  <2>2. CASE InitializeVolumeSize
        BY <2>1, <2>2 DEF InitializeVolumeSize, At, Go, VolumeInv, PcOK, Threads, Places,
                          SizeInv, CopyInv, MappingIsTheFile
  <2>3. CASE UnmapDevice
    <3>1. up /\ replicationProcessActive /\ file # None /\ volumeSize = file
          BY <2>3 DEF UnmapDevice, At, VolumeInv, CopyInv
    <3>2. replicationProcessActive' /\ file' # None /\ volumeSize' = file'
          BY <2>3, <3>1 DEF UnmapDevice
    <3>3. PcOK' /\ SizeInv'
          BY <2>3 DEF UnmapDevice, At, Go, VolumeInv, PcOK, Threads, Places, SizeInv
    <3> QED
        BY <2>1, <3>2, <3>3 DEF VolumeInv, CopyInv, MappingIsTheFile
  <2>4. CASE MapDevice
    <3>1. SizeInv'
          BY <2>4 DEF MapDevice, VolumeInv, SizeInv, Sectors
    <3>2. PcOK' /\ CopyInv' /\ MappingIsTheFile'
          BY <2>4 DEF MapDevice, At, Go, VolumeInv, PcOK, Threads, Places,
                      CopyInv, MappingIsTheFile
    <3> QED
        BY <2>1, <3>1, <3>2 DEF VolumeInv
  <2> QED
      BY <1>7, <2>2, <2>3, <2>4 DEF FinishReplication
<1> QED
    BY <1>1, <1>2, <1>3, <1>4, <1>5, <1>6, <1>7, <1>8, <1>9, <1>10 DEF Next

LEMMA VolumeInit ==
    ASSUME Init
    PROVE  VolumeInv
BY DiskAssumption DEF Init, VolumeInv, PcOK, Threads, Places, SizeInv, CopyInv, JobInv,
                      MappingIsTheFile, Sectors

THEOREM VolumeInvariant == Spec => []VolumeInv
<1>1. Init => VolumeInv
      BY VolumeInit
<1>2. VolumeInv /\ [Next]_vars => VolumeInv'
      BY VolumeStep
<1> QED
    BY <1>1, <1>2, PTL DEF Spec

\* Between two copies the whole file is mapped, with the size the disk has
\* told: replicatePut and finishReplication leave it so for every volume.
THEOREM WholeFileMapped == Spec => []MappingIsTheFile
<1>1. VolumeInv => MappingIsTheFile
      BY DEF VolumeInv
<1> QED
    BY <1>1, VolumeInvariant, PTL

\* The worker's access to a sector of the volume ends the disk in a copy only.
THEOREM AccessIsSafe == Spec => DiesOnlyInCopy
<1>1. ASSUME VolumeInv, ReadOrWrite, ~up', ~replicationProcessActive, file \notin {None, 0}
      PROVE  job.sector >= file
  <2>1. job.sector \in Nat /\ file \in Nat
        BY <1>1 DEF VolumeInv, JobInv, SizeInv, ReadOrWrite, At
  <2>2. address = "mapped" /\ mapped = Sectors(file)
        BY <1>1 DEF VolumeInv, MappingIsTheFile, ReadOrWrite, At
  <2>3. ~(job.sector \in 0 .. file - 1 /\ job.sector < file)
        BY <1>1, <2>2 DEF ReadOrWrite, Accessible, Sectors
  <2> QED
      BY <2>1, <2>3
<1>2. VolumeInv /\ [Next]_vars =>
         [ReadOrWrite /\ ~up' => \/ replicationProcessActive
                                 \/ file \in {None, 0}
                                 \/ job.sector >= file]_vars
      BY <1>1
<1> QED
    BY <1>2, VolumeInvariant, PTL DEF Spec, DiesOnlyInCopy

-----------------------------------------------------------------------------
(* The turns on the socket of the console.                                 *)

Tracing(t) == pc[t] \in {"walk", "echo", "track", "sector", "signal", "answer"}
TraceJobs == {j \in jobsQueue : j.op = "trace"}
InHand == pc["worker"] = "do" /\ job.op = "trace"

Nothing == toDisk = <<>> /\ toConsole = <<>>
ToDisk == toConsole = <<>> /\ \E m : toDisk = <<m>>
ToConsole == toDisk = <<>> /\ \E m : toConsole = <<m>>

NoTrace ==
    /\ ~Tracing("worker") /\ ~Tracing("service")
    /\ walk = None
    /\ TraceJobs = {} /\ ~InHand

\* Nothing was asked; or a question is on its way to the disk, or its answer
\* to the console; or a trace waits for the worker; or one is under way.
Rest ==
    /\ NoTrace /\ Nothing
    /\ pc["console"] \in {"off", "exec", "prompt", "unconnected", "spins"}

Asking ==
    /\ NoTrace /\ ToDisk
    /\ pc["console"] \in {"info", "where", "geometry", "trace"}
    /\ Head(toDisk).messageID = "recorridos" => pc["console"] = "trace"

Answered ==
    /\ NoTrace /\ ToConsole
    /\ pc["console"] \in {"info", "where", "geometry", "trace"}

Queued ==
    /\ Nothing
    /\ pc["console"] = "trace"
    /\ pc["service"] \in {"lock", "wait"}
    /\ ~Tracing("worker")
    /\ walk = None
    /\ \/ ~InHand /\ \E j : TraceJobs = {j}
       \/ InHand /\ TraceJobs = {}

UnderWay(t, other) ==
    /\ Tracing(t) /\ ~Tracing(other)
    /\ t = "worker" => \/ pc["service"] \in {"lock", "wait"}
                       \/ pc["worker"] = "answer"
    /\ TraceJobs = {} /\ ~InHand
    /\ pc["console"] = "trace"
    /\ IF pc[t] = "echo"
       THEN ToDisk \/ (ToConsole /\ Head(toConsole).messageID = "recorridos")
       ELSE Nothing

Turn == \/ Rest \/ Asking \/ Answered \/ Queued
        \/ UnderWay("worker", "service") \/ UnderWay("service", "worker")

LaunchInv ==
    /\ pc["receiver"] \in {"fork", "listen", "accept"} => pc["service"] = "off"
    /\ pc["receiver"] = "fork" => pc["worker"] = "off" /\ pc["console"] = "off"

TurnInv ==
    /\ PcOK
    /\ LaunchInv
    /\ Nothing \/ ToDisk \/ ToConsole
    /\ up => Turn

LEMMA TurnsTaken ==
    ASSUME TurnInv
    PROVE  TakeTurns
<1>1. Len(toDisk) + Len(toConsole) <= 1
  <2>1. CASE Nothing
        BY <2>1 DEF Nothing
  <2>2. CASE ToDisk
    <3>1. PICK m : toDisk = <<m>>
          BY <2>2 DEF ToDisk
    <3> QED
        BY <2>2, <3>1 DEF ToDisk
  <2>3. CASE ToConsole
    <3>1. PICK m : toConsole = <<m>>
          BY <2>3 DEF ToConsole
    <3> QED
        BY <2>3, <3>1 DEF ToConsole
  <2> QED
      BY <2>1, <2>2, <2>3 DEF TurnInv
<1>2. ASSUME up, toDisk # <<>>, walk # None
      PROVE  pc["service"] # "receive" /\ \E t \in {"worker", "service"} : pc[t] = "echo"
      BY <1>2 DEF TurnInv, Turn, Rest, Asking, Answered, Queued, UnderWay, NoTrace, Nothing,
                  ToConsole, Tracing
<1> QED
    BY <1>1, <1>2 DEF TakeTurns

LEMMA TurnInit ==
    ASSUME Init
    PROVE  TurnInv
<1>1. PcOK /\ LaunchInv /\ Nothing
      BY DEF Init, PcOK, Threads, Places, LaunchInv, Nothing
<1>2. NoTrace
      BY DEF Init, NoTrace, Tracing, TraceJobs, InHand
<1> QED
    BY <1>1, <1>2 DEF TurnInv, Turn, Rest, Init

\* The launch, and the receiver's steps, which touch neither the socket nor
\* a trace.
LEMMA LaunchTurn ==
    ASSUME TurnInv, Launch
    PROVE  TurnInv'
<1> USE DEF TurnInv, PcOK, Threads, Places, LaunchInv, At, Go, socketVars, queueVars, headVars,
            Nothing, ToDisk, ToConsole, Turn, Tracing, TraceJobs, InHand, NoTrace, Asking,
            Answered, Queued, UnderWay, Rest
<1>1. CASE Fork
      BY <1>1 DEF Fork
<1>2. CASE Listen
      BY <1>2 DEF Listen
<1>3. CASE Accept
      BY <1>3 DEF Accept
<1> QED
    BY <1>1, <1>2, <1>3 DEF Launch

\* What a step that changes no place but the receiver's leaves as it was.
SocketAlone ==
    /\ UNCHANGED <<toDisk, toConsole, walk, job>>
    /\ \A j : j.op = "trace" => (j \in jobsQueue' <=> j \in jobsQueue)
    /\ up' => up
    /\ pc' \in [Threads -> Places]
    /\ \A t \in {"worker", "service", "console"} : pc'[t] = pc[t]
    /\ pc'["receiver"] \notin {"fork", "listen", "accept"}

LEMMA SocketAloneTurn ==
    ASSUME TurnInv, SocketAlone
    PROVE  TurnInv'
<1>1. TraceJobs' = TraceJobs
      BY DEF TraceJobs, SocketAlone
<1> QED
    BY <1>1 DEF SocketAlone, TurnInv, PcOK, Threads, LaunchInv, Nothing, ToDisk, ToConsole, Turn,
                Tracing, InHand, NoTrace, Asking, Answered, Queued, UnderWay, Rest

LEMMA ReceiverTurn ==
    ASSUME TurnInv,
           \/ ReceiveJob \/ ReceiveSyncPut \/ ReplicatePut \/ ReceiveSyncEnd
           \/ ReceiveSyncGet \/ Stream \/ FinishReplication \/ Disconnected
    PROVE  TurnInv'
<1> USE DEF SocketAlone, TurnInv, PcOK, Threads, Places, At, Go, socketVars, queueVars, headVars
<1>1. CASE ReceiveJob
  <2>1. \A j : j.op = "trace" => (j \in jobsQueue' <=> j \in jobsQueue)
        BY <1>1 DEF ReceiveJob
  <2>2. SocketAlone
        BY <1>1, <2>1 DEF ReceiveJob
  <2> QED
      BY <2>2, SocketAloneTurn
<1>2. CASE ReceiveSyncPut \/ ReplicatePut \/ Disconnected
  <2>1. SocketAlone
        BY <1>2 DEF ReceiveSyncPut, ReplicatePut, Disconnected
  <2> QED
      BY <2>1, SocketAloneTurn
<1>3. CASE ReceiveSyncEnd \/ Stream
  <2>1. SocketAlone
        BY <1>3 DEF ReceiveSyncEnd, Stream
  <2> QED
      BY <2>1, SocketAloneTurn
<1>4. CASE ReceiveSyncGet
  <2>1. SocketAlone
        BY <1>4 DEF ReceiveSyncGet
  <2> QED
      BY <2>1, SocketAloneTurn
<1>5. CASE FinishReplication
  <2>1. SocketAlone
        BY <1>5 DEF FinishReplication, InitializeVolumeSize, UnmapDevice, MapDevice
  <2> QED
      BY <2>1, SocketAloneTurn
<1> QED
    BY <1>1, <1>2, <1>3, <1>4, <1>5

LEMMA TraceTurn ==
    ASSUME TurnInv, NEW t \in {"worker", "service"}, TiempoConsumido(t)
    PROVE  TurnInv'
<1> DEFINE other == IF t = "worker" THEN "service" ELSE "worker"
<1> USE DEF Go, At, PcOK, Threads, Places, headVars, queueVars, socketVars
<1>1. up /\ Tracing(t) /\ PcOK
      BY DEF TiempoConsumido, Walk, Echo, WalkEnd, Arrive, SetTrack, SetSector, Tracing, TurnInv
<1>2. UnderWay(t, other)
  <2>1. Turn
        BY <1>1 DEF TurnInv
  <2>2. ~NoTrace
        BY <1>1 DEF NoTrace
  <2>3. ~Queued
        BY <1>1 DEF Queued, Tracing
  <2>4. UnderWay("worker", "service") \/ UnderWay("service", "worker")
        BY <2>1, <2>2, <2>3 DEF Turn, Rest, Asking, Answered
  <2> QED
      BY <1>1, <2>4 DEF UnderWay
<1>3. SUFFICES /\ pc' \in [Threads -> Places]
               /\ pc'["receiver"] = pc["receiver"]
               /\ pc'["worker"] = "off" <=> pc["worker"] = "off"
               /\ pc'["service"] = "off" <=> pc["service"] = "off"
               /\ pc'["console"] = pc["console"]
               /\ up' = up
               /\ UnderWay(t, other)'
               /\ (Nothing \/ ToDisk \/ ToConsole)'
      BY <1>1 DEF TurnInv, LaunchInv, Turn
<1>4. UNCHANGED <<up, job, jobsQueue>>
      BY <1>1 DEF TiempoConsumido, Walk, Echo, WalkEnd, Arrive, SetTrack, SetSector
<1>5. UNCHANGED <<TraceJobs, InHand>> \/ (t = "worker" /\ ~InHand' /\ UNCHANGED TraceJobs)
      BY <1>1, <1>4 DEF TraceJobs, InHand, Tracing, TiempoConsumido, Walk, Echo, WalkEnd, Arrive,
                        SetTrack, SetSector
<1>6. CASE Walk(t)
  <2>1. Nothing
        BY <1>2, <1>6 DEF UnderWay, Walk
  <2>2. ToConsole' /\ Head(toConsole').messageID = "recorridos"
    <3>1. PICK m : toConsole' = Append(toConsole, m) /\ m.messageID = "recorridos"
          BY <1>6 DEF Walk, Answer, Message
    <3>2. toConsole' = <<m>> /\ toDisk' = <<>>
          BY <1>6, <2>1, <3>1 DEF Walk, Nothing
    <3> QED
        BY <3>1, <3>2 DEF ToConsole
  <2> QED
      BY <1>1, <1>2, <1>4, <1>5, <1>6, <2>2 DEF Walk, UnderWay, Tracing
<1>7. CASE Echo(t)
  <2>1. ToDisk
        BY <1>2, <1>7 DEF UnderWay, Echo, ToDisk, ToConsole
  <2>2. Nothing'
        BY <1>7, <2>1 DEF Echo, Nothing, ToDisk
  <2> QED
      BY <1>1, <1>2, <1>4, <1>5, <1>7, <2>2 DEF Echo, UnderWay, Tracing
<1>8. CASE WalkEnd(t)
  <2>1. Nothing /\ Nothing'
        BY <1>2, <1>8 DEF UnderWay, WalkEnd, Nothing
  <2> QED
      BY <1>1, <1>2, <1>4, <1>5, <1>8, <2>1 DEF WalkEnd, UnderWay, Tracing
<1>9. CASE Arrive(t)
  <2>1. Nothing /\ Nothing'
        BY <1>2, <1>9 DEF UnderWay, Arrive, SetTrack, SetSector, Nothing
  <2> QED
      BY <1>1, <1>2, <1>4, <1>5, <1>9, <2>1 DEF Arrive, SetTrack, SetSector, UnderWay, Tracing
<1> QED
    BY <1>6, <1>7, <1>8, <1>9 DEF TiempoConsumido

LEMMA WorkerTurn ==
    ASSUME TurnInv, Worker
    PROVE  TurnInv'
<1> USE DEF TurnInv, LaunchInv, PcOK, Threads, Places, At, Go, socketVars, queueVars, headVars,
            Turn, Tracing
<1>1. CASE PickFromQueue
  <2>1. up /\ up' /\ ~Tracing("worker") /\ ~Tracing("worker")' /\ ~InHand
        /\ UNCHANGED <<Nothing, ToDisk, ToConsole, walk, toDisk, toConsole>>
        /\ \A t \in {"receiver", "service", "console"} : pc'[t] = pc[t]
        /\ pc' \in [Threads -> Places] /\ pc["worker"] # "off"
        BY <1>1 DEF PickFromQueue, Nothing, ToDisk, ToConsole, InHand
  <2>2. CASE TraceJobs = {}
    <3>1. TraceJobs' = {} /\ ~InHand'
          BY <1>1, <2>2 DEF PickFromQueue, TraceJobs, InHand
    <3> QED
        BY <2>1, <2>2, <3>1 DEF NoTrace, Rest, Asking, Answered, Queued, UnderWay
  <2>3. CASE TraceJobs # {}
    <3>1. Queued
          BY <2>1, <2>3 DEF NoTrace, Rest, Asking, Answered, UnderWay
    <3>2. PICK j : TraceJobs = {j}
          BY <2>1, <2>3, <3>1 DEF Queued
    <3>3. \/ job' = j /\ TraceJobs' = {} /\ InHand'
          \/ job' # j /\ TraceJobs' = {j} /\ ~InHand'
          BY <1>1, <3>2 DEF PickFromQueue, TraceJobs, InHand
    <3>4. Queued'
          BY <2>1, <3>1, <3>3 DEF Queued
    <3> QED
        BY <2>1, <3>4
  <2> QED
      BY <2>2, <2>3
<1>2. CASE ReadOrWrite
  <2>1. up /\ ~Tracing("worker") /\ ~Tracing("worker")' /\ ~InHand /\ ~InHand'
        /\ UNCHANGED <<Nothing, ToDisk, ToConsole, walk, toDisk, toConsole, TraceJobs>>
        /\ \A t \in {"receiver", "service", "console"} : pc'[t] = pc[t]
        /\ pc' \in [Threads -> Places] /\ pc["worker"] # "off"
        BY <1>2 DEF ReadOrWrite, Nothing, ToDisk, ToConsole, InHand, TraceJobs
  <2> QED
      BY <2>1 DEF NoTrace, Rest, Asking, Answered, Queued, UnderWay
<1>3. CASE BeginTrace
  <2>1. up /\ up' /\ ~Tracing("worker") /\ InHand /\ Tracing("worker")' /\ ~InHand'
        /\ pc'["worker"] \notin {"echo", "answer"}
        /\ UNCHANGED <<Nothing, ToDisk, ToConsole, TraceJobs>>
        /\ \A t \in {"receiver", "service", "console"} : pc'[t] = pc[t]
        /\ pc' \in [Threads -> Places] /\ pc["worker"] # "off"
        BY <1>3 DEF BeginTrace, BeginWalk, Nothing, ToDisk, ToConsole, InHand, TraceJobs
  <2>2. Queued
        BY <2>1 DEF NoTrace, Rest, Asking, Answered, UnderWay
  <2>3. UnderWay("worker", "service")'
        BY <2>1, <2>2 DEF Queued, UnderWay
  <2> QED
      BY <2>1, <2>2, <2>3 DEF Queued
<1>4. CASE TiempoConsumido("worker")
      BY <1>4, TraceTurn
<1>5. CASE Signal
  <2> DEFINE woken == IF pc["service"] = "wait" THEN "receive" ELSE pc["service"]
  <2>3a. woken \in Places /\ pc["service"] \in Places
        OBVIOUS
  <2>3b. pc' = [[pc EXCEPT !["worker"] = "answer"] EXCEPT !["service"] = woken]
        BY <1>5 DEF Signal
  <2>3c. /\ pc'["worker"] = "answer" /\ pc'["service"] = woken
        /\ \A t \in {"receiver", "console"} : pc'[t] = pc[t]
        /\ pc' \in [Threads -> Places]
    <3> HIDE DEF woken
    <3> QED
        BY <2>3a, <2>3b
  <2>1. up /\ up' /\ pc["worker"] = "signal" /\ ~InHand'
        /\ UNCHANGED <<Nothing, ToDisk, ToConsole, TraceJobs>>
        BY <1>5, <2>3c DEF Signal, Nothing, ToDisk, ToConsole, InHand, TraceJobs
  <2>2. UnderWay("worker", "service")
        BY <2>1 DEF NoTrace, Rest, Asking, Answered, Queued, UnderWay
  <2>3. UnderWay("worker", "service")'
        BY <2>1, <2>2, <2>3c DEF UnderWay
  <2>4. Turn' /\ (Nothing \/ ToDisk \/ ToConsole)'
        BY <2>1, <2>3
  <2>5. LaunchInv'
        BY <2>1, <2>2, <2>3c DEF UnderWay
  <2> QED
      BY <2>4, <2>5, <2>3c DEF TurnInv
<1>6. CASE AnswerTrace("worker", "move")
  <2>1. up /\ up' /\ pc["worker"] = "answer" /\ pc'["worker"] = "move" /\ ~InHand' /\ walk' = None
        /\ UNCHANGED TraceJobs
        /\ \A t \in {"receiver", "service", "console"} : pc'[t] = pc[t]
        /\ pc' \in [Threads -> Places]
        BY <1>6 DEF AnswerTrace, InHand, TraceJobs
  <2>2. UnderWay("worker", "service") /\ Nothing
        BY <2>1 DEF NoTrace, Rest, Asking, Answered, Queued, UnderWay
  <2>3. ToConsole'
        BY <1>6, <2>2 DEF AnswerTrace, Answer, Nothing, ToConsole
  <2>4. Answered'
        BY <2>1, <2>2, <2>3 DEF UnderWay, Answered, NoTrace
  <2> QED
      BY <2>1, <2>3, <2>4
<1>7. CASE MoveHead
  <2>1. up /\ up' /\ ~Tracing("worker") /\ ~Tracing("worker")' /\ ~InHand /\ ~InHand'
        /\ UNCHANGED <<Nothing, ToDisk, ToConsole, walk, toDisk, toConsole, TraceJobs>>
        /\ \A t \in {"receiver", "service", "console"} : pc'[t] = pc[t]
        /\ pc' \in [Threads -> Places] /\ pc["worker"] # "off"
        BY <1>7 DEF MoveHead, SetTrack, SetSector, Nothing, ToDisk, ToConsole, InHand, TraceJobs
  <2> QED
      BY <2>1 DEF NoTrace, Rest, Asking, Answered, Queued, UnderWay
<1> QED
    BY <1>1, <1>2, <1>3, <1>4, <1>5, <1>6, <1>7 DEF Worker

\* A question that the service takes from the socket.
LEMMA AskedTurn ==
    ASSUME TurnInv, NEW id, Asked(id)
    PROVE  /\ Asking
           /\ pc["service"] = "receive"
           /\ Head(toDisk).messageID = id
           /\ toDisk' = <<>>
<1>1. up /\ pc["service"] = "receive" /\ toDisk # <<>>
      BY DEF Asked, At
<1>2. Asking
      BY <1>1 DEF TurnInv, Turn, Rest, Answered, Queued, UnderWay, Tracing, Nothing, ToConsole
<1>3. PICK m : toDisk = <<m>>
      BY <1>2 DEF Asking, ToDisk
<1> QED
    BY <1>1, <1>2, <1>3 DEF Asked

LEMMA ServiceTurn ==
    ASSUME TurnInv, Service
    PROVE  TurnInv'
<1> USE DEF TurnInv, LaunchInv, PcOK, Threads, Places, At, Go, socketVars, queueVars, headVars,
            Turn, Tracing
<1>1. CASE Origin
  <2>1. up /\ ~Tracing("service") /\ ~Tracing("service")' /\ pc["service"] \in {"start", "origin"}
        /\ UNCHANGED <<Nothing, ToDisk, ToConsole, walk, toDisk, toConsole, TraceJobs, InHand>>
        /\ \A t \in {"receiver", "worker", "console"} : pc'[t] = pc[t]
        /\ pc' \in [Threads -> Places]
        BY <1>1 DEF Origin, SetTrack, SetSector, Nothing, ToDisk, ToConsole, InHand, TraceJobs
  <2>2. ~Queued /\ ~(UnderWay("worker", "service") /\ pc["worker"] # "answer")
        BY <2>1 DEF Queued, UnderWay
  <2> QED
      BY <2>1, <2>2 DEF NoTrace, Rest, Asking, Answered, UnderWay
<1>2. CASE ServePosition \/ ServePerTrack
  <2>1. Asking /\ pc["service"] = "receive" /\ toDisk' = <<>> /\ up
        BY <1>2, AskedTurn DEF ServePosition, ServePerTrack, Asked
  <2>2. ToConsole'
    <3>1. PICK m : toConsole' = Append(toConsole, m)
          BY <1>2 DEF ServePosition, ServePerTrack, Answer
    <3>2. toConsole' = <<m>>
          BY <2>1, <3>1 DEF Asking, ToDisk
    <3> QED
        BY <2>1, <3>2 DEF ToConsole
  <2>3. UNCHANGED <<up, pc, walk, TraceJobs, InHand>>
        BY <1>2 DEF ServePosition, ServePerTrack, TraceJobs, InHand
  <2>4. Answered'
        BY <2>1, <2>2, <2>3 DEF Asking, Answered, NoTrace
  <2> QED
      BY <2>2, <2>3, <2>4
<1>3. CASE ServeTrace
  <2>1. Asking /\ pc["service"] = "receive" /\ toDisk' = <<>> /\ up /\ pc["console"] = "trace"
        BY <1>3, AskedTurn DEF ServeTrace, Asked, Asking
  <2>2. Nothing'
        BY <1>3, <2>1 DEF ServeTrace, Asking, ToDisk, Nothing
  <2>3. /\ UNCHANGED <<up, TraceJobs, InHand>>
        /\ pc' \in [Threads -> Places] /\ pc'["service"] \in {"walk", "answer"}
        /\ \A t \in {"receiver", "worker", "console"} : pc'[t] = pc[t]
        BY <1>3 DEF ServeTrace, BeginWalk, TraceJobs, InHand
  <2>4. UnderWay("service", "worker")'
        BY <2>1, <2>2, <2>3 DEF Asking, NoTrace, UnderWay
  <2> QED
      BY <2>1, <2>2, <2>3, <2>4
<1>4. CASE QueueTrace
  <2>1. Asking /\ pc["service"] = "receive" /\ toDisk' = <<>> /\ up /\ pc["console"] = "trace"
        BY <1>4, AskedTurn DEF QueueTrace, Asked, Asking
  <2>2. Nothing'
        BY <1>4, <2>1 DEF QueueTrace, Asking, ToDisk, Nothing
  <2>3. /\ UNCHANGED <<up, walk, InHand>>
        /\ pc' \in [Threads -> Places] /\ pc'["service"] = "lock"
        /\ \A t \in {"receiver", "worker", "console"} : pc'[t] = pc[t]
        BY <1>4 DEF QueueTrace, InHand
  <2>4. \E j : TraceJobs' = {j}
    <3> DEFINE j == [n |-> 0, op |-> "trace",
                     sector |-> Head(toDisk).pistaSector.pista * perCylinder
                                  + Head(toDisk).pistaSector.sectorNumber]
    <3>1. jobsQueue' = jobsQueue \cup {j} /\ j.op = "trace"
          BY <1>4 DEF QueueTrace
    <3> HIDE DEF j
    <3>2. TraceJobs' = {j}
          BY <2>1, <3>1 DEF Asking, NoTrace, TraceJobs
    <3> QED
        BY <3>2
  <2>5. Queued'
        BY <2>1, <2>2, <2>3, <2>4 DEF Asking, NoTrace, Queued
  <2> QED
      BY <2>1, <2>2, <2>3, <2>5
<1>5. CASE CondWait
  <2>1. up /\ pc["service"] = "lock" /\ pc'["service"] = "wait"
        /\ UNCHANGED <<Nothing, ToDisk, ToConsole, walk, toDisk, toConsole, TraceJobs, InHand>>
        /\ \A t \in {"receiver", "worker", "console"} : pc'[t] = pc[t]
        /\ pc' \in [Threads -> Places]
        BY <1>5 DEF CondWait, Nothing, ToDisk, ToConsole, InHand, TraceJobs
  <2> QED
      BY <2>1 DEF NoTrace, Rest, Asking, Answered, Queued, UnderWay
<1>6. CASE TiempoConsumido("service")
      BY <1>6, TraceTurn
<1>7. CASE AnswerTrace("service", "receive")
  <2>1. up /\ up' /\ pc["service"] = "answer" /\ pc'["service"] = "receive" /\ walk' = None
        /\ UNCHANGED <<TraceJobs, InHand>>
        /\ \A t \in {"receiver", "worker", "console"} : pc'[t] = pc[t]
        /\ pc' \in [Threads -> Places]
        BY <1>7 DEF AnswerTrace, InHand, TraceJobs
  <2>2. UnderWay("service", "worker") /\ Nothing
        BY <2>1 DEF NoTrace, Rest, Asking, Answered, Queued, UnderWay
  <2>3. ToConsole'
        BY <1>7, <2>2 DEF AnswerTrace, Answer, Nothing, ToConsole
  <2>4. Answered'
        BY <2>1, <2>2, <2>3 DEF UnderWay, Answered, NoTrace
  <2> QED
      BY <2>1, <2>3, <2>4
<1> QED
    BY <1>1, <1>2, <1>3, <1>4, <1>5, <1>6, <1>7 DEF Service

\* What the console does with the disk's threads standing still.
ConsoleAlone ==
    /\ UNCHANGED <<jobsQueue, job, walk>>
    /\ pc' \in [Threads -> Places]
    /\ \A t \in {"receiver", "worker", "service"} : pc'[t] = pc[t]
    /\ pc["console"] # "off"
    /\ up' => up

LEMMA ConsoleAloneTurn ==
    ASSUME TurnInv, ConsoleAlone
    PROVE  /\ PcOK' /\ LaunchInv'
           /\ NoTrace' <=> NoTrace
<1>1. PcOK'
      BY DEF ConsoleAlone, PcOK
<1>4. LaunchInv'
  <2>1. \A t \in {"receiver", "worker", "service"} : pc'[t] = pc[t]
        BY DEF ConsoleAlone
  <2>2. pc["receiver"] # "fork" /\ LaunchInv
        BY DEF TurnInv, ConsoleAlone, LaunchInv
  <2> QED
      BY <2>1, <2>2 DEF LaunchInv
<1>2. \A t \in {"worker", "service"} : Tracing(t)' <=> Tracing(t)
      BY DEF ConsoleAlone, Tracing
<1>3. TraceJobs' = TraceJobs /\ (InHand' <=> InHand) /\ walk' = walk
      BY DEF ConsoleAlone, TraceJobs, InHand
<1> QED
    BY <1>1, <1>2, <1>3, <1>4 DEF NoTrace

LEMMA PromptTurn ==
    ASSUME TurnInv, Connect \/ Info \/ Trace \/ Exit \/ Unconnected
    PROVE  TurnInv'
<1>1. ConsoleAlone
      BY DEF TurnInv, PcOK, Threads, Places, Go, Ask, ConsoleAlone, queueVars, headVars,
             Connect, Info, Trace, Exit, Unconnected
<1>2. PcOK' /\ LaunchInv' /\ (NoTrace' <=> NoTrace)
      BY <1>1, ConsoleAloneTurn
<1>3. up => Rest
      BY DEF TurnInv, Turn, Rest, Asking, Answered, Queued, UnderWay,
             Connect, Info, Trace, Exit, Unconnected
<1>4. CASE Connect \/ Exit \/ Unconnected
  <2>1. UNCHANGED <<toDisk, toConsole>>
        BY <1>4 DEF Connect, Exit, Unconnected, socketVars
  <2>2. up' => pc'["console"] \in {"prompt", "unconnected", "spins"}
        BY <1>4 DEF TurnInv, PcOK, Threads, Connect, Exit, Unconnected, Go
  <2>3. (Nothing \/ ToDisk \/ ToConsole)' /\ (Nothing => Nothing')
        BY <2>1 DEF TurnInv, Nothing, ToDisk, ToConsole
  <2>4. ASSUME up'
        PROVE  Rest'
    <3>1. up /\ Rest
          BY <1>1, <1>3, <2>4 DEF ConsoleAlone
    <3>2. NoTrace' /\ Nothing'
          BY <1>2, <2>3, <3>1 DEF Rest
    <3> QED
        BY <2>2, <2>4, <3>2 DEF Rest
  <2> QED
      BY <1>2, <2>3, <2>4 DEF TurnInv, Turn
<1>5. CASE Info \/ Trace
  <2>1. toConsole' = toConsole /\ up' = up
        BY <1>5 DEF Info, Trace
  <2>2. ~up => toDisk' = toDisk
        BY <1>5 DEF Info, Trace, Ask
  <2>3. up => /\ toDisk' = Append(toDisk, Blank("posicion"))
              /\ pc'["console"] \in {"info", "where"}
        BY <1>5 DEF TurnInv, PcOK, Threads, Info, Trace, Ask, Go
  <2>4. up => toDisk' = <<Blank("posicion")>> /\ toConsole' = <<>>
        BY <1>3, <2>1, <2>3 DEF Rest, Nothing
  <2>5. Blank("posicion").messageID # "recorridos"
        BY DEF Blank, Message
  <2>6. up => Asking'
    <3> DEFINE m == Blank("posicion")
    <3> HIDE DEF m
    <3>1. up => toDisk' = <<m>> /\ toConsole' = <<>> /\ m.messageID # "recorridos"
          BY <2>4, <2>5 DEF m
    <3>2. up => ToDisk' /\ Head(toDisk').messageID # "recorridos"
          BY <3>1 DEF ToDisk
    <3> QED
        BY <1>2, <1>3, <2>3, <3>2 DEF Rest, Asking
  <2> QED
      BY <1>2, <2>1, <2>2, <2>6 DEF TurnInv, Turn, Asking, Nothing, ToDisk, ToConsole
<1> QED
    BY <1>4, <1>5

\* A message that the console takes.
LEMMA ToldTurn ==
    ASSUME TurnInv, NEW here \in {"info", "where", "geometry", "trace"}, Told(here)
    PROVE  /\ ToConsole /\ pc["console"] = here
           /\ toDisk = <<>> /\ toConsole' = <<>>
           /\ up => \/ Answered
                     \/ /\ here = "trace" /\ Head(toConsole).messageID = "recorridos"
                        /\ \/ UnderWay("worker", "service") /\ pc["worker"] = "echo"
                           \/ UnderWay("service", "worker") /\ pc["service"] = "echo"
<1>1. toConsole # <<>> /\ pc["console"] = here
      BY DEF Told
<1>2. ToConsole
      BY <1>1 DEF TurnInv, Nothing, ToDisk
<1>3. PICK m : toConsole = <<m>>
      BY <1>2 DEF ToConsole
<1>4. toConsole' = <<>> /\ toDisk = <<>>
      BY <1>2, <1>3 DEF Told, ToConsole
<1>5. ~Nothing /\ ~ToDisk
      BY <1>1 DEF Nothing, ToDisk
<1>6. up => ~Rest /\ ~Asking /\ ~Queued
      BY <1>5 DEF Rest, Asking, Queued
<1> QED
    BY <1>1, <1>2, <1>4, <1>5, <1>6 DEF TurnInv, Turn, UnderWay

\* A trace under way does not notice what the console does.
LEMMA UnderWayStays ==
    ASSUME TurnInv, ConsoleAlone, ToDisk', pc'["console"] = "trace"
    PROVE  /\ UnderWay("worker", "service") /\ pc["worker"] = "echo" =>
                 UnderWay("worker", "service")'
           /\ UnderWay("service", "worker") /\ pc["service"] = "echo" =>
                 UnderWay("service", "worker")'
<1>1. pc'["worker"] = pc["worker"] /\ pc'["service"] = pc["service"]
      BY DEF ConsoleAlone
<1>2. TraceJobs' = TraceJobs /\ (InHand' <=> InHand)
      BY DEF ConsoleAlone, TraceJobs, InHand
<1> QED
    BY <1>1, <1>2 DEF UnderWay, Tracing

LEMMA PrintTurn ==
    ASSUME TurnInv, Printing
    PROVE  TurnInv'
<1>1. ConsoleAlone
      BY DEF TurnInv, PcOK, Threads, Places, Go, Ask, ConsoleAlone, queueVars, headVars, Told,
             Printing, PrintPosition, AskPerTrack, AskTrace, PrintSector, PrintTime, EndOfFile
<1>2. PcOK' /\ LaunchInv' /\ (NoTrace' <=> NoTrace)
      BY <1>1, ConsoleAloneTurn
<1> USE DEF TurnInv, PcOK, Threads, Go
<1>3. CASE PrintPosition
  <2>1. Nothing' /\ (up => Answered) /\ pc'["console"] = "prompt" /\ up' = up
        BY <1>3, ToldTurn DEF PrintPosition, Nothing
  <2> QED
      BY <1>2, <2>1 DEF Turn, Rest, Answered
<1>4. ASSUME NEW m, Ask(m, "geometry"), Told("where"), up' = up, m.messageID # "recorridos"
      PROVE  TurnInv'
  <2>1. toDisk = <<>> /\ toConsole' = <<>> /\ (up => Answered)
        BY <1>4, ToldTurn
  <2>2. IF up THEN toDisk' = <<m>> /\ pc'["console"] = "geometry" ELSE toDisk' = <<>>
        BY <1>4, <2>1 DEF Ask
  <2>3. Nothing' \/ ToDisk'
        BY <2>1, <2>2 DEF Nothing, ToDisk
  <2>4. up => Asking'
        BY <1>2, <1>4, <2>1, <2>2 DEF Asking, Answered, ToDisk
  <2> QED
      BY <1>2, <1>4, <2>3, <2>4 DEF Turn
<1>5. CASE AskPerTrack
  <2>1. Blank("porCilindro").messageID # "recorridos"
        BY DEF Blank, Message
  <2> QED
      BY <1>4, <1>5, <2>1 DEF AskPerTrack
<1>6. ASSUME NEW m, NEW here \in {"geometry", "trace"}, Ask(m, "trace"), Told(here), up' = up
      PROVE  TurnInv'
  <2>1. toDisk = <<>> /\ toConsole' = <<>>
        BY <1>6, ToldTurn
  <2>2. IF up THEN toDisk' = <<m>> /\ pc'["console"] = "trace" ELSE toDisk' = <<>>
        BY <1>6, <2>1 DEF Ask
  <2>3. Nothing' \/ ToDisk'
        BY <2>1, <2>2 DEF Nothing, ToDisk
  <2>4. ASSUME up, Answered
        PROVE  Asking'
        BY <1>2, <2>1, <2>2, <2>4 DEF Asking, Answered, ToDisk
  <2>5. up => ToDisk' /\ pc'["console"] = "trace"
        BY <2>1, <2>2 DEF ToDisk
  <2>6. up => Turn'
        BY <1>1, <1>6, <2>4, <2>5, ToldTurn, UnderWayStays DEF Turn
  <2> QED
      BY <1>2, <1>6, <2>3, <2>6
<1>7. CASE AskTrace
      BY <1>6, <1>7 DEF AskTrace
<1>8. CASE PrintSector
      BY <1>6, <1>8 DEF PrintSector
<1>9. CASE PrintTime
  <2>1. toDisk = <<>> /\ toConsole' = <<>> /\ (up => Answered) /\ up' = up
        BY <1>9, ToldTurn DEF PrintTime
  <2>2. CASE Tail(list) = <<>>
    <3>1. toDisk' = <<>> /\ pc'["console"] = "prompt"
          BY <1>9, <2>1, <2>2 DEF PrintTime
    <3> QED
        BY <1>2, <2>1, <3>1 DEF Turn, Rest, Answered, Nothing
  <2>3. CASE Tail(list) # <<>>
    <3>1. IF up THEN toDisk' = <<Blank("posicion")>> /\ pc'["console"] = "where"
                ELSE toDisk' = <<>>
          BY <1>9, <2>1, <2>3 DEF PrintTime, Ask
    <3>2. Nothing' \/ ToDisk'
          BY <2>1, <3>1 DEF Nothing, ToDisk
    <3>3. up => Head(toDisk').messageID # "recorridos"
      <4> DEFINE m == Blank("posicion")
      <4>1. m.messageID # "recorridos"
            BY DEF Blank, Message
      <4>2. up => toDisk' = <<m>>
            BY <3>1
      <4> HIDE DEF m
      <4> QED
          BY <4>1, <4>2
    <3>4. up => Asking'
          BY <1>2, <2>1, <3>1, <3>3 DEF Asking, Answered, ToDisk
    <3> QED
        BY <1>2, <2>1, <3>2, <3>4 DEF Turn
  <2> QED
      BY <2>2, <2>3
<1>10. CASE EndOfFile
      BY <1>2, <1>10 DEF EndOfFile, socketVars, Nothing, ToDisk, ToConsole
<1> QED
    BY <1>3, <1>5, <1>7, <1>8, <1>9, <1>10 DEF Printing

LEMMA TurnStep ==
    ASSUME TurnInv, [Next]_vars
    PROVE  TurnInv'
<1>1. CASE UNCHANGED vars
      BY <1>1 DEF vars, socketVars, queueVars, headVars, TurnInv, PcOK, LaunchInv, Nothing, ToDisk,
                  ToConsole, Turn, Tracing, TraceJobs, InHand, NoTrace, Asking, Answered, Queued,
                  UnderWay, Rest
<1> QED
    BY <1>1, LaunchTurn, ReceiverTurn, WorkerTurn, ServiceTurn, PromptTurn, PrintTurn DEF Next

\* The console, the service and the worker take turns on the socket, in
\* clientProcess and TiempoConsumido, for any commands and any jobs.
THEOREM TurnsHold == Spec => []TakeTurns
<1>1. Init => TurnInv
      BY TurnInit
<1>2. TurnInv /\ [Next]_vars => TurnInv'
      BY TurnStep
<1>3. TurnInv => TakeTurns
      BY TurnsTaken
<1> QED
    BY <1>1, <1>2, <1>3, PTL DEF Spec

-----------------------------------------------------------------------------
(* Numbers.                                                                *)

\* A number is its quotient and its rest.
LEMMA Divided ==
    ASSUME NEW n \in Nat, NEW d \in Nat \ {0}
    PROVE  /\ n \div d \in Nat /\ n % d \in 0 .. d - 1
           /\ n = (d * (n \div d)) + (n % d)
OBVIOUS

\* ... and in only one way.
LEMMA DividedOnce ==
    ASSUME NEW q \in Nat, NEW d \in Nat \ {0}, NEW r \in 0 .. d - 1
    PROVE  /\ ((d * q) + r) \div d = q
           /\ ((d * q) + r) % d = r
OBVIOUS

\* What is left is no more than what there was.
LEMMA RestSmaller ==
    ASSUME NEW n \in Nat, NEW d \in Nat \ {0}
    PROVE  n % d \in Nat /\ n % d <= n
<1>1. /\ n \div d \in Nat /\ n % d \in 0 .. d - 1
      /\ n = (d * (n \div d)) + (n % d)
      BY Divided
<1>2. ASSUME NEW q \in Nat PROVE d * q \in Nat
      BY <1>2
<1> QED
    BY <1>1, <1>2

\* A number that the disk takes to be on a track of its own is on one of the
\* console's, when the tracks are not longer than the disk takes them to be.
LEMMA InRange ==
    ASSUME NEW h \in Nat, PerTrack <= Cylinders,
           ~OutOfRange(Place(h).pista, Place(h).sectorNumber)
    PROVE  h < PerTrack * Cylinders
<1> DEFINE q == h \div PerTrack   r == h % PerTrack
<1>1. PerTrack \in Nat \ {0} /\ Cylinders \in Nat \ {0}
      BY DiskAssumption
<1>2. q \in Nat /\ r \in Nat /\ h = (PerTrack * q) + r
      BY <1>1, Divided
<1>3. ~((q * Cylinders) + r > (PerTrack * Cylinders) - 1)
      BY DEF OutOfRange, Place
<1> HIDE DEF q, r
<1>4. PerTrack * q <= q * Cylinders
      BY <1>1, <1>2
<1>5. PerTrack * q \in Nat /\ q * Cylinders \in Nat /\ PerTrack * Cylinders \in Nat
      BY <1>1, <1>2
<1> QED
    BY <1>2, <1>3, <1>4, <1>5

\* A set of naturals with 0, and with the successor of each of its members
\* that is below n, has every natural up to n.
LEMMA UpTo ==
    ASSUME NEW n \in Nat, NEW S \in SUBSET Nat,
           0 \in S, \A m \in S : m < n => m + 1 \in S
    PROVE  n \in S
<1> DEFINE R == {p \in Nat \X Nat : p[1] < p[2]}
           T == {m \in 0 .. n : m \notin S}
<1>1. SUFFICES ASSUME T # {} PROVE FALSE
      OBVIOUS
<1>2. PICK x \in T : \A y \in T : ~(<<y, x>> \in R)
  <2>1. T \subseteq Nat
        OBVIOUS
  <2>2. IsWellFoundedOn(R, Nat)
        BY NatLessThanWellFounded DEF OpToRel
  <2> HIDE DEF R, T
  <2> QED
      BY <1>1, <2>1, <2>2, WFMin
<1>3. x \in Nat /\ x # 0 /\ x <= n
      OBVIOUS
<1>4. x - 1 \in 0 .. n /\ <<x - 1, x>> \in R
      BY <1>3
<1>5. x - 1 \in S
      BY <1>2, <1>4
<1> QED
    BY <1>3, <1>5

\* A change of track leaves the head at a sector that is a word, ...
LEMMA NewSectorIsWord ==
    ASSUME NEW s \in 0 .. Word - 1
    PROVE  NuevoSectorActual(s) \in 0 .. Word - 1
<1>1. Jumped % PerTrack \in 0 .. PerTrack - 1
  <2>1. Jumped \in Nat /\ PerTrack \in Nat \ {0}
        BY DiskAssumption
  <2> QED
      BY <2>1, Divided
<1>2. PICK r \in 0 .. PerTrack - 1 : r = Jumped % PerTrack
      BY <1>1
<1>3. PerTrack \in 1 .. Word - 1 /\ Word \in Nat
      BY DiskAssumption
<1>4. (IF s + r >= PerTrack THEN s + r - PerTrack ELSE s + r) \in 0 .. Word - 1
      BY <1>3
<1>5. NuevoSectorActual(s) = IF s + (Jumped % PerTrack) >= PerTrack
                             THEN s + (Jumped % PerTrack) - PerTrack
                             ELSE s + (Jumped % PerTrack)
      BY <1>1, <1>3, DiskAssumption DEF NuevoSectorActual
<1> QED
    BY <1>2, <1>4, <1>5

\* ... and so do several.
LEMMA AfterTracksIsWord ==
    ASSUME NEW s \in 0 .. Word - 1, NEW n \in Nat
    PROVE  AfterTracks(s, n) \in 0 .. Word - 1
<1> DEFINE Is(f, k) == f = [i \in 0 .. k |-> IF i = 0 THEN s ELSE NuevoSectorActual(f[i - 1])]
           I == {k \in Nat : \E f : Is(f, k)}
<1>1. \E f : Is(f, n)
  <2>1. 0 \in I
    <3>1. Is([i \in 0 .. 0 |-> s], 0)
          OBVIOUS
    <3> QED
        BY <3>1
  <2>2. ASSUME NEW k \in I
        PROVE  k + 1 \in I
    <3>1. PICK f : Is(f, k)
          OBVIOUS
    <3> DEFINE g == [i \in 0 .. k + 1 |-> IF i = k + 1 THEN NuevoSectorActual(f[k]) ELSE f[i]]
    <3>2. \A i \in 0 .. k + 1 : g[i] = IF i = 0 THEN s ELSE NuevoSectorActual(g[i - 1])
          BY <3>1
    <3>3. Is(g, k + 1)
          BY <3>2
    <3>4. \E h : Is(h, k + 1)
      <4> HIDE DEF g, Is
      <4> QED
          BY <3>3
    <3> QED
        BY <3>4
  <2>3. n \in I
    <3>1. I \in SUBSET Nat
          OBVIOUS
    <3> HIDE DEF I
    <3> QED
        BY <2>1, <2>2, <3>1, UpTo
  <2> QED
      BY <2>3
<1> DEFINE after == CHOOSE f : Is(f, n)
<1>2. Is(after, n)
  <2> HIDE DEF Is
  <2> QED
      BY <1>1
<1>3. AfterTracks(s, n) = after[n]
      BY DEF AfterTracks
<1> HIDE DEF after
<1> DEFINE W == {k \in Nat : k <= n => after[k] \in 0 .. Word - 1}
<1>4. 0 \in W
      BY <1>2
<1>5. ASSUME NEW k \in W, k < n
      PROVE  k + 1 \in W
  <2>1. after[k] \in 0 .. Word - 1
        BY <1>5
  <2>2. after[k + 1] = NuevoSectorActual(after[k])
        BY <1>2, <1>5
  <2> QED
      BY <2>1, <2>2, NewSectorIsWord
<1>6. n \in W
  <2>1. W \in SUBSET Nat
        OBVIOUS
  <2> HIDE DEF W
  <2> QED
      BY <1>4, <1>5, <2>1, UpTo
<1> QED
    BY <1>3, <1>6

-----------------------------------------------------------------------------
(* The traces, and the types.                                              *)

\* A number of a list is on the disk when the two sides agree on where: the
\* disk takes the cylinders for the sectors of a track.
TracksFit == PerTrack <= Cylinders

Wanted == Place(Head(list))
Here == [pista |-> walk.pista, sectorNumber |-> walk.sectorNumber]
Following(s) == LET n == (s + 1) % Word IN IF n = PerTrack THEN 0 ELSE n

\* A sector that may be printed next, and one that may end a trace.
Follows(p) ==
    reached # None => /\ p.pista = reached.pista
                      /\ p.sectorNumber = Following(reached.sectorNumber)
Ends(p) ==
    TracksFit => /\ reached \in {None, Wanted}
                 /\ p = Wanted
                 /\ Head(list) < PerTrack * Cylinders

Job == [n : 0 .. Jobs, op : {"get", "put", "trace"}, sector : Nat]
JobOK(j) == j \in Job /\ (j.op # "trace" => j.sector < Word)

JobsInv ==
    /\ \A j \in jobsQueue : JobOK(j)
    /\ IF pc["worker"] \in {"off", "pick"} THEN job = None ELSE JobOK(job)
    /\ pc["worker"] \notin {"off", "pick", "do"} /\ job.op = "trace" => perCylinder = Cylinders

HeadInv ==
    /\ posicionActual \in [pista : Nat, sectorNumber : 0 .. Word - 1]
    /\ perCylinder \in {Pointer, Cylinders}

\* The console's question names what it waits for.
AskInv ==
    /\ toDisk \in Seq(MessageConsolePPD)
    /\ up /\ toDisk # <<>> /\ ~Tracing("worker") /\ ~Tracing("service") =>
          LET m == Head(toDisk)
          IN /\ pc["console"] \in {"info", "where"} => m.messageID = "posicion"
             /\ pc["console"] = "geometry" => m.messageID = "porCilindro"
             /\ pc["console"] = "trace" => /\ m.messageID = "recorridos"
                                           /\ m.pistaSector = Wanted
                                           /\ reached = None

ToldInv ==
    /\ toConsole \in Seq(MessageConsolePPD)
    /\ toConsole # <<>> =>
          LET m == Head(toConsole)
          IN /\ pc["console"] = "geometry" => m.pistaSector.sectorNumber = PerTrack
             /\ pc["console"] = "trace" =>
                   /\ m.messageID = "recorridos" => Follows(m.pistaSector)
                   /\ m.messageID = "tiempo" => Ends(m.pistaSector)
             /\ up /\ m.messageID = "recorridos" => Tracing("worker") \/ Tracing("service")

ConsoleInv ==
    /\ list \in Seq(Nat)
    /\ pc["console"] \in {"where", "geometry", "trace"} => list # <<>>
    /\ consolePerTrack \in {0, PerTrack}
    /\ reached \in Position \cup {None}

\* A trace that waits for the worker is for the sector that is wanted.
IsTraceJob(j) == j \in TraceJobs \/ (InHand /\ j = job)
TraceJobInv ==
    up => \A j : IsTraceJob(j) =>
              /\ reached = None
              /\ j.sector = Wanted.pista * perCylinder + Wanted.sectorNumber

\* The trace of t goes round the track that is wanted, and what the console
\* has printed last is where it stands.
Moving(t) ==
    /\ walk \in [pista : Nat, wanted : Nat, sectorNumber : 0 .. Word - 1]
    /\ TracksFit => /\ [pista |-> walk.pista, sectorNumber |-> walk.wanted] = Wanted
                    /\ Head(list) < PerTrack * Cylinders
    /\ pc[t] \in {"track", "sector"} => walk.sectorNumber = walk.wanted
    /\ toConsole = <<>> => reached \in {None, Here}
    /\ toConsole # <<>> => Head(toConsole).pistaSector = Here

Ended ==
    /\ walk \in MessageConsolePPD
    /\ walk.messageID \in {"tiempo", "error"}
    /\ walk.messageID = "tiempo" => Ends(walk.pistaSector)

WalkInv ==
    up => \A t \in {"worker", "service"} :
              /\ pc[t] \in {"walk", "echo", "track", "sector"} => Moving(t)
              /\ pc[t] \in {"signal", "answer"} => Ended

TraceInv == /\ JobsInv /\ HeadInv /\ AskInv /\ ToldInv
            /\ ConsoleInv /\ TraceJobInv /\ WalkInv

\* Steps that leave one of these as it was.
JobsSame ==
    /\ UNCHANGED <<jobsQueue, job>>
    /\ perCylinder' \in {perCylinder, Cylinders}
    /\ pc'["worker"] \in {"off", "pick"} <=> pc["worker"] \in {"off", "pick"}
    /\ pc["worker"] \in {"off", "pick", "do"} => pc'["worker"] \in {"off", "pick", "do"}

HeadSame == UNCHANGED <<posicionActual, perCylinder>>

AskSame ==
    /\ UNCHANGED <<toDisk, list, reached>>
    /\ up' => up
    /\ pc'["console"] \in {"info", "where", "geometry", "trace"} => pc'["console"] = pc["console"]
    /\ \A t \in {"worker", "service"} : Tracing(t) => Tracing(t)'

ToldSame ==
    /\ UNCHANGED <<toConsole, list, reached>>
    /\ up' => up
    /\ \A t \in {"worker", "service"} : Tracing(t) => Tracing(t)'
    /\ pc'["console"] \in {"geometry", "trace"} => pc'["console"] = pc["console"]

ConsoleSame ==
    /\ UNCHANGED <<list, consolePerTrack, reached>>
    /\ pc'["console"] \in {"where", "geometry", "trace"} =>
          pc["console"] \in {"where", "geometry", "trace"}

TraceJobSame ==
    /\ UNCHANGED <<list, reached, perCylinder>>
    /\ up' => up
    /\ \A j : IsTraceJob(j)' => IsTraceJob(j)

WalkSame ==
    /\ UNCHANGED <<walk, perCylinder, list, reached, toConsole>>
    /\ up' => up
    /\ \A t \in {"worker", "service"} :
          Tracing(t)' => pc'[t] = pc[t] \/ (pc[t] = "signal" /\ pc'[t] = "answer")

Frames ==
    /\ \/ JobsSame \/ ReceiveJob \/ PickFromQueue \/ ReadOrWrite \/ BeginTrace \/ MoveHead
       \/ QueueTrace
    /\ \/ HeadSame \/ BeginTrace \/ MoveHead \/ Origin \/ ServeTrace
       \/ \E t \in {"worker", "service"} : Arrive(t)
    /\ \/ AskSame \/ ServePosition \/ ServePerTrack \/ ServeTrace \/ QueueTrace
       \/ AnswerTrace("worker", "move") \/ AnswerTrace("service", "receive")
       \/ \E t \in {"worker", "service"} : Echo(t)
       \/ Info \/ Trace \/ Printing
    /\ \/ ToldSame \/ ServePosition \/ ServePerTrack
       \/ AnswerTrace("worker", "move") \/ AnswerTrace("service", "receive")
       \/ \E t \in {"worker", "service"} : Walk(t)
       \/ Trace \/ Printing
    /\ \/ ConsoleSame \/ Trace \/ Printing
    /\ \/ TraceJobSame \/ BeginTrace \/ ServeTrace \/ QueueTrace \/ Trace \/ Printing
    /\ \/ WalkSame \/ BeginTrace \/ ServeTrace \/ ServePosition \/ ServePerTrack
       \/ AnswerTrace("worker", "move") \/ AnswerTrace("service", "receive")
       \/ \E t \in {"worker", "service"} : TiempoConsumido(t)
       \/ Trace \/ Printing

\* Which steps disturb what.
LEMMA ReceiverFrames ==
    ASSUME PcOK, LaunchInv,
           Launch \/ ReceiveJob \/ ReceiveSyncPut \/ ReplicatePut \/ ReceiveSyncEnd
           \/ ReceiveSyncGet \/ Stream \/ FinishReplication \/ Disconnected
    PROVE  Frames
<1> USE DEF Frames, JobsSame, HeadSame, AskSame, ToldSame, ConsoleSame, TraceJobSame, WalkSame,
            IsTraceJob, TraceJobs, InHand, Tracing, LaunchInv, PcOK, Threads, Places, At, Go,
            volumeVars, queueVars, headVars, socketVars, consoleVars
<1>1. CASE Fork
      BY <1>1 DEF Fork
<1>2. CASE Listen
      BY <1>2 DEF Listen
<1>3. CASE Accept
      BY <1>3 DEF Accept
<1>4. CASE ReceiveJob
      BY <1>4 DEF ReceiveJob
<1>5. CASE ReceiveSyncPut \/ ReplicatePut
      BY <1>5 DEF ReceiveSyncPut, ReplicatePut
<1>6. CASE ReceiveSyncEnd
      BY <1>6 DEF ReceiveSyncEnd
<1>7. CASE ReceiveSyncGet
      BY <1>7 DEF ReceiveSyncGet
<1>8. CASE Stream \/ Disconnected
      BY <1>8 DEF Stream, Disconnected
<1>9. CASE FinishReplication
      BY <1>9 DEF FinishReplication, InitializeVolumeSize, UnmapDevice, MapDevice
<1> QED
    BY <1>1, <1>2, <1>3, <1>4, <1>5, <1>6, <1>7, <1>8, <1>9 DEF Launch

LEMMA TraceFrames ==
    ASSUME PcOK, NEW t \in {"worker", "service"}, TiempoConsumido(t)
    PROVE  Frames
<1> USE DEF Frames, JobsSame, HeadSame, AskSame, ToldSame, ConsoleSame, TraceJobSame, WalkSame,
            IsTraceJob, TraceJobs, InHand, Tracing, PcOK, Threads, Places, At, Go,
            volumeVars, queueVars, headVars, socketVars, consoleVars
<1>1. CASE Walk(t)
      BY <1>1 DEF Walk
<1>2. CASE Echo(t)
      BY <1>2 DEF Echo
<1>3. CASE WalkEnd(t)
      BY <1>3 DEF WalkEnd
<1>4. CASE Arrive(t)
      BY <1>4 DEF Arrive, SetTrack, SetSector
<1> QED
    BY <1>1, <1>2, <1>3, <1>4 DEF TiempoConsumido

LEMMA WorkerFrames ==
    ASSUME PcOK, Worker
    PROVE  Frames
<1> USE DEF Frames, JobsSame, HeadSame, AskSame, ToldSame, ConsoleSame, TraceJobSame, WalkSame,
            IsTraceJob, TraceJobs, InHand, Tracing, PcOK, Threads, Places, At, Go,
            volumeVars, queueVars, headVars, socketVars, consoleVars
<1>1. CASE PickFromQueue
      BY <1>1 DEF PickFromQueue
<1>2. CASE ReadOrWrite
      BY <1>2 DEF ReadOrWrite
<1>3. CASE BeginTrace
      BY <1>3 DEF BeginTrace, BeginWalk
<1>4. CASE TiempoConsumido("worker")
      BY <1>4, TraceFrames
<1>5. CASE Signal
      BY <1>5 DEF Signal
<1>6. CASE AnswerTrace("worker", "move")
      BY <1>6 DEF AnswerTrace
<1>7. CASE MoveHead
      BY <1>7 DEF MoveHead, SetTrack, SetSector
<1> QED
    BY <1>1, <1>2, <1>3, <1>4, <1>5, <1>6, <1>7 DEF Worker

LEMMA ServiceFrames ==
    ASSUME PcOK, Service
    PROVE  Frames
<1> USE DEF Frames, JobsSame, HeadSame, AskSame, ToldSame, ConsoleSame, TraceJobSame, WalkSame,
            IsTraceJob, TraceJobs, InHand, Tracing, PcOK, Threads, Places, At, Go,
            volumeVars, queueVars, headVars, socketVars, consoleVars
<1>1. CASE Origin
      BY <1>1 DEF Origin, SetTrack, SetSector
<1>2. CASE ServePosition \/ ServePerTrack
      BY <1>2 DEF ServePosition, ServePerTrack, Asked
<1>3. CASE ServeTrace
      BY <1>3 DEF ServeTrace, BeginWalk, Asked
<1>4. CASE QueueTrace
      BY <1>4 DEF QueueTrace, Asked
<1>5. CASE CondWait
      BY <1>5 DEF CondWait
<1>6. CASE TiempoConsumido("service")
      BY <1>6, TraceFrames
<1>7. CASE AnswerTrace("service", "receive")
      BY <1>7 DEF AnswerTrace
<1> QED
    BY <1>1, <1>2, <1>3, <1>4, <1>5, <1>6, <1>7 DEF Service

LEMMA ConsoleFrames ==
    ASSUME PcOK, Connect \/ Info \/ Trace \/ Exit \/ Unconnected \/ Printing
    PROVE  Frames
<1> USE DEF Frames, JobsSame, HeadSame, AskSame, ToldSame, ConsoleSame, TraceJobSame, WalkSame,
            IsTraceJob, TraceJobs, InHand, Tracing, PcOK, Threads, Places, Go,
            volumeVars, queueVars, headVars, socketVars, consoleVars
<1>1. CASE Connect
      BY <1>1 DEF Connect
<1>2. CASE Info
      BY <1>2 DEF Info, Ask
<1>3. CASE Trace
      BY <1>3 DEF Trace, Ask
<1>4. CASE Exit
      BY <1>4 DEF Exit
<1>5. CASE Unconnected
      BY <1>5 DEF Unconnected
<1>6. CASE PrintPosition \/ AskPerTrack
      BY <1>6 DEF Printing, PrintPosition, AskPerTrack, Ask
<1>7. CASE AskTrace \/ PrintSector
      BY <1>7 DEF Printing, AskTrace, PrintSector, Ask
<1>8. CASE PrintTime
      BY <1>8 DEF Printing, PrintTime, Ask
<1>9. CASE EndOfFile
      BY <1>9 DEF Printing, EndOfFile
<1> QED
    BY <1>1, <1>2, <1>3, <1>4, <1>5, <1>6, <1>7, <1>8, <1>9 DEF Printing

LEMMA StepFrames ==
    ASSUME PcOK, LaunchInv, [Next]_vars
    PROVE  Frames
<1>1. CASE UNCHANGED vars
      BY <1>1 DEF vars, Frames, JobsSame, HeadSame, AskSame, ToldSame, ConsoleSame,
                  TraceJobSame, WalkSame, IsTraceJob, TraceJobs, InHand, Tracing,
                  volumeVars, queueVars, headVars, socketVars, consoleVars
<1> QED
    BY <1>1, ReceiverFrames, WorkerFrames, ServiceFrames, ConsoleFrames DEF Next

\* What the socket holds are messages.
LEMMA FirstMessage ==
    ASSUME NEW q \in Seq(MessageConsolePPD), q # <<>>
    PROVE  /\ Head(q) \in MessageConsolePPD
           /\ Head(q).pistaSector \in Position
           /\ Tail(q) \in Seq(MessageConsolePPD)
<1>1. Head(q) \in MessageConsolePPD /\ Tail(q) \in Seq(MessageConsolePPD)
      OBVIOUS
<1> DEFINE m == Head(q)
<1> HIDE DEF m
<1>2. m \in MessageConsolePPD
      BY <1>1 DEF m
<1>3. m.pistaSector \in Position
      BY <1>2 DEF MessageConsolePPD
<1> QED
    BY <1>1, <1>3 DEF m

\* The thread that traces is alone with the console.
LEMMA TracesAlone ==
    ASSUME TurnInv, up, NEW t \in {"worker", "service"}, Tracing(t)
    PROVE  /\ \A o \in {"worker", "service"} : Tracing(o) => o = t
           /\ pc["console"] = "trace"
           /\ TraceJobs = {} /\ ~InHand
           /\ pc[t] # "echo" => Nothing
<1>1. Turn
      BY DEF TurnInv
<1>2. UnderWay("worker", "service") \/ UnderWay("service", "worker")
      BY <1>1 DEF Turn, Rest, Asking, Answered, Queued, NoTrace, Tracing
<1> QED
    BY <1>2 DEF UnderWay

LEMMA JobsStep ==
    ASSUME TraceInv, TurnInv, [Next]_vars, sent \in 0 .. Jobs
    PROVE  JobsInv'
<1> USE DEF TraceInv, JobsInv, Go, At
<1>0. Frames /\ PcOK
      BY StepFrames DEF TurnInv
<1>1. CASE JobsSame
      BY <1>1 DEF JobsSame
<1>2. CASE ReceiveJob
  <2>1. PICK op \in {"get", "put"}, s \in JobSectors :
           jobsQueue' = jobsQueue \cup {[n |-> sent + 1, op |-> op, sector |-> s]}
        BY <1>2 DEF ReceiveJob
  <2>2. sent + 1 \in 0 .. Jobs /\ s \in 0 .. Word - 1
        BY <1>2, DiskAssumption DEF ReceiveJob
  <2>3. JobOK([n |-> sent + 1, op |-> op, sector |-> s])
        BY <2>2, DiskAssumption DEF JobOK, Job
  <2>4. UNCHANGED <<pc, job, perCylinder>>
        BY <1>2 DEF ReceiveJob, headVars
  <2> QED
      BY <2>1, <2>3, <2>4
<1>3. CASE PickFromQueue
  <2>1. PICK j \in jobsQueue : job' = j /\ jobsQueue' = jobsQueue \ {j}
        BY <1>3 DEF PickFromQueue
  <2>2. pc'["worker"] = "do"
        BY <1>0, <1>3 DEF PickFromQueue, PcOK, Threads
  <2> QED
      BY <2>1, <2>2
<1>4. CASE ReadOrWrite
  <2>1. pc["worker"] = "do" /\ pc'["worker"] = "move" /\ job.op # "trace"
        /\ UNCHANGED <<jobsQueue, job>>
        BY <1>0, <1>4 DEF ReadOrWrite, PcOK, Threads, queueVars
  <2> QED
      BY <2>1
<1>5. CASE BeginTrace
  <2>1. pc["worker"] = "do" /\ pc'["worker"] \in {"walk", "signal"} /\ perCylinder' = Cylinders
        /\ UNCHANGED <<jobsQueue, job>>
        BY <1>0, <1>5 DEF BeginTrace, BeginWalk, PcOK, Threads, queueVars
  <2> QED
      BY <2>1
<1>6. CASE MoveHead
  <2>1. /\ UNCHANGED <<jobsQueue, perCylinder>>
        /\ \/ pc["worker"] = "move" /\ pc'["worker"] = "arrive" /\ job' = job
           \/ pc'["worker"] = "pick" /\ job' = None
        BY <1>0, <1>6 DEF MoveHead, SetTrack, SetSector, PcOK, Threads
  <2> QED
      BY <2>1
<1>7. CASE QueueTrace
  <2> DEFINE w == Head(toDisk).pistaSector
  <2>1. w \in Position
        BY <1>7, FirstMessage DEF QueueTrace, Asked, AskInv
  <2>2. jobsQueue' = jobsQueue \cup
           {[n |-> 0, op |-> "trace", sector |-> w.pista * perCylinder + w.sectorNumber]}
        BY <1>7 DEF QueueTrace
  <2>3. /\ UNCHANGED <<job, perCylinder>>
        /\ pc'["worker"] = pc["worker"]
        BY <1>0, <1>7 DEF QueueTrace, PcOK, Threads, headVars
  <2>4. w.pista * perCylinder + w.sectorNumber \in Nat
    <3>1. w.pista \in Nat /\ w.sectorNumber \in Nat /\ perCylinder \in Nat
          BY <2>1, DiskAssumption DEF HeadInv, Position
    <3>2. \A a, b, c \in Nat : a * b + c \in Nat
          OBVIOUS
    <3> HIDE DEF w
    <3> QED
        BY <3>1, <3>2
  <2>5. JobOK([n |-> 0, op |-> "trace", sector |-> w.pista * perCylinder + w.sectorNumber])
    <3> DEFINE s == w.pista * perCylinder + w.sectorNumber
    <3>1. s \in Nat
          BY <2>4
    <3> HIDE DEF s
    <3>2. 0 \in 0 .. Jobs
          BY DiskAssumption
    <3>3. JobOK([n |-> 0, op |-> "trace", sector |-> s])
          BY <3>1, <3>2 DEF JobOK, Job
    <3> QED
        BY <3>3 DEF s
  <2> QED
      BY <2>2, <2>3, <2>5
<1> QED
    BY <1>0, <1>1, <1>2, <1>3, <1>4, <1>5, <1>6, <1>7 DEF Frames

\* The head is set to a track, and to a sector.
LEMMA HeadSet ==
    ASSUME HeadInv, NEW p \in Nat, NEW s \in 0 .. Word - 1
    PROVE  /\ [posicionActual EXCEPT !.pista = p] \in [pista : Nat, sectorNumber : 0 .. Word - 1]
           /\ [posicionActual EXCEPT !.sectorNumber = s] \in
                 [pista : Nat, sectorNumber : 0 .. Word - 1]
BY DEF HeadInv

LEMMA HeadStep ==
    ASSUME TraceInv, TurnInv, [Next]_vars
    PROVE  HeadInv'
<1> USE DEF TraceInv
<1>0. Frames
      BY StepFrames DEF TurnInv
<1>1. CASE HeadSame
      BY <1>1 DEF HeadSame, HeadInv
<1>2. CASE BeginTrace \/ ServeTrace
      BY <1>2 DEF BeginTrace, ServeTrace, BeginWalk, HeadInv
<1>3. CASE Origin
  <2>1. 0 \in Nat /\ 0 \in 0 .. Word - 1
        BY DiskAssumption
  <2> QED
      BY <1>3, <2>1, HeadSet DEF Origin, SetTrack, SetSector, HeadInv
<1>4. CASE MoveHead
  <2>1. pc["worker"] \in {"move", "arrive"}
        BY <1>4 DEF MoveHead, SetTrack, SetSector, At
  <2>2. JobOK(job) /\ (job.op = "trace" => perCylinder = Cylinders)
        BY <2>1 DEF JobsInv
  <2>3. perCylinder \in Nat \ {0} /\ job.sector \in Nat
        BY <2>2, DiskAssumption DEF HeadInv, JobOK, Job
  <2>4. Pista(job.sector) \in Nat
        BY <2>3, Divided DEF Pista
  <2>5. SectorOfPista(job.sector) \in 0 .. Word - 1
    <3>1. SectorOfPista(job.sector) \in Nat /\ SectorOfPista(job.sector) <= job.sector
          BY <2>3, RestSmaller DEF SectorOfPista
    <3>2. SectorOfPista(job.sector) \in 0 .. perCylinder - 1
          BY <2>3, Divided DEF SectorOfPista
    <3> DEFINE x == SectorOfPista(job.sector)
    <3>3. x \in Nat /\ x <= job.sector /\ x \in 0 .. perCylinder - 1
          BY <3>1, <3>2
    <3> HIDE DEF x
    <3>4. x \in 0 .. Word - 1
          BY <2>2, <2>3, <3>3, DiskAssumption DEF JobOK
    <3> QED
        BY <3>4 DEF x
  <2> QED
      BY <1>4, <2>4, <2>5, HeadSet DEF MoveHead, SetTrack, SetSector, HeadInv
<1>5. ASSUME NEW t \in {"worker", "service"}, Arrive(t)
      PROVE  HeadInv'
  <2>1. walk.pista \in Nat /\ walk.sectorNumber \in 0 .. Word - 1
        BY <1>5 DEF Arrive, SetTrack, SetSector, At, WalkInv, Moving
  <2> QED
      BY <1>5, <2>1, HeadSet DEF Arrive, SetTrack, SetSector, HeadInv
<1> QED
    BY <1>0, <1>1, <1>2, <1>3, <1>4, <1>5 DEF Frames

LEMMA ConsoleStep ==
    ASSUME TraceInv, TurnInv, [Next]_vars
    PROVE  ConsoleInv'
<1> USE DEF TraceInv, ConsoleInv
<1>0. Frames /\ PcOK
      BY StepFrames DEF TurnInv
<1>1. CASE ConsoleSame
      BY <1>1 DEF ConsoleSame
<1>2. CASE Trace
  <2>1. PICK l \in Lists : \E first \in AsRead(l[1]) : list' = <<first>> \o Tail(l)
        BY <1>2 DEF Trace
  <2>2. PICK first \in AsRead(l[1]) : list' = <<first>> \o Tail(l)
        BY <2>1
  <2>3a. l \in {k \in Seq(Nat) : Len(k) \in 1 .. 5}
        BY DiskAssumption
  <2>3. l \in Seq(Nat) /\ Len(l) >= 1
        BY <2>3a
  <2>4. l[1] \in Nat /\ Tail(l) \in Seq(Nat)
        BY <2>3
  <2>5. first \in Nat
    <3>1. first = l[1] \/ \E d \in Junk : first = 10 * l[1] + d
          BY <2>2 DEF AsRead
    <3>2. Junk \subseteq 0 .. 9
          BY DiskAssumption
    <3> QED
        BY <2>4, <3>1, <3>2
  <2>6. list' \in Seq(Nat) /\ list' # <<>>
        BY <2>2, <2>4, <2>5
  <2> QED
      BY <1>2, <2>6 DEF Trace
<1>3. CASE PrintPosition \/ AskPerTrack
      BY <1>0, <1>3 DEF PrintPosition, AskPerTrack, Told, Ask, Go, PcOK, Threads, consoleVars
<1>4. CASE AskTrace
  <2>1. pc["console"] = "geometry" /\ toConsole # <<>>
        BY <1>4 DEF AskTrace, Told
  <2>2. consolePerTrack' = PerTrack
        BY <1>4, <2>1 DEF AskTrace, ToldInv
  <2> QED
      BY <1>4, <2>1, <2>2 DEF AskTrace
<1>5. CASE PrintSector
  <2>1. pc["console"] = "trace" /\ toConsole # <<>>
        BY <1>5 DEF PrintSector, Told
  <2>2. reached' \in Position
        BY <1>5, <2>1, FirstMessage DEF PrintSector, ToldInv
  <2> QED
      BY <1>5, <2>1, <2>2 DEF PrintSector
<1>6. CASE PrintTime
  <2>1. pc["console"] = "trace" /\ list # <<>> /\ list' = Tail(list) /\ reached' = None
        /\ consolePerTrack' = consolePerTrack
        BY <1>6 DEF PrintTime, Told
  <2>2. list' \in Seq(Nat)
        BY <2>1
  <2>3. pc'["console"] \in {"where", "geometry", "trace"} => list' # <<>>
        BY <1>0, <1>6, <2>1 DEF PrintTime, Ask, Go, PcOK, Threads
  <2> QED
      BY <2>1, <2>2, <2>3
<1>7. CASE EndOfFile
      BY <1>0, <1>7 DEF EndOfFile, Go, PcOK, Threads, consoleVars
<1> QED
    BY <1>0, <1>1, <1>2, <1>3, <1>4, <1>5, <1>6, <1>7 DEF Frames, Printing

\* What TiempoConsumido begins: a trace on the track that is wanted, or the
\* refusal of one that is not on the disk.
LEMMA BeginWalkMoves ==
    ASSUME TraceInv, PcOK, NEW t \in {"worker", "service"}, NEW p \in Nat, NEW s \in Nat,
           BeginWalk(t, p, s), UNCHANGED <<list, reached>>, list # <<>>, reached = None,
           toConsole' = <<>>,
           TracksFit => [pista |-> p, sectorNumber |-> s] = Wanted
    PROVE  /\ perCylinder' = Cylinders
           /\ \/ pc'[t] = "walk" /\ Moving(t)'
              \/ pc'[t] \in {"signal", "answer"} /\ Ended'
<1>1. CASE OutOfRange(p, s)
  <2>1. walk' = Blank("error") /\ pc'[t] \in {"signal", "answer"} /\ perCylinder' = Cylinders
        BY <1>1 DEF BeginWalk, Go, PcOK, Threads
  <2>2. Blank("error") \in MessageConsolePPD /\ Blank("error").messageID = "error"
        BY DEF Blank, Message, MessageConsolePPD, Position
  <2>3. Ended'
        BY <2>1, <2>2 DEF Ended
  <2> QED
      BY <2>1, <2>3
<1>2. CASE ~OutOfRange(p, s)
  <2> DEFINE a == AfterTracks(posicionActual.sectorNumber, Distance(posicionActual.pista, p))
  <2>1. posicionActual.pista \in Nat /\ posicionActual.sectorNumber \in 0 .. Word - 1
        BY DEF TraceInv, HeadInv
  <2>2. Distance(posicionActual.pista, p) \in Nat
        BY <2>1 DEF Distance
  <2>3. a \in 0 .. Word - 1
        BY <2>1, <2>2, AfterTracksIsWord
  <2>4. walk' = [pista |-> p, wanted |-> s, sectorNumber |-> a]
        BY <1>2 DEF BeginWalk
  <2>5. pc'[t] = "walk" /\ perCylinder' = Cylinders
        BY <1>2 DEF BeginWalk, Go, PcOK, Threads
  <2>6. TracksFit => Head(list) < PerTrack * Cylinders
    <3> SUFFICES ASSUME TracksFit PROVE Head(list) < PerTrack * Cylinders
        OBVIOUS
    <3>1. [pista |-> p, sectorNumber |-> s] = Place(Head(list))
          BY DEF Wanted
    <3>2. p = Place(Head(list)).pista /\ s = Place(Head(list)).sectorNumber
          BY <3>1 DEF Place
    <3>3. Head(list) \in Nat
          BY DEF TraceInv, ConsoleInv
    <3> QED
        BY <1>2, <3>2, <3>3, InRange DEF TracksFit
  <2>7. Wanted' = Wanted
        BY DEF Wanted
  <2> HIDE DEF a
  <2>8. walk' \in [pista : Nat, wanted : Nat, sectorNumber : 0 .. Word - 1]
        /\ walk'.pista = p /\ walk'.wanted = s
        BY <2>3, <2>4
  <2>9. Moving(t)'
        BY <2>5, <2>6, <2>7, <2>8 DEF Moving
  <2> QED
      BY <2>5, <2>9
<1> QED
    BY <1>1, <1>2

\* The job of a trace splits again into what the console asked for.
LEMMA TraceJobPlace ==
    ASSUME TraceInv, up, InHand, list # <<>>
    PROVE  /\ Pista(job.sector) \in Nat /\ SectorOfPista(job.sector) \in Nat
           /\ reached = None
           /\ TracksFit => [pista |-> Pista(job.sector), sectorNumber |-> SectorOfPista(job.sector)]
                             = Wanted
<1>1. perCylinder \in Nat \ {0} /\ PerTrack \in Nat \ {0}
      BY DiskAssumption DEF TraceInv, HeadInv
<1>2. JobOK(job)
      BY DEF TraceInv, JobsInv, InHand
<1>3. job.sector \in Nat
      BY <1>2 DEF JobOK, Job
<1>4. Pista(job.sector) \in Nat /\ SectorOfPista(job.sector) \in Nat
  <2>1. job.sector \div perCylinder \in Nat
        BY <1>1, <1>3, Divided
  <2>2. job.sector % perCylinder \in Nat
        BY <1>1, <1>3, RestSmaller
  <2> QED
      BY <2>1, <2>2 DEF Pista, SectorOfPista
<1>5. reached = None /\ job.sector = Wanted.pista * perCylinder + Wanted.sectorNumber
      BY DEF TraceInv, TraceJobInv, IsTraceJob
<1>6. ASSUME TracksFit
      PROVE  Pista(job.sector) = Wanted.pista /\ SectorOfPista(job.sector) = Wanted.sectorNumber
  <2> DEFINE q == Head(list) \div PerTrack   r == Head(list) % PerTrack
  <2>1. Head(list) \in Nat
        BY DEF TraceInv, ConsoleInv
  <2>2. q \in Nat /\ r \in 0 .. PerTrack - 1
        BY <1>1, <2>1, Divided
  <2>3. Wanted.pista = q /\ Wanted.sectorNumber = r
        BY DEF Wanted, Place
  <2> HIDE DEF q, r
  <2>4. r \in 0 .. perCylinder - 1
        BY <1>6, <2>2, DiskAssumption DEF TraceInv, HeadInv, TracksFit
  <2>5. job.sector = (perCylinder * q) + r
        BY <1>1, <1>5, <2>2, <2>3
  <2>6. job.sector \div perCylinder = q /\ job.sector % perCylinder = r
        BY <1>1, <2>2, <2>4, <2>5, DividedOnce
  <2> QED
      BY <2>3, <2>6 DEF Pista, SectorOfPista
<1>7. Wanted = [pista |-> Wanted.pista, sectorNumber |-> Wanted.sectorNumber]
      BY DEF Wanted, Place
<1> QED
    BY <1>4, <1>5, <1>6, <1>7

\* A step of a trace under way.
LEMMA TraceMoves ==
    ASSUME TraceInv, TurnInv, NEW t \in {"worker", "service"}, TiempoConsumido(t)
    PROVE  /\ perCylinder' = perCylinder /\ pc'["console"] = pc["console"]
           /\ \A o \in {"worker", "service"} : o # t => pc'[o] = pc[o]
           /\ pc'[t] \in {"walk", "echo", "track", "sector"} => Moving(t)'
           /\ pc'[t] \in {"signal", "answer"} => Ended'
           /\ Tracing(t) /\ Tracing(t)' /\ up /\ up'
<1> USE DEF Go, At
<1>0. /\ PcOK /\ up /\ up' /\ Tracing(t) /\ Moving(t) /\ UNCHANGED <<list, reached, perCylinder>>
      /\ \A o \in Threads : o # t => pc'[o] = pc[o]
      /\ Tracing(t)'
      BY DEF TurnInv, TiempoConsumido, Walk, Echo, WalkEnd, Arrive, SetTrack, SetSector, Tracing,
             TraceInv, WalkInv, PcOK, Threads, headVars, consoleVars
<1>a. pc["console"] = "trace" /\ (pc[t] # "echo" => Nothing)
      BY <1>0, TracesAlone
<1>b. Wanted' = Wanted
      BY <1>0 DEF Wanted
<1>1. CASE Walk(t)
  <2> DEFINE n == NextSector
  <2>1. toConsole = <<>>
        BY <1>1, <1>a DEF Walk, Nothing
  <2>2. toConsole' = <<Message("recorridos", walk.pista, n)>>
        BY <1>1, <2>1 DEF Walk, Answer
  <2>3. n \in 0 .. Word - 1
    <3>1. walk.sectorNumber \in 0 .. Word - 1
          BY <1>0 DEF Moving
    <3>2. (walk.sectorNumber + 1) % Word \in 0 .. Word - 1
          BY <3>1, DiskAssumption
    <3>3. n = (walk.sectorNumber + 1) % Word \/ n = 0
          BY DEF NextSector
    <3> QED
        BY <3>2, <3>3, DiskAssumption
  <2> HIDE DEF n
  <2>4. walk' = [walk EXCEPT !.sectorNumber = n] /\ pc'[t] = "echo"
        BY <1>0, <1>1 DEF Walk, PcOK, Threads, n
  <2>5. walk' \in [pista : Nat, wanted : Nat, sectorNumber : 0 .. Word - 1]
        /\ walk'.pista = walk.pista /\ walk'.wanted = walk.wanted /\ walk'.sectorNumber = n
        BY <1>0, <2>3, <2>4 DEF Moving
  <2>6. toConsole' # <<>> /\ Head(toConsole').pistaSector
                               = [pista |-> walk.pista, sectorNumber |-> n]
    <3> DEFINE m == Message("recorridos", walk.pista, n)
    <3>1. m.pistaSector = [pista |-> walk.pista, sectorNumber |-> n]
          BY DEF Message
    <3>2. toConsole' = <<m>>
          BY <2>2
    <3> HIDE DEF m
    <3> QED
        BY <3>1, <3>2
  <2>7. Moving(t)'
        BY <1>0, <1>b, <2>4, <2>5, <2>6 DEF Moving, Here
  <2> QED
      BY <1>0, <2>4, <2>7 DEF Threads
<1>2. CASE Echo(t)
  <2>1. toDisk # <<>> /\ pc'[t] = "walk" /\ pc[t] = "echo" /\ UNCHANGED <<walk, toConsole>>
        BY <1>0, <1>2 DEF Echo, PcOK, Threads, headVars
  <2>2. toConsole = <<>>
        BY <2>1 DEF TurnInv, Nothing, ToDisk, ToConsole
  <2>3. Moving(t)'
        BY <1>0, <1>b, <2>1, <2>2 DEF Moving, Here
  <2> QED
      BY <1>0, <2>1, <2>3 DEF Threads
<1>3. CASE WalkEnd(t)
  <2>1. pc'[t] = "track" /\ UNCHANGED <<walk, toConsole>> /\ walk.sectorNumber = walk.wanted
        BY <1>0, <1>3 DEF WalkEnd, PcOK, Threads, headVars, socketVars
  <2>2. Moving(t)'
        BY <1>0, <1>b, <2>1 DEF Moving, Here
  <2> QED
      BY <1>0, <2>1, <2>2 DEF Threads
<1>4. CASE Arrive(t)
  <2>1. CASE SetTrack(t, "track", walk.pista, "sector") /\ UNCHANGED <<job, walk>>
    <3>1. pc[t] = "track" /\ pc'[t] = "sector" /\ UNCHANGED <<walk, toConsole>>
          BY <1>0, <2>1 DEF SetTrack, PcOK, Threads, socketVars
    <3>2. Moving(t)'
          BY <1>0, <1>b, <3>1 DEF Moving, Here
    <3> QED
        BY <1>0, <3>1, <3>2 DEF Threads
  <2>2. CASE /\ SetSector(t, "sector", walk.sectorNumber,
                          IF t = "worker" THEN "signal" ELSE "answer")
             /\ walk' = Message("tiempo", walk.pista, walk.sectorNumber)
             /\ UNCHANGED job
    <3>1. pc[t] = "sector" /\ pc'[t] \in {"signal", "answer"} /\ toConsole = <<>>
          BY <1>0, <1>a, <2>2 DEF SetSector, PcOK, Threads, Nothing
    <3>2. walk'.messageID = "tiempo" /\ walk'.pistaSector = Here
          BY <2>2 DEF Message, Here
    <3>3. Here \in Position /\ Here = [pista |-> walk.pista, sectorNumber |-> walk.wanted]
          BY <1>0, <3>1, DiskAssumption DEF Here, Moving, Position
    <3>4. walk' \in MessageConsolePPD
          BY <2>2, <3>3 DEF Message, Here, MessageConsolePPD
    <3>6. TracksFit => /\ reached \in {None, Wanted}
                       /\ walk'.pistaSector = Wanted
                       /\ Head(list) < PerTrack * Cylinders
          BY <1>0, <3>1, <3>2, <3>3 DEF Moving
    <3>7. Ended'
          BY <1>0, <1>b, <3>2, <3>4, <3>6 DEF Ended, Ends
    <3> QED
        BY <1>0, <3>1, <3>7 DEF Threads
  <2> QED
      BY <1>4, <2>1, <2>2 DEF Arrive
<1> QED
    BY <1>1, <1>2, <1>3, <1>4 DEF TiempoConsumido

LEMMA WalkStep ==
    ASSUME TraceInv, TurnInv, [Next]_vars
    PROVE  WalkInv'
<1> USE DEF Go, At
<1>0. Frames /\ PcOK /\ WalkInv
      BY StepFrames DEF TurnInv, TraceInv
<1>1. CASE WalkSame
  <2> SUFFICES ASSUME up', NEW t \in {"worker", "service"}
               PROVE  /\ pc'[t] \in {"walk", "echo", "track", "sector"} => Moving(t)'
                      /\ pc'[t] \in {"signal", "answer"} => Ended'
      BY DEF WalkInv
  <2>1. UNCHANGED <<walk, perCylinder, list, reached, toConsole, Wanted, Here>> /\ up
        BY <1>1 DEF WalkSame, Wanted, Here
  <2>2. Tracing(t)' => pc'[t] = pc[t] \/ (pc[t] = "signal" /\ pc'[t] = "answer")
        BY <1>1 DEF WalkSame
  <2>3. pc'[t] = pc[t] /\ Moving(t) => Moving(t)'
        BY <2>1 DEF Moving
  <2>4. Ended => Ended'
        BY <2>1 DEF Ended, Ends
  <2> QED
      BY <1>0, <2>1, <2>2, <2>3, <2>4 DEF WalkInv, Tracing
<1>2. ASSUME \A t \in {"worker", "service"} : up' => ~Tracing(t)'
      PROVE  WalkInv'
      BY <1>2 DEF WalkInv, Tracing
<1>3. ASSUME NEW t \in {"worker", "service"}, NEW o \in {"worker", "service"}, o # t,
             Tracing(t)', ~Tracing(o)',
             pc'[t] \in {"walk", "echo", "track", "sector"} => Moving(t)',
             pc'[t] \in {"signal", "answer"} => Ended'
      PROVE  WalkInv'
      BY <1>3 DEF WalkInv, Tracing
<1>4. CASE BeginTrace
  <2>1. up /\ InHand /\ UNCHANGED <<list, reached, toConsole>>
        /\ BeginWalk("worker", Pista(job.sector), SectorOfPista(job.sector))
        /\ ~Tracing("worker")
        BY <1>4 DEF BeginTrace, InHand, socketVars, consoleVars, Tracing
  <2>2. Queued
        BY <2>1 DEF TurnInv, Turn, Rest, Asking, Answered, UnderWay, NoTrace
  <2>3. toConsole' = <<>> /\ list # <<>>
        BY <2>1, <2>2 DEF Queued, Nothing, TraceInv, ConsoleInv
  <2>4. \/ pc'["worker"] = "walk" /\ Moving("worker")'
        \/ pc'["worker"] \in {"signal", "answer"} /\ Ended'
        BY <1>0, <2>1, <2>3, TraceJobPlace, BeginWalkMoves
  <2>5. pc'["service"] = pc["service"]
        BY <1>0, <2>1 DEF BeginWalk, PcOK, Threads
  <2>6. ~Tracing("service")' /\ Tracing("worker")'
        BY <2>2, <2>4, <2>5 DEF Queued, Tracing
  <2> QED
      BY <1>3, <2>4, <2>6
<1>5. CASE ServeTrace
  <2> DEFINE w == Head(toDisk).pistaSector
  <2>1. up /\ Asked("recorridos") /\ UNCHANGED <<list, reached, toConsole>>
        /\ BeginWalk("service", w.pista, w.sectorNumber)
        BY <1>5 DEF ServeTrace, Asked, consoleVars
  <2>2. Asking /\ Head(toDisk).messageID = "recorridos" /\ toDisk # <<>>
        BY <2>1, AskedTurn DEF Asked
  <2>3. pc["console"] = "trace" /\ NoTrace /\ toConsole = <<>>
        BY <2>2 DEF Asking, ToDisk
  <2>4. w = Wanted /\ reached = None /\ list # <<>>
        BY <2>1, <2>2, <2>3 DEF NoTrace, TraceInv, AskInv, ConsoleInv
  <2>5. w \in Position
        BY <2>2, FirstMessage DEF TraceInv, AskInv
  <2> HIDE DEF w
  <2>6. w.pista \in Nat /\ w.sectorNumber \in Nat
        /\ w = [pista |-> w.pista, sectorNumber |-> w.sectorNumber]
        BY <2>5 DEF Position
  <2>7. \/ pc'["service"] = "walk" /\ Moving("service")'
        \/ pc'["service"] \in {"signal", "answer"} /\ Ended'
        BY <1>0, <2>1, <2>3, <2>4, <2>6, BeginWalkMoves
  <2>8. pc'["worker"] = pc["worker"]
        BY <1>0, <2>1 DEF BeginWalk, PcOK, Threads
  <2>9. ~Tracing("worker")' /\ Tracing("service")'
        BY <2>3, <2>7, <2>8 DEF NoTrace, Tracing
  <2> QED
      BY <1>3, <2>7, <2>9
<1>6. CASE ServePosition \/ ServePerTrack
  <2>1. Asking /\ UNCHANGED pc
        BY <1>6, AskedTurn DEF ServePosition, ServePerTrack
  <2> QED
      BY <1>2, <2>1 DEF Asking, NoTrace, Tracing
<1>7. ASSUME NEW t \in {"worker", "service"}, NEW to \in {"move", "receive"}, AnswerTrace(t, to)
      PROVE  WalkInv'
  <2>1. up /\ Tracing(t) /\ pc' = [pc EXCEPT ![t] = to]
        BY <1>7 DEF AnswerTrace, Tracing
  <2>2. \A o \in {"worker", "service"} : Tracing(o) => o = t
        BY <2>1, TracesAlone
  <2>3. \A o \in {"worker", "service"} : ~Tracing(o)'
        BY <1>0, <2>1, <2>2 DEF Tracing, PcOK, Threads
  <2> QED
      BY <1>2, <2>3
<1>8. ASSUME NEW t \in {"worker", "service"}, TiempoConsumido(t)
      PROVE  WalkInv'
  <2>1. /\ Tracing(t) /\ Tracing(t)' /\ up
        /\ \A o \in {"worker", "service"} : o # t => pc'[o] = pc[o]
        /\ pc'[t] \in {"walk", "echo", "track", "sector"} => Moving(t)'
        /\ pc'[t] \in {"signal", "answer"} => Ended'
        BY <1>8, TraceMoves
  <2>2. \A o \in {"worker", "service"} : o # t => ~Tracing(o)
        BY <2>1, TracesAlone
  <2>3. \A o \in {"worker", "service"} : o # t => ~Tracing(o)'
        BY <2>1, <2>2 DEF Tracing
  <2> QED
      BY <1>3, <2>1, <2>3
<1>9. CASE Trace
  <2>1. up' = up /\ \A o \in {"worker", "service"} : pc'[o] = pc[o]
        BY <1>0, <1>9 DEF Trace, Ask, PcOK, Threads
  <2>2. up => NoTrace
        BY <1>9 DEF Trace, TurnInv, Turn, Rest, Asking, Answered, Queued, UnderWay
  <2> QED
      BY <1>2, <2>1, <2>2 DEF NoTrace, Tracing
<1>10. ASSUME ConsoleAlone, up => Answered
       PROVE  WalkInv'
  <2>1. \A o \in {"worker", "service"} : Tracing(o)' <=> Tracing(o)
        BY <1>10 DEF ConsoleAlone, Tracing
  <2> QED
      BY <1>2, <1>10, <2>1 DEF Answered, NoTrace, ConsoleAlone
<1>11. CASE Printing
  <2>1. ConsoleAlone
        BY <1>0, <1>11 DEF PcOK, Threads, Places, Ask, ConsoleAlone, queueVars, headVars, Told,
             Printing, PrintPosition, AskPerTrack, AskTrace, PrintSector, PrintTime, EndOfFile
  <2>2. CASE PrintPosition \/ AskPerTrack \/ AskTrace
    <3>1. up => Answered
          BY <2>2, ToldTurn DEF PrintPosition, AskPerTrack, AskTrace
    <3> QED
        BY <1>10, <2>1, <3>1
  <2>3. CASE PrintTime
    <3>1. up => Answered
          BY <2>3, ToldTurn DEF PrintTime
    <3> QED
        BY <1>10, <2>1, <3>1
  <2>4. CASE PrintSector
    <3>1. Told("trace") /\ reached' = Head(toConsole).pistaSector /\ list' = list
          BY <2>4 DEF PrintSector
    <3>2. toConsole # <<>> /\ toConsole' = <<>>
          BY <3>1, ToldTurn DEF Told
    <3> SUFFICES ASSUME up', NEW t \in {"worker", "service"}, Tracing(t)'
                 PROVE  /\ pc'[t] \in {"walk", "echo", "track", "sector"} => Moving(t)'
                        /\ pc'[t] \in {"signal", "answer"} => Ended'
        BY DEF WalkInv, Tracing
    <3>3. up /\ pc'[t] = pc[t] /\ Tracing(t) /\ walk' = walk
          BY <2>1 DEF ConsoleAlone, Tracing
    <3>4. pc[t] = "echo"
          BY <3>2, <3>3, TracesAlone DEF Nothing
    <3>5. Moving(t) /\ reached' = Here /\ Wanted' = Wanted /\ Here' = Here
          BY <1>0, <3>1, <3>2, <3>3, <3>4 DEF WalkInv, Moving, Wanted, Here
    <3>6. Moving(t)'
          BY <3>1, <3>2, <3>3, <3>4, <3>5 DEF Moving
    <3> QED
        BY <3>3, <3>4, <3>6
  <2>5. CASE EndOfFile
        BY <1>2, <2>1, <2>5 DEF EndOfFile, ConsoleAlone
  <2> QED
      BY <1>11, <2>2, <2>3, <2>4, <2>5 DEF Printing
<1> QED
    BY <1>0, <1>1, <1>4, <1>5, <1>6, <1>7, <1>8, <1>9, <1>11 DEF Frames

\* An answer that is sent is the only message in the socket.
LEMMA AnswerAlone ==
    ASSUME toConsole = <<>>, NEW m, Answer(m)
    PROVE  toConsole' # <<>> /\ Head(toConsole') = m /\ toConsole' = <<m>>
<1>1. toConsole' = <<m>>
      BY DEF Answer
<1> QED
    BY <1>1

LEMMA ToldStep ==
    ASSUME TraceInv, TurnInv, TurnInv', [Next]_vars
    PROVE  ToldInv'
<1> USE DEF Go, At
<1>0. Frames /\ PcOK /\ ToldInv
      BY StepFrames DEF TurnInv, TraceInv
<1>1. CASE ToldSame
  <2>1. \A p : (Follows(p)' <=> Follows(p)) /\ (Ends(p)' <=> Ends(p))
        BY <1>1 DEF ToldSame, Follows, Ends, Wanted
  <2> QED
      BY <1>0, <1>1, <2>1 DEF ToldSame, ToldInv
<1>2. CASE ServePosition
  <2>1. Asking /\ Head(toDisk).messageID = "posicion" /\ up /\ toDisk # <<>>
        BY <1>2, AskedTurn DEF ServePosition, Asked
  <2>2. pc["console"] \in {"info", "where"} /\ toConsole = <<>>
        BY <2>1 DEF Asking, ToDisk, NoTrace, TraceInv, AskInv
  <2> DEFINE m == [messageID |-> "posicion", pistaSector |-> posicionActual]
  <2>3. m \in MessageConsolePPD /\ m.messageID = "posicion"
        BY DiskAssumption DEF TraceInv, HeadInv, MessageConsolePPD, Position
  <2>4. Answer(m) /\ pc' = pc
        BY <1>2 DEF ServePosition
  <2> HIDE DEF m
  <2>5. toConsole' = <<m>> /\ Head(toConsole') = m
        BY <2>2, <2>4, AnswerAlone
  <2>6. toConsole' \in Seq(MessageConsolePPD)
        BY <2>3, <2>5
  <2> QED
      BY <2>2, <2>3, <2>4, <2>5, <2>6 DEF ToldInv
<1>3. CASE ServePerTrack
  <2>1. Asking /\ Head(toDisk).messageID = "porCilindro" /\ up /\ toDisk # <<>>
        BY <1>3, AskedTurn DEF ServePerTrack, Asked
  <2>2. pc["console"] = "geometry" /\ toConsole = <<>>
        BY <2>1 DEF Asking, ToDisk, NoTrace, TraceInv, AskInv
  <2> DEFINE m == Message("porCilindro", 0, PerTrack)
  <2>3. m \in MessageConsolePPD /\ m.messageID = "porCilindro"
        /\ m.pistaSector.sectorNumber = PerTrack
        BY DiskAssumption DEF Message, MessageConsolePPD, Position
  <2>4. Answer(m) /\ pc' = pc
        BY <1>3 DEF ServePerTrack
  <2> HIDE DEF m
  <2>5. toConsole' = <<m>> /\ Head(toConsole') = m
        BY <2>2, <2>4, AnswerAlone
  <2>6. toConsole' \in Seq(MessageConsolePPD)
        BY <2>3, <2>5
  <2> QED
      BY <2>2, <2>3, <2>4, <2>5, <2>6 DEF ToldInv
<1>4. ASSUME NEW t \in {"worker", "service"}, NEW to \in {"move", "receive"}, AnswerTrace(t, to)
      PROVE  ToldInv'
  <2>1. up /\ Tracing(t) /\ pc[t] = "answer" /\ Answer(walk)
        /\ UNCHANGED <<list, reached>> /\ pc'["console"] = pc["console"]
        BY <1>0, <1>4 DEF AnswerTrace, Tracing, consoleVars, PcOK, Threads
  <2>2. toConsole = <<>> /\ pc["console"] = "trace"
        BY <2>1, TracesAlone DEF Nothing
  <2>3. Ended
        BY <2>1 DEF TraceInv, WalkInv
  <2>4. toConsole' = <<walk>> /\ Head(toConsole') = walk
        BY <2>1, <2>2, AnswerAlone
  <2>5. \A p : Ends(p)' <=> Ends(p)
        BY <2>1 DEF Ends, Wanted
  <2>6. toConsole' \in Seq(MessageConsolePPD)
        BY <2>3, <2>4 DEF Ended
  <2> QED
      BY <2>1, <2>2, <2>3, <2>4, <2>5, <2>6 DEF ToldInv, Ended
<1>5. ASSUME NEW t \in {"worker", "service"}, Walk(t)
      PROVE  ToldInv'
  <2>1. up /\ up' /\ Tracing(t) /\ Tracing(t)' /\ pc[t] = "walk" /\ Moving(t)
        /\ UNCHANGED <<list, reached>> /\ pc'["console"] = pc["console"]
        /\ Answer(Message("recorridos", walk.pista, NextSector))
        BY <1>0, <1>5 DEF Walk, Tracing, consoleVars, PcOK, Threads, TraceInv, WalkInv
  <2>2. toConsole = <<>> /\ pc["console"] = "trace"
        BY <2>1, TracesAlone DEF Nothing
  <2>3. NextSector \in Nat /\ NextSector = Following(walk.sectorNumber)
    <3>1. walk.sectorNumber \in 0 .. Word - 1
          BY <2>1 DEF Moving
    <3>2. (walk.sectorNumber + 1) % Word \in 0 .. Word - 1
          BY <3>1, DiskAssumption
    <3>3. NextSector = (walk.sectorNumber + 1) % Word \/ NextSector = 0
          BY DEF NextSector
    <3> QED
        BY <3>2, <3>3 DEF NextSector, Following
  <2>4. PICK m \in MessageConsolePPD :
           /\ Answer(m) /\ m.messageID = "recorridos"
           /\ m.pistaSector.pista = walk.pista /\ m.pistaSector.sectorNumber = NextSector
    <3> DEFINE k == Message("recorridos", walk.pista, NextSector)
    <3>1. k \in MessageConsolePPD /\ k.messageID = "recorridos"
          /\ k.pistaSector.pista = walk.pista /\ k.pistaSector.sectorNumber = NextSector
          BY <2>1, <2>3 DEF Message, MessageConsolePPD, Position, Moving
    <3>2. Answer(k)
          BY <2>1
    <3> HIDE DEF k
    <3> QED
        BY <3>1, <3>2
  <2>5. reached # None => reached.pista = walk.pista /\ reached.sectorNumber = walk.sectorNumber
        BY <2>1, <2>2 DEF Moving, Here
  <2>6. Follows(m.pistaSector)'
        BY <2>1, <2>3, <2>4, <2>5 DEF Follows
  <2>7. toConsole' = <<m>> /\ Head(toConsole') = m
        BY <2>2, <2>4, AnswerAlone
  <2>8. toConsole' \in Seq(MessageConsolePPD)
        BY <2>4, <2>7
  <2> QED
      BY <2>1, <2>2, <2>4, <2>6, <2>7, <2>8 DEF ToldInv
<1>6. CASE Trace
  <2>1. toConsole' = toConsole /\ up' = up /\ pc'["console"] \in {"where", "dead"}
        /\ \A o \in {"worker", "service"} : pc'[o] = pc[o]
        BY <1>0, <1>6 DEF Trace, Ask, PcOK, Threads
  <2> QED
      BY <1>0, <2>1 DEF ToldInv, Tracing
<1>7. ASSUME NEW here \in {"info", "where", "geometry", "trace"}, Told(here)
      PROVE  ToldInv'
  <2>1. toConsole' = <<>>
        BY <1>7, ToldTurn
  <2> QED
      BY <2>1 DEF ToldInv
<1>8. CASE Printing
  <2>1. CASE EndOfFile
    <3>1. /\ UNCHANGED <<toConsole, list, reached, up>> /\ pc'["console"] \in {"prompt", "dead"}
          /\ \A o \in {"worker", "service"} : pc'[o] = pc[o]
          BY <1>0, <2>1 DEF EndOfFile, socketVars, consoleVars, PcOK, Threads
    <3> QED
        BY <1>0, <3>1 DEF ToldInv, Tracing
  <2> QED
      BY <1>7, <1>8, <2>1 DEF Printing, PrintPosition, AskPerTrack, AskTrace, PrintSector, PrintTime
<1> QED
    BY <1>0, <1>1, <1>2, <1>3, <1>4, <1>5, <1>6, <1>8 DEF Frames

LEMMA TraceJobStep ==
    ASSUME TraceInv, TurnInv, TurnInv', [Next]_vars
    PROVE  TraceJobInv'
<1> USE DEF Go, At
<1>0. Frames /\ PcOK /\ TraceJobInv
      BY StepFrames DEF TurnInv, TraceInv
<1>1. CASE TraceJobSame
  <2>1. Wanted' = Wanted
        BY <1>1 DEF TraceJobSame, Wanted
  <2> QED
      BY <1>0, <1>1, <2>1 DEF TraceJobSame, TraceJobInv
<1>2. ASSUME up' => TraceJobs' = {} /\ ~InHand'
      PROVE  TraceJobInv'
      BY <1>2 DEF TraceJobInv, IsTraceJob
<1>3. CASE BeginTrace \/ ServeTrace
  <2>1. \E t \in {"worker", "service"} : Tracing(t)'
        BY <1>0, <1>3 DEF BeginTrace, ServeTrace, BeginWalk, PcOK, Threads, Tracing
  <2>2. up' => TraceJobs' = {} /\ ~InHand'
        BY <2>1 DEF TurnInv, Turn, Rest, Asking, Answered, Queued, UnderWay, NoTrace, Tracing
  <2> QED
      BY <1>2, <2>2
<1>4. CASE QueueTrace
  <2> DEFINE w == Head(toDisk).pistaSector
             new == [n |-> 0, op |-> "trace",
                     sector |-> w.pista * perCylinder + w.sectorNumber]
  <2>1. up /\ Asked("recorridos") /\ UNCHANGED <<list, reached, perCylinder, job>>
        /\ jobsQueue' = jobsQueue \cup {new} /\ pc'["worker"] = pc["worker"]
        BY <1>0, <1>4 DEF QueueTrace, Asked, consoleVars, headVars, PcOK, Threads
  <2>2. Asking /\ toDisk # <<>> /\ Head(toDisk).messageID = "recorridos"
        BY <2>1, AskedTurn DEF Asked
  <2>3. w = Wanted /\ reached = None /\ TraceJobs = {} /\ ~InHand
        BY <2>2, <2>1 DEF Asking, NoTrace, TraceInv, AskInv
  <2>4. new.sector = Wanted.pista * perCylinder + Wanted.sectorNumber
        BY <2>3
  <2> HIDE DEF w, new
  <2>5. ASSUME NEW j, IsTraceJob(j)'
        PROVE  j = new
        BY <2>1, <2>3, <2>5 DEF IsTraceJob, TraceJobs, InHand
  <2>6. Wanted' = Wanted
        BY <2>1 DEF Wanted
  <2> QED
      BY <2>1, <2>3, <2>4, <2>5, <2>6 DEF TraceJobInv
<1>5. ASSUME UNCHANGED <<jobsQueue, job>>, pc'["worker"] = pc["worker"],
             up' => TraceJobs = {} /\ ~InHand
      PROVE  TraceJobInv'
      BY <1>2, <1>5 DEF TraceJobs, InHand
<1>6. CASE Trace
  <2>1. UNCHANGED <<jobsQueue, job, up>> /\ pc'["worker"] = pc["worker"]
        BY <1>0, <1>6 DEF Trace, Ask, queueVars, PcOK, Threads
  <2>2. up => NoTrace
        BY <1>6 DEF Trace, TurnInv, Turn, Rest, Asking, Answered, Queued, UnderWay
  <2> QED
      BY <1>5, <2>1, <2>2 DEF NoTrace
<1>7. ASSUME NEW here \in {"info", "where", "geometry", "trace"}, Told(here),
             UNCHANGED <<jobsQueue, job, up>>, pc'["worker"] = pc["worker"]
      PROVE  TraceJobInv'
  <2>1. up => TraceJobs = {} /\ ~InHand
        BY <1>7, ToldTurn DEF Answered, NoTrace, UnderWay
  <2> QED
      BY <1>5, <1>7, <2>1
<1>8. CASE Printing
  <2>1. UNCHANGED <<jobsQueue, job, up>> /\ pc'["worker"] = pc["worker"]
        BY <1>0, <1>8 DEF Printing, PrintPosition, AskPerTrack, AskTrace, PrintSector, PrintTime,
                          EndOfFile, Ask, queueVars, PcOK, Threads
  <2>2. CASE EndOfFile
        BY <1>5, <2>1, <2>2 DEF EndOfFile
  <2> QED
      BY <1>7, <1>8, <2>1, <2>2 DEF Printing, PrintPosition, AskPerTrack, AskTrace, PrintSector,
                                    PrintTime
<1> QED
    BY <1>0, <1>1, <1>3, <1>4, <1>6, <1>8 DEF Frames

\* A question that is sent is the only message in the socket.
LEMMA AskAlone ==
    ASSUME PcOK, toDisk = <<>>, up, NEW m, NEW to, Ask(m, to)
    PROVE  toDisk' # <<>> /\ Head(toDisk') = m /\ toDisk' = <<m>> /\ pc'["console"] = to
<1>1. toDisk' = <<m>>
      BY DEF Ask
<1> QED
    BY <1>1 DEF Ask, Go, PcOK, Threads

LEMMA BlankMessage ==
    ASSUME NEW id \in {"posicion", "porCilindro"}
    PROVE  Blank(id) \in MessageConsolePPD /\ Blank(id).messageID = id
BY DEF Blank, Message, MessageConsolePPD, Position

LEMMA AskStep ==
    ASSUME TraceInv, TurnInv, [Next]_vars
    PROVE  AskInv'
<1> USE DEF At
<1>0. Frames /\ PcOK /\ AskInv /\ ToldInv
      BY StepFrames DEF TurnInv, TraceInv
<1>1. CASE AskSame
  <2>1. Wanted' = Wanted
        BY <1>1 DEF AskSame, Wanted
  <2> QED
      BY <1>0, <1>1, <2>1 DEF AskSame, AskInv
<1>2. ASSUME toDisk' = <<>>
      PROVE  AskInv'
      BY <1>2 DEF AskInv
<1>3. CASE ServePosition \/ ServePerTrack \/ ServeTrace \/ QueueTrace
  <2>1. toDisk' = <<>>
        BY <1>3, AskedTurn DEF ServePosition, ServePerTrack, ServeTrace, QueueTrace
  <2> QED
      BY <1>2, <2>1
<1>4. ASSUME NEW t \in {"worker", "service"}, NEW to \in {"move", "receive"}, AnswerTrace(t, to)
      PROVE  AskInv'
  <2>1. up /\ Tracing(t) /\ pc[t] = "answer" /\ toDisk' = toDisk
        BY <1>4 DEF AnswerTrace, Tracing
  <2>2. toDisk = <<>>
        BY <2>1, TracesAlone DEF Nothing
  <2> QED
      BY <1>2, <2>1, <2>2
<1>5. ASSUME NEW t \in {"worker", "service"}, Echo(t)
      PROVE  AskInv'
  <2>1. toDisk # <<>> /\ toDisk' = Tail(toDisk)
        BY <1>5 DEF Echo
  <2>2. ToDisk
        BY <2>1 DEF TurnInv, Nothing, ToConsole
  <2>3. PICK m : toDisk = <<m>>
        BY <2>2 DEF ToDisk
  <2> QED
      BY <1>2, <2>1, <2>3
\* A question of the console, but for what it sends back in a trace.
<1>6. ASSUME NEW m \in MessageConsolePPD, NEW to, Ask(m, to), up' = up, up => toDisk = <<>>,
             to \in {"info", "where"} => m.messageID = "posicion",
             to = "geometry" => m.messageID = "porCilindro",
             to = "trace" => m.messageID = "recorridos" /\ m.pistaSector = Wanted'
                             /\ reached' = None
      PROVE  AskInv'
  <2>1. CASE up
    <3>1. toDisk' # <<>> /\ Head(toDisk') = m /\ toDisk' = <<m>> /\ pc'["console"] = to
          BY <1>0, <1>6, <2>1, AskAlone
    <3>2. toDisk' \in Seq(MessageConsolePPD)
          BY <3>1
    <3> QED
        BY <1>6, <3>1, <3>2 DEF AskInv
  <2>2. CASE ~up
        BY <1>0, <1>6, <2>2 DEF AskInv, Ask
  <2> QED
      BY <2>1, <2>2
<1>7. CASE Info
  <2>1. Ask(Blank("posicion"), "info") /\ up' = up
        BY <1>7 DEF Info
  <2>2. up => toDisk = <<>>
        BY <1>7 DEF Info, TurnInv, Turn, Rest, Asking, Answered, Queued, UnderWay, Nothing
  <2> QED
      BY <1>6, <2>1, <2>2, BlankMessage
<1>8. CASE Trace
  <2>1. Ask(Blank("posicion"), "where") /\ up' = up
        BY <1>8 DEF Trace
  <2>2. up => toDisk = <<>>
        BY <1>8 DEF Trace, TurnInv, Turn, Rest, Asking, Answered, Queued, UnderWay, Nothing
  <2> QED
      BY <1>6, <2>1, <2>2, BlankMessage
<1>9. CASE PrintPosition
  <2>1. toDisk' = <<>>
        BY <1>9, ToldTurn DEF PrintPosition
  <2> QED
      BY <1>2, <2>1
<1>10. CASE AskPerTrack
  <2>1. Ask(Blank("porCilindro"), "geometry") /\ up' = up
        BY <1>10 DEF AskPerTrack
  <2>2. up => toDisk = <<>>
        BY <1>10, ToldTurn DEF AskPerTrack
  <2> QED
      BY <1>6, <2>1, <2>2, BlankMessage
<1>11. CASE AskTrace
  <2> DEFINE h == Head(list)
  <2>1. pc["console"] = "geometry" /\ toConsole # <<>> /\ toDisk = <<>> /\ up' = up
        /\ list' = list /\ reached' = None
        BY <1>11, ToldTurn DEF AskTrace, Told
  <2>2. consolePerTrack' = PerTrack
        BY <1>0, <1>11, <2>1 DEF AskTrace, ToldInv
  <2>3. h \in Nat
        BY <2>1 DEF TraceInv, ConsoleInv
  <2>4. Place(h) \in Position
    <3>1. PerTrack \in Nat \ {0}
          BY DiskAssumption
    <3>2. h \div PerTrack \in Nat
          BY <2>3, <3>1, Divided
    <3>3. h % PerTrack \in Nat
          BY <2>3, <3>1, RestSmaller
    <3> QED
        BY <3>2, <3>3 DEF Place, Position
  <2>5. Wanted' = Place(h)
        BY <2>1 DEF Wanted
  <2>6. Ask([messageID |-> "recorridos", pistaSector |-> Place(h)], "trace")
        BY <1>11, <2>2 DEF AskTrace, Place
  <2>7. PICK p \in Position : p = Place(h)
        BY <2>4
  <2> HIDE DEF h
  <2>8. PICK m \in MessageConsolePPD :
           Ask(m, "trace") /\ m.messageID = "recorridos" /\ m.pistaSector = p
    <3> DEFINE k == [messageID |-> "recorridos", pistaSector |-> p]
    <3>1. k \in MessageConsolePPD /\ k.messageID = "recorridos" /\ k.pistaSector = p
          BY DEF MessageConsolePPD
    <3>2. Ask(k, "trace")
          BY <2>6, <2>7
    <3> HIDE DEF k
    <3> QED
        BY <3>1, <3>2
  <2> QED
      BY <1>6, <2>1, <2>5, <2>7, <2>8
<1>12. CASE PrintSector
  <2>1. Told("trace") /\ toConsole # <<>> /\ toDisk = <<>> /\ up' = up
        /\ Head(toConsole).messageID = "recorridos" /\ Ask(Head(toConsole), "trace")
        BY <1>12, ToldTurn DEF PrintSector, Told
  <2>2. PICK m \in MessageConsolePPD : m = Head(toConsole)
        BY <1>0, <2>1, FirstMessage DEF ToldInv
  <2>3. CASE up
    <3>1. Ask(m, "trace")
          BY <2>1, <2>2
    <3>2. toDisk' = <<m>> /\ \A o \in {"worker", "service"} : pc'[o] = pc[o]
          BY <1>0, <2>1, <2>3, <3>1, AskAlone DEF Ask, Go, PcOK, Threads
    <3>3. Tracing("worker") \/ Tracing("service")
          BY <1>0, <2>1, <2>3 DEF ToldInv
    <3>4. Tracing("worker")' \/ Tracing("service")'
          BY <3>2, <3>3 DEF Tracing
    <3>5. toDisk' \in Seq(MessageConsolePPD)
          BY <3>2
    <3> QED
        BY <3>4, <3>5 DEF AskInv
  <2>4. CASE ~up
        BY <1>2, <2>1, <2>4 DEF Ask
  <2> QED
      BY <2>3, <2>4
<1>13. CASE PrintTime
  <2>1. toDisk = <<>> /\ up' = up
        BY <1>13, ToldTurn DEF PrintTime
  <2>2. CASE Tail(list) = <<>>
        BY <1>2, <1>13, <2>1, <2>2 DEF PrintTime
  <2>3. CASE Tail(list) # <<>>
    <3>1. Ask(Blank("posicion"), "where")
          BY <1>13, <2>3 DEF PrintTime
    <3> QED
        BY <1>6, <2>1, <3>1, BlankMessage
  <2> QED
      BY <2>2, <2>3
<1>14. CASE EndOfFile
  <2>1. UNCHANGED toDisk /\ ~up /\ ~up'
        BY <1>14 DEF EndOfFile, socketVars
  <2> QED
      BY <1>0, <2>1 DEF AskInv
<1> QED
    BY <1>0, <1>1, <1>3, <1>4, <1>5, <1>7, <1>8, <1>9, <1>10, <1>11, <1>12, <1>13, <1>14
    DEF Frames, Printing

LEMMA TraceStep ==
    ASSUME TraceInv, TurnInv, TurnInv', [Next]_vars, sent \in 0 .. Jobs
    PROVE  TraceInv'
BY JobsStep, HeadStep, AskStep, ToldStep, ConsoleStep, TraceJobStep, WalkStep DEF TraceInv

LEMMA TraceInit ==
    ASSUME Init
    PROVE  TraceInv
<1> USE DEF Init
<1>1. JobsInv /\ ConsoleInv
      BY DEF JobsInv, ConsoleInv
<1>2. HeadInv
      BY DiskAssumption DEF HeadInv
<1>3. AskInv /\ ToldInv
      BY DEF AskInv, ToldInv
<1>4. TraceJobInv
      BY DEF TraceJobInv, IsTraceJob, TraceJobs, InHand
<1>5. WalkInv
      BY DEF WalkInv
<1> QED
    BY <1>1, <1>2, <1>3, <1>4, <1>5 DEF TraceInv

\* The rest of the types.
RestInv ==
    /\ algorithm \in {"sstf", "look"}
    /\ up \in BOOLEAN
    /\ pc["receiver"] \in {"fork", "listen", "accept", "receive", "stream",
                           "size", "unmap", "map"}
    /\ pc["worker"] \in {"off", "pick", "do", "walk", "echo", "track", "sector",
                         "signal", "answer", "move", "arrive"}
    /\ pc["service"] \in {"off", "start", "origin", "receive", "lock", "wait",
                          "walk", "echo", "track", "sector", "answer"}
    /\ pc["console"] \in {"off", "exec", "prompt", "info", "where", "geometry",
                          "trace", "unconnected", "spins", "dead"}
    /\ address \in {"NULL", "mapped"}
    /\ replicationProcessActive \in BOOLEAN
    /\ listening \in BOOLEAN
    /\ wakeUpLost \in BOOLEAN
    /\ sent \in 0 .. Jobs /\ started \in 0 .. Copies /\ typed \in 0 .. Commands

LEMMA TypesTogether ==
    ASSUME SizeInv, TraceInv, RestInv
    PROVE  TypeOK
<1>1. \A j \in jobsQueue \cup ({job} \ {None}) :
         j.n \in 0 .. Jobs /\ j.op \in {"get", "put", "trace"} /\ j.sector \in Nat
  <2>1. ASSUME NEW j \in jobsQueue \cup ({job} \ {None})
        PROVE  JobOK(j)
        BY DEF TraceInv, JobsInv
  <2> QED
      BY <2>1 DEF JobOK, Job
<1>2. posicionActual \in Position /\ posicionActual.sectorNumber < Word
      BY DiskAssumption DEF TraceInv, HeadInv, Position
<1> QED
    BY <1>1, <1>2 DEF TypeOK, SizeInv, TraceInv, HeadInv, AskInv, ToldInv, ConsoleInv, RestInv

LEMMA RestInit ==
    ASSUME Init
    PROVE  RestInv
<1>1. up \in BOOLEAN /\ replicationProcessActive \in BOOLEAN /\ listening \in BOOLEAN
      /\ wakeUpLost \in BOOLEAN
      BY DEF Init
<1>2. /\ pc["receiver"] = "fork" /\ pc["worker"] = "off" /\ pc["service"] = "off"
      /\ pc["console"] = "off"
      BY DEF Init
<1>3. sent \in 0 .. Jobs /\ started \in 0 .. Copies /\ typed \in 0 .. Commands
      BY DiskAssumption DEF Init
<1>4. algorithm \in {"sstf", "look"} /\ address \in {"NULL", "mapped"}
      BY DEF Init
<1> QED
    BY <1>1, <1>2, <1>3, <1>4 DEF RestInv

LEMMA ReceiverRest ==
    ASSUME RestInv, PcOK, SizeInv,
           \/ Launch \/ ReceiveJob \/ ReceiveSyncPut \/ ReplicatePut \/ ReceiveSyncEnd
           \/ ReceiveSyncGet \/ Stream \/ FinishReplication \/ Disconnected
    PROVE  RestInv'
<1> USE DiskAssumption DEF RestInv, PcOK, Threads, At, Go, volumeVars, socketVars, consoleVars,
                           outsideVars
<1>1. CASE Fork
      BY <1>1 DEF Fork
<1>2. CASE Listen \/ Accept
      BY <1>2 DEF Listen, Accept
<1>3. CASE ReceiveJob
      BY <1>3 DEF ReceiveJob
<1>4. CASE ReceiveSyncPut
      BY <1>4 DEF ReceiveSyncPut
<1>5. CASE ReceiveSyncGet
      BY <1>5 DEF ReceiveSyncGet
<1>6. CASE ReplicatePut \/ ReceiveSyncEnd \/ Stream \/ Disconnected
      BY <1>6 DEF ReplicatePut, ReceiveSyncEnd, Stream, Disconnected
<1>7. CASE FinishReplication
  <2>1. CASE InitializeVolumeSize
        BY <2>1 DEF InitializeVolumeSize
  <2>2. CASE UnmapDevice
        BY <2>2 DEF UnmapDevice
  <2>3. CASE MapDevice
    <3>1. up' \in BOOLEAN /\ replicationProcessActive' \in BOOLEAN
          BY <2>3 DEF MapDevice
    <3>2. address' = "mapped"
          BY <2>3 DEF MapDevice
    <3> QED
        BY <2>3, <3>1, <3>2 DEF MapDevice
  <2> QED
      BY <1>7, <2>1, <2>2, <2>3 DEF FinishReplication
<1> QED
    BY <1>1, <1>2, <1>3, <1>4, <1>5, <1>6, <1>7 DEF Launch

LEMMA TraceRest ==
    ASSUME RestInv, PcOK, NEW t \in {"worker", "service"}, TiempoConsumido(t)
    PROVE  RestInv'
<1> USE DEF RestInv, PcOK, Threads, At, Go, volumeVars, socketVars, consoleVars, outsideVars
<1>1. CASE Walk(t) \/ Echo(t)
      BY <1>1 DEF Walk, Echo
<1>2. CASE WalkEnd(t)
      BY <1>2 DEF WalkEnd
<1>3. CASE Arrive(t)
      BY <1>3 DEF Arrive, SetTrack, SetSector
<1> QED
    BY <1>1, <1>2, <1>3 DEF TiempoConsumido

LEMMA WorkerRest ==
    ASSUME RestInv, PcOK, Worker
    PROVE  RestInv'
<1> USE DEF RestInv, PcOK, Threads, At, Go, volumeVars, socketVars, consoleVars, outsideVars
<1>1. CASE PickFromQueue
      BY <1>1 DEF PickFromQueue
<1>2. CASE ReadOrWrite
      BY <1>2 DEF ReadOrWrite, Accessible
<1>3. CASE BeginTrace
      BY <1>3 DEF BeginTrace, BeginWalk
<1>4. CASE TiempoConsumido("worker")
      BY <1>4, TraceRest
<1>5. CASE Signal
      BY <1>5 DEF Signal
<1>6. CASE AnswerTrace("worker", "move")
      BY <1>6 DEF AnswerTrace
<1>7. CASE MoveHead
      BY <1>7 DEF MoveHead, SetTrack, SetSector
<1> QED
    BY <1>1, <1>2, <1>3, <1>4, <1>5, <1>6, <1>7 DEF Worker

LEMMA ServiceRest ==
    ASSUME RestInv, PcOK, Service
    PROVE  RestInv'
<1> USE DEF RestInv, PcOK, Threads, At, Go, volumeVars, socketVars, consoleVars, outsideVars
<1>1. CASE Origin
      BY <1>1 DEF Origin, SetTrack, SetSector
<1>2. CASE ServePosition \/ ServePerTrack
      BY <1>2 DEF ServePosition, ServePerTrack, Asked
<1>3. CASE ServeTrace
      BY <1>3 DEF ServeTrace, BeginWalk, Asked
<1>4. CASE QueueTrace
      BY <1>4 DEF QueueTrace, Asked
<1>5. CASE CondWait
      BY <1>5 DEF CondWait
<1>6. CASE TiempoConsumido("service")
      BY <1>6, TraceRest
<1>7. CASE AnswerTrace("service", "receive")
      BY <1>7 DEF AnswerTrace
<1> QED
    BY <1>1, <1>2, <1>3, <1>4, <1>5, <1>6, <1>7 DEF Service

LEMMA ConsoleRest ==
    ASSUME RestInv, PcOK, Connect \/ Info \/ Trace \/ Exit \/ Unconnected \/ Printing
    PROVE  RestInv'
<1> USE DEF RestInv, PcOK, Threads, Go, Ask, Type, Told, volumeVars, socketVars, consoleVars,
            outsideVars
<1>0. Commands \in Nat
      BY DiskAssumption
<1>1. CASE Connect
      BY <1>1 DEF Connect
<1>2. CASE Info \/ Trace
      BY <1>0, <1>2 DEF Info, Trace
<1>3. CASE Exit
  <2>1. up' \in BOOLEAN
        BY <1>3 DEF Exit
  <2> QED
      BY <1>0, <1>3, <2>1 DEF Exit
<1>4. CASE Unconnected
  <2>1. up' \in BOOLEAN
        BY <1>4 DEF Unconnected
  <2>2. typed' \in 0 .. Commands
        BY <1>0, <1>4 DEF Unconnected
  <2>3. /\ pc'["console"] \in {"spins", "dead"}
        /\ \A t \in {"receiver", "worker", "service"} : pc'[t] = pc[t]
        BY <1>4 DEF Unconnected
  <2> QED
      BY <1>4, <2>1, <2>2, <2>3 DEF Unconnected
<1>5. CASE PrintPosition \/ AskPerTrack
      BY <1>5 DEF PrintPosition, AskPerTrack
<1>6. CASE AskTrace \/ PrintSector
      BY <1>6 DEF AskTrace, PrintSector
<1>7. CASE PrintTime
      BY <1>7 DEF PrintTime
<1>8. CASE EndOfFile
      BY <1>8 DEF EndOfFile
<1> QED
    BY <1>1, <1>2, <1>3, <1>4, <1>5, <1>6, <1>7, <1>8 DEF Printing

LEMMA RestStep ==
    ASSUME RestInv, PcOK, SizeInv, [Next]_vars
    PROVE  RestInv'
<1>1. CASE UNCHANGED vars
      BY <1>1 DEF vars, RestInv, volumeVars, socketVars, consoleVars, outsideVars
<1> QED
    BY <1>1, ReceiverRest, WorkerRest, ServiceRest, ConsoleRest DEF Next

\* The turns, the traces and the types hold together.
THEOREM TraceInvariant == Spec => [](TurnInv /\ TraceInv /\ RestInv)
<1>1. Init => TurnInv /\ TraceInv /\ RestInv
      BY TurnInit, TraceInit, RestInit
<1>2. VolumeInv /\ TurnInv /\ TraceInv /\ RestInv /\ [Next]_vars =>
         TurnInv' /\ TraceInv' /\ RestInv'
  <2> SUFFICES ASSUME VolumeInv, TurnInv, TraceInv, RestInv, [Next]_vars
               PROVE  TurnInv' /\ TraceInv' /\ RestInv'
      OBVIOUS
  <2>1. TurnInv'
        BY TurnStep
  <2>2. TraceInv'
        BY <2>1, TraceStep DEF RestInv
  <2>3. RestInv'
        BY RestStep DEF VolumeInv
  <2> QED
      BY <2>1, <2>2, <2>3
<1> QED
    BY <1>1, <1>2, VolumeInvariant, PTL DEF Spec

\* Whatever is typed, asked for and copied, every variable stays within its
\* type: the head on a sector that is a word after any number of traces and
\* jobs, the sectors the console prints, and what it takes a track to have.
THEOREM TypeCorrect == Spec => []TypeOK
<1>1. VolumeInv /\ TraceInv /\ RestInv => TypeOK
      BY TypesTogether DEF VolumeInv
<1> QED
    BY <1>1, VolumeInvariant, TraceInvariant, PTL

\* On a disk whose tracks have no more sectors than it has cylinders, a trace
\* that TiempoConsumido does not refuse goes round one track to the sector
\* that was asked for, and that sector is on the disk: whichever thread
\* traces, whatever jobs it does in between, and whatever is typed.
THEOREM TracesArrive == TracksFit /\ Spec => TraceArrives
<1>1. ASSUME TracksFit, TraceInv, PrintSector, reached # None
      PROVE  /\ reached'.pista = reached.pista
             /\ reached'.sectorNumber =
                   LET s == (reached.sectorNumber + 1) % Word
                   IN IF s = PerTrack THEN 0 ELSE s
  <2>1. toConsole # <<>> /\ pc["console"] = "trace" /\ Head(toConsole).messageID = "recorridos"
        /\ reached' = Head(toConsole).pistaSector
        BY <1>1 DEF PrintSector, Told
  <2>2. Follows(reached')
        BY <1>1, <2>1 DEF TraceInv, ToldInv
  <2> QED
      BY <1>1, <2>2 DEF Follows, Following
<1>2. ASSUME TracksFit, TraceInv, PrintTime, Head(toConsole).messageID = "tiempo"
      PROVE  /\ reached \in {None, Place(Head(list))}
             /\ Head(toConsole).pistaSector = Place(Head(list))
             /\ Head(list) < PerTrack * Cylinders
  <2>1. toConsole # <<>> /\ pc["console"] = "trace"
        BY <1>2 DEF PrintTime, Told
  <2>2. Ends(Head(toConsole).pistaSector)
        BY <1>2, <2>1 DEF TraceInv, ToldInv
  <2> QED
      BY <1>2, <2>2 DEF Ends, Wanted
<1>3. ASSUME TracksFit
      PROVE  Spec => TraceArrives
  <2>1. TraceInv /\ [Next]_vars =>
           [/\ PrintSector /\ reached # None =>
                  /\ reached'.pista = reached.pista
                  /\ reached'.sectorNumber =
                        LET s == (reached.sectorNumber + 1) % Word
                        IN IF s = PerTrack THEN 0 ELSE s
            /\ PrintTime /\ Head(toConsole).messageID = "tiempo" =>
                  /\ reached \in {None, Place(Head(list))}
                  /\ Head(toConsole).pistaSector = Place(Head(list))
                  /\ Head(list) < PerTrack * Cylinders]_vars
        BY <1>1, <1>2, <1>3
  <2> QED
      BY <2>1, TraceInvariant, PTL DEF Spec, TraceArrives
<1> QED
    BY <1>3
=============================================================================
