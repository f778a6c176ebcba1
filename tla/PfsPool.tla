------------------------------ MODULE PfsPool ------------------------------
(***************************************************************************)
(* The pool of connections of the file system (grage-pfs) and the sector   *)
(* and block requests of its FUSE threads over it.                         *)
(*                                                                         *)
(* A thread that wants one sector takes one connection, sends, waits for   *)
(* the answer of a GET and gives the connection back.  A thread that wants *)
(* a block takes a connection for every sector of it, one after another,   *)
(* before it sends anything.                                               *)
(*                                                                         *)
(* Connections are numbered as they are built.  The list of the pool grows *)
(* at its head, so the first inactive connection the code finds is the     *)
(* inactive one with the highest number.  Sectors travel by their number.  *)
(* The pool is built by the reads at start, before there are threads.      *)
(***************************************************************************)
EXTENDS Integers, FiniteSets, Sequences

CONSTANTS
    Thread,             \* FUSE threads
    MaxConnections,     \* pfs.max.connections, not 0: the pool is enabled
    BlockSectors,       \* sectors of a block (8)
    Operations,         \* what a thread may be asked for: [op, sector]
    Budget,             \* bound: operations of each thread
    MayDeny,            \* the PRAID may turn a new connection away
    None                \* no thread

ASSUME PoolAssumption ==
    /\ IsFiniteSet(Thread)
    /\ MaxConnections \in Nat \ {0}
    /\ BlockSectors \in Nat \ {0}
    /\ Operations \subseteq [op : {"get", "put", "block"}, sector : Nat]
    /\ Budget \in Nat
    /\ MayDeny \in BOOLEAN
    /\ None \notin Thread

Conn == 1 .. MaxConnections

VARIABLES
    pfsUp,                      \* FALSE once the process has exited
    size,                       \* connections built: pooledConnections->size
    active,                     \* PooledConnection.active
    poolingConnectionsMutex,    \* who holds it
    pc,                         \* a thread,
    operation,                  \*   its request,
    conns,                      \*   the connections it has taken, in order,
    received,                   \*   and the sectors it has read
    done,                       \* operations a thread has ended
    asked, answers              \* GETs and answers in a socket, in order

poolVars == <<size, active, poolingConnectionsMutex>>
threadVars == <<pc, operation, conns, received, done>>
socketVars == <<asked, answers>>
vars == <<pfsUp, poolVars, threadVars, socketVars>>

TypeOK ==
    /\ pfsUp \in BOOLEAN
    /\ size \in 1 .. MaxConnections
    /\ active \in [Conn -> BOOLEAN]
    /\ poolingConnectionsMutex \in Thread \cup {None}
    /\ pc \in [Thread -> {"idle", "connect", "sleep", "handshake",
                          "send", "receive", "release"}]
    /\ operation \in [Thread -> [op : {"get", "put", "block"}, sector : Nat]]
    /\ conns \in [Thread -> Seq(Conn)]
    /\ received \in [Thread -> Seq(Nat)]
    /\ done \in [Thread -> 0 .. Budget]
    /\ asked \in [Conn -> Seq(Nat)]
    /\ answers \in [Conn -> Seq(Nat)]

-----------------------------------------------------------------------------

Inactive == {c \in 1 .. size : ~active[c]}

Unlocked == poolingConnectionsMutex = None

\* Connections an operation works with.
Needed(t) == IF operation[t].op = "block" THEN BlockSectors ELSE 1

\* A FUSE call asks for a sector or a block.
Start(t) ==
    /\ pc[t] = "idle"
    /\ done[t] < Budget
    /\ \E o \in Operations : operation' = [operation EXCEPT ![t] = o]
    /\ pc' = [pc EXCEPT ![t] = "connect"]
    /\ received' = [received EXCEPT ![t] = <<>>]
    /\ UNCHANGED <<pfsUp, poolVars, conns, done, socketVars>>

\* One more connection is in the hands of the thread.
Take(t, c) ==
    /\ active' = [active EXCEPT ![c] = TRUE]
    /\ conns' = [conns EXCEPT ![t] = Append(@, c)]
    /\ pc' = [pc EXCEPT ![t] = IF Len(conns[t]) + 1 < Needed(t) THEN "connect" ELSE "send"]

\* Altered: the connection is not marked as taken.
ReuseConnectionUnmarked(t) ==
    /\ pc[t] = "connect"
    /\ Unlocked
    /\ \E c \in Inactive :
          /\ \A e \in Inactive : e <= c
          /\ conns' = [conns EXCEPT ![t] = Append(@, c)]
          /\ pc' = [pc EXCEPT ![t] = IF Len(conns[t]) + 1 < Needed(t) THEN "connect" ELSE "send"]
    /\ UNCHANGED <<pfsUp, size, active, poolingConnectionsMutex, operation, received,
                   done, socketVars>>

\* getPooledConnection: under the mutex, the first connection of the list
\* that nobody uses ...
ReuseConnection(t) ==
    /\ pc[t] = "connect"
    /\ Unlocked
    /\ \E c \in Inactive :
          /\ \A e \in Inactive : e <= c
          /\ Take(t, c)
    /\ UNCHANGED <<pfsUp, size, poolingConnectionsMutex, operation, received,
                   done, socketVars>>

\* Altered: the pool grows by one too many.
BuildConnectionOneMore(t) ==
    /\ pc[t] = "connect"
    /\ Unlocked
    /\ Inactive = {}
    /\ size <= MaxConnections
    /\ poolingConnectionsMutex' = t
    /\ pc' = [pc EXCEPT ![t] = "handshake"]
    /\ UNCHANGED <<pfsUp, size, active, operation, conns, received, done, socketVars>>

\* ... or a new one while the pool may grow: the handshake is made with the
\* mutex held ...
BuildConnection(t) ==
    /\ pc[t] = "connect"
    /\ Unlocked
    /\ Inactive = {}
    /\ size < MaxConnections
    /\ poolingConnectionsMutex' = t
    /\ pc' = [pc EXCEPT ![t] = "handshake"]
    /\ UNCHANGED <<pfsUp, size, active, operation, conns, received, done, socketVars>>

\* ... or none: the thread sleeps a second and tries again.
PoolFull(t) ==
    /\ pc[t] = "connect"
    /\ Unlocked
    /\ Inactive = {}
    /\ size = MaxConnections
    /\ pc' = [pc EXCEPT ![t] = "sleep"]
    /\ UNCHANGED <<pfsUp, poolVars, operation, conns, received, done, socketVars>>

Awake(t) ==
    /\ pc[t] = "sleep"
    /\ pc' = [pc EXCEPT ![t] = "connect"]
    /\ UNCHANGED <<pfsUp, poolVars, operation, conns, received, done, socketVars>>

\* Altered: the mutex is not given back.
HandshakeKeepsMutex(t) ==
    /\ pc[t] = "handshake"
    /\ size' = size + 1
    /\ Take(t, size + 1)
    /\ UNCHANGED <<pfsUp, poolingConnectionsMutex, operation, received, done, socketVars>>

\* The PRAID answers the handshake.
Handshake(t) ==
    /\ pc[t] = "handshake"
    /\ size' = size + 1
    /\ Take(t, size + 1)
    /\ poolingConnectionsMutex' = None
    /\ UNCHANGED <<pfsUp, operation, received, done, socketVars>>

\* It turns the connection away, and the process exits.
HandshakeDenied(t) ==
    /\ MayDeny
    /\ pc[t] = "handshake"
    /\ pfsUp' = FALSE
    /\ UNCHANGED <<poolVars, threadVars, socketVars>>

\* The slot in which a thread holds a connection.
Slots(t) == DOMAIN conns[t]
Holds(t, c) == \E i \in Slots(t) : conns[t][i] = c
SlotOf(t, c) == CHOOSE i \in Slots(t) : conns[t][i] = c

\* Altered: the last connection of a block is released at once.
SendAndRelease(t) ==
    /\ pc[t] = "send"
    /\ IF operation[t].op = "put"
       THEN /\ pc' = [pc EXCEPT ![t] = "release"]
            /\ UNCHANGED asked
       ELSE /\ pc' = [pc EXCEPT ![t] = "receive"]
            /\ asked' = [c \in Conn |->
                 IF Holds(t, c)
                 THEN Append(asked[c], operation[t].sector + SlotOf(t, c) - 1)
                 ELSE asked[c]]
    /\ active' = [active EXCEPT ![conns[t][Len(conns[t])]] = FALSE]
    /\ UNCHANGED <<pfsUp, size, poolingConnectionsMutex, operation, conns, received, done, answers>>

\* Every sector of the operation is asked for on a connection of its own.  A
\* PUT is not answered.
Send(t) ==
    /\ pc[t] = "send"
    /\ IF operation[t].op = "put"
       THEN /\ pc' = [pc EXCEPT ![t] = "release"]
            /\ UNCHANGED asked
       ELSE /\ pc' = [pc EXCEPT ![t] = "receive"]
            /\ asked' = [c \in Conn |->
                 IF Holds(t, c)
                 THEN Append(asked[c], operation[t].sector + SlotOf(t, c) - 1)
                 ELSE asked[c]]
    /\ UNCHANGED <<pfsUp, poolVars, operation, conns, received, done, answers>>

\* The answers are read in the order of the sectors.
Receive(t) ==
    /\ pc[t] = "receive"
    /\ LET i == Len(received[t]) + 1
           c == conns[t][i]
       IN /\ answers[c] # <<>>
          /\ received' = [received EXCEPT ![t] = Append(@, Head(answers[c]))]
          /\ answers' = [answers EXCEPT ![c] = Tail(@)]
          /\ pc' = [pc EXCEPT ![t] = IF i < Needed(t) THEN "receive" ELSE "release"]
    /\ UNCHANGED <<pfsUp, poolVars, operation, conns, done, asked>>

\* Altered: the last connection of a block is not given back.
ReleaseButLast(t) ==
    /\ pc[t] = "release"
    /\ Unlocked
    /\ conns' = [conns EXCEPT ![t] = Tail(@)]
    /\ IF Len(conns[t]) = 1
       THEN /\ pc' = [pc EXCEPT ![t] = "idle"]
            /\ done' = [done EXCEPT ![t] = @ + 1]
            /\ UNCHANGED active
       ELSE /\ active' = [active EXCEPT ![Head(conns[t])] = FALSE]
            /\ UNCHANGED <<pc, done>>
    /\ UNCHANGED <<pfsUp, size, poolingConnectionsMutex, operation, received, socketVars>>

\* releaseConnection, for one connection after another.
Release(t) ==
    /\ pc[t] = "release"
    /\ Unlocked
    /\ active' = [active EXCEPT ![Head(conns[t])] = FALSE]
    /\ conns' = [conns EXCEPT ![t] = Tail(@)]
    /\ IF Len(conns[t]) = 1
       THEN /\ pc' = [pc EXCEPT ![t] = "idle"]
            /\ done' = [done EXCEPT ![t] = @ + 1]
       ELSE UNCHANGED <<pc, done>>
    /\ UNCHANGED <<pfsUp, size, poolingConnectionsMutex, operation, received, socketVars>>

\* The other end of a connection answers its GETs in order.
Answer(c) ==
    /\ asked[c] # <<>>
    /\ asked' = [asked EXCEPT ![c] = Tail(@)]
    /\ answers' = [answers EXCEPT ![c] = Append(@, Head(asked[c]))]
    /\ UNCHANGED <<pfsUp, poolVars, threadVars>>

-----------------------------------------------------------------------------

\* The reads at start have built one connection and given it back.
Init ==
    /\ pfsUp = TRUE
    /\ size = 1
    /\ active = [c \in Conn |-> FALSE]
    /\ poolingConnectionsMutex = None
    /\ pc = [t \in Thread |-> "idle"]
    /\ operation = [t \in Thread |-> [op |-> "get", sector |-> 0]]
    /\ conns = [t \in Thread |-> <<>>]
    /\ received = [t \in Thread |-> <<>>]
    /\ done = [t \in Thread |-> 0]
    /\ asked = [c \in Conn |-> <<>>]
    /\ answers = [c \in Conn |-> <<>>]

ThreadStep(t) ==
    \/ ReuseConnection(t) \/ BuildConnection(t) \/ PoolFull(t) \/ Awake(t)
    \/ Handshake(t) \/ Send(t) \/ Receive(t) \/ Release(t)

Next ==
    /\ pfsUp
    /\ \/ \E t \in Thread : Start(t) \/ ThreadStep(t) \/ HandshakeDenied(t)
       \/ \E c \in Conn : Answer(c)

Spec == Init /\ [][Next]_vars

-----------------------------------------------------------------------------
(* Safety.                                                                 *)

\* A connection marked as taken is in the hands of exactly one thread, once,
\* and no other connection is in anybody's: none is shared and none is lost.
HeldByOne ==
    /\ \A c \in Conn : active[c] <=> \E t \in Thread : Holds(t, c)
    /\ \A t, u \in Thread : \A i \in Slots(t), j \in Slots(u) :
          conns[t][i] = conns[u][j] => t = u /\ i = j

\* What a thread reads is what it asked for, sector by sector, whoever had
\* the connection before.
OwnSectors ==
    \A t \in Thread : \A i \in DOMAIN received[t] :
        received[t][i] = operation[t].sector + i - 1

\* Threads that wait for connections never wait for each other only: one is
\* free, or can be built, or somebody is at work and will give one back.
\* Holds when there are connections enough.
NeverAllWaiting ==
    (\A t \in Thread : pc[t] \in {"idle", "connect", "sleep"})
        => Inactive # {} \/ size < MaxConnections

\* A thread that waits holds at most one connection less than a block needs.
EnoughConnections == MaxConnections > (BlockSectors - 1) * Cardinality(Thread)

-----------------------------------------------------------------------------
(* Progress, when the scheduler runs every thread that can run, the PRAID  *)
(* answers, and the threads end their operations (Budget).                 *)

Fairness ==
    /\ \A t \in Thread : WF_vars(pfsUp /\ ThreadStep(t))
    /\ \A c \in Conn : WF_vars(pfsUp /\ Answer(c))

FairSpec == Spec /\ Fairness

\* Every operation ends.
EveryOperationEnds == \A t \in Thread : (pc[t] # "idle") ~> (pc[t] = "idle" \/ ~pfsUp)
=============================================================================
