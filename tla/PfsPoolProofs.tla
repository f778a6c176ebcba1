--------------------------- MODULE PfsPoolProofs ---------------------------
(***************************************************************************)
(* Invariants of PfsPool for any number of threads, connections and        *)
(* sectors in a block.                                                     *)
(***************************************************************************)
EXTENDS PfsPool, FiniteSetTheorems, SequenceTheorems, TLAPS

\* What a thread has in its hands at every point of an operation.
ThreadAt(t) ==
    /\ pc[t] = "idle" => conns[t] = <<>>
    /\ pc[t] # "idle" => done[t] < Budget
    /\ pc[t] \in {"connect", "sleep", "handshake"} => Len(conns[t]) < Needed(t)
    /\ pc[t] \in {"send", "receive"} => Len(conns[t]) = Needed(t)
    /\ pc[t] \in {"connect", "sleep", "handshake", "send"} => received[t] = <<>>
    /\ pc[t] = "receive" => Len(received[t]) < Needed(t)
    /\ pc[t] = "release" => conns[t] # <<>>
    /\ pc[t] = "handshake" <=> poolingConnectionsMutex = t
    /\ pc[t] = "handshake" => size < MaxConnections

PoolInv ==
    /\ TypeOK
    /\ \A t \in Thread : ThreadAt(t)
    /\ \A c \in Conn : active[c] => c <= size
    /\ HeldByOne

\* The sector that goes through the i-th connection of a thread.
Due(t, i) == operation[t].sector + i - 1

\* A GET that has not been read: on its way there, or answered.
Outstanding(t, i) ==
    /\ pc[t] = "receive"
    /\ Len(received[t]) < i
    /\ \/ asked[conns[t][i]] = <<Due(t, i)>> /\ answers[conns[t][i]] = <<>>
       \/ asked[conns[t][i]] = <<>> /\ answers[conns[t][i]] = <<Due(t, i)>>

Quiet(c) == asked[c] = <<>> /\ answers[c] = <<>>

\* A connection carries the one GET of the thread that holds it, or nothing.
SocketInv ==
    \A c \in Conn :
        Quiet(c) \/ \E t \in Thread : \E i \in Slots(t) : conns[t][i] = c /\ Outstanding(t, i)

-----------------------------------------------------------------------------

LEMMA NeededType == ASSUME TypeOK, NEW t \in Thread PROVE Needed(t) \in Nat \ {0}
  BY PoolAssumption DEF TypeOK, Needed

LEMMA InitPool == Init => PoolInv /\ SocketInv
<1> SUFFICES ASSUME Init PROVE PoolInv /\ SocketInv
  OBVIOUS
<1> USE PoolAssumption DEF Init
<1>1. TypeOK
  BY DEF TypeOK, Conn
<1>2. \A t \in Thread : ThreadAt(t)
  BY DEF ThreadAt
<1>3. HeldByOne
  BY DEF HeldByOne, Holds, Slots
<1>4. \A c \in Conn : active[c] => c <= size
  OBVIOUS
<1>5. SocketInv
  BY DEF SocketInv, Quiet
<1> QED
  BY <1>1, <1>2, <1>3, <1>4, <1>5 DEF PoolInv

-----------------------------------------------------------------------------
(* The pool and the threads.                                               *)

\* A connection that nobody holds goes to a thread.
LEMMA TakeHolds ==
  ASSUME TypeOK, HeldByOne, NEW t \in Thread, NEW c \in Conn, ~active[c], Take(t, c)
  PROVE  HeldByOne'
<1> USE DEF Slots, Holds
<1>0. active \in [Conn -> BOOLEAN] /\ conns \in [Thread -> Seq(Conn)]
  BY DEF TypeOK
<1>H. /\ \A u, w \in Thread : \A i \in DOMAIN conns[u], j \in DOMAIN conns[w] :
            conns[u][i] = conns[w][j] => u = w /\ i = j
      /\ \A e \in Conn : active[e] <=> \E u \in Thread : Holds(u, e)
  BY DEF HeldByOne
<1>1. /\ active' = [active EXCEPT ![c] = TRUE]
      /\ conns' = [conns EXCEPT ![t] = Append(@, c)]
  BY DEF Take
<1>2. \A u \in Thread : u # t => conns'[u] = conns[u]
  BY <1>0, <1>1
<1>3. /\ conns[t] \in Seq(Conn)
      /\ conns'[t] = Append(conns[t], c)
      /\ DOMAIN conns'[t] = 1 .. Len(conns[t]) + 1
      /\ conns'[t][Len(conns[t]) + 1] = c
      /\ \A i \in 1 .. Len(conns[t]) : conns'[t][i] = conns[t][i]
      /\ DOMAIN conns[t] = 1 .. Len(conns[t])
      /\ Len(conns[t]) \in Nat
  BY <1>0, <1>1
<1>4. \A u \in Thread : \A i \in DOMAIN conns[u] : conns[u][i] # c
  BY <1>H
<1>5. ASSUME NEW e \in Conn PROVE active'[e] <=> \E u \in Thread : Holds(u, e)'
  <2>1. CASE e = c
    BY <1>0, <1>1, <1>3, <2>1
  <2>2. CASE e # c
    <3>1. active'[e] = active[e]
      BY <1>0, <1>1, <2>2
    <3>2. \A u \in Thread : Holds(u, e)' <=> Holds(u, e)
      <4> TAKE u \in Thread
      <4>1. CASE u = t
        <5>1. ASSUME NEW i \in DOMAIN conns[t], conns[t][i] = e PROVE Holds(t, e)'
          BY <1>3, <5>1
        <5>2. ASSUME NEW i \in DOMAIN conns'[t], conns'[t][i] = e PROVE Holds(t, e)
          <6>1. i \in 1 .. Len(conns[t])
            BY <1>3, <2>2, <5>2
          <6> QED
            BY <1>3, <5>2, <6>1
        <5> QED
          BY <4>1, <5>1, <5>2
      <4>2. CASE u # t
        BY <1>2, <4>2
      <4> QED
        BY <4>1, <4>2
    <3> QED
      BY <1>H, <3>1, <3>2
  <2> QED
    BY <2>1, <2>2
<1>6. ASSUME NEW u \in Thread, NEW w \in Thread, NEW i \in Slots(u)', NEW j \in Slots(w)',
             conns'[u][i] = conns'[w][j]
      PROVE  u = w /\ i = j
  <2>1. CASE u = t /\ i = Len(conns[t]) + 1
    BY <1>2, <1>3, <1>4, <1>6, <2>1
  <2>2. CASE w = t /\ j = Len(conns[t]) + 1
    BY <1>2, <1>3, <1>4, <1>6, <2>2
  <2>3. CASE ~(u = t /\ i = Len(conns[t]) + 1) /\ ~(w = t /\ j = Len(conns[t]) + 1)
    <3>1. i \in Slots(u) /\ conns'[u][i] = conns[u][i]
      BY <1>2, <1>3, <2>3
    <3>2. j \in Slots(w) /\ conns'[w][j] = conns[w][j]
      BY <1>2, <1>3, <2>3
    <3>3. conns[u][i] = conns[w][j]
      BY <1>6, <3>1, <3>2
    <3> QED
      BY <1>H, <3>1, <3>2, <3>3
  <2> QED
    BY <2>1, <2>2, <2>3
<1> QED
  BY <1>5, <1>6 DEF HeldByOne

\* The first connection of a thread is given back.
LEMMA ReleaseHolds ==
  ASSUME TypeOK, HeldByOne, NEW t \in Thread, conns[t] # <<>>,
         active' = [active EXCEPT ![Head(conns[t])] = FALSE],
         conns' = [conns EXCEPT ![t] = Tail(@)]
  PROVE  HeldByOne'
<1> USE DEF Slots, Holds
<1>0. active \in [Conn -> BOOLEAN] /\ conns \in [Thread -> Seq(Conn)]
  BY DEF TypeOK
<1>H. /\ \A u, w \in Thread : \A i \in DOMAIN conns[u], j \in DOMAIN conns[w] :
            conns[u][i] = conns[w][j] => u = w /\ i = j
      /\ \A e \in Conn : active[e] <=> \E u \in Thread : Holds(u, e)
  BY DEF HeldByOne
<1> DEFINE c == conns[t][1]
<1>1. /\ conns[t] \in Seq(Conn)
      /\ Len(conns[t]) \in Nat \ {0}
      /\ DOMAIN conns[t] = 1 .. Len(conns[t])
      /\ Head(conns[t]) = c
      /\ c \in Conn
  BY <1>0
<1>2. /\ conns'[t] = Tail(conns[t])
      /\ DOMAIN conns'[t] = 1 .. Len(conns[t]) - 1
      /\ \A i \in 1 .. Len(conns[t]) - 1 : conns'[t][i] = conns[t][i + 1]
  BY <1>0, <1>1
<1>3. \A u \in Thread : u # t => conns'[u] = conns[u]
  BY <1>0
<1>4. ASSUME NEW u \in Thread, NEW i \in Slots(u)'
      PROVE  \E k \in Slots(u) : /\ k = IF u = t THEN i + 1 ELSE i
                                 /\ conns'[u][i] = conns[u][k]
  BY <1>1, <1>2, <1>3
<1>5. ASSUME NEW e \in Conn PROVE active'[e] <=> \E u \in Thread : Holds(u, e)'
  <2>1. CASE e = c
    <3>1. ~active'[e]
      BY <1>0, <1>1, <2>1
    <3>2. ASSUME NEW u \in Thread, NEW i \in Slots(u)', conns'[u][i] = c PROVE FALSE
      <4>1. PICK k \in Slots(u) : /\ k = IF u = t THEN i + 1 ELSE i
                                  /\ conns'[u][i] = conns[u][k]
        BY <1>4
      <4>2. 1 \in Slots(t) /\ conns[t][1] = c
        BY <1>1
      <4>3. conns[u][k] = conns[t][1]
        BY <3>2, <4>1
      <4>4. u = t /\ k = 1
        BY <1>H, <4>2, <4>3
      <4> QED
        BY <1>2, <4>1, <4>4
    <3> QED
      BY <2>1, <3>1, <3>2
  <2>2. CASE e # c
    <3>1. active'[e] = active[e]
      BY <1>0, <1>1, <2>2
    <3>2. \A u \in Thread : Holds(u, e)' => Holds(u, e)
      BY <1>4
    <3>3. \A u \in Thread : Holds(u, e) => Holds(u, e)'
      <4> SUFFICES ASSUME NEW u \in Thread, NEW k \in Slots(u), conns[u][k] = e
                   PROVE  Holds(u, e)'
        OBVIOUS
      <4>1. CASE u = t
        <5>1. k # 1
          BY <2>2, <4>1
        <5>2. k - 1 \in DOMAIN conns'[t] /\ conns'[t][k - 1] = e
          BY <1>1, <1>2, <4>1, <5>1
        <5> QED
          BY <4>1, <5>2
      <4>2. CASE u # t
        BY <1>3, <4>2
      <4> QED
        BY <4>1, <4>2
    <3>4. active[e] <=> \E u \in Thread : Holds(u, e)
      BY <1>H
    <3> HIDE DEF Holds
    <3> QED
      BY <3>1, <3>2, <3>3, <3>4
  <2> QED
    BY <2>1, <2>2
<1>6. ASSUME NEW u \in Thread, NEW w \in Thread, NEW i \in Slots(u)', NEW j \in Slots(w)',
             conns'[u][i] = conns'[w][j]
      PROVE  u = w /\ i = j
  <2>1. PICK k \in Slots(u) : /\ k = IF u = t THEN i + 1 ELSE i
                              /\ conns'[u][i] = conns[u][k]
    BY <1>4
  <2>2. PICK l \in Slots(w) : /\ l = IF w = t THEN j + 1 ELSE j
                              /\ conns'[w][j] = conns[w][l]
    BY <1>4
  <2>3. u = w /\ k = l
    BY <1>H, <1>6, <2>1, <2>2
  <2>4. i \in Nat /\ j \in Nat
    BY <1>0, <1>1, <1>2, <1>3
  <2> QED
    BY <2>1, <2>2, <2>3, <2>4
<1> QED
  BY <1>5, <1>6 DEF HeldByOne

\* Nothing else changes what is held.
LEMMA SameHolds ==
  ASSUME HeldByOne, UNCHANGED <<active, conns>> PROVE HeldByOne'
BY DEF HeldByOne, Holds, Slots

\* A thread whose own state, mutex and room in the pool stay as they were.
LEMMA SameThread ==
  ASSUME NEW u \in Thread, ThreadAt(u),
         pc'[u] = pc[u], operation'[u] = operation[u],
         conns'[u] = conns[u], received'[u] = received[u], done'[u] = done[u],
         poolingConnectionsMutex' = u <=> poolingConnectionsMutex = u,
         pc[u] = "handshake" => size' = size
  PROVE  ThreadAt(u)'
BY DEF ThreadAt, Needed

LEMMA StartPool == ASSUME PoolInv, NEW t \in Thread, Start(t) PROVE PoolInv'
<1> USE DEF PoolInv
<1>0. \A u \in Thread : ThreadAt(u)
  OBVIOUS
<1>1. TypeOK'
  BY PoolAssumption DEF TypeOK, Start, poolVars, socketVars
<1>2. ASSUME NEW u \in Thread PROVE ThreadAt(u)'
  <2>1. CASE u = t
    <3>1. Needed(t)' \in Nat \ {0}
      BY <1>1, NeededType, PoolAssumption DEF TypeOK, Needed
    <3>2. conns'[t] = <<>> /\ received'[t] = <<>> /\ pc'[t] = "connect"
      BY DEF Start, TypeOK, ThreadAt
    <3> QED
      BY <2>1, <3>1, <3>2, <1>0 DEF ThreadAt, Start, poolVars
  <2>2. CASE u # t
    BY <2>2, SameThread DEF Start, TypeOK, poolVars
  <2> QED
    BY <2>1, <2>2
<1> QED
  BY <1>1, <1>2, SameHolds DEF Start, poolVars

\* A thread takes one more connection, built before or just now.
LEMMA TakeThread ==
  ASSUME TypeOK, NEW t \in Thread, ThreadAt(t), NEW c \in Conn, Take(t, c),
         pc[t] \in {"connect", "handshake"},
         operation'[t] = operation[t], received'[t] = received[t], done'[t] = done[t],
         poolingConnectionsMutex' # t
  PROVE  ThreadAt(t)'
<1>1. Needed(t) \in Nat \ {0} /\ Needed(t)' = Needed(t)
  BY NeededType DEF Needed
<1>2. /\ conns'[t] = Append(conns[t], c)
      /\ Len(conns'[t]) = Len(conns[t]) + 1
      /\ conns'[t] # <<>>
      /\ Len(conns[t]) \in Nat
      /\ pc'[t] = IF Len(conns[t]) + 1 < Needed(t) THEN "connect" ELSE "send"
  BY DEF TypeOK, Take
<1>3. Len(conns[t]) < Needed(t) /\ received[t] = <<>> /\ done[t] < Budget
  BY DEF ThreadAt
<1> QED
  BY <1>1, <1>2, <1>3 DEF ThreadAt

LEMMA TakeType ==
  ASSUME TypeOK, NEW t \in Thread, NEW c \in Conn, Take(t, c)
  PROVE  /\ active' \in [Conn -> BOOLEAN]
         /\ conns' \in [Thread -> Seq(Conn)]
         /\ pc' \in [Thread -> {"idle", "connect", "sleep", "handshake",
                                "send", "receive", "release"}]
BY DEF TypeOK, Take

LEMMA ReuseConnectionPool == ASSUME PoolInv, NEW t \in Thread, ReuseConnection(t) PROVE PoolInv'
<1> USE DEF PoolInv
<1>0. \A u \in Thread : ThreadAt(u)
  OBVIOUS
<1>1. PICK c \in Inactive : Take(t, c)
  BY DEF ReuseConnection
<1>2. c \in Conn /\ ~active[c] /\ c <= size
  BY PoolAssumption DEF Inactive, Conn, TypeOK
<1>3. TypeOK'
  BY <1>1, <1>2, TakeType DEF TypeOK, ReuseConnection, socketVars
<1>4. ThreadAt(t)'
  BY <1>0, <1>1, <1>2, TakeThread, PoolAssumption DEF ReuseConnection, Unlocked
<1>5. ASSUME NEW u \in Thread, u # t PROVE ThreadAt(u)'
  BY <1>0, <1>1, <1>5, SameThread DEF Take, ReuseConnection, TypeOK
<1>6. \A e \in Conn : active'[e] => e <= size'
  BY <1>1, <1>2 DEF Take, ReuseConnection, TypeOK
<1> QED
  BY <1>1, <1>2, <1>3, <1>4, <1>5, <1>6, TakeHolds

LEMMA HandshakePool == ASSUME PoolInv, NEW t \in Thread, Handshake(t) PROVE PoolInv'
<1> USE DEF PoolInv
<1>0. \A u \in Thread : ThreadAt(u)
  OBVIOUS
<1>1. size < MaxConnections /\ poolingConnectionsMutex = t
  BY <1>0 DEF ThreadAt, Handshake
<1>2. size + 1 \in Conn /\ ~active[size + 1] /\ Take(t, size + 1)
  BY <1>1, PoolAssumption DEF Handshake, TypeOK, Conn
<1>3. TypeOK'
  BY <1>1, <1>2, TakeType, PoolAssumption DEF TypeOK, Handshake, socketVars
<1>4. ThreadAt(t)'
  BY <1>0, <1>2, TakeThread, PoolAssumption DEF Handshake
<1>5. ASSUME NEW u \in Thread, u # t PROVE ThreadAt(u)'
  <2>1. poolingConnectionsMutex' = u <=> poolingConnectionsMutex = u
    BY <1>1, <1>5, PoolAssumption DEF Handshake
  <2>2. pc[u] # "handshake"
    BY <1>0, <1>1, <1>5 DEF ThreadAt
  <2> QED
    BY <1>0, <1>2, <1>5, <2>1, <2>2, SameThread DEF Take, Handshake, TypeOK
<1>6. \A e \in Conn : active'[e] => e <= size'
  BY <1>2 DEF Take, Handshake, TypeOK, Conn
<1> QED
  BY <1>2, <1>3, <1>4, <1>5, <1>6, TakeHolds

LEMMA BuildConnectionPool == ASSUME PoolInv, NEW t \in Thread, BuildConnection(t) PROVE PoolInv'
<1> USE DEF PoolInv
<1>0. \A u \in Thread : ThreadAt(u)
  OBVIOUS
<1>1. TypeOK'
  BY DEF TypeOK, BuildConnection, socketVars
<1>2. ASSUME NEW u \in Thread PROVE ThreadAt(u)'
  <2>1. CASE u = t
    BY <1>0, <2>1 DEF ThreadAt, Needed, BuildConnection, TypeOK
  <2>2. CASE u # t
    BY <1>0, <2>2, SameThread, PoolAssumption DEF BuildConnection, Unlocked, TypeOK
  <2> QED
    BY <2>1, <2>2
<1> QED
  BY <1>1, <1>2, SameHolds DEF BuildConnection

LEMMA WaitPool ==
  ASSUME PoolInv, NEW t \in Thread, PoolFull(t) \/ Awake(t) PROVE PoolInv'
<1> USE DEF PoolInv
<1>0. \A u \in Thread : ThreadAt(u)
  OBVIOUS
<1>1. TypeOK'
  BY DEF TypeOK, PoolFull, Awake, poolVars, socketVars
<1>2. ASSUME NEW u \in Thread PROVE ThreadAt(u)'
  <2>1. CASE u = t
    BY <1>0, <2>1 DEF ThreadAt, Needed, PoolFull, Awake, TypeOK, poolVars
  <2>2. CASE u # t
    BY <1>0, <2>2, SameThread DEF PoolFull, Awake, TypeOK, poolVars
  <2> QED
    BY <2>1, <2>2
<1> QED
  BY <1>1, <1>2, SameHolds DEF PoolFull, Awake, poolVars

LEMMA SendPool == ASSUME PoolInv, NEW t \in Thread, Send(t) PROVE PoolInv'
<1> USE DEF PoolInv
<1>0. \A u \in Thread : ThreadAt(u)
  OBVIOUS
<1>1. Needed(t) \in Nat \ {0}
  BY NeededType
<1>2. TypeOK'
  <2>1. \A i \in Slots(t) : operation[t].sector + i - 1 \in Nat
    BY DEF TypeOK, Slots
  <2>2. \A c \in Conn : Holds(t, c) => SlotOf(t, c) \in Slots(t)
    BY DEF Holds, SlotOf
  <2>3. asked' \in [Conn -> Seq(Nat)]
    <3>1. CASE operation[t].op = "put"
      BY <3>1 DEF Send, TypeOK
    <3>2. CASE operation[t].op # "put"
      <4> DEFINE new(c) == IF Holds(t, c)
                           THEN Append(asked[c], operation[t].sector + SlotOf(t, c) - 1)
                           ELSE asked[c]
      <4>1. asked' = [c \in Conn |-> new(c)]
        BY <3>2 DEF Send
      <4>2. ASSUME NEW c \in Conn PROVE new(c) \in Seq(Nat)
        <5>1. asked[c] \in Seq(Nat)
          BY DEF TypeOK
        <5>2. CASE Holds(t, c)
          <6>1. operation[t].sector + SlotOf(t, c) - 1 \in Nat
            BY <2>1, <2>2, <5>2
          <6> QED
            BY <5>1, <5>2, <6>1
        <5>3. CASE ~Holds(t, c)
          BY <5>1, <5>3
        <5> QED
          BY <5>2, <5>3
      <4> HIDE DEF new
      <4> QED
        BY <4>1, <4>2
    <3> QED
      BY <3>1, <3>2
  <2> QED
    BY <2>3 DEF TypeOK, Send, poolVars
<1>3. ASSUME NEW u \in Thread PROVE ThreadAt(u)'
  <2>1. CASE u = t
    <3>1. Needed(t)' = Needed(t) /\ conns'[t] = conns[t] /\ received'[t] = received[t]
      BY DEF Send, Needed
    <3>2. Len(conns[t]) = Needed(t) /\ received[t] = <<>> /\ done'[t] < Budget
      BY <1>0 DEF ThreadAt, Send
    <3>3. pc'[t] \in {"receive", "release"} /\ poolingConnectionsMutex' # t
      BY <1>0 DEF ThreadAt, Send, TypeOK, poolVars
    <3>4. Len(received[t]) = 0 /\ conns[t] # <<>>
      BY <1>1, <3>2
    <3> QED
      BY <1>1, <2>1, <3>1, <3>2, <3>3, <3>4 DEF ThreadAt
  <2>2. CASE u # t
    BY <1>0, <2>2, SameThread DEF Send, TypeOK, poolVars
  <2> QED
    BY <2>1, <2>2
<1> QED
  BY <1>2, <1>3, SameHolds DEF Send, poolVars

LEMMA ReceivePool == ASSUME PoolInv, NEW t \in Thread, Receive(t) PROVE PoolInv'
<1> USE DEF PoolInv
<1>0. \A u \in Thread : ThreadAt(u)
  OBVIOUS
<1>1. Needed(t) \in Nat \ {0}
  BY NeededType
<1> DEFINE i == Len(received[t]) + 1
           c == conns[t][i]
<1>2. /\ i \in DOMAIN conns[t]
      /\ c \in Conn
      /\ Len(conns[t]) = Needed(t)
  BY <1>0, <1>1 DEF Receive, ThreadAt, TypeOK
<1>3. /\ answers[c] \in Seq(Nat) /\ answers[c] # <<>>
      /\ received' = [received EXCEPT ![t] = Append(@, Head(answers[c]))]
      /\ answers' = [answers EXCEPT ![c] = Tail(@)]
      /\ pc' = [pc EXCEPT ![t] = IF i < Needed(t) THEN "receive" ELSE "release"]
  BY <1>2 DEF Receive, TypeOK
<1>4. TypeOK'
  <2>1. Head(answers[c]) \in Nat /\ Tail(answers[c]) \in Seq(Nat)
    BY <1>3
  <2>2. received' \in [Thread -> Seq(Nat)]
    <3> HIDE DEF c, i
    <3>1. Append(received[t], Head(answers[c])) \in Seq(Nat)
      BY <2>1 DEF TypeOK
    <3> QED
      BY <1>3, <3>1 DEF TypeOK
  <2>4. answers' \in [Conn -> Seq(Nat)]
    <3> HIDE DEF c, i
    <3> QED
      BY <1>3, <2>1 DEF TypeOK
  <2>3. pc' \in [Thread -> {"idle", "connect", "sleep", "handshake",
                            "send", "receive", "release"}]
    BY <1>3 DEF TypeOK
  <2> QED
    BY <2>2, <2>3, <2>4 DEF TypeOK, Receive, poolVars
<1>5. ASSUME NEW u \in Thread PROVE ThreadAt(u)'
  <2>1. CASE u = t
    <3>1. Len(received'[t]) = i
      BY <1>3 DEF TypeOK
    <3>2. Needed(t)' = Needed(t)
      BY DEF Needed, Receive
    <3> QED
      BY <1>0, <1>1, <1>2, <1>3, <2>1, <3>1, <3>2 DEF ThreadAt, Receive, TypeOK, poolVars
  <2>2. CASE u # t
    BY <1>0, <1>3, <2>2, SameThread DEF Receive, TypeOK, poolVars
  <2> QED
    BY <2>1, <2>2
<1> QED
  BY <1>4, <1>5, SameHolds DEF Receive, poolVars

LEMMA ReleasePool == ASSUME PoolInv, NEW t \in Thread, Release(t) PROVE PoolInv'
<1> USE DEF PoolInv
<1>0. \A u \in Thread : ThreadAt(u)
  OBVIOUS
<1>1. /\ conns[t] \in Seq(Conn) /\ conns[t] # <<>>
      /\ done[t] < Budget /\ done[t] \in Nat
      /\ pc[t] = "release" /\ poolingConnectionsMutex # t
  BY <1>0 DEF Release, ThreadAt, TypeOK
<1>2. /\ Head(conns[t]) \in Conn /\ Tail(conns[t]) \in Seq(Conn)
      /\ Len(conns[t]) = 1 <=> Tail(conns[t]) = <<>>
  <2>1. /\ Head(conns[t]) \in Conn /\ Tail(conns[t]) \in Seq(Conn)
        /\ Len(Tail(conns[t])) = Len(conns[t]) - 1
    BY <1>1, HeadTailProperties
  <2>2. Len(conns[t]) \in Nat
    BY <1>1
  <2>3. Len(Tail(conns[t])) = 0 <=> Tail(conns[t]) = <<>>
    BY <2>1, EmptySeq
  <2> QED
    BY <2>1, <2>2, <2>3
<1>3. TypeOK'
  <2>1. conns' \in [Thread -> Seq(Conn)] /\ active' \in [Conn -> BOOLEAN]
    BY <1>2 DEF Release, TypeOK
  <2>2. done' \in [Thread -> 0 .. Budget]
    <3>1. done[t] + 1 \in 0 .. Budget
      BY <1>1, PoolAssumption
    <3>2. done \in [Thread -> 0 .. Budget]
      BY DEF TypeOK
    <3> QED
      BY <3>1, <3>2 DEF Release
  <2>3. pc' \in [Thread -> {"idle", "connect", "sleep", "handshake",
                            "send", "receive", "release"}]
    BY DEF Release, TypeOK
  <2> QED
    BY <2>1, <2>2, <2>3 DEF Release, TypeOK, socketVars
<1>4. ASSUME NEW u \in Thread PROVE ThreadAt(u)'
  <2>1. CASE u = t
    <3>1. conns'[t] = Tail(conns[t])
      BY DEF Release, TypeOK
    <3>2. poolingConnectionsMutex' # t
      BY <1>1 DEF Release
    <3>3. CASE Len(conns[t]) = 1
      BY <1>2, <2>1, <3>1, <3>2, <3>3 DEF ThreadAt, Release, TypeOK
    <3>4. CASE Len(conns[t]) # 1
      BY <1>1, <1>2, <2>1, <3>1, <3>2, <3>4 DEF ThreadAt, Release, TypeOK
    <3> QED
      BY <3>3, <3>4
  <2>2. CASE u # t
    BY <1>0, <2>2, SameThread DEF Release, TypeOK
  <2> QED
    BY <2>1, <2>2
<1>5. HeldByOne'
  BY <1>1, ReleaseHolds DEF Release
<1>6. \A c \in Conn : active'[c] => c <= size'
  BY DEF Release, TypeOK
<1> QED
  BY <1>3, <1>4, <1>5, <1>6

LEMMA AnswerPool == ASSUME PoolInv, NEW c \in Conn, Answer(c) PROVE PoolInv'
<1> USE DEF PoolInv
<1>0. \A u \in Thread : ThreadAt(u)
  OBVIOUS
<1>1. asked[c] \in Seq(Nat) /\ asked[c] # <<>>
  BY DEF Answer, TypeOK
<1>2. Head(asked[c]) \in Nat /\ Tail(asked[c]) \in Seq(Nat)
  BY <1>1
<1>3. asked' \in [Conn -> Seq(Nat)] /\ answers' \in [Conn -> Seq(Nat)]
  BY <1>2 DEF Answer, TypeOK
<1>4. TypeOK'
  BY <1>3 DEF Answer, TypeOK, poolVars, threadVars
<1>5. \A u \in Thread : ThreadAt(u)'
  BY <1>0 DEF Answer, ThreadAt, Needed, poolVars, threadVars
<1> QED
  BY <1>4, <1>5, SameHolds DEF Answer, poolVars, threadVars

LEMMA SamePool ==
  ASSUME PoolInv, pfsUp' \in BOOLEAN, UNCHANGED <<poolVars, threadVars, socketVars>>
  PROVE  PoolInv'
BY DEF PoolInv, TypeOK, ThreadAt, Needed, HeldByOne, Holds, Slots,
       poolVars, threadVars, socketVars

LEMMA NextPool == PoolInv /\ [Next]_vars => PoolInv'
<1> SUFFICES ASSUME PoolInv, [Next]_vars PROVE PoolInv'
  OBVIOUS
<1>1. CASE UNCHANGED vars
  BY <1>1, SamePool DEF vars, PoolInv, TypeOK
<1>2. ASSUME NEW t \in Thread, Start(t) PROVE PoolInv'
  BY <1>2, StartPool
<1>3. ASSUME NEW t \in Thread, ThreadStep(t) PROVE PoolInv'
  BY <1>3, ReuseConnectionPool, BuildConnectionPool, WaitPool, HandshakePool,
     SendPool, ReceivePool, ReleasePool DEF ThreadStep
<1>4. ASSUME NEW t \in Thread, HandshakeDenied(t) PROVE PoolInv'
  BY <1>4, SamePool DEF HandshakeDenied
<1>5. ASSUME NEW c \in Conn, Answer(c) PROVE PoolInv'
  BY <1>5, AnswerPool
<1> QED
  BY <1>1, <1>2, <1>3, <1>4, <1>5 DEF Next

-----------------------------------------------------------------------------
(* The sockets.                                                            *)

\* A GET stays outstanding when neither its thread nor its socket changes.
LEMMA StaysOutstanding ==
  ASSUME NEW u \in Thread, NEW j \in Slots(u), Outstanding(u, j),
         pc'[u] = pc[u], operation'[u] = operation[u],
         conns'[u] = conns[u], received'[u] = received[u],
         asked'[conns[u][j]] = asked[conns[u][j]],
         answers'[conns[u][j]] = answers[conns[u][j]]
  PROVE  j \in Slots(u)' /\ conns'[u][j] = conns[u][j] /\ Outstanding(u, j)'
BY DEF Outstanding, Slots, Due

\* Steps of a thread that is not reading and touches no socket.
LEMMA SilentThread ==
  ASSUME PoolInv, SocketInv, NEW t \in Thread, pc[t] # "receive",
         UNCHANGED socketVars,
         \A u \in Thread \ {t} : /\ pc'[u] = pc[u] /\ operation'[u] = operation[u]
                                 /\ conns'[u] = conns[u] /\ received'[u] = received[u]
  PROVE  SocketInv'
<1> SUFFICES ASSUME NEW c \in Conn, ~Quiet(c)'
             PROVE  \E u \in Thread : \E j \in Slots(u)' : conns'[u][j] = c /\ Outstanding(u, j)'
  BY DEF SocketInv
<1>1. ~Quiet(c)
  BY DEF Quiet, socketVars
<1>2. PICK u, j : u \in Thread /\ j \in Slots(u) /\ conns[u][j] = c /\ Outstanding(u, j)
  BY <1>1 DEF SocketInv
<1>3. u # t
  BY <1>2 DEF Outstanding
<1> QED
  BY <1>2, <1>3, StaysOutstanding DEF socketVars

LEMMA SendSocket == ASSUME PoolInv, SocketInv, NEW t \in Thread, Send(t) PROVE SocketInv'
<1> SUFFICES ASSUME NEW c \in Conn
             PROVE  Quiet(c)' \/ \E u \in Thread : \E j \in Slots(u)' :
                                    conns'[u][j] = c /\ Outstanding(u, j)'
  BY DEF SocketInv
<1>1. CASE operation[t].op = "put"
  BY <1>1, SilentThread DEF Send, SocketInv, TypeOK, PoolInv, socketVars
<1>2. CASE operation[t].op # "put"
  <2>1. /\ asked'[c] = IF Holds(t, c) THEN Append(asked[c], Due(t, SlotOf(t, c))) ELSE asked[c]
        /\ answers' = answers /\ conns' = conns /\ operation' = operation
        /\ received' = received
    BY <1>2 DEF Send, Due
  <2>2. pc[t] = "send" /\ pc'[t] = "receive" /\ received[t] = <<>>
    BY <1>2 DEF Send, PoolInv, TypeOK, ThreadAt
  <2>3. \A u \in Thread : u # t => pc'[u] = pc[u]
    BY <1>2 DEF Send, PoolInv, TypeOK
  <2>4. CASE Holds(t, c)
    <3>1. PICK i \in Slots(t) : i = SlotOf(t, c) /\ conns[t][i] = c
      BY <2>4 DEF Holds, SlotOf
    <3>2. Quiet(c)
      <4> SUFFICES ASSUME ~Quiet(c) PROVE FALSE
        OBVIOUS
      <4>1. PICK u, j : u \in Thread /\ j \in Slots(u) /\ conns[u][j] = c /\ Outstanding(u, j)
        BY DEF SocketInv
      <4>2. u = t
        BY <3>1, <4>1 DEF PoolInv, HeldByOne
      <4> QED
        BY <2>2, <4>1, <4>2 DEF Outstanding
    <3>3. asked'[c] = <<Due(t, i)>> /\ answers'[c] = <<>>
      BY <2>1, <2>4, <3>1, <3>2 DEF Quiet
    <3>4. i \in Nat \ {0} /\ Len(received'[t]) = 0
      <4>1. conns[t] \in Seq(Conn)
        BY DEF PoolInv, TypeOK
      <4>2. received'[t] = <<>>
        BY <2>1, <2>2
      <4> QED
        BY <3>1, <4>1, <4>2 DEF Slots
    <3>5. i \in Slots(t)' /\ conns'[t][i] = c /\ Due(t, i)' = Due(t, i)
      BY <2>1, <3>1 DEF Slots, Due
    <3>6. Outstanding(t, i)'
      BY <2>2, <3>3, <3>4, <3>5 DEF Outstanding
    <3> QED
      BY <3>5, <3>6
  <2>5. CASE ~Holds(t, c)
    <3>1. CASE Quiet(c)
      BY <2>1, <2>5, <3>1 DEF Quiet
    <3>2. CASE ~Quiet(c)
      <4>1. PICK u, j : u \in Thread /\ j \in Slots(u) /\ conns[u][j] = c /\ Outstanding(u, j)
        BY <3>2 DEF SocketInv
      <4>2. u # t
        BY <2>2, <4>1 DEF Outstanding
      <4> QED
        BY <2>1, <2>3, <2>5, <4>1, <4>2, StaysOutstanding
    <3> QED
      BY <3>1, <3>2
  <2> QED
    BY <2>4, <2>5
<1> QED
  BY <1>1, <1>2

\* The next answer a thread reads is that of its next sector.
LEMMA NextAnswer ==
  ASSUME PoolInv, SocketInv, NEW t \in Thread, pc[t] = "receive",
         answers[conns[t][Len(received[t]) + 1]] # <<>>
  PROVE  LET i == Len(received[t]) + 1 IN
         /\ i \in Slots(t) /\ conns[t][i] \in Conn
         /\ asked[conns[t][i]] = <<>> /\ answers[conns[t][i]] = <<Due(t, i)>>
<1> DEFINE i == Len(received[t]) + 1
           c == conns[t][i]
<1>1. i \in Slots(t) /\ c \in Conn /\ i \in Nat
  BY NeededType DEF PoolInv, ThreadAt, TypeOK, Slots
<1>2. PICK u, j : u \in Thread /\ j \in Slots(u) /\ conns[u][j] = c /\ Outstanding(u, j)
  BY <1>1 DEF SocketInv, Quiet
<1>3. u = t /\ j = i
  BY <1>1, <1>2 DEF PoolInv, HeldByOne
<1> QED
  BY <1>1, <1>2, <1>3 DEF Outstanding

LEMMA ReceiveSocket == ASSUME PoolInv, SocketInv, NEW t \in Thread, Receive(t) PROVE SocketInv'
<1> DEFINE i == Len(received[t]) + 1
           e == conns[t][i]
<1>1. /\ i \in Slots(t) /\ e \in Conn
      /\ asked[e] = <<>> /\ answers[e] = <<Due(t, i)>>
  BY NextAnswer DEF Receive
<1>2. /\ received' = [received EXCEPT ![t] = Append(@, Head(answers[e]))]
      /\ answers' = [answers EXCEPT ![e] = Tail(@)]
      /\ pc' = [pc EXCEPT ![t] = IF i < Needed(t) THEN "receive" ELSE "release"]
      /\ asked' = asked /\ conns' = conns /\ operation' = operation
      /\ pc[t] = "receive"
  BY DEF Receive
<1>3. SUFFICES ASSUME NEW c \in Conn, ~Quiet(c)'
               PROVE  \E u \in Thread : \E j \in Slots(u)' :
                         conns'[u][j] = c /\ Outstanding(u, j)'
  BY DEF SocketInv
<1>4. c # e
  <2>1. Tail(answers[e]) = <<>>
    BY <1>1
  <2>2. answers'[e] = <<>>
    BY <1>1, <1>2, <2>1 DEF PoolInv, TypeOK
  <2>3. asked'[e] = <<>>
    BY <1>1, <1>2
  <2> QED
    BY <1>3, <2>2, <2>3 DEF Quiet
<1>5. answers'[c] = answers[c] /\ ~Quiet(c)
  BY <1>2, <1>3, <1>4 DEF Quiet, PoolInv, TypeOK
<1>6. PICK u, j : u \in Thread /\ j \in Slots(u) /\ conns[u][j] = c /\ Outstanding(u, j)
  BY <1>5 DEF SocketInv
<1>7. CASE u # t
  BY <1>2, <1>5, <1>6, <1>7, StaysOutstanding DEF PoolInv, TypeOK
<1>8. CASE u = t
  <2>1. j # i /\ j > Len(received[t]) /\ j \in Nat /\ Len(received[t]) \in Nat
    <3>1. conns[t] \in Seq(Conn) /\ received[t] \in Seq(Nat)
      BY DEF PoolInv, TypeOK
    <3> QED
      BY <1>4, <1>6, <1>8, <3>1 DEF Outstanding, Slots
  <2>2. j > i
    BY <2>1
  <2>3. Len(conns[t]) = Needed(t) /\ j <= Len(conns[t])
    BY <1>2, <1>6, <1>8 DEF PoolInv, ThreadAt, Slots, TypeOK
  <2>4. pc'[t] = "receive" /\ Len(received'[t]) = i
    <3>1. i < Needed(t)
      BY <2>1, <2>2, <2>3
    <3> QED
      BY <1>2, <1>1, <3>1 DEF PoolInv, TypeOK
  <2>5. j \in Slots(t)' /\ conns'[t][j] = c
    BY <1>2, <1>6, <1>8 DEF Slots
  <2>6. Outstanding(t, j)'
    BY <1>2, <1>5, <1>6, <1>8, <2>2, <2>4, <2>5 DEF Outstanding, Due
  <2> QED
    BY <2>5, <2>6
<1> QED
  BY <1>7, <1>8

LEMMA AnswerSocket == ASSUME PoolInv, SocketInv, NEW e \in Conn, Answer(e) PROVE SocketInv'
<1>1. /\ asked[e] # <<>>
      /\ asked' = [asked EXCEPT ![e] = Tail(@)]
      /\ answers' = [answers EXCEPT ![e] = Append(@, Head(asked[e]))]
      /\ pc' = pc /\ operation' = operation /\ conns' = conns /\ received' = received
  BY DEF Answer, threadVars
<1>2. SUFFICES ASSUME NEW c \in Conn, ~Quiet(c)'
               PROVE  \E u \in Thread : \E j \in Slots(u)' :
                         conns'[u][j] = c /\ Outstanding(u, j)'
  BY DEF SocketInv
<1>3. ~Quiet(c)
  BY <1>1, <1>2 DEF Quiet, PoolInv, TypeOK
<1>4. PICK u, j : u \in Thread /\ j \in Slots(u) /\ conns[u][j] = c /\ Outstanding(u, j)
  BY <1>3 DEF SocketInv
<1>5. CASE c # e
  BY <1>1, <1>4, <1>5, StaysOutstanding DEF PoolInv, TypeOK
<1>6. CASE c = e
  <2>1. asked[e] = <<Due(u, j)>> /\ answers[e] = <<>>
    BY <1>1, <1>4, <1>6 DEF Outstanding
  <2>2. asked'[e] = <<>> /\ answers'[e] = <<Due(u, j)>>
    <3>1. Tail(asked[e]) = <<>> /\ Head(asked[e]) = Due(u, j)
      BY <2>1
    <3>2. Append(<<>>, Due(u, j)) = <<Due(u, j)>>
      OBVIOUS
    <3> QED
      BY <1>1, <2>1, <3>1, <3>2 DEF PoolInv, TypeOK
  <2>3. j \in Slots(u)' /\ conns'[u][j] = e /\ Due(u, j)' = Due(u, j)
    BY <1>1, <1>4, <1>6 DEF Slots, Due
  <2>4. Outstanding(u, j)'
    BY <1>1, <1>4, <1>6, <2>2, <2>3 DEF Outstanding
  <2> QED
    BY <1>4, <1>6, <2>3, <2>4
<1> QED
  BY <1>5, <1>6

LEMMA NextSocket == PoolInv /\ SocketInv /\ [Next]_vars => SocketInv'
<1> SUFFICES ASSUME PoolInv, SocketInv, [Next]_vars PROVE SocketInv'
  OBVIOUS
<1>1. CASE UNCHANGED <<threadVars, socketVars>>
  BY <1>1 DEF SocketInv, Quiet, Outstanding, Due, Slots, threadVars, socketVars
<1>2. ASSUME NEW t \in Thread,
             \/ Start(t) \/ ReuseConnection(t) \/ BuildConnection(t) \/ PoolFull(t)
             \/ Awake(t) \/ Handshake(t) \/ Release(t)
      PROVE  SocketInv'
  <2>1. pc[t] # "receive" /\ UNCHANGED socketVars
    BY <1>2 DEF Start, ReuseConnection, BuildConnection, PoolFull, Awake, Handshake, Release
  <2>2. \A u \in Thread \ {t} : /\ pc'[u] = pc[u] /\ operation'[u] = operation[u]
                                /\ conns'[u] = conns[u] /\ received'[u] = received[u]
    BY <1>2 DEF Start, ReuseConnection, BuildConnection, PoolFull, Awake, Handshake,
                Release, Take, PoolInv, TypeOK, poolVars
  <2> QED
    BY <2>1, <2>2, SilentThread
<1>3. ASSUME NEW t \in Thread, HandshakeDenied(t) PROVE SocketInv'
  BY <1>1, <1>3 DEF HandshakeDenied
<1> QED
  BY <1>1, <1>2, <1>3, SendSocket, ReceiveSocket, AnswerSocket DEF Next, ThreadStep, vars

\* What a thread has read does not change until it starts again.
LEMMA NextOwn == PoolInv /\ SocketInv /\ OwnSectors /\ [Next]_vars => OwnSectors'
<1> SUFFICES ASSUME PoolInv, SocketInv, OwnSectors, [Next]_vars,
                    NEW u \in Thread, NEW k \in DOMAIN received'[u]
             PROVE  received'[u][k] = operation'[u].sector + k - 1
  BY DEF OwnSectors
<1>1. CASE received'[u] = received[u] /\ operation'[u] = operation[u]
  BY <1>1 DEF OwnSectors
<1>2. CASE Start(u)
  <2>1. received'[u] = <<>>
    BY <1>2 DEF Start, PoolInv, TypeOK
  <2> QED
    BY <2>1
<1>3. CASE Receive(u)
  <2> DEFINE i == Len(received[u]) + 1
  <2>1. answers[conns[u][i]] = <<Due(u, i)>>
    BY <1>3, NextAnswer DEF Receive
  <2>2. received'[u] = Append(received[u], Due(u, i)) /\ operation'[u] = operation[u]
    BY <1>3, <2>1 DEF Receive, PoolInv, TypeOK
  <2>3. received[u] \in Seq(Nat)
    BY DEF PoolInv, TypeOK
  <2>4. CASE k = i
    BY <2>2, <2>3, <2>4 DEF Due
  <2>5. CASE k # i
    <3>1. k \in DOMAIN received[u] /\ received'[u][k] = received[u][k]
      BY <2>2, <2>3, <2>5
    <3> QED
      BY <2>2, <3>1 DEF OwnSectors
  <2> QED
    BY <2>4, <2>5
<1>4. ASSUME NEW t \in Thread, Start(t) \/ Receive(t), t # u
      PROVE  received'[u] = received[u] /\ operation'[u] = operation[u]
  BY <1>4 DEF Start, Receive, PoolInv, TypeOK
<1> QED
  BY <1>1, <1>2, <1>3, <1>4
  DEF Next, ThreadStep, vars, threadVars, ReuseConnection, BuildConnection, PoolFull,
      Awake, Handshake, HandshakeDenied, Send, Release, Answer

-----------------------------------------------------------------------------
(* The theorems.                                                           *)

\* The invariant of pool, threads and sockets.
THEOREM Invariant == Spec => [](PoolInv /\ SocketInv)
<1>1. PoolInv /\ SocketInv /\ [Next]_vars => (PoolInv /\ SocketInv)'
  BY NextPool, NextSocket
<1> QED
  BY InitPool, <1>1, PTL DEF Spec

\* Every variable keeps to its type (pfs-connection-pool.c, pfs-endpoint.c).
THEOREM TypeCorrect == Spec => []TypeOK
<1>1. PoolInv => TypeOK
  BY DEF PoolInv
<1> QED
  BY Invariant, <1>1, PTL

\* pfs_pool_getPooledConnection never hands one connection to two threads,
\* and releaseConnection loses none.
THEOREM NoneShared == Spec => []HeldByOne
<1>1. PoolInv => HeldByOne
  BY DEF PoolInv
<1> QED
  BY Invariant, <1>1, PTL

\* The answers of blocks_callGetBlock are those of its own sectors, although
\* connections pass from thread to thread.
THEOREM OwnAnswers == Spec => []OwnSectors
<1>1. Init => OwnSectors
  BY DEF Init, OwnSectors
<1> QED
  BY Invariant, NextOwn, <1>1, PTL DEF Spec

\* The connections taken by threads that wait for more are at most
\* BlockSectors - 1 for each of them.
LEMMA TakenByWaiting ==
  ASSUME PoolInv, \A t \in Thread : pc[t] \in {"idle", "connect", "sleep"},
         \A c \in Conn : active[c]
  PROVE  MaxConnections <= Cardinality(Thread) * (BlockSectors - 1)
<1> DEFINE Slot == Thread \X (1 .. BlockSectors - 1)
           holder(c) == CHOOSE s \in Slot : s[2] \in Slots(s[1]) /\ conns[s[1]][s[2]] = c
           f == [c \in Conn |-> holder(c)]
<1>1. ASSUME NEW c \in Conn PROVE holder(c) \in Slot /\ conns[holder(c)[1]][holder(c)[2]] = c
  <2>1. PICK t, i : t \in Thread /\ i \in Slots(t) /\ conns[t][i] = c
    BY DEF PoolInv, HeldByOne, Holds
  <2>2. i \in 1 .. BlockSectors - 1
    <3>1. pc[t] # "idle"
      BY <2>1 DEF PoolInv, ThreadAt, Slots
    <3>2. Len(conns[t]) < Needed(t) /\ conns[t] \in Seq(Conn)
      BY <2>1, <3>1 DEF PoolInv, ThreadAt, TypeOK
    <3>3. Needed(t) <= BlockSectors /\ Needed(t) \in Nat
      BY PoolAssumption DEF Needed
    <3> QED
      BY <2>1, <3>2, <3>3, PoolAssumption DEF Slots
  <2>3. <<t, i>> \in Slot
    BY <2>1, <2>2
  <2> QED
    BY <2>1, <2>3
<1>2. f \in Injection(Conn, Slot)
  <2>1. f \in [Conn -> Slot]
    BY <1>1
  <2>2. \A a, b \in Conn : f[a] = f[b] => a = b
    BY <1>1
  <2> HIDE DEF f
  <2> QED
    BY <2>1, <2>2 DEF Injection, IsInjective
<1>3. /\ IsFiniteSet(1 .. BlockSectors - 1)
      /\ Cardinality(1 .. BlockSectors - 1) = BlockSectors - 1
  BY FS_Interval, PoolAssumption
<1>4. /\ IsFiniteSet(Slot)
      /\ Cardinality(Slot) = Cardinality(Thread) * (BlockSectors - 1)
  BY <1>3, FS_Product, PoolAssumption
<1>5. Cardinality(Conn) = MaxConnections
  BY FS_Interval, PoolAssumption DEF Conn
<1> HIDE DEF f, Slot
<1>6. Cardinality(Conn) <= Cardinality(Slot)
  BY <1>2, <1>4, FS_Injection
<1> QED
  BY <1>4, <1>5, <1>6

\* With more than BlockSectors - 1 connections for each thread, block reads
\* (pfs_endpoint_blocks_callGetBlock takes its connections one by one and
\* keeps them) cannot all wait for each other.
THEOREM NoHoldAndWait == EnoughConnections /\ Spec => []NeverAllWaiting
<1>1. EnoughConnections /\ PoolInv => NeverAllWaiting
  <2> SUFFICES ASSUME EnoughConnections, PoolInv,
                      \A t \in Thread : pc[t] \in {"idle", "connect", "sleep"},
                      Inactive = {}, ~(size < MaxConnections)
               PROVE  FALSE
    BY DEF NeverAllWaiting
  <2>1. \A c \in Conn : active[c]
    <3>1. size = MaxConnections /\ active \in [Conn -> BOOLEAN]
      BY PoolAssumption DEF PoolInv, TypeOK
    <3>2. {c \in Conn : ~active[c]} = {}
      BY <3>1 DEF Inactive, Conn
    <3> QED
      BY <3>2
  <2>2. MaxConnections <= Cardinality(Thread) * (BlockSectors - 1)
    BY <2>1, TakenByWaiting
  <2>3. Cardinality(Thread) \in Nat
    BY FS_CardinalityType, PoolAssumption
  <2> QED
    BY <2>2, <2>3, PoolAssumption DEF EnoughConnections
<1>2. EnoughConnections => []EnoughConnections
  OBVIOUS
<1> QED
  BY Invariant, <1>1, <1>2, PTL
=============================================================================
