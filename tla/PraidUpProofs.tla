--------------------------- MODULE PraidUpProofs ---------------------------
(***************************************************************************)
(* What Praid promises while no disk dies, for any number of disks,        *)
(* connections and requests: every GET is answered in the order of its     *)
(* connection, and a new disk is given a copy of all that its source held, *)
(* undisturbed by the requests served meanwhile.                           *)
(*                                                                         *)
(* No disk dies when none may (MaxCrash = 0); the theorems that name no    *)
(* such hypothesis are in PraidProofs.                                     *)
(***************************************************************************)
EXTENDS PraidProofs, FiniteSetTheorems

-----------------------------------------------------------------------------
(* Answers.                                                                *)

\* Until the first death every disk is served by its two threads.
UpInv ==
    \A d \in Ppd :
        /\ ppd[d] # "down"
        /\ listenerPc[d] \notin {"lock", "remove", "select", "assign"}

GetsOf(c) == {j \in Job : j.conn = c /\ IsGet(j)}
Strays(c) == GetsOf(c) \ {LastRequest(c)}
Carrying(kind, G) == [kind : {kind}, job : G]

Has(q, G) == \E i \in DOMAIN q : q[i] \in G
AtMostOne(q, G) == \A i, k \in DOMAIN q : q[i] \in G /\ q[k] \in G => i = k

\* A job of G is in one of the places a job goes through: in the hands of the
\* thread of a connection, or somewhere on the way to a disk and back.
Held(k, x, G) ==
    \/ k = "thread" /\ x \in Pfs /\ pfsPc[x] \in {"select", "get"} /\ LastRequest(x) \in G
    \/ k = "pending" /\ x \in Ppd /\ Has(pendingJobs[x], G)
    \/ k = "toPpd" /\ x \in Ppd /\ Has(toPpd[x], Carrying("job", G))
    \/ k = "queue" /\ x \in Ppd /\ (\E j \in jobsQueue[x] : j \in G)
    \/ k = "toPraid" /\ x \in Ppd /\ Has(toPraid[x], Carrying("answer", G))
    \/ k = "hand" /\ x \in Ppd /\ listenerPc[x] = "respond" /\ listenerJob[x] \in G

\* No queue and no socket has two GETs of a connection.
NoDouble(c) ==
    \A d \in Ppd :
        /\ AtMostOne(pendingJobs[d], GetsOf(c))
        /\ AtMostOne(toPpd[d], Carrying("job", GetsOf(c)))
        /\ AtMostOne(toPraid[d], Carrying("answer", GetsOf(c)))

\* The GETs of a connection are in one place, and are its last request; as
\* long as there is one it has not been answered, and all before it have.
AnswerInv(c) ==
    /\ NoDouble(c)
    /\ \A k, x, l, y : Held(k, x, GetsOf(c)) /\ Held(l, y, GetsOf(c)) => k = l /\ x = y
    /\ \A k, x : ~Held(k, x, Strays(c))
    /\ (\E k, x : Held(k, x, GetsOf(c))) =>
          IsGet(LastRequest(c)) /\ Gets(c) = Append(inbox[c], LastRequest(c))
    /\ Gets(c) = inbox[c] \/ Gets(c) = Append(inbox[c], LastRequest(c))
    /\ pfsPc[c] \in {"walk", "put"} => ~IsGet(LastRequest(c))

AnswersInv == UpInv /\ \A c \in Pfs : AnswerInv(c)

\* A step brings j to one place, and nothing else to any.
Arrives(l, y, j) ==
    \A k, x, G : Held(k, x, G)' => Held(k, x, G) \/ (k = l /\ x = y /\ j \in G)

NothingNew == \A k, x, G : Held(k, x, G)' => Held(k, x, G)

\* The rest of a queue has what the queue had but its head.
LEMMA HasTail ==
    ASSUME NEW S, NEW q \in Seq(S), q # <<>>, NEW G
    PROVE  /\ Has(Tail(q), G) => Has(q, G)
           /\ AtMostOne(q, G) => AtMostOne(Tail(q), G)
           /\ AtMostOne(q, G) /\ Head(q) \in G => ~Has(Tail(q), G)
           /\ Head(q) \in G => Has(q, G)
<1>1. /\ Tail(q) \in Seq(S) /\ Len(Tail(q)) = Len(q) - 1 /\ Len(q) \in Nat \ {0}
      /\ \A i \in 1 .. Len(Tail(q)) : Tail(q)[i] = q[i + 1]
      /\ Head(q) = q[1]
  BY HeadTailProperties, EmptySeq
<1>2. DOMAIN Tail(q) = 1 .. Len(q) - 1 /\ DOMAIN q = 1 .. Len(q)
  BY <1>1, LenProperties
<1> DEFINE t == Tail(q)
<1>3. \A i \in DOMAIN t : i + 1 \in DOMAIN q /\ t[i] = q[i + 1] /\ i \in Nat \ {0}
  BY <1>1, <1>2
<1>4. 1 \in DOMAIN q /\ Head(q) = q[1]
  BY <1>1, <1>2
<1> HIDE DEF t
<1>5. Has(t, G) => Has(q, G)
  BY <1>3 DEF Has
<1>6. AtMostOne(q, G) => AtMostOne(t, G)
  BY <1>3 DEF AtMostOne
<1>7. AtMostOne(q, G) /\ Head(q) \in G => ~Has(t, G)
  BY <1>3, <1>4 DEF AtMostOne, Has
<1> QED BY <1>4, <1>5, <1>6, <1>7 DEF t, Has

\* A longer queue has what it had and its new last job.
LEMMA HasAppend ==
    ASSUME NEW S, NEW q \in Seq(S), NEW m, NEW G
    PROVE  /\ Has(Append(q, m), G) <=> Has(q, G) \/ m \in G
           /\ AtMostOne(q, G) /\ (m \in G => ~Has(q, G)) => AtMostOne(Append(q, m), G)
<1> DEFINE t == Append(q, m)
<1>1. q \in Seq(S \cup {m}) /\ m \in S \cup {m}
  BY SeqMonotonic
<1>2. /\ t \in Seq(S \cup {m}) /\ Len(t) = Len(q) + 1 /\ t[Len(q) + 1] = m
      /\ \A i \in 1 .. Len(q) : t[i] = q[i]
  BY <1>1, AppendProperties
<1>3. DOMAIN t = 1 .. Len(q) + 1 /\ DOMAIN q = 1 .. Len(q) /\ Len(q) \in Nat
  BY <1>1, <1>2, LenProperties
<1> HIDE DEF t
<1>4. \A i \in DOMAIN t : i = Len(q) + 1 \/ (i \in DOMAIN q /\ t[i] = q[i])
  BY <1>2, <1>3
<1>5. \A i \in DOMAIN q : i \in DOMAIN t /\ t[i] = q[i]
  BY <1>2, <1>3
<1>6. Len(q) + 1 \in DOMAIN t
  BY <1>3
<1>7. Has(t, G) <=> Has(q, G) \/ m \in G
  BY <1>2, <1>4, <1>5, <1>6 DEF Has
<1>8. AtMostOne(q, G) /\ (m \in G => ~Has(q, G)) => AtMostOne(t, G)
  BY <1>2, <1>4 DEF AtMostOne, Has
<1> QED BY <1>7, <1>8 DEF t

\* What is in a place of the smaller set is there of the larger.
LEMMA HeldMore ==
    ASSUME NEW k, NEW x, NEW G, NEW H, G \subseteq H, Held(k, x, G)
    PROVE  Held(k, x, H)
<1>1. \A kind : Carrying(kind, G) \subseteq Carrying(kind, H)
  BY DEF Carrying
<1>2. \A q, A, B : A \subseteq B /\ Has(q, A) => Has(q, B)
  BY DEF Has
<1> QED BY <1>1, <1>2 DEF Held

\* A job that goes from one place to the next keeps what is known of the
\* requests of a connection.
LEMMA Carried ==
    ASSUME NEW c \in Pfs, AnswerInv(c), issued'[c] = issued[c], inbox'[c] = inbox[c],
           NEW k, NEW x, NEW l, NEW y, NEW j, Arrives(l, y, j),
           j \in GetsOf(c) => /\ \A G : j \in G => Held(k, x, G)
                              /\ ~Held(k, x, GetsOf(c))',
           NoDouble(c)',
           pfsPc'[c] \in {"walk", "put"} => ~IsGet(LastRequest(c))
    PROVE  AnswerInv(c)'
<1>1. /\ Gets(c)' = Gets(c) /\ LastRequest(c)' = LastRequest(c)
      /\ GetsOf(c)' = GetsOf(c) /\ Strays(c)' = Strays(c)
  BY DEF Gets, LastRequest, GetsOf, Strays
<1> DEFINE G == GetsOf(c)
<1>2. j \in G => j \notin Strays(c)
  BY DEF AnswerInv, Strays
<1>3. Strays(c) \subseteq G
  BY DEF Strays
<1>4. \A m, z : ~Held(m, z, Strays(c))'
  <2> TAKE m, z
  <2> DEFINE S == Strays(c)
  <2>1. Held(m, z, Strays(c))' => \E A : A = S /\ Held(m, z, A)'
    BY <1>1
  <2>2. \A A : A = S => ~Held(m, z, A)'
    <3> SUFFICES ASSUME NEW A, A = S, Held(m, z, A)' PROVE FALSE
      OBVIOUS
    <3>1. ~Held(m, z, A)
      BY DEF AnswerInv
    <3>2. m = l /\ z = y /\ j \in A
      BY <3>1 DEF Arrives
    <3>3. j \in G /\ j \in S
      BY <1>3, <3>2
    <3> QED BY <1>2, <3>3
  <2> QED BY <2>1, <2>2
<1>5. ASSUME NEW m, NEW z, Held(m, z, G)'
      PROVE  /\ j \in G => m = l /\ z = y
             /\ j \notin G => Held(m, z, G)
             /\ \E n, w : Held(n, w, G)
  <2>1. CASE j \notin G
    BY <1>5, <2>1 DEF Arrives
  <2>2. CASE j \in G
    <3>1. Held(k, x, G)
      BY <2>2
    <3>2. ~Held(k, x, G)'
      BY <2>2
    <3>3. Held(m, z, G) => m = k /\ z = x
      BY <3>1 DEF AnswerInv
    <3>4. Held(m, z, G) \/ (m = l /\ z = y)
      BY <1>5 DEF Arrives
    <3> QED BY <1>5, <2>2, <3>1, <3>2, <3>3, <3>4
  <2> QED BY <2>1, <2>2
<1>6. \A m, z, n, w : Held(m, z, G)' /\ Held(n, w, G)' => m = n /\ z = w
  <2> TAKE m, z, n, w
  <2> SUFFICES ASSUME Held(m, z, G)', Held(n, w, G)' PROVE m = n /\ z = w
    OBVIOUS
  <2>1. CASE j \in G
    BY <1>5, <2>1
  <2>2. CASE j \notin G
    BY <1>5, <2>2 DEF AnswerInv
  <2> QED BY <2>1, <2>2
<1>7. (\E m, z : Held(m, z, G)') =>
         IsGet(LastRequest(c)) /\ Gets(c) = Append(inbox[c], LastRequest(c))
  BY <1>5 DEF AnswerInv
<1> QED BY <1>1, <1>4, <1>6, <1>7 DEF AnswerInv

\* Neither does a step that brings nothing to any place.
LEMMA Fewer ==
    ASSUME NEW c \in Pfs, AnswerInv(c), issued'[c] = issued[c], inbox'[c] = inbox[c],
           NothingNew, NoDouble(c)',
           pfsPc'[c] \in {"walk", "put"} => ~IsGet(LastRequest(c))
    PROVE  AnswerInv(c)'
<1>1. /\ Gets(c)' = Gets(c) /\ LastRequest(c)' = LastRequest(c)
      /\ GetsOf(c)' = GetsOf(c) /\ Strays(c)' = Strays(c)
  BY DEF Gets, LastRequest, GetsOf, Strays
<1> QED BY <1>1 DEF AnswerInv, NothingNew

\* A set of naturals with 0, and with the successor of each of its members
\* that is below n, has every natural up to n.
LEMMA UpTo ==
    ASSUME NEW n \in Nat, NEW S \in SUBSET Nat,
           0 \in S, \A m \in S : m < n => m + 1 \in S
    PROVE  \A m \in 0 .. n : m \in S
<1> DEFINE T == {m \in 0 .. n : m \notin S}
<1>1. SUFFICES ASSUME T # {} PROVE FALSE
  OBVIOUS
<1>2. PICK x \in T : \A y \in T : x <= y
  <2>1. T \in SUBSET Nat
    OBVIOUS
  <2> HIDE DEF T
  <2> QED BY <1>1, <2>1, LeastNatural
<1>3. x \in Nat /\ x # 0 /\ x <= n /\ x \notin S
  OBVIOUS
<1>4. x - 1 \in S
  <2>1. x - 1 \in 0 .. n /\ ~(x <= x - 1)
    BY <1>3
  <2> QED BY <1>2, <2>1
<1> QED BY <1>3, <1>4

\* The GETs among the first requests of a sequence, by their number.
FirstGets(q) ==
    LET first[k \in 0 .. Len(q)] ==
            IF k = 0 THEN <<>>
            ELSE IF IsGet(q[k]) THEN Append(first[k - 1], q[k])
            ELSE first[k - 1]
    IN first

\* One request more adds itself, if it is a GET.
LEMMA FirstGetsStep ==
    ASSUME NEW q \in Seq(Job)
    PROVE  /\ FirstGets(q)[0] = <<>>
           /\ \A k \in 1 .. Len(q) :
                 FirstGets(q)[k] = IF IsGet(q[k]) THEN Append(FirstGets(q)[k - 1], q[k])
                                   ELSE FirstGets(q)[k - 1]
<1> DEFINE After(s, k) == IF IsGet(q[k]) THEN Append(s, q[k]) ELSE s
           Is(f, n) == f = [k \in 0 .. n |-> IF k = 0 THEN <<>> ELSE After(f[k - 1], k)]
           I == {n \in Nat : \E f : Is(f, n)}
<1>1. Len(q) \in Nat
  BY LenProperties
<1>2. \E f : Is(f, Len(q))
  <2> HIDE DEF After
  <2>1. 0 \in I
    <3>1. Is([k \in 0 .. 0 |-> <<>>], 0)
      OBVIOUS
    <3> QED BY <3>1
  <2>2. ASSUME NEW n \in I PROVE n + 1 \in I
    <3>1. PICK f : Is(f, n)
      OBVIOUS
    <3> DEFINE g == [k \in 0 .. n + 1 |-> IF k = n + 1 THEN After(f[n], k) ELSE f[k]]
    <3>2. \A k \in 0 .. n + 1 : g[k] = IF k = 0 THEN <<>> ELSE After(g[k - 1], k)
      BY <3>1
    <3>3. Is(g, n + 1)
      BY <3>2
    <3>4. \E h : Is(h, n + 1)
      <4> HIDE DEF g, Is
      <4> QED BY <3>3
    <3> QED BY <3>4
  <2>3. \A n \in 0 .. Len(q) : n \in I
    <3>1. I \in SUBSET Nat /\ (\A m \in I : m < Len(q) => m + 1 \in I)
      BY <2>2
    <3> HIDE DEF I
    <3> QED BY <1>1, <2>1, <3>1, UpTo
  <2> QED BY <1>1, <2>3
<1> DEFINE F == FirstGets(q)
<1>3. F = CHOOSE f : f = [k \in 0 .. Len(q) |->
                 IF k = 0 THEN <<>>
                 ELSE IF IsGet(q[k]) THEN Append(f[k - 1], q[k]) ELSE f[k - 1]]
  BY DEF FirstGets
<1>4. Is(F, Len(q))
  <2>1. \A f : Is(f, Len(q)) <=>
           f = [k \in 0 .. Len(q) |->
                 IF k = 0 THEN <<>>
                 ELSE IF IsGet(q[k]) THEN Append(f[k - 1], q[k]) ELSE f[k - 1]]
    OBVIOUS
  <2> HIDE DEF F
  <2> QED BY <1>2, <1>3, <2>1
<1> HIDE DEF F
<1>5. F[0] = <<>> /\ \A k \in 1 .. Len(q) : F[k] = After(F[k - 1], k)
  <2> HIDE DEF After
  <2>1. \A k \in 0 .. Len(q) : F[k] = IF k = 0 THEN <<>> ELSE After(F[k - 1], k)
    BY <1>4
  <2>2. 0 \in 0 .. Len(q) /\ \A k \in 1 .. Len(q) : k \in 0 .. Len(q) /\ k # 0
    BY <1>1
  <2> QED BY <2>1, <2>2
<1> QED BY <1>5 DEF F

\* The GETs of a connection are those among all of its requests.
LEMMA GetsAre ==
    ASSUME NEW c
    PROVE  Gets(c) = FirstGets(issued[c])[Len(issued[c])]
BY DEF Gets, FirstGets

\* A request sent is one more GET of its connection, or none.
LEMMA GetsGrow ==
    ASSUME NEW c, issued[c] \in Seq(Job), NEW j \in Job,
           issued'[c] = Append(issued[c], j)
    PROVE  Gets(c)' = IF IsGet(j) THEN Append(Gets(c), j) ELSE Gets(c)
<1> DEFINE q == issued[c]
           t == Append(q, j)
           n == Len(q)
           S == {k \in Nat : k <= n => FirstGets(t)[k] = FirstGets(q)[k]}
<1>1. q \in Seq(Job) /\ n \in Nat
  BY LenProperties
<1>2. t \in Seq(Job) /\ Len(t) = n + 1 /\ t[n + 1] = j /\ \A k \in 1 .. n : t[k] = q[k]
  BY AppendProperties
<1>3. Gets(c) = FirstGets(q)[n]
  BY GetsAre
<1>4. Gets(c)' = FirstGets(t)[n + 1]
  <2>1. Gets(c)' = FirstGets(issued'[c])[Len(issued'[c])]
    BY DEF Gets, FirstGets
  <2> QED BY <1>2, <2>1
<1> HIDE DEF q, t, n
<1>5. FirstGets(t)[n] = FirstGets(q)[n]
  <2>1. 0 \in S
    BY <1>1, <1>2, FirstGetsStep
  <2>2. ASSUME NEW k \in S, k < n PROVE k + 1 \in S
    <3>1. k + 1 \in 1 .. n /\ k + 1 \in 1 .. Len(t) /\ (k + 1) - 1 = k
      BY <1>1, <1>2, <2>2
    <3>2. /\ FirstGets(q)[k + 1] = IF IsGet(q[k + 1]) THEN Append(FirstGets(q)[k], q[k + 1])
                                   ELSE FirstGets(q)[k]
          /\ FirstGets(t)[k + 1] = IF IsGet(t[k + 1]) THEN Append(FirstGets(t)[k], t[k + 1])
                                   ELSE FirstGets(t)[k]
      BY <1>1, <1>2, <3>1, FirstGetsStep DEF n
    <3>3. FirstGets(t)[k] = FirstGets(q)[k] /\ t[k + 1] = q[k + 1] /\ k + 1 \in Nat
      BY <1>1, <1>2, <2>2, <3>1
    <3> QED BY <3>2, <3>3
  <2>3. \A k \in 0 .. n : k \in S
    <3>1. S \in SUBSET Nat /\ \A k \in S : k < n => k + 1 \in S
      BY <2>2
    <3> HIDE DEF S
    <3> QED BY <1>1, <2>1, <3>1, UpTo
  <2> QED BY <1>1, <2>3
<1>6. FirstGets(t)[n + 1] = IF IsGet(j) THEN Append(FirstGets(t)[n], j) ELSE FirstGets(t)[n]
  <2>1. n + 1 \in 1 .. Len(t) /\ (n + 1) - 1 = n
    BY <1>1, <1>2
  <2> QED BY <1>2, <2>1, FirstGetsStep
<1> QED BY <1>3, <1>4, <1>5, <1>6

\* No disk dies when none may.
LEMMA UpStep ==
    ASSUME MaxCrash = 0, IInv, UpInv, [Next]_vars
    PROVE  UpInv'
<1> USE DEF UpInv
<1>1. ASSUME NEW d \in Ppd PROVE ~PpdCrash(d)
  <2>1. Fallen = {}
    BY DEF Fallen
  <2>2. Cardinality(Fallen) = 0
    BY <2>1, FS_EmptySet
  <2> QED BY <2>2 DEF PpdCrash
<1>2. ASSUME NEW d \in Ppd, Listener(d) PROVE UpInv'
  <2>1. listenerPc \in [Ppd -> {"off", "recv", "respond", "unlist", "syncEnd", "lock",
                               "remove", "select", "assign", "done"}]
    BY DEF IInv, ListenerInv, ListenerType
  <2>2. ~ListenerBlank(d) /\ ~ListenerCollect(d) /\ ~ListenerRemove(d)
        /\ ~ListenerSelect(d) /\ ~ListenerAssign(d)
    BY DEF ListenerBlank, ListenerCollect, ListenerRemove, ListenerSelect, ListenerAssign
  <2>3. ppd' = ppd
    BY <1>2, <2>2
    DEF Listener, ListenerAnswer, ListenerRespond, ListenerUnlist, ListenerSyncPut,
        ListenerSyncEnd, ListenerSyncStop, ppdVars, outsideVars
  <2>4. listenerPc' = listenerPc
        \/ \E pc \in {"respond", "unlist", "recv", "syncEnd"} :
              listenerPc' = [listenerPc EXCEPT ![d] = pc]
    BY <1>2, <2>2
    DEF Listener, ListenerAnswer, TakeAnswer, ListenerRespond, ListenerUnlist,
        ListenerSyncPut, ListenerSyncEnd, ListenerSyncStop, threadVars, listenerVars
  <2> QED BY <2>1, <2>3, <2>4
<1>3. ASSUME NEW d \in Ppd, Sender(d) PROVE UpInv'
  <2>1. CASE CountRace(d)
    <3>1. ppd' = ppd /\ listenerPc' = [listenerPc EXCEPT ![d] = "respond"]
      BY <2>1 DEF CountRace, TakeAnswer, ppdVars
    <3> QED BY <3>1 DEF IInv, ListenerInv, ListenerType
  <2>2. CASE ~CountRace(d)
    <3>1. ppd' = ppd /\ listenerPc' = listenerPc
      BY <1>3, <2>2
      DEF Sender, SenderTest, SenderWait, SenderQuit, SenderSend, SenderRecord, SenderCount,
          ppdVars, outsideVars, listenerVars
    <3> QED BY <3>1
  <2> QED BY <2>1, <2>2
<1>4. CASE EntrypointStep
  <2>1. ppd' = ppd
    BY <1>4
    DEF EntrypointStep, SelectMaster, AddPpdStorage, SkipReplication, BeginReplication,
        FireActive, FireSynchronization, ppdVars, outsideVars
  <2>2. listenerPc' = listenerPc
        \/ \E d : listenerPc' = [listenerPc EXCEPT ![d] = "recv"]
    BY <1>4
    DEF EntrypointStep, SelectMaster, AddPpdStorage, SkipReplication, BeginReplication,
        FireActive, FireSynchronization, LaunchNewSlaveThread, listenerVars
  <2> QED BY <2>1, <2>2 DEF IInv, ListenerInv, ListenerType
<1>5. ASSUME NEW c \in Pfs, AcceptPfs(c) \/ PfsReceive(c) \/ PfsThreadStep(c) PROVE UpInv'
  <2>1. ppd' = ppd /\ listenerPc' = listenerPc
    BY <1>5
    DEF AcceptPfs, PfsReceive, PfsThreadStep, SelectForGet, QueueGet, PutNext, PutQueue,
        PutDone, ppdVars, outsideVars, listenerVars
  <2> QED BY <2>1
<1>6. ASSUME NEW d \in Ppd, AcceptPpd(d) \/ PpdReceiver(d) \/ PpdWorker(d) PROVE UpInv'
  <2>1. listenerPc' = listenerPc
    BY <1>6
    DEF AcceptPpd, PpdReceiver, PpdReceiveJob, PpdReceiveSyncGet, PpdReceiveSyncPut,
        PpdReceiveSyncEnd, PpdStream, PpdStreamEnd, PpdWorker, PpdRead, PpdWrite,
        threadVars, listenerVars
  <2>2. ppd' = ppd \/ \E s \in {"denied", "up"} : ppd' = [ppd EXCEPT ![d] = s]
    BY <1>6
    DEF AcceptPpd, PpdReceiver, PpdReceiveJob, PpdReceiveSyncGet, PpdReceiveSyncPut,
        PpdReceiveSyncEnd, PpdStream, PpdStreamEnd, PpdWorker, PpdRead, PpdWrite
  <2> QED BY <2>1, <2>2 DEF IInv, DiskInv
<1>7. CASE UNCHANGED vars
  BY <1>7 DEF vars, threadVars, listenerVars, outsideVars, ppdVars
<1> QED BY <1>1, <1>2, <1>3, <1>4, <1>5, <1>6, <1>7 DEF Next

\* A queue or socket becomes one that has no more jobs in it.
NoMore(q, r, kind) ==
    \A G : /\ Has(r, Carrying(kind, G)) => Has(q, Carrying(kind, G))
           /\ AtMostOne(q, Carrying(kind, G)) => AtMostOne(r, Carrying(kind, G))

\* The rest of a queue has no more.
LEMMA TailNoMore ==
    ASSUME NEW S, NEW q \in Seq(S), q # <<>>, NEW kind
    PROVE  NoMore(q, Tail(q), kind)
BY HasTail DEF NoMore

\* A message that carries no job of the kind.
LEMMA AppendNoMore ==
    ASSUME NEW S, NEW q \in Seq(S), NEW m, NEW kind, m.kind # kind
    PROVE  NoMore(q, Append(q, m), kind)
<1>1. ASSUME NEW G PROVE m \notin Carrying(kind, G)
  BY DEF Carrying
<1>2. ASSUME NEW G
      PROVE  /\ Has(Append(q, m), Carrying(kind, G)) => Has(q, Carrying(kind, G))
             /\ AtMostOne(q, Carrying(kind, G)) => AtMostOne(Append(q, m), Carrying(kind, G))
  BY <1>1, HasAppend
<1> QED BY <1>2 DEF NoMore

\* Nor have the sockets when a message of the copy is sent.
LEMMA SendNoMore ==
    ASSUME IInv, NEW d, NEW m, m.kind # "job", SendToPpd(d, m)
    PROVE  \A e \in Ppd : NoMore(toPpd[e], toPpd'[e], "job")
<1> TAKE e \in Ppd
<1>1. toPpd \in [Ppd -> Seq(KnownPpdMessage)]
  BY DEF IInv, SocketInv
<1>2. NoMore(toPpd[e], toPpd[e], "job")
  BY DEF NoMore
<1>3. toPpd'[e] = toPpd[e] \/ toPpd'[e] = Append(toPpd[e], m)
  BY <1>1 DEF SendToPpd
<1>4. NoMore(toPpd[e], Append(toPpd[e], m), "job")
  <2>1. toPpd[e] \in Seq(KnownPpdMessage)
    BY <1>1
  <2> QED BY <2>1, AppendNoMore
<1> QED BY <1>2, <1>3, <1>4

\* A step that moves no job keeps what is known of the requests.
LEMMA Quiet ==
    ASSUME NEW c \in Pfs, AnswerInv(c), UNCHANGED <<issued, inbox, pendingJobs>>,
           \A d \in Ppd : /\ NoMore(toPpd[d], toPpd'[d], "job")
                          /\ NoMore(toPraid[d], toPraid'[d], "answer")
                          /\ jobsQueue'[d] \subseteq jobsQueue[d]
                          /\ listenerPc'[d] = "respond" =>
                                listenerPc[d] = "respond" /\ listenerJob'[d] = listenerJob[d],
           \A e \in Pfs : pfsPc'[e] \in {"select", "get"} => pfsPc[e] \in {"select", "get"},
           \A e \in Pfs : pfsPc'[e] \in {"walk", "put"} => pfsPc[e] \in {"walk", "put"}
    PROVE  AnswerInv(c)'
<1>1. \A e : LastRequest(e)' = LastRequest(e)
  BY DEF LastRequest
<1>2. NothingNew
  BY <1>1 DEF NothingNew, Held, NoMore
<1>3. NoDouble(c)'
  BY DEF NoDouble, NoMore, AnswerInv, GetsOf
<1>4. pfsPc'[c] \in {"walk", "put"} => ~IsGet(LastRequest(c))
  BY DEF AnswerInv
<1> QED BY <1>2, <1>3, <1>4, Fewer

\* What a request of a connection is, and what is out of its reach.
LEMMA LastOfItsOwn ==
    ASSUME IInv, NEW c \in Pfs, issued[c] # <<>>
    PROVE  LastRequest(c) \in Job /\ LastRequest(c).conn = c
<1>1. LastRequest(c) \in Known
  BY LastRequestType DEF IInv
<1>2. issued[c] \in Seq(Job) /\ Len(issued[c]) \in DOMAIN issued[c]
  BY EmptySeq DEF IInv, PfsInv
<1> QED BY <1>1, <1>2 DEF LastRequest, Known, IInv, PfsInv

\* A GET goes from the hands of its thread to a queue, and a PUT to one more.
LEMMA QueuedAnswer ==
    ASSUME IInv, praidUp, NEW c \in Pfs, NEW e \in Pfs, QueueGet(c) \/ PutQueue(c),
           AnswerInv(c), AnswerInv(e)
    PROVE  AnswerInv(e)'
<1> DEFINE d == pfsAt[c]   j == LastRequest(c)
<1>1. /\ issued' = issued /\ inbox' = inbox /\ toPpd' = toPpd /\ toPraid' = toPraid
      /\ jobsQueue' = jobsQueue /\ listenerPc' = listenerPc /\ listenerJob' = listenerJob
      /\ pendingJobs' = [pendingJobs EXCEPT ![d] = Append(@, j)]
  BY DEF QueueGet, PutQueue, QueuePut, listenerVars, heldVars, outsideVars, socketVars,
         ppdVars
<1>2. /\ pfsPc \in [Pfs -> {"off", "denied", "recv", "select", "get", "walk", "put", "done"}]
      /\ pendingJobs \in [Ppd -> Seq(Known)]
      /\ issued[c] # <<>>
  BY DEF IInv, PfsInv, StorageInv, QueueGet, PutQueue
<1>3. j \in Job /\ j.conn = c
  BY <1>2, LastOfItsOwn
<1>4. \A x : LastRequest(x)' = LastRequest(x)
  BY <1>1 DEF LastRequest
<1> HIDE DEF j
<1>5. \E pc \in {"recv", "done", "walk"} :
         /\ pfsPc' = [pfsPc EXCEPT ![c] = pc]
         /\ pc = "walk" => ~IsGet(j)
  BY DEF QueueGet, PutQueue, AfterRequest, AnswerInv, j
<1>6. \A x \in Ppd : \A G : Has(pendingJobs'[x], G) =>
         Has(pendingJobs[x], G) \/ (x = d /\ j \in G)
  <2> TAKE x \in Ppd
  <2> TAKE G
  <2>1. pendingJobs'[x] = pendingJobs[x]
        \/ (x = d /\ pendingJobs'[x] = Append(pendingJobs[x], j))
    BY <1>1, <1>2
  <2>2. Has(Append(pendingJobs[x], j), G) <=> Has(pendingJobs[x], G) \/ j \in G
    <3>1. pendingJobs[x] \in Seq(Known)
      BY <1>2
    <3> QED BY <3>1, HasAppend
  <2> QED BY <2>1, <2>2
<1>7. Arrives("pending", d, j)
  BY <1>1, <1>4, <1>5, <1>2, <1>6 DEF Arrives, Held
<1>8. CASE j \notin GetsOf(e)
  <2>1. NoDouble(e)'
    <3>1. ASSUME NEW x \in Ppd
          PROVE  AtMostOne(pendingJobs'[x], GetsOf(e))
      <4>1. pendingJobs'[x] = pendingJobs[x]
            \/ (x = d /\ pendingJobs'[x] = Append(pendingJobs[x], j))
        BY <1>1, <1>2
      <4>2. AtMostOne(pendingJobs[x], GetsOf(e)) /\ pendingJobs[x] \in Seq(Known)
        BY <1>2 DEF AnswerInv, NoDouble
      <4>3. AtMostOne(Append(pendingJobs[x], j), GetsOf(e))
        BY <1>8, <4>2, HasAppend
      <4> QED BY <4>1, <4>2, <4>3
    <3> QED BY <1>1, <3>1 DEF NoDouble, GetsOf, AnswerInv
  <2>2. pfsPc'[e] \in {"walk", "put"} => ~IsGet(LastRequest(e))
    BY <1>2, <1>5 DEF AnswerInv, j
  <2> HIDE DEF d
  <2>3. issued'[e] = issued[e] /\ inbox'[e] = inbox[e]
    BY <1>1
  <2> QED BY <1>7, <1>8, <2>1, <2>2, <2>3, Carried
<1>9. CASE j \in GetsOf(e)
  <2>1. e = c /\ IsGet(j)
    BY <1>3, <1>9 DEF GetsOf
  <2>2. QueueGet(c)
    BY <2>1 DEF PutQueue, AnswerInv, j
  <2>3. d \in Ppd
    BY <2>2 DEF QueueGet, IInv, PfsInv
  <2>4. \A G : j \in G => Held("thread", c, G)
    BY <2>2 DEF QueueGet, Held, j
  <2>5. ~Held("thread", c, GetsOf(e))'
    BY <1>2, <1>5 DEF Held
  <2>6. ~Has(pendingJobs[d], GetsOf(e))
    <3>1. Held("thread", c, GetsOf(e))
      BY <1>9, <2>4
    <3>2. ~Held("pending", d, GetsOf(e))
      BY <3>1 DEF AnswerInv
    <3> QED BY <2>3, <3>2 DEF Held
  <2>7. NoDouble(e)'
    <3>1. ASSUME NEW x \in Ppd
          PROVE  AtMostOne(pendingJobs'[x], GetsOf(e))
      <4>1. pendingJobs'[x] = pendingJobs[x]
            \/ (x = d /\ pendingJobs'[x] = Append(pendingJobs[x], j))
        BY <1>1, <1>2
      <4>2. AtMostOne(pendingJobs[x], GetsOf(e)) /\ pendingJobs[x] \in Seq(Known)
        BY <1>2 DEF AnswerInv, NoDouble
      <4>3. x = d => AtMostOne(Append(pendingJobs[x], j), GetsOf(e))
        BY <2>6, <4>2, HasAppend
      <4> QED BY <4>1, <4>2, <4>3
    <3> QED BY <1>1, <3>1 DEF NoDouble, GetsOf, AnswerInv
  <2>8. pfsPc'[e] \in {"walk", "put"} => ~IsGet(LastRequest(e))
    BY <1>2, <1>5, <2>1 DEF j
  <2> HIDE DEF d
  <2>9. issued'[e] = issued[e] /\ inbox'[e] = inbox[e]
    BY <1>1
  <2>10. j \in GetsOf(e) => /\ \A G : j \in G => Held("thread", c, G)
                            /\ ~Held("thread", c, GetsOf(e))'
    BY <2>4, <2>5
  <2> QED BY <1>7, <2>7, <2>8, <2>9, <2>10, Carried
<1> QED BY <1>8, <1>9

\* A job goes to its disk, or is lost on the way to one that is not there.
LEMMA SentAnswer ==
    ASSUME IInv, NEW d \in Ppd, SenderSend(d), NEW e \in Pfs, AnswerInv(e)
    PROVE  AnswerInv(e)'
<1> DEFINE q == pendingJobs[d]   j == Head(q)   m == [kind |-> "job", job |-> j]
           K(G) == Carrying("job", G)
<1>1. /\ issued' = issued /\ inbox' = inbox /\ toPraid' = toPraid
      /\ jobsQueue' = jobsQueue /\ listenerPc' = listenerPc /\ listenerJob' = listenerJob
      /\ pfsPc' = pfsPc
      /\ pendingJobs' = [pendingJobs EXCEPT ![d] = Tail(@)]
      /\ SendToPpd(d, m)
  BY DEF SenderSend, pfsVars, listenerVars, heldVars, ppdVars
<1>2. /\ pendingJobs \in [Ppd -> Seq(Known)] /\ q \in Seq(Known) /\ q # <<>>
      /\ toPpd \in [Ppd -> Seq(KnownPpdMessage)]
  BY DEF IInv, StorageInv, SocketInv, SenderInv, SenderSend
<1>3. \A x : LastRequest(x)' = LastRequest(x)
  BY <1>1 DEF LastRequest
<1>4. \A G : m \in K(G) <=> j \in G
  BY DEF Carrying
<1> HIDE DEF j, m
<1>5. \A x \in Ppd : toPpd'[x] = toPpd[x] \/ (x = d /\ toPpd'[x] = Append(toPpd[x], m))
  BY <1>1, <1>2 DEF SendToPpd
<1>6. /\ pendingJobs'[d] = Tail(q)
      /\ \A x \in Ppd \ {d} : pendingJobs'[x] = pendingJobs[x]
  BY <1>1, <1>2
<1>7. \A G : /\ Has(Tail(q), G) => Has(q, G)
             /\ AtMostOne(q, G) => AtMostOne(Tail(q), G)
             /\ AtMostOne(q, G) /\ j \in G => ~Has(Tail(q), G)
             /\ j \in G => Has(q, G)
  BY <1>2, HasTail DEF j
<1> HIDE DEF q
<1>8. \A x \in Ppd : \A G : Has(pendingJobs'[x], G) => Has(pendingJobs[x], G)
  BY <1>6, <1>7 DEF q
<1>9. \A x \in Ppd : \A G : Has(toPpd'[x], K(G)) => Has(toPpd[x], K(G)) \/ (x = d /\ j \in G)
  <2> TAKE x \in Ppd
  <2> TAKE G
  <2>1. toPpd[x] \in Seq(KnownPpdMessage)
    BY <1>2
  <2>2. Has(Append(toPpd[x], m), K(G)) <=> Has(toPpd[x], K(G)) \/ m \in K(G)
    <3> HIDE DEF K
    <3> QED BY <2>1, HasAppend
  <2> QED BY <1>4, <1>5, <2>2
<1>10. Arrives("toPpd", d, j)
  BY <1>1, <1>3, <1>8, <1>9 DEF Arrives, Held
<1>11. j \in GetsOf(e) => /\ \A G : j \in G => Held("pending", d, G)
                          /\ ~Held("pending", d, GetsOf(e))'
  <2>1. \A G : j \in G => Held("pending", d, G)
    BY <1>7 DEF Held, q
  <2>2. j \in GetsOf(e) => ~Has(pendingJobs'[d], GetsOf(e))
    BY <1>6, <1>7 DEF AnswerInv, NoDouble, q
  <2> QED BY <2>1, <2>2 DEF Held
<1>12. j \in GetsOf(e) => ~Has(toPpd[d], K(GetsOf(e)))
  <2> SUFFICES ASSUME j \in GetsOf(e), Has(toPpd[d], K(GetsOf(e))) PROVE FALSE
    OBVIOUS
  <2>1. Held("pending", d, GetsOf(e))
    BY <1>11
  <2>2. Held("toPpd", d, GetsOf(e))
    BY DEF Held
  <2> QED BY <2>1, <2>2 DEF AnswerInv
<1>13. NoDouble(e)'
  <2> DEFINE H == GetsOf(e)
  <2>1. ASSUME NEW x \in Ppd
        PROVE  AtMostOne(pendingJobs'[x], H) /\ AtMostOne(toPpd'[x], K(H))
    <3>1. AtMostOne(pendingJobs[x], H) /\ AtMostOne(toPpd[x], K(H))
      BY DEF AnswerInv, NoDouble
    <3>2. AtMostOne(pendingJobs'[x], H)
      BY <1>6, <1>7, <3>1 DEF q
    <3>3. x = d => AtMostOne(Append(toPpd[x], m), K(H))
      <4>1. toPpd[x] \in Seq(KnownPpdMessage)
        BY <1>2
      <4>2. x = d => (m \in K(H) => ~Has(toPpd[x], K(H)))
        BY <1>4, <1>12
      <4> HIDE DEF K, H
      <4> QED BY <3>1, <4>1, <4>2, HasAppend
    <3> QED BY <1>5, <3>1, <3>2, <3>3
  <2> QED BY <1>1, <2>1 DEF NoDouble, GetsOf, AnswerInv
<1>14. pfsPc'[e] \in {"walk", "put"} => ~IsGet(LastRequest(e))
  BY <1>1 DEF AnswerInv
<1>15. issued'[e] = issued[e] /\ inbox'[e] = inbox[e]
  BY <1>1
<1> QED BY <1>10, <1>11, <1>13, <1>14, <1>15, Carried

\* A job goes from the socket of its disk to its queue.
LEMMA ReceivedAnswer ==
    ASSUME IInv, NEW d \in Ppd, PpdReceiveJob(d), NEW e \in Pfs, AnswerInv(e)
    PROVE  AnswerInv(e)'
<1> DEFINE q == toPpd[d]   m == Head(q)   j == m.job   K(G) == Carrying("job", G)
<1>1. /\ issued' = issued /\ inbox' = inbox /\ toPraid' = toPraid
      /\ pendingJobs' = pendingJobs /\ listenerPc' = listenerPc
      /\ listenerJob' = listenerJob /\ pfsPc' = pfsPc
      /\ toPpd' = [toPpd EXCEPT ![d] = Tail(@)]
      /\ jobsQueue' = [jobsQueue EXCEPT ![d] = @ \cup {j}]
  BY DEF PpdReceiveJob, praidVars, storageVars, queueVars, threadVars, pfsVars,
         listenerVars, heldVars
<1>2. /\ toPpd \in [Ppd -> Seq(KnownPpdMessage)] /\ q \in Seq(KnownPpdMessage) /\ q # <<>>
      /\ jobsQueue \in [Ppd -> SUBSET Known]
  BY DEF IInv, SocketInv, DiskInv, PpdReceiveJob, PpdReady
<1>3. \A x : LastRequest(x)' = LastRequest(x)
  BY <1>1 DEF LastRequest
<1>4. \A G : m \in K(G) <=> j \in G
  <2>1. m \in KnownPpdMessage /\ m.kind = "job"
    BY <1>2, HeadTailProperties DEF PpdReceiveJob, PpdReady
  <2>2. m \in [kind : {"job"}, job : Known]
    BY <2>1 DEF KnownPpdMessage
  <2> HIDE DEF m
  <2> QED BY <2>2 DEF Carrying
<1> HIDE DEF j, m
<1>5. \A G : /\ Has(Tail(q), G) => Has(q, G)
             /\ AtMostOne(q, G) => AtMostOne(Tail(q), G)
             /\ AtMostOne(q, G) /\ m \in G => ~Has(Tail(q), G)
             /\ m \in G => Has(q, G)
  BY <1>2, HasTail DEF m
<1>6. /\ toPpd'[d] = Tail(q) /\ \A x \in Ppd \ {d} : toPpd'[x] = toPpd[x]
      /\ jobsQueue'[d] = jobsQueue[d] \cup {j}
      /\ \A x \in Ppd \ {d} : jobsQueue'[x] = jobsQueue[x]
  BY <1>1, <1>2
<1> HIDE DEF q
<1>7. \A x \in Ppd : \A G : Has(toPpd'[x], K(G)) => Has(toPpd[x], K(G))
  BY <1>5, <1>6 DEF q
<1>8. Arrives("queue", d, j)
  BY <1>1, <1>3, <1>6, <1>7 DEF Arrives, Held
<1>9. j \in GetsOf(e) => /\ \A G : j \in G => Held("toPpd", d, G)
                         /\ ~Held("toPpd", d, GetsOf(e))'
  <2>1. \A G : j \in G => Held("toPpd", d, G)
    BY <1>4, <1>5 DEF Held, q
  <2>2. j \in GetsOf(e) => ~Has(toPpd'[d], K(GetsOf(e)))
    BY <1>4, <1>5, <1>6 DEF AnswerInv, NoDouble, q
  <2> QED BY <2>1, <2>2 DEF Held
<1>10. NoDouble(e)'
  <2> DEFINE H == GetsOf(e)
  <2>1. ASSUME NEW x \in Ppd
        PROVE  AtMostOne(toPpd'[x], K(H))
    BY <1>5, <1>6 DEF AnswerInv, NoDouble, q
  <2> QED BY <1>1, <2>1 DEF NoDouble, GetsOf, AnswerInv
<1>11. pfsPc'[e] \in {"walk", "put"} => ~IsGet(LastRequest(e))
  BY <1>1 DEF AnswerInv
<1>12. issued'[e] = issued[e] /\ inbox'[e] = inbox[e]
  BY <1>1
<1> QED BY <1>8, <1>9, <1>10, <1>11, <1>12, Carried

\* A GET that has been done goes from the queue of its disk to its answer.
LEMMA ReadAnswer ==
    ASSUME IInv, NEW d \in Ppd, PpdRead(d), NEW e \in Pfs, AnswerInv(e)
    PROVE  AnswerInv(e)'
<1> DEFINE K(G) == Carrying("answer", G)
<1>1. PICK j \in jobsQueue[d] :
         /\ jobsQueue' = [jobsQueue EXCEPT ![d] = @ \ {j}]
         /\ toPraid' = [toPraid EXCEPT ![d] = Append(@, [kind |-> "answer", job |-> j])]
  BY DEF PpdRead
<1> DEFINE m == [kind |-> "answer", job |-> j]
<1>2. /\ issued' = issued /\ inbox' = inbox /\ toPpd' = toPpd
      /\ pendingJobs' = pendingJobs /\ listenerPc' = listenerPc
      /\ listenerJob' = listenerJob /\ pfsPc' = pfsPc
  BY DEF PpdRead, praidVars, storageVars, queueVars, threadVars, pfsVars,
         listenerVars, heldVars
<1>3. /\ toPraid \in [Ppd -> Seq(KnownPraidMessage)]
      /\ jobsQueue \in [Ppd -> SUBSET Known]
  BY DEF IInv, SocketInv, DiskInv
<1>4. \A x : LastRequest(x)' = LastRequest(x)
  BY <1>2 DEF LastRequest
<1>5. \A G : m \in K(G) <=> j \in G
  BY DEF Carrying
<1>6. /\ toPraid'[d] = Append(toPraid[d], m)
      /\ \A x \in Ppd \ {d} : toPraid'[x] = toPraid[x]
      /\ jobsQueue'[d] = jobsQueue[d] \ {j}
      /\ \A x \in Ppd \ {d} : jobsQueue'[x] = jobsQueue[x]
  BY <1>1, <1>3
<1> HIDE DEF m
<1>7. \A x \in Ppd : \A G :
         Has(toPraid'[x], K(G)) => Has(toPraid[x], K(G)) \/ (x = d /\ j \in G)
  <2> TAKE x \in Ppd
  <2> TAKE G
  <2>1. toPraid[x] \in Seq(KnownPraidMessage)
    BY <1>3
  <2>2. Has(Append(toPraid[x], m), K(G)) <=> Has(toPraid[x], K(G)) \/ m \in K(G)
    <3> HIDE DEF K
    <3> QED BY <2>1, HasAppend
  <2> QED BY <1>5, <1>6, <2>2
<1>8. Arrives("toPraid", d, j)
  BY <1>2, <1>4, <1>6, <1>7 DEF Arrives, Held
<1>9. \A G : j \in G => Held("queue", d, G)
  BY DEF Held
<1>10. j \in GetsOf(e) => ~Held("queue", d, GetsOf(e))'
  <2> SUFFICES ASSUME j \in GetsOf(e), Held("queue", d, GetsOf(e))' PROVE FALSE
    OBVIOUS
  <2>1. PICK k \in jobsQueue'[d] : k \in GetsOf(e)
    BY DEF Held
  <2>2. k \in jobsQueue[d] /\ k # j
    BY <1>6
  <2>3. ~Held("queue", d, Strays(e))
    BY DEF AnswerInv
  <2>4. k \notin Strays(e) /\ j \notin Strays(e)
    BY <2>2, <2>3 DEF Held
  <2> QED BY <2>1, <2>2, <2>4 DEF Strays
<1>11. j \in GetsOf(e) => ~Has(toPraid[d], K(GetsOf(e)))
  <2> SUFFICES ASSUME j \in GetsOf(e), Has(toPraid[d], K(GetsOf(e))) PROVE FALSE
    OBVIOUS
  <2>1. Held("queue", d, GetsOf(e))
    BY <1>9
  <2>2. Held("toPraid", d, GetsOf(e))
    BY DEF Held
  <2> QED BY <2>1, <2>2 DEF AnswerInv
<1>12. NoDouble(e)'
  <2> DEFINE H == GetsOf(e)
  <2>1. ASSUME NEW x \in Ppd
        PROVE  AtMostOne(toPraid'[x], K(H))
    <3>1. AtMostOne(toPraid[x], K(H)) /\ toPraid[x] \in Seq(KnownPraidMessage)
      BY <1>3 DEF AnswerInv, NoDouble
    <3>2. x = d => (m \in K(H) => ~Has(toPraid[x], K(H)))
      BY <1>5, <1>11
    <3>3. x = d => AtMostOne(Append(toPraid[x], m), K(H))
      <4> HIDE DEF K, H
      <4> QED BY <3>1, <3>2, HasAppend
    <3> QED BY <1>6, <3>1, <3>3
  <2> QED BY <1>2, <2>1 DEF NoDouble, GetsOf, AnswerInv
<1>13. pfsPc'[e] \in {"walk", "put"} => ~IsGet(LastRequest(e))
  BY <1>2 DEF AnswerInv
<1>14. issued'[e] = issued[e] /\ inbox'[e] = inbox[e]
  BY <1>2
<1>15. j \in GetsOf(e) => /\ \A G : j \in G => Held("queue", d, G)
                          /\ ~Held("queue", d, GetsOf(e))'
  BY <1>9, <1>10
<1> HIDE DEF K
<1> QED BY <1>8, <1>12, <1>13, <1>14, <1>15, Carried

\* An answer goes from the socket into the hands of the listener.
LEMMA TakenAnswer ==
    ASSUME IInv, NEW d \in Ppd, TakeAnswer(d), NEW e \in Pfs, AnswerInv(e),
           UNCHANGED <<issued, inbox, toPpd, pendingJobs, jobsQueue, pfsPc>>
    PROVE  AnswerInv(e)'
<1> DEFINE q == toPraid[d]   m == Head(q)   j == m.job   K(G) == Carrying("answer", G)
<1>1. /\ toPraid' = [toPraid EXCEPT ![d] = Tail(@)]
      /\ listenerJob' = [listenerJob EXCEPT ![d] = j]
      /\ listenerPc[d] = "recv" /\ listenerPc' = [listenerPc EXCEPT ![d] = "respond"]
  BY DEF TakeAnswer, Receives
<1>2. /\ toPraid \in [Ppd -> Seq(KnownPraidMessage)] /\ q \in Seq(KnownPraidMessage)
      /\ q # <<>>
      /\ listenerPc \in [Ppd -> {"off", "recv", "respond", "unlist", "syncEnd", "lock",
                                 "remove", "select", "assign", "done"}]
      /\ listenerJob \in [Ppd -> KnownGet \cup {None}]
  BY DEF IInv, SocketInv, TakeAnswer, Receives, ListenerInv, ListenerType
<1>3. \A x : LastRequest(x)' = LastRequest(x)
  BY DEF LastRequest
<1>4. \A G : m \in K(G) <=> j \in G
  <2>1. m \in KnownPraidMessage /\ m.kind = "answer"
    BY <1>2, HeadTailProperties DEF TakeAnswer, Receives
  <2>2. m \in [kind : {"answer"}, job : KnownGet]
    BY <2>1 DEF KnownPraidMessage
  <2> HIDE DEF m
  <2> QED BY <2>2 DEF Carrying
<1> HIDE DEF j, m
<1>5. \A G : /\ Has(Tail(q), G) => Has(q, G)
             /\ AtMostOne(q, G) => AtMostOne(Tail(q), G)
             /\ AtMostOne(q, G) /\ m \in G => ~Has(Tail(q), G)
             /\ m \in G => Has(q, G)
  BY <1>2, HasTail DEF m
<1>6. /\ toPraid'[d] = Tail(q) /\ \A x \in Ppd \ {d} : toPraid'[x] = toPraid[x]
      /\ listenerPc'[d] = "respond" /\ listenerJob'[d] = j
      /\ \A x \in Ppd \ {d} : listenerPc'[x] = listenerPc[x] /\ listenerJob'[x] = listenerJob[x]
  BY <1>1, <1>2
<1> HIDE DEF q
<1>7. \A x \in Ppd : \A G : Has(toPraid'[x], K(G)) => Has(toPraid[x], K(G))
  BY <1>5, <1>6 DEF q
<1>8. Arrives("hand", d, j)
  BY <1>3, <1>6, <1>7 DEF Arrives, Held
<1>9. j \in GetsOf(e) => /\ \A G : j \in G => Held("toPraid", d, G)
                         /\ ~Held("toPraid", d, GetsOf(e))'
  <2>1. \A G : j \in G => Held("toPraid", d, G)
    BY <1>4, <1>5 DEF Held, q
  <2>2. j \in GetsOf(e) => ~Has(toPraid'[d], K(GetsOf(e)))
    BY <1>4, <1>5, <1>6 DEF AnswerInv, NoDouble, q
  <2> QED BY <2>1, <2>2 DEF Held
<1>10. NoDouble(e)'
  <2> DEFINE H == GetsOf(e)
  <2>1. ASSUME NEW x \in Ppd
        PROVE  AtMostOne(toPraid'[x], K(H))
    BY <1>5, <1>6 DEF AnswerInv, NoDouble, q
  <2> QED BY <2>1 DEF NoDouble, GetsOf, AnswerInv
<1>11. pfsPc'[e] \in {"walk", "put"} => ~IsGet(LastRequest(e))
  BY DEF AnswerInv
<1>12. issued'[e] = issued[e] /\ inbox'[e] = inbox[e]
  OBVIOUS
<1> QED BY <1>8, <1>9, <1>10, <1>11, <1>12, Carried

\* The answer to the one request that had none is written to its connection.
LEMMA RespondedAnswer ==
    ASSUME IInv, NEW d \in Ppd, ListenerRespond(d), NEW e \in Pfs, AnswerInv(e)
    PROVE  AnswerInv(e)'
<1> DEFINE j == listenerJob[d]   c == j.conn
<1>1. /\ issued' = issued /\ toPpd' = toPpd /\ toPraid' = toPraid
      /\ pendingJobs' = pendingJobs /\ jobsQueue' = jobsQueue
      /\ listenerJob' = listenerJob /\ pfsPc' = pfsPc
      /\ listenerPc[d] = "respond" /\ listenerPc' = [listenerPc EXCEPT ![d] = "unlist"]
      /\ inbox' = [inbox EXCEPT ![c] = Append(@, j)]
  BY DEF ListenerRespond, praidVars, storageVars, queueVars, pfsVars, heldVars, ppdVars
<1>2. /\ inbox \in [Pfs -> Seq(KnownGet)]
      /\ listenerPc \in [Ppd -> {"off", "recv", "respond", "unlist", "syncEnd", "lock",
                                 "remove", "select", "assign", "done"}]
      /\ j \in KnownGet
  BY <1>1 DEF IInv, SocketInv, ListenerInv, ListenerType, ListenerAt
<1> HIDE DEF j
<1>3. j \in GetsOf(c) /\ c \in Pfs
  BY <1>2 DEF GetsOf, KnownGet, Known, Job
<1>4. \A x : LastRequest(x)' = LastRequest(x)
  BY <1>1 DEF LastRequest
<1>5. NothingNew
  BY <1>1, <1>2, <1>4 DEF NothingNew, Held
<1>6. NoDouble(e)'
  BY <1>1 DEF NoDouble, GetsOf, AnswerInv
<1>7. issued'[e] = issued[e]
  BY <1>1
<1>8. pfsPc'[e] \in {"walk", "put"} => ~IsGet(LastRequest(e))
  BY <1>1 DEF AnswerInv
<1>9. CASE e # c
  <2>1. inbox'[e] = inbox[e]
    BY <1>1, <1>2, <1>9
  <2> QED BY <1>5, <1>6, <1>7, <1>8, <2>1, Fewer
<1>10. CASE e = c
  <2>1. Held("hand", d, GetsOf(e)) /\ j \in GetsOf(e)
    BY <1>1, <1>3, <1>10 DEF Held, j
  <2>2. j = LastRequest(e)
    <3>1. \A G : j \in G => Held("hand", d, G)
      BY <1>1 DEF Held, j
    <3>2. j \notin Strays(e)
      BY <3>1 DEF AnswerInv
    <3> QED BY <2>1, <3>2 DEF Strays
  <2>3. Gets(e) = Append(inbox[e], j)
    BY <2>1, <2>2 DEF AnswerInv
  <2>4. Gets(e)' = inbox'[e]
    <3>1. Gets(e)' = Gets(e)
      BY <1>7 DEF Gets
    <3>2. inbox'[e] = Append(inbox[e], j)
      BY <1>1, <1>2, <1>10
    <3> QED BY <2>3, <3>1, <3>2
  <2>5. ASSUME NEW k, NEW x, NEW A, A \subseteq GetsOf(e), Held(k, x, A)' PROVE FALSE
    <3>1. Held(k, x, A)
      BY <2>5, <1>5 DEF NothingNew
    <3>2. Held(k, x, GetsOf(e))
      BY <2>5, <3>1, HeldMore
    <3>3. k = "hand" /\ x = d
      BY <2>1, <3>2 DEF AnswerInv
    <3>4. listenerPc'[d] = "unlist"
      BY <1>1, <1>2
    <3> QED BY <2>5, <3>3, <3>4 DEF Held
  <2>6. ASSUME NEW k, NEW x PROVE ~Held(k, x, GetsOf(e))'
    <3>1. \A A : A \subseteq GetsOf(e) => ~Held(k, x, A)'
      BY <2>5
    <3> QED BY <3>1
  <2>7. ASSUME NEW k, NEW x PROVE ~Held(k, x, Strays(e))'
    <3>1. \A A : A \subseteq GetsOf(e) => ~Held(k, x, A)'
      BY <2>5
    <3>2. Strays(e)' \subseteq GetsOf(e)
      BY DEF Strays, GetsOf
    <3> QED BY <3>1, <3>2
  <2>8. LastRequest(e)' = LastRequest(e)
    BY <1>4
  <2> QED BY <1>6, <1>8, <2>4, <2>6, <2>7, <2>8 DEF AnswerInv
<1> QED BY <1>9, <1>10

\* A connection sends its next request when the one before has its answer.
LEMMA NextRequest ==
    ASSUME IInv, NEW c \in Pfs, PfsReceive(c), NEW e \in Pfs, AnswerInv(c), AnswerInv(e)
    PROVE  AnswerInv(e)'
<1>1. PICK r \in Requests :
         /\ issued' = [issued EXCEPT ![c] =
               Append(@, [conn |-> c, n |-> Len(@) + 1, op |-> r.op, sector |-> r.sector])]
         /\ pfsPc' = [pfsPc EXCEPT ![c] = IF r.op = "get" THEN "select" ELSE "walk"]
  BY DEF PfsReceive
<1> DEFINE j == [conn |-> c, n |-> Len(issued[c]) + 1, op |-> r.op, sector |-> r.sector]
<1>2. /\ inbox' = inbox /\ toPpd' = toPpd /\ toPraid' = toPraid
      /\ pendingJobs' = pendingJobs /\ jobsQueue' = jobsQueue
      /\ listenerPc' = listenerPc /\ listenerJob' = listenerJob
      /\ pfsPc[c] = "recv" /\ ~Waiting(c)
  BY DEF PfsReceive, praidVars, storageVars, queueVars, listenerVars, heldVars,
         outsideVars, socketVars, ppdVars
<1>3. /\ issued \in [Pfs -> Seq(Job)] /\ inbox \in [Pfs -> Seq(KnownGet)]
      /\ pfsPc \in [Pfs -> {"off", "denied", "recv", "select", "get", "walk", "put", "done"}]
  BY DEF IInv, PfsInv, SocketInv
<1>4. j \in Job /\ j.conn = c /\ (IsGet(j) <=> r.op = "get")
  <2>1. r \in [op : {"get", "put"}, sector : Sector]
    BY PraidAssumption DEF PraidAssumption
  <2>2. Len(issued[c]) \in Nat
    BY <1>3, LenProperties
  <2> QED BY <2>1, <2>2 DEF Job, IsGet
<1>5. issued'[c] = Append(issued[c], j) /\ \A x \in Pfs \ {c} : issued'[x] = issued[x]
  BY <1>1, <1>3
<1> HIDE DEF j
<1>6. LastRequest(c)' = j /\ \A x \in Pfs \ {c} : LastRequest(x)' = LastRequest(x)
  <2>1. /\ Len(Append(issued[c], j)) = Len(issued[c]) + 1
        /\ Append(issued[c], j)[Len(issued[c]) + 1] = j
    BY <1>3, <1>4, AppendProperties
  <2> QED BY <1>5, <2>1 DEF LastRequest
<1>7. Arrives("thread", c, j)
  BY <1>1, <1>2, <1>3, <1>6 DEF Arrives, Held
<1>8. NoDouble(e)'
  BY <1>2 DEF NoDouble, GetsOf, AnswerInv
<1>9. CASE e # c
  <2>1. j \notin GetsOf(e)
    BY <1>4, <1>9 DEF GetsOf
  <2>2. issued'[e] = issued[e] /\ inbox'[e] = inbox[e]
    BY <1>2, <1>5, <1>9
  <2>3. pfsPc'[e] \in {"walk", "put"} => ~IsGet(LastRequest(e))
    BY <1>1, <1>3, <1>9 DEF AnswerInv
  <2> QED BY <1>7, <1>8, <2>1, <2>2, <2>3, Carried
<1>10. CASE e = c
  <2>1. Gets(c) = inbox[c] /\ Gets(c) # Append(inbox[c], LastRequest(c))
    <3> DEFINE l == LastRequest(c)
    <3>1. /\ inbox[c] \in Seq(KnownGet \cup {l}) /\ l \in KnownGet \cup {l}
          /\ Len(inbox[c]) \in Nat
      <4>1. inbox[c] \in Seq(KnownGet)
        BY <1>3
      <4> QED BY <4>1, SeqMonotonic, LenProperties
    <3> HIDE DEF l
    <3>2. Len(Append(inbox[c], l)) = Len(inbox[c]) + 1
      BY <3>1, AppendProperties
    <3>3. ~(Len(inbox[c]) < Len(Gets(c)))
      BY <1>2 DEF Waiting
    <3>4. Gets(c) # Append(inbox[c], l)
      BY <3>1, <3>2, <3>3
    <3> QED BY <3>4 DEF AnswerInv, l
  <2>2. \A k, x : ~Held(k, x, GetsOf(c))
    BY <2>1 DEF AnswerInv
  <2>3. ASSUME NEW k, NEW x, NEW A, A \subseteq GetsOf(c), Held(k, x, A)'
        PROVE  k = "thread" /\ x = c /\ j \in A
    <3>1. ~Held(k, x, A)
      BY <2>2, <2>3, HeldMore
    <3> QED BY <1>7, <2>3, <3>1 DEF Arrives
  <2>4. \A k, x, l, y : Held(k, x, GetsOf(c))' /\ Held(l, y, GetsOf(c))' => k = l /\ x = y
    <3>1. \A k, x : Held(k, x, GetsOf(c))' => k = "thread" /\ x = c
      BY <2>3 DEF GetsOf
    <3> QED BY <3>1
  <2>5. ASSUME NEW k, NEW x PROVE ~Held(k, x, Strays(c))'
    <3>1. \A A : A \subseteq GetsOf(c) /\ j \notin A => ~Held(k, x, A)'
      BY <2>3
    <3>2. Strays(c)' \subseteq GetsOf(c) /\ j \notin Strays(c)'
      BY <1>6 DEF Strays, GetsOf
    <3> QED BY <3>1, <3>2
  <2>6. Gets(c)' = IF IsGet(j) THEN Append(Gets(c), j) ELSE Gets(c)
    BY <1>3, <1>4, <1>5, GetsGrow
  <2>7. (\E k, x : Held(k, x, GetsOf(c))') => IsGet(j)
    <3>1. \A k, x : Held(k, x, GetsOf(c))' => j \in GetsOf(c)
      BY <2>3
    <3> QED BY <3>1 DEF GetsOf
  <2>8. inbox'[c] = inbox[c]
    BY <1>2
  <2>9. pfsPc'[c] \in {"walk", "put"} => ~IsGet(j)
    BY <1>1, <1>3, <1>4
  <2> QED BY <1>6, <1>8, <1>10, <2>1, <2>4, <2>5, <2>6, <2>7, <2>8, <2>9 DEF AnswerInv
<1> QED BY <1>9, <1>10

\* Nothing has been asked at first.
LEMMA AnswersInit == Init => AnswersInv
<1> SUFFICES ASSUME Init PROVE AnswersInv
  OBVIOUS
<1>1. UpInv
  BY DEF Init, UpInv
<1>2. ASSUME NEW c \in Pfs PROVE AnswerInv(c)
  <2>1. \A k, x, G : ~Held(k, x, G)
    BY DEF Init, Held, Has
  <2>2. NoDouble(c)
    BY DEF Init, NoDouble, AtMostOne
  <2>3. Gets(c) = inbox[c]
    <3>1. issued[c] = <<>> /\ inbox[c] = <<>>
      BY DEF Init
    <3>2. <<>> \in Seq(Job) /\ Len(<<>>) = 0
      OBVIOUS
    <3>3. FirstGets(<<>>)[0] = <<>>
      BY <3>2, FirstGetsStep
    <3> QED BY <3>1, <3>2, <3>3, GetsAre
  <2>4. pfsPc[c] = "off"
    BY DEF Init
  <2> QED BY <2>1, <2>2, <2>3, <2>4 DEF AnswerInv
<1> QED BY <1>1, <1>2 DEF AnswersInv

\* Every step leaves the GET that is not answered in one place.
LEMMA AnswersStep ==
    ASSUME MaxCrash = 0, IInv, AnswersInv, [Next]_vars
    PROVE  AnswersInv'
<1> USE DEF praidVars, storageVars, listVars, queueVars, lockVars, syncVars,
            pfsVars, senderVars, listenerVars, heldVars, threadVars, outsideVars,
            socketVars, ppdVars, copyVars, historyVars
<1>1. UpInv'
  BY UpStep DEF AnswersInv
<1>2. ASSUME NEW e \in Pfs PROVE AnswerInv(e)'
  <2>1. AnswerInv(e) /\ \A c \in Pfs : AnswerInv(c)
    BY DEF AnswersInv
  <2>2. /\ listenerPc \in [Ppd -> {"off", "recv", "respond", "unlist", "syncEnd", "lock",
                                   "remove", "select", "assign", "done"}]
        /\ pfsPc \in [Pfs -> {"off", "denied", "recv", "select", "get", "walk", "put", "done"}]
        /\ listenerJob \in [Ppd -> KnownGet \cup {None}]
        /\ toPpd \in [Ppd -> Seq(KnownPpdMessage)] /\ toPraid \in [Ppd -> Seq(KnownPraidMessage)]
        /\ jobsQueue \in [Ppd -> SUBSET Known]
    BY DEF IInv, ListenerInv, ListenerType, PfsInv, SocketInv, DiskInv
  <2> DEFINE Sent == \A d \in Ppd : NoMore(toPpd[d], toPpd'[d], "job")
             Answered == \A d \in Ppd : NoMore(toPraid[d], toPraid'[d], "answer")
             Queued == \A d \in Ppd : jobsQueue'[d] \subseteq jobsQueue[d]
             Handed == \A d \in Ppd : listenerPc'[d] = "respond" =>
                          listenerPc[d] = "respond" /\ listenerJob'[d] = listenerJob[d]
             Threads == /\ \A c \in Pfs : pfsPc'[c] \in {"select", "get"} => pfsPc[c] \in {"select", "get"}
                        /\ \A c \in Pfs : pfsPc'[c] \in {"walk", "put"} => pfsPc[c] \in {"walk", "put"}
  <2>3. UNCHANGED <<issued, inbox, pendingJobs>> /\ Sent /\ Answered /\ Queued /\ Handed /\ Threads
           => AnswerInv(e)'
    BY <2>1, Quiet
  <2>4. /\ toPpd' = toPpd => Sent
        /\ toPraid' = toPraid => Answered
        /\ jobsQueue' = jobsQueue => Queued
        /\ listenerPc' = listenerPc /\ listenerJob' = listenerJob => Handed
        /\ pfsPc' = pfsPc => Threads
    BY DEF NoMore
  <2> HIDE DEF Sent, Answered, Queued, Handed, Threads
  <2>5. CASE EntrypointStep
    <3>1. CASE SelectMaster \/ AddPpdStorage \/ BeginReplication \/ FireActive
      BY <2>3, <2>4, <3>1 DEF SelectMaster, AddPpdStorage, BeginReplication, FireActive
    <3>2. CASE SkipReplication \/ FireSynchronization
      <4>1. Sent
        <5>1. \E d, m : m.kind # "job" /\ SendToPpd(d, m)
          BY <3>2 DEF SkipReplication, FireSynchronization
        <5> QED BY <5>1, SendNoMore DEF Sent
      <4>2. Handed
        BY <2>2, <3>2 DEF SkipReplication, FireSynchronization, LaunchNewSlaveThread, Handed
      <4> QED BY <2>3, <2>4, <3>2, <4>1, <4>2
              DEF SkipReplication, FireSynchronization, LaunchNewSlaveThread
    <3> QED BY <2>5, <3>1, <3>2 DEF EntrypointStep
  <2>6. ASSUME NEW c \in Pfs, AcceptPfs(c) \/ PfsReceive(c) \/ PfsThreadStep(c), praidUp
        PROVE  AnswerInv(e)'
    <3>1. CASE PfsReceive(c)
      BY <2>1, <3>1, NextRequest
    <3>2. CASE QueueGet(c) \/ PutQueue(c)
      BY <2>1, <2>6, <3>2, QueuedAnswer
    <3>3. CASE AcceptPfs(c) \/ SelectForGet(c) \/ PutNext(c) \/ PutDone(c)
      <4>1. Threads
        BY <2>2, <3>3 DEF AcceptPfs, SelectForGet, PutNext, PutDone, AfterRequest, Threads
      <4> QED BY <2>3, <2>4, <3>3, <4>1 DEF AcceptPfs, SelectForGet, PutNext, PutDone
    <3> QED BY <2>6, <3>1, <3>2, <3>3 DEF PfsThreadStep
  <2>7. ASSUME NEW d \in Ppd, Sender(d) PROVE AnswerInv(e)'
    <3>1. CASE SenderSend(d)
      BY <2>1, <3>1, SentAnswer
    <3>2. CASE CountRace(d)
      BY <2>1, <3>2, TakenAnswer DEF CountRace
    <3>3. CASE SenderTest(d) \/ SenderWait(d) \/ SenderQuit(d) \/ SenderRecord(d) \/ SenderCount(d)
      BY <2>3, <2>4, <3>3
      DEF SenderTest, SenderWait, SenderQuit, SenderRecord, SenderCount
    <3> QED BY <2>7, <3>1, <3>2, <3>3 DEF Sender
  <2>8. ASSUME NEW d \in Ppd, Listener(d) PROVE AnswerInv(e)'
    <3>1. CASE ListenerAnswer(d)
      BY <2>1, <3>1, TakenAnswer DEF ListenerAnswer
    <3>2. CASE ListenerRespond(d)
      BY <2>1, <3>2, RespondedAnswer
    <3>3. CASE ListenerUnlist(d) \/ ListenerSyncStop(d)
      <4>1. Handed
        BY <2>2, <3>3 DEF ListenerUnlist, ListenerSyncStop, Handed
      <4> QED BY <2>3, <2>4, <3>3, <4>1 DEF ListenerUnlist, ListenerSyncStop
    <3>4. CASE ListenerSyncPut(d) \/ ListenerSyncEnd(d)
      <4>1. Answered
        <5>1. toPraid[d] \in Seq(KnownPraidMessage) /\ toPraid[d] # <<>>
          BY <2>2, <3>4 DEF ListenerSyncPut, ListenerSyncEnd, Receives
        <5>2. NoMore(toPraid[d], Tail(toPraid[d]), "answer")
          BY <5>1, TailNoMore
        <5>3. \A x \in Ppd : NoMore(toPraid[x], toPraid[x], "answer")
          BY DEF NoMore
        <5>4. \A x \in Ppd : toPraid'[x] = IF x = d THEN Tail(toPraid[d]) ELSE toPraid[x]
          BY <2>2, <3>4 DEF ListenerSyncPut, ListenerSyncEnd
        <5> QED BY <5>2, <5>3, <5>4 DEF Answered
      <4>2. Sent
        <5>1. CASE ListenerSyncPut(d)
          BY <5>1, SendNoMore DEF ListenerSyncPut, Receives, Sent
        <5>2. CASE ListenerSyncEnd(d)
          <6>1. SendToPpd(syncState.destiny, [kind |-> "syncEnd"])
            BY <5>2 DEF ListenerSyncEnd
          <6>2. \E x, m : m.kind # "job" /\ SendToPpd(x, m)
            BY <6>1
          <6> QED BY <6>2, SendNoMore DEF Sent
        <5> QED BY <3>4, <5>1, <5>2
      <4>3. Handed
        BY <2>2, <3>4 DEF ListenerSyncPut, ListenerSyncEnd, Handed
      <4> QED BY <2>3, <2>4, <3>4, <4>1, <4>2, <4>3 DEF ListenerSyncPut, ListenerSyncEnd
    <3>5. ~ListenerBlank(d) /\ ~ListenerCollect(d) /\ ~ListenerRemove(d)
          /\ ~ListenerSelect(d) /\ ~ListenerAssign(d)
      BY DEF ListenerBlank, ListenerCollect, ListenerRemove, ListenerSelect, ListenerAssign,
             AnswersInv, UpInv
    <3> QED BY <2>8, <3>1, <3>2, <3>3, <3>4, <3>5 DEF Listener
  <2>9. ASSUME NEW d \in Ppd, AcceptPpd(d) \/ PpdReceiver(d) \/ PpdWorker(d)
        PROVE  AnswerInv(e)'
    <3>1. CASE PpdReceiveJob(d)
      BY <2>1, <3>1, ReceivedAnswer
    <3>2. CASE PpdRead(d)
      BY <2>1, <3>2, ReadAnswer
    <3>3. CASE AcceptPpd(d)
      BY <2>3, <2>4, <3>3 DEF AcceptPpd
    <3>4. CASE PpdReceiveSyncGet(d) \/ PpdReceiveSyncPut(d) \/ PpdReceiveSyncEnd(d)
      <4>1. Sent
        <5>1. toPpd[d] \in Seq(KnownPpdMessage) /\ toPpd[d] # <<>>
          BY <2>2, <3>4 DEF PpdReceiveSyncGet, PpdReceiveSyncPut, PpdReceiveSyncEnd, PpdReady
        <5>2. NoMore(toPpd[d], Tail(toPpd[d]), "job")
          BY <5>1, TailNoMore
        <5>3. \A x \in Ppd : NoMore(toPpd[x], toPpd[x], "job")
          BY DEF NoMore
        <5>4. \A x \in Ppd : toPpd'[x] = IF x = d THEN Tail(toPpd[d]) ELSE toPpd[x]
          BY <2>2, <3>4 DEF PpdReceiveSyncGet, PpdReceiveSyncPut, PpdReceiveSyncEnd
        <5> QED BY <5>2, <5>3, <5>4 DEF Sent
      <4> QED BY <2>3, <2>4, <3>4, <4>1
              DEF PpdReceiveSyncGet, PpdReceiveSyncPut, PpdReceiveSyncEnd
    <3>5. CASE PpdStream(d) \/ PpdStreamEnd(d)
      <4>1. \E m : m.kind # "answer" /\ toPraid' = [toPraid EXCEPT ![d] = Append(@, m)]
        BY <3>5 DEF PpdStream, PpdStreamEnd
      <4>2. PICK m : m.kind # "answer" /\ toPraid' = [toPraid EXCEPT ![d] = Append(@, m)]
        BY <4>1
      <4>3. Answered
        <5>1. toPraid[d] \in Seq(KnownPraidMessage)
          BY <2>2
        <5>2. NoMore(toPraid[d], Append(toPraid[d], m), "answer")
          BY <4>2, <5>1, AppendNoMore
        <5>3. \A x \in Ppd : NoMore(toPraid[x], toPraid[x], "answer")
          BY DEF NoMore
        <5>4. \A x \in Ppd : toPraid'[x] = IF x = d THEN Append(toPraid[d], m) ELSE toPraid[x]
          BY <2>2, <4>2
        <5> QED BY <5>2, <5>3, <5>4 DEF Answered
      <4> QED BY <2>3, <2>4, <3>5, <4>3 DEF PpdStream, PpdStreamEnd
    <3>6. CASE PpdWrite(d)
      <4>1. Queued
        BY <2>2, <3>6 DEF PpdWrite, Queued
      <4> QED BY <2>3, <2>4, <3>6, <4>1 DEF PpdWrite
    <3> QED BY <2>9, <3>1, <3>2, <3>3, <3>4, <3>5, <3>6 DEF PpdReceiver, PpdWorker
  <2>10. CASE UNCHANGED vars
    BY <2>3, <2>4, <2>10 DEF vars
  <2>11. ASSUME NEW d \in Ppd, PpdCrash(d) PROVE FALSE
    <3>1. (ppd[d] # "down")' /\ ppd[d] = "up"
      BY <1>1, <2>11 DEF UpInv, PpdCrash
    <3> QED BY <2>11, <3>1 DEF PpdCrash, IInv, DiskInv
  <2> QED BY <2>5, <2>6, <2>7, <2>8, <2>9, <2>10, <2>11 DEF Next
<1> QED BY <1>1, <1>2 DEF AnswersInv

\* While no disk dies, the k-th response written to a connection answers the
\* k-th GET sent on it, however many disks serve it and whichever is faster:
\* the one GET that has no answer yet is in one place only.
THEOREM AnswersInOrder == MaxCrash = 0 /\ Spec => []AnswersMatch
<1>1. IInv /\ AnswersInv => AnswersMatch
  <2> SUFFICES ASSUME IInv, AnswersInv, NEW c \in Pfs PROVE IsPrefix(inbox[c], Gets(c))
    BY DEF AnswersMatch
  <2> DEFINE q == inbox[c]   l == LastRequest(c)   S == KnownGet \cup {l}
  <2>1. q \in Seq(S) /\ l \in S /\ Len(q) \in Nat
    <3>1. inbox[c] \in Seq(KnownGet)
      BY DEF IInv, SocketInv
    <3> QED BY <3>1, SeqMonotonic, LenProperties
  <2>2. Gets(c) = q \/ Gets(c) = Append(q, l)
    BY DEF AnswersInv, AnswerInv
  <2> HIDE DEF q, l, S
  <2>3. Len(Append(q, l)) = Len(q) + 1 /\ \A i \in 1 .. Len(q) : Append(q, l)[i] = q[i]
    BY <2>1, AppendProperties
  <2>4. SubSeq(q, 1, Len(q)) = SubSeq(Append(q, l), 1, Len(q))
    <3> DEFINE t == Append(q, l)
    <3>1. t \in Seq(S) /\ Len(t) = Len(q) + 1
      BY <2>1, AppendProperties
    <3>2. /\ SubSeq(q, 1, Len(q)) = [i \in 1 .. Len(q) |-> q[i]]
          /\ SubSeq(t, 1, Len(q)) = [i \in 1 .. Len(q) |-> t[i]]
      <4>1. Len(q) \in 0 .. Len(q) /\ Len(q) \in 0 .. Len(t)
        BY <2>1, <3>1
      <4> HIDE DEF t
      <4> QED BY <2>1, <3>1, <4>1, SubSeqRestrict DEF Restrict
    <3> QED BY <2>3, <3>2
  <2>5. IsPrefix(q, q) /\ IsPrefix(q, Append(q, l))
    BY <2>1, <2>3, <2>4 DEF IsPrefix
  <2> QED BY <2>2, <2>5 DEF q
<1>2. CASE MaxCrash # 0
  BY <1>2
<1>3. CASE MaxCrash = 0
  <2>1. IInv /\ AnswersInv /\ [Next]_vars => AnswersInv'
    BY <1>3, AnswersStep
  <2>2. Init => AnswersInv
    BY AnswersInit
  <2>3. IInv /\ AnswersInv => AnswersMatch
    BY <1>1
  <2> QED BY <2>1, <2>2, <2>3, Invariant, PTL DEF Spec
<1> QED BY <1>2, <1>3

-----------------------------------------------------------------------------
(* The copy of a new disk, while no disk dies.                             *)

HasKind(q, kind) == \E i \in DOMAIN q : q[i].kind = kind
NoCopy(q) == ~HasKind(q, "syncPut") /\ ~HasKind(q, "syncEnd")

\* What precedes a piece or an end are pieces.
Ordered(q) ==
    \A i \in DOMAIN q : q[i].kind \in {"syncPut", "syncEnd"} =>
        \A h \in 1 .. i - 1 : q[h].kind = "syncPut"

\* A request comes after an end.
EndFirst(q) ==
    \A i \in DOMAIN q : q[i].kind \in {"job", "syncGet"} =>
        \E h \in 1 .. i - 1 : q[h].kind = "syncEnd"

OneGet(q) ==
    \A i, k \in DOMAIN q : q[i].kind = "syncGet" /\ q[k].kind = "syncGet" => i = k

\* Neither a piece nor another end comes after an end.
EndLast(q) ==
    \A i, k \in DOMAIN q :
        q[i].kind = "syncEnd" /\ q[k].kind \in {"syncPut", "syncEnd"} => k <= i

\* The pieces in q are those of the sectors from i up to k, in order, and
\* each has all that was held.
Stream(q, i, k, held) ==
    \E at \in [1 .. Len(q) + 1 -> Nat] :
        /\ at[1] = i
        /\ at[Len(q) + 1] = k
        /\ \A p \in 1 .. Len(q) :
              IF q[p].kind = "syncPut"
              THEN /\ at[p] \in Sector
                   /\ at[p + 1] = at[p] + 1
                   /\ held[at[p]] \subseteq q[p].data
              ELSE at[p + 1] = at[p]

\* The copy that is on goes from x to d.
Copies(x, d) ==
    /\ replicationStatusActive
    /\ entry.pc # "fire"
    /\ syncState.source = x
    /\ syncState.destiny = d

\* The end of the copy has not been sent on to d yet.
Feeding(d) == \E x \in Ppd : Copies(x, d) /\ listenerPc[x] # "syncEnd"

\* Where the next piece lands.
At(d) == IF restoring[d] = None THEN 0 ELSE restoring[d]

Receiving(d) == restoring[d] # None \/ HasKind(toPpd[d], "syncPut") \/ Feeding(d)

\* A disk whose threads have not been started has had no part in anything;
\* one whose threads have been is connected.
FreshInv ==
    \A d \in Ppd :
        /\ senderPc[d] = "off" =>
              /\ listenerPc[d] = "off"
              /\ sentTo[d] = <<>> /\ toPpd[d] = <<>> /\ toPraid[d] = <<>>
              /\ jobsQueue[d] = {} /\ volume[d] = EmptyVolume
              /\ restoring[d] = None /\ streaming[d] = None
        /\ senderPc[d] # "off" => ppd[d] = "up"

\* One disk is taken in at a time, and none during a copy.  The source of a
\* copy is served; its destiny is sent nothing but the copy.
LaunchInv ==
    /\ entry.pc # "accept" => ppd[entry.destiny] = "up"
    /\ \A i \in DOMAIN ppdStorages :
          \/ senderPc[ppdStorages[i]] # "off"
          \/ entry.pc \in {"decide", "sleep", "fire"} /\ ppdStorages[i] = entry.destiny
    /\ entry.pc \in {"add", "decide", "sleep", "fire"} /\ entry.master # None =>
          senderPc[entry.master] # "off"
    /\ replicationStatusActive => entry.pc \in {"accept", "fire"}
    /\ entry.pc = "fire" => replicationStatusActive
    /\ replicationStatusActive /\ entry.pc # "fire" => \E x, d \in Ppd : Copies(x, d)
    /\ \A x, d \in Ppd : Copies(x, d) =>
          /\ x # d
          /\ senderPc[x] # "off"
          /\ senderPc[d] \in {"test", "wait", "done"}
          /\ sentTo[d] = <<>>

Rest(x) == streaming[x] = None /\ ~HasKind(toPpd[x], "syncGet")

\* The disk is not the source of a copy.
Idle(x) == Rest(x) /\ listenerPc[x] # "syncEnd" /\ NoCopy(toPraid[x])

\* The pieces up to sector k that d has not written yet are on their way.
Piped(x, d, k) ==
    \E i \in Nat : /\ Stream(toPpd[d], At(d), i, snapshot[d])
                   /\ Stream(toPraid[x], i, k, snapshot[d])

\* The four stages of a copy: the source has been asked for its volume,
Asked(x, d) ==
    /\ streaming[x] = None /\ OneGet(toPpd[x]) /\ HasKind(toPpd[x], "syncGet")
    /\ listenerPc[x] # "syncEnd"
    /\ NoCopy(toPraid[x])
    /\ toPpd[d] = <<>> /\ restoring[d] = None

\* sends it,
Streams(x, d) ==
    /\ streaming[x] # None /\ ~HasKind(toPpd[x], "syncGet")
    /\ listenerPc[x] # "syncEnd"
    /\ ~HasKind(toPraid[x], "syncEnd")
    /\ Piped(x, d, streaming[x])
    /\ \A s \in Sector : snapshot[d][s] \subseteq volume[x][s]

\* has sent all of it,
Ended(x, d) ==
    /\ Rest(x)
    /\ listenerPc[x] # "syncEnd"
    /\ HasKind(toPraid[x], "syncEnd") /\ EndLast(toPraid[x])
    /\ Piped(x, d, Sectors)

\* and its listener has sent on the end.
Told(x) == Rest(x) /\ listenerPc[x] = "syncEnd" /\ NoCopy(toPraid[x])

SourceAt(x) ==
    /\ (\A d \in Ppd : ~Copies(x, d)) => Idle(x)
    /\ \A d \in Ppd :
          Copies(x, d) => Asked(x, d) \/ Streams(x, d) \/ Ended(x, d) \/ Told(x)

\* A disk that is receiving its copy has done nothing else before, and will
\* do nothing else before the end of it.
DestinyAt(d) ==
    /\ Ordered(toPpd[d])
    /\ Receiving(d) =>
          /\ jobsQueue[d] = {}
          /\ restoring[d] = None => volume[d] = EmptyVolume
          /\ EndFirst(toPpd[d])
          /\ HasKind(toPpd[d], "syncEnd") <=> ~Feeding(d)
          /\ ~Feeding(d) => Stream(toPpd[d], At(d), Sectors, snapshot[d])
    /\ restoring[d] # None =>
          \A s \in Sector : IF s < restoring[d] THEN snapshot[d][s] \subseteq volume[d][s]
                            ELSE volume[d][s] = {}

SourceInv == \A x \in Ppd : SourceAt(x)
DestinyInv == \A d \in Ppd : DestinyAt(d)

CopyInv == FreshInv /\ LaunchInv /\ SourceInv /\ DestinyInv

-----------------------------------------------------------------------------
(* Sockets and the pieces in them.                                         *)

\* What the rest of a socket keeps.
LEMMA TailKinds ==
    ASSUME NEW S, NEW q \in Seq(S), q # <<>>
    PROVE  /\ \A kind : HasKind(q, kind) <=> Head(q).kind = kind \/ HasKind(Tail(q), kind)
           /\ Ordered(q) => Ordered(Tail(q))
           /\ Ordered(q) /\ Head(q).kind # "syncPut" => NoCopy(Tail(q))
           /\ EndFirst(q) /\ Head(q).kind # "syncEnd" => EndFirst(Tail(q))
           /\ EndFirst(q) => Head(q).kind \notin {"job", "syncGet"}
           /\ OneGet(q) => OneGet(Tail(q))
           /\ OneGet(q) /\ Head(q).kind = "syncGet" => ~HasKind(Tail(q), "syncGet")
           /\ EndLast(q) => EndLast(Tail(q))
           /\ EndLast(q) /\ Head(q).kind = "syncEnd" => NoCopy(Tail(q))
<1> DEFINE t == Tail(q)   n == Len(q)   m == Head(q)
<1>1. /\ t \in Seq(S) /\ Len(t) = n - 1 /\ n \in Nat \ {0}
      /\ \A i \in 1 .. Len(t) : t[i] = q[i + 1]
      /\ m = q[1]
  BY HeadTailProperties, EmptySeq
<1>2. DOMAIN t = 1 .. n - 1 /\ DOMAIN q = 1 .. n
  BY <1>1, LenProperties
<1> HIDE DEF t, n, m
<1>3. \A i \in DOMAIN t : /\ i \in Nat \ {0} /\ i + 1 \in DOMAIN q /\ t[i] = q[i + 1]
                          /\ (i + 1) - 1 = i /\ 1 \in 1 .. i
  BY <1>1, <1>2
<1>4. 1 \in DOMAIN q /\ q[1] = m
  BY <1>1, <1>2
<1>5. \A i \in DOMAIN q : i = 1 \/ (i - 1 \in DOMAIN t /\ t[i - 1] = q[i])
  BY <1>1, <1>2
<1>6. ASSUME NEW kind PROVE HasKind(q, kind) <=> m.kind = kind \/ HasKind(t, kind)
  BY <1>3, <1>4, <1>5 DEF HasKind
<1>7. ASSUME Ordered(q)
      PROVE  /\ \A i \in DOMAIN t : t[i].kind \in {"syncPut", "syncEnd"} => m.kind = "syncPut"
             /\ Ordered(t)
  <2>1. ASSUME NEW i \in DOMAIN t, t[i].kind \in {"syncPut", "syncEnd"}
        PROVE  m.kind = "syncPut" /\ \A h \in 1 .. i - 1 : t[h].kind = "syncPut"
    <3>1. \A h \in 1 .. i : q[h].kind = "syncPut"
      BY <1>3, <1>7, <2>1 DEF Ordered
    <3>2. \A h \in 1 .. i - 1 : h \in DOMAIN t /\ h + 1 \in 1 .. i
      BY <1>1, <1>2, <2>1
    <3> QED BY <1>3, <1>4, <3>1, <3>2
  <2> QED BY <2>1 DEF Ordered
<1>8. ASSUME EndFirst(q) PROVE m.kind \notin {"job", "syncGet"}
  BY <1>4, <1>8 DEF EndFirst
<1>9. ASSUME EndFirst(q), m.kind # "syncEnd" PROVE EndFirst(t)
  <2>1. ASSUME NEW i \in DOMAIN t, t[i].kind \in {"job", "syncGet"}
        PROVE  \E h \in 1 .. i - 1 : t[h].kind = "syncEnd"
    <3>1. PICK h \in 1 .. i : q[h].kind = "syncEnd"
      BY <1>3, <1>9, <2>1 DEF EndFirst
    <3>2. h # 1 /\ h \in Nat
      BY <1>4, <1>9, <3>1
    <3>3. h - 1 \in 1 .. i - 1 /\ h - 1 \in DOMAIN t /\ (h - 1) + 1 = h
      BY <1>1, <1>2, <2>1, <3>1, <3>2
    <3> QED BY <1>3, <3>1, <3>3
  <2> QED BY <2>1 DEF EndFirst
<1>10. ASSUME OneGet(q) PROVE OneGet(t) /\ (m.kind = "syncGet" => ~HasKind(t, "syncGet"))
  <2>1. \A i, k \in DOMAIN t : t[i].kind = "syncGet" /\ t[k].kind = "syncGet" => i + 1 = k + 1
    BY <1>3, <1>10 DEF OneGet
  <2>2. \A i \in DOMAIN t : t[i].kind = "syncGet" /\ m.kind = "syncGet" => i + 1 = 1
    BY <1>3, <1>4, <1>10 DEF OneGet
  <2>3. OneGet(t)
    BY <1>3, <2>1 DEF OneGet
  <2>4. m.kind = "syncGet" => ~HasKind(t, "syncGet")
    BY <1>3, <2>2 DEF HasKind
  <2> QED BY <2>3, <2>4
<1>11. ASSUME EndLast(q) PROVE EndLast(t) /\ (m.kind = "syncEnd" => NoCopy(t))
  <2>1. \A i, k \in DOMAIN t : t[i].kind = "syncEnd" /\ t[k].kind \in {"syncPut", "syncEnd"}
                                  => k + 1 <= i + 1
    BY <1>3, <1>11 DEF EndLast
  <2>2. \A k \in DOMAIN t : m.kind = "syncEnd" /\ t[k].kind \in {"syncPut", "syncEnd"}
                                  => k + 1 <= 1
    BY <1>3, <1>4, <1>11 DEF EndLast
  <2>3. EndLast(t)
    BY <1>3, <2>1 DEF EndLast
  <2>4. m.kind = "syncEnd" => NoCopy(t)
    BY <1>3, <2>2 DEF HasKind, NoCopy
  <2> QED BY <2>3, <2>4
<1>12. Ordered(q) /\ m.kind # "syncPut" => NoCopy(t)
  BY <1>7 DEF NoCopy, HasKind
<1> QED BY <1>6, <1>7, <1>8, <1>9, <1>10, <1>11, <1>12 DEF t, m

\* What a socket with one more message keeps.
LEMMA AppendKinds ==
    ASSUME NEW S, NEW q \in Seq(S), NEW m
    PROVE  /\ \A kind : HasKind(Append(q, m), kind) <=> HasKind(q, kind) \/ m.kind = kind
           /\ Ordered(q) /\ m.kind \notin {"syncPut", "syncEnd"} => Ordered(Append(q, m))
           /\ Ordered(q) /\ (\A i \in DOMAIN q : q[i].kind = "syncPut") => Ordered(Append(q, m))
           /\ EndFirst(q) /\ m.kind \notin {"job", "syncGet"} => EndFirst(Append(q, m))
           /\ EndFirst(q) /\ HasKind(q, "syncEnd") => EndFirst(Append(q, m))
           /\ OneGet(q) /\ m.kind # "syncGet" => OneGet(Append(q, m))
           /\ ~HasKind(q, "syncGet") => OneGet(Append(q, m))
           /\ EndLast(q) /\ m.kind \notin {"syncPut", "syncEnd"} => EndLast(Append(q, m))
           /\ ~HasKind(q, "syncEnd") => EndLast(Append(q, m))
<1> DEFINE t == Append(q, m)   n == Len(q)
<1>1. q \in Seq(S \cup {m}) /\ m \in S \cup {m}
  BY SeqMonotonic
<1>2. /\ t \in Seq(S \cup {m}) /\ Len(t) = n + 1 /\ t[n + 1] = m
      /\ \A i \in 1 .. n : t[i] = q[i]
  BY <1>1, AppendProperties
<1>3. DOMAIN t = 1 .. n + 1 /\ DOMAIN q = 1 .. n /\ n \in Nat
  BY <1>1, <1>2, LenProperties
<1> HIDE DEF t, n
<1>4. \A i \in DOMAIN t : i = n + 1 \/ (i \in DOMAIN q /\ t[i] = q[i])
  BY <1>2, <1>3
<1>5. \A i \in DOMAIN q : i \in DOMAIN t /\ t[i] = q[i]
  BY <1>2, <1>3
<1>6. n + 1 \in DOMAIN t /\ t[n + 1] = m
  BY <1>2, <1>3
<1>7. \A i \in DOMAIN q : i \in Nat /\ i <= n /\ \A h \in 1 .. i - 1 : h \in DOMAIN q /\ t[h] = q[h]
  BY <1>2, <1>3
<1>8. \A h \in 1 .. (n + 1) - 1 : h \in DOMAIN q /\ t[h] = q[h]
  BY <1>2, <1>3
<1>9. \A i \in DOMAIN q : i \in 1 .. (n + 1) - 1
  BY <1>3
<1>10. ASSUME NEW kind PROVE HasKind(t, kind) <=> HasKind(q, kind) \/ m.kind = kind
  BY <1>4, <1>5, <1>6 DEF HasKind
<1>11. ASSUME Ordered(q), m.kind \notin {"syncPut", "syncEnd"} \/ \A i \in DOMAIN q : q[i].kind = "syncPut"
       PROVE  Ordered(t)
  <2>1. ASSUME NEW i \in DOMAIN q, t[i].kind \in {"syncPut", "syncEnd"}
        PROVE  \A h \in 1 .. i - 1 : t[h].kind = "syncPut"
    BY <1>5, <1>7, <1>11, <2>1 DEF Ordered
  <2>2. ASSUME m.kind \in {"syncPut", "syncEnd"}
        PROVE  \A h \in 1 .. (n + 1) - 1 : t[h].kind = "syncPut"
    BY <1>8, <1>11, <2>2
  <2> QED BY <1>4, <1>6, <2>1, <2>2 DEF Ordered
<1>12. ASSUME EndFirst(q), m.kind \notin {"job", "syncGet"} \/ HasKind(q, "syncEnd")
       PROVE  EndFirst(t)
  <2>1. ASSUME NEW i \in DOMAIN q, t[i].kind \in {"job", "syncGet"}
        PROVE  \E h \in 1 .. i - 1 : t[h].kind = "syncEnd"
    <3>1. PICK h \in 1 .. i - 1 : q[h].kind = "syncEnd"
      BY <1>5, <1>12, <2>1 DEF EndFirst
    <3> QED BY <1>7, <3>1
  <2>2. ASSUME HasKind(q, "syncEnd")
        PROVE  \E h \in 1 .. (n + 1) - 1 : t[h].kind = "syncEnd"
    BY <1>5, <1>9, <2>2 DEF HasKind
  <2> QED BY <1>4, <1>6, <1>12, <2>1, <2>2 DEF EndFirst
<1>13. ASSUME OneGet(q), m.kind # "syncGet" PROVE OneGet(t)
  BY <1>4, <1>6, <1>13 DEF OneGet
<1>14. ASSUME ~HasKind(q, "syncGet") PROVE OneGet(t)
  BY <1>4, <1>6, <1>14 DEF OneGet, HasKind
<1>15. ASSUME EndLast(q), m.kind \notin {"syncPut", "syncEnd"} PROVE EndLast(t)
  <2>1. \A i, k \in DOMAIN q :
           t[i].kind = "syncEnd" /\ t[k].kind \in {"syncPut", "syncEnd"} => k <= i
    BY <1>5, <1>15 DEF EndLast
  <2> QED BY <1>4, <1>6, <1>15, <2>1 DEF EndLast
<1>16. ASSUME ~HasKind(q, "syncEnd") PROVE EndLast(t)
  <2>1. \A i \in DOMAIN t : t[i].kind = "syncEnd" => i = n + 1
    BY <1>4, <1>16 DEF HasKind
  <2>2. \A k \in DOMAIN t : k <= n + 1
    BY <1>3
  <2> QED BY <2>1, <2>2 DEF EndLast
<1> QED BY <1>10, <1>11, <1>12, <1>13, <1>14, <1>15, <1>16 DEF t

\* With no piece in it a socket takes the copy no further.
LEMMA StreamOfNone ==
    ASSUME NEW S, NEW q \in Seq(S), ~HasKind(q, "syncPut"), NEW held
    PROVE  /\ \A i \in Nat : Stream(q, i, i, held)
           /\ \A i, k : Stream(q, i, k, held) => i = k
<1>1. Len(q) \in Nat /\ DOMAIN q = 1 .. Len(q)
  BY LenProperties
<1>2. \A p \in 1 .. Len(q) : q[p].kind # "syncPut"
  BY <1>1 DEF HasKind
<1>3. ASSUME NEW i \in Nat PROVE Stream(q, i, i, held)
  <2> DEFINE at == [p \in 1 .. Len(q) + 1 |-> i]
  <2>1. /\ at \in [1 .. Len(q) + 1 -> Nat] /\ at[1] = i /\ at[Len(q) + 1] = i
        /\ \A p \in 1 .. Len(q) : at[p + 1] = at[p]
    BY <1>1
  <2> HIDE DEF at
  <2> QED BY <1>2, <2>1 DEF Stream
<1>4. ASSUME NEW i, NEW k, Stream(q, i, k, held) PROVE i = k
  <2>1. PICK at \in [1 .. Len(q) + 1 -> Nat] :
           /\ at[1] = i /\ at[Len(q) + 1] = k
           /\ \A p \in 1 .. Len(q) : at[p + 1] = at[p]
    BY <1>2, <1>4 DEF Stream
  <2> DEFINE T == {p \in Nat : p <= Len(q) => at[p + 1] = i}
  <2>2. 0 \in T
    BY <2>1
  <2>3. ASSUME NEW p \in T, p < Len(q) PROVE p + 1 \in T
    <3>1. p + 1 \in 1 .. Len(q) /\ at[p + 1] = i
      BY <1>1, <2>3
    <3> QED BY <2>1, <3>1
  <2>4. \A p \in 0 .. Len(q) : p \in T
    <3>1. T \in SUBSET Nat /\ \A p \in T : p < Len(q) => p + 1 \in T
      BY <2>3
    <3> HIDE DEF T
    <3> QED BY <1>1, <2>2, <3>1, UpTo
  <2> QED BY <1>1, <2>1, <2>4
<1> QED BY <1>3, <1>4

\* The first message taken out of a socket.
LEMMA StreamTail ==
    ASSUME NEW S, NEW q \in Seq(S), q # <<>>, NEW i, NEW k, NEW held, Stream(q, i, k, held)
    PROVE  /\ Head(q).kind # "syncPut" => Stream(Tail(q), i, k, held)
           /\ Head(q).kind = "syncPut" =>
                 /\ i \in Sector
                 /\ held[i] \subseteq Head(q).data
                 /\ Stream(Tail(q), i + 1, k, held)
<1> DEFINE t == Tail(q)   n == Len(q)   m == Head(q)
<1>1. /\ t \in Seq(S) /\ Len(t) = n - 1 /\ n \in Nat \ {0}
      /\ \A j \in 1 .. Len(t) : t[j] = q[j + 1]
      /\ m = q[1]
  BY HeadTailProperties, EmptySeq
<1>2. PICK at \in [1 .. n + 1 -> Nat] :
         /\ at[1] = i /\ at[n + 1] = k
         /\ \A p \in 1 .. n : IF q[p].kind = "syncPut"
                              THEN /\ at[p] \in Sector
                                   /\ at[p + 1] = at[p] + 1
                                   /\ held[at[p]] \subseteq q[p].data
                              ELSE at[p + 1] = at[p]
  BY DEF Stream
<1> HIDE DEF t, n, m
<1>3. \A p \in 1 .. Len(t) : p + 1 \in 1 .. n /\ t[p] = q[p + 1]
  BY <1>1
<1>4. Stream(t, at[2], k, held)
  <2> DEFINE bt == [p \in 1 .. Len(t) + 1 |-> at[p + 1]]
  <2>1. /\ bt \in [1 .. Len(t) + 1 -> Nat] /\ bt[1] = at[2] /\ bt[Len(t) + 1] = k
        /\ \A p \in 1 .. Len(t) : bt[p] = at[p + 1] /\ bt[p + 1] = at[(p + 1) + 1]
    <3>1. /\ Len(t) + 1 = n /\ 1 \in 1 .. n /\ n \in 1 .. n /\ 1 + 1 = 2
          /\ \A p \in 1 .. n : p + 1 \in 1 .. n + 1
          /\ \A p \in 1 .. Len(t) : p \in 1 .. n /\ p + 1 \in 1 .. n
      BY <1>1
    <3>2. at \in [1 .. n + 1 -> Nat] /\ at[n + 1] = k
      BY <1>2
    <3> QED BY <3>1, <3>2
  <2> HIDE DEF bt
  <2>2. \A p \in 1 .. Len(t) : IF t[p].kind = "syncPut"
                               THEN /\ bt[p] \in Sector
                                    /\ bt[p + 1] = bt[p] + 1
                                    /\ held[bt[p]] \subseteq t[p].data
                               ELSE bt[p + 1] = bt[p]
    <3> TAKE p \in 1 .. Len(t)
    <3> DEFINE r == p + 1
    <3>1. r \in 1 .. n /\ t[p] = q[r] /\ bt[p] = at[r] /\ bt[p + 1] = at[r + 1]
      BY <1>3, <2>1
    <3> HIDE DEF r
    <3> QED BY <1>2, <3>1
  <2> QED BY <2>1, <2>2 DEF Stream
<1>5. 1 \in 1 .. n /\ 1 + 1 = 2
  BY <1>1
<1> QED BY <1>1, <1>2, <1>4, <1>5 DEF t, m

\* One more message in a socket.
LEMMA StreamAppend ==
    ASSUME NEW S, NEW q \in Seq(S), NEW i, NEW k, NEW held, Stream(q, i, k, held), NEW m
    PROVE  /\ m.kind # "syncPut" => Stream(Append(q, m), i, k, held)
           /\ m.kind = "syncPut" /\ k \in Sector /\ held[k] \subseteq m.data =>
                 Stream(Append(q, m), i, k + 1, held)
<1> DEFINE t == Append(q, m)   n == Len(q)
<1>1. q \in Seq(S \cup {m}) /\ m \in S \cup {m}
  BY SeqMonotonic
<1>2. /\ t \in Seq(S \cup {m}) /\ Len(t) = n + 1 /\ t[n + 1] = m
      /\ \A j \in 1 .. n : t[j] = q[j]
      /\ n \in Nat
  BY <1>1, AppendProperties, LenProperties
<1>3. PICK at \in [1 .. n + 1 -> Nat] :
         /\ at[1] = i /\ at[n + 1] = k
         /\ \A p \in 1 .. n : IF q[p].kind = "syncPut"
                              THEN /\ at[p] \in Sector
                                   /\ at[p + 1] = at[p] + 1
                                   /\ held[at[p]] \subseteq q[p].data
                              ELSE at[p + 1] = at[p]
  BY DEF Stream
<1> HIDE DEF t, n
<1>4. k \in Nat
  BY <1>2, <1>3
<1>5. ASSUME NEW z \in Nat,
             IF m.kind = "syncPut" THEN k \in Sector /\ z = k + 1 /\ held[k] \subseteq m.data
             ELSE z = k
      PROVE  Stream(t, i, z, held)
  <2> DEFINE bt == [p \in 1 .. Len(t) + 1 |-> IF p = n + 2 THEN z ELSE at[p]]
  <2>1. /\ bt \in [1 .. Len(t) + 1 -> Nat] /\ bt[1] = i /\ bt[Len(t) + 1] = z
        /\ \A p \in 1 .. n : bt[p] = at[p] /\ bt[p + 1] = at[p + 1] /\ t[p] = q[p]
        /\ bt[n + 1] = k /\ bt[(n + 1) + 1] = z
    BY <1>2, <1>3
  <2>2. \A p \in 1 .. Len(t) : p \in 1 .. n \/ p = n + 1
    BY <1>2
  <2> HIDE DEF bt
  <2>3. \A p \in 1 .. Len(t) : IF t[p].kind = "syncPut"
                               THEN /\ bt[p] \in Sector
                                    /\ bt[p + 1] = bt[p] + 1
                                    /\ held[bt[p]] \subseteq t[p].data
                               ELSE bt[p + 1] = bt[p]
    BY <1>2, <1>3, <1>5, <2>1, <2>2
  <2> QED BY <2>1, <2>3 DEF Stream
<1>6. k + 1 \in Nat
  BY <1>4
<1> QED BY <1>4, <1>5, <1>6 DEF t

\* Where a stream begins and ends are numbers of sectors.
LEMMA StreamEnds ==
    ASSUME NEW S, NEW q \in Seq(S), NEW i, NEW k, NEW held, Stream(q, i, k, held)
    PROVE  i \in Nat /\ k \in Nat
BY LenProperties DEF Stream

-----------------------------------------------------------------------------
(* What leaves the copy alone.                                             *)

\* The variables a copy is made of, with their types.
LEMMA CopyTypes ==
    ASSUME IInv
    PROVE  /\ toPpd \in [Ppd -> Seq(KnownPpdMessage)]
           /\ toPraid \in [Ppd -> Seq(KnownPraidMessage)]
           /\ jobsQueue \in [Ppd -> SUBSET Known]
           /\ streaming \in [Ppd -> 0 .. Sectors \cup {None}]
           /\ restoring \in [Ppd -> Nat \cup {None}]
           /\ volume \in [Ppd -> [Sector -> SUBSET Job]]
           /\ snapshot \in [Ppd -> [Sector -> SUBSET Job]]
           /\ sentTo \in [Ppd -> Seq(Known)]
           /\ ppd \in [Ppd -> {"off", "up", "denied", "down"}]
           /\ senderPc \in [Ppd -> {"off", "test", "wait", "lock", "record", "count", "done"}]
           /\ listenerPc \in [Ppd -> {"off", "recv", "respond", "unlist", "syncEnd", "lock",
                                      "remove", "select", "assign", "done"}]
           /\ ppdStorages \in Seq(Ppd)
           /\ syncState \in [source : Ppd \cup {None}, destiny : Ppd \cup {None}]
           /\ entry \in [pc : {"accept", "select", "add", "decide", "sleep", "fire"},
                         destiny : Ppd \cup {None}, master : Ppd \cup {None}]
           /\ Sectors \in Nat \ {0} /\ None \notin Ppd /\ None \notin Nat
BY PraidAssumption
   DEF PraidAssumption, IInv, StorageInv, EntryInv, SenderInv, ListenerInv, ListenerType,
       SocketInv, DiskInv

\* Disks that have not started are left alone, and those that have stay up.
LEMMA FreshFrame ==
    ASSUME FreshInv,
           \A e \in Ppd :
              /\ senderPc'[e] = "off" <=> senderPc[e] = "off"
              /\ senderPc[e] # "off" => ppd'[e] = ppd[e]
              /\ senderPc[e] = "off" =>
                    /\ listenerPc'[e] = listenerPc[e]
                    /\ sentTo'[e] = sentTo[e] /\ toPpd'[e] = toPpd[e] /\ toPraid'[e] = toPraid[e]
                    /\ jobsQueue'[e] = jobsQueue[e] /\ volume'[e] = volume[e]
                    /\ restoring'[e] = restoring[e] /\ streaming'[e] = streaming[e]
    PROVE  FreshInv'
<1>1. ASSUME NEW e \in Ppd, senderPc'[e] = "off"
      PROVE  /\ listenerPc'[e] = "off"
             /\ sentTo'[e] = <<>> /\ toPpd'[e] = <<>> /\ toPraid'[e] = <<>>
             /\ jobsQueue'[e] = {} /\ volume'[e] = EmptyVolume
             /\ restoring'[e] = None /\ streaming'[e] = None
  <2>1. senderPc[e] = "off"
    BY <1>1
  <2> QED BY <2>1 DEF FreshInv
<1>2. ASSUME NEW e \in Ppd, senderPc'[e] # "off" PROVE ppd'[e] = "up"
  <2>1. senderPc[e] # "off"
    BY <1>2
  <2> QED BY <2>1 DEF FreshInv
<1>3. EmptyVolume' = EmptyVolume
  BY DEF EmptyVolume
<1> QED BY <1>1, <1>2, <1>3 DEF FreshInv

\* The entrypoint, the list and the flag are left alone.
LEMMA LaunchFrame ==
    ASSUME LaunchInv,
           UNCHANGED <<entry, ppd, ppdStorages, senderPc, sentTo, replicationStatusActive,
                       syncState>>
    PROVE  LaunchInv' /\ \A x, d : Copies(x, d)' <=> Copies(x, d)
BY DEF LaunchInv, Copies

\* Only one copy is on.
LEMMA OneCopy ==
    ASSUME NEW x, NEW d, NEW y, NEW e, Copies(x, d), Copies(y, e)
    PROVE  x = y /\ d = e
BY DEF Copies

\* A disk is asked for its volume as often as before.
SameGets(q, r) ==
    /\ HasKind(r, "syncGet") <=> HasKind(q, "syncGet")
    /\ OneGet(q) => OneGet(r)

\* The pieces of a socket, and the ends, are as they were.
SameCopy(q, r) ==
    /\ HasKind(r, "syncPut") <=> HasKind(q, "syncPut")
    /\ HasKind(r, "syncEnd") <=> HasKind(q, "syncEnd")
    /\ EndLast(q) => EndLast(r)
    /\ \A i, k, held : Stream(q, i, k, held) => Stream(r, i, k, held)

\* The source of a copy goes on as long as what it has sent is where it was.
LEMMA SourceMoves ==
    ASSUME NEW x \in Ppd, SourceAt(x),
           \A d \in Ppd : Copies(x, d)' <=> Copies(x, d),
           streaming'[x] = streaming[x], SameCopy(toPraid[x], toPraid'[x]),
           listenerPc'[x] = "syncEnd" <=> listenerPc[x] = "syncEnd",
           SameGets(toPpd[x], toPpd'[x]),
           \A s \in Sector : volume[x][s] \subseteq volume'[x][s],
           \A d \in Ppd : Copies(x, d) /\ listenerPc[x] # "syncEnd" =>
               toPpd'[d] = toPpd[d] /\ restoring'[d] = restoring[d] /\ snapshot'[d] = snapshot[d]
    PROVE  SourceAt(x)'
<1>1. (\A d \in Ppd : ~Copies(x, d)') => Idle(x)'
  BY DEF SourceAt, Idle, Rest, NoCopy, SameGets, SameCopy
<1>2. ASSUME NEW d \in Ppd, Copies(x, d)'
      PROVE  (Asked(x, d) \/ Streams(x, d) \/ Ended(x, d) \/ Told(x))'
  <2>1. Copies(x, d)
    BY <1>2
  <2>2. CASE Asked(x, d)
    <3>1. listenerPc[x] # "syncEnd"
      BY <2>2 DEF Asked
    <3> QED BY <2>1, <2>2, <3>1 DEF Asked, NoCopy, SameGets, SameCopy
  <2>3. CASE Streams(x, d)
    <3>1. /\ toPpd'[d] = toPpd[d] /\ restoring'[d] = restoring[d] /\ snapshot'[d] = snapshot[d]
      BY <2>1, <2>3 DEF Streams
    <3>2. Piped(x, d, streaming[x]) => Piped(x, d, streaming[x])'
      BY <3>1 DEF Piped, At, SameCopy
    <3>3. \A s \in Sector : snapshot'[d][s] \subseteq volume'[x][s]
      BY <2>3, <3>1 DEF Streams
    <3> QED BY <2>3, <3>2, <3>3 DEF Streams, SameGets, SameCopy
  <2>4. CASE Ended(x, d)
    <3>1. /\ toPpd'[d] = toPpd[d] /\ restoring'[d] = restoring[d] /\ snapshot'[d] = snapshot[d]
      BY <2>1, <2>4 DEF Ended
    <3>2. Piped(x, d, Sectors) => Piped(x, d, Sectors)'
      BY <3>1 DEF Piped, At, SameCopy
    <3> QED BY <2>4, <3>2 DEF Ended, Rest, SameGets, SameCopy
  <2>5. CASE Told(x)
    BY <2>5 DEF Told, Rest, NoCopy, SameGets, SameCopy
  <2> QED BY <2>1, <2>2, <2>3, <2>4, <2>5 DEF SourceAt
<1> QED BY <1>1, <1>2 DEF SourceAt

\* The same when nothing is sent on the way back.
LEMMA SourceFrame ==
    ASSUME NEW x \in Ppd, SourceAt(x),
           \A d \in Ppd : Copies(x, d)' <=> Copies(x, d),
           streaming'[x] = streaming[x], toPraid'[x] = toPraid[x],
           listenerPc'[x] = "syncEnd" <=> listenerPc[x] = "syncEnd",
           SameGets(toPpd[x], toPpd'[x]),
           \A s \in Sector : volume[x][s] \subseteq volume'[x][s],
           \A d \in Ppd : Copies(x, d) /\ listenerPc[x] # "syncEnd" =>
               toPpd'[d] = toPpd[d] /\ restoring'[d] = restoring[d] /\ snapshot'[d] = snapshot[d]
    PROVE  SourceAt(x)'
<1>1. SameCopy(toPraid[x], toPraid'[x])
  BY DEF SameCopy
<1> QED BY <1>1, SourceMoves

\* A disk goes on receiving as long as its socket and its file are as they were.
LEMMA DestinyFrame ==
    ASSUME NEW d \in Ppd, DestinyAt(d),
           toPpd'[d] = toPpd[d], restoring'[d] = restoring[d],
           Receiving(d) => volume'[d] = volume[d] /\ snapshot'[d] = snapshot[d],
           jobsQueue'[d] \subseteq jobsQueue[d],
           Feeding(d)' <=> Feeding(d)
    PROVE  DestinyAt(d)'
<1>1. Receiving(d)' <=> Receiving(d)
  BY DEF Receiving
<1>2. At(d)' = At(d)
  BY DEF At
<1>3. restoring[d] # None => Receiving(d)
  BY DEF Receiving
<1> QED BY <1>1, <1>2, <1>3 DEF DestinyAt, EmptyVolume

\* The end is sent on as often as before.
LEMMA FeedingFrame ==
    ASSUME \A x, d \in Ppd : Copies(x, d)' <=> Copies(x, d),
           \A x \in Ppd : listenerPc'[x] = "syncEnd" <=> listenerPc[x] = "syncEnd"
    PROVE  \A d \in Ppd : Feeding(d)' <=> Feeding(d)
BY DEF Feeding

\* A step of the threads of the PRAID that moves nothing of a copy.
LEMMA QuietCopy ==
    ASSUME SourceInv, DestinyInv,
           UNCHANGED <<toPpd, toPraid, jobsQueue, streaming, restoring, volume, snapshot>>,
           \A x, d \in Ppd : Copies(x, d)' <=> Copies(x, d),
           \A x \in Ppd : listenerPc'[x] = "syncEnd" <=> listenerPc[x] = "syncEnd"
    PROVE  SourceInv' /\ DestinyInv'
<1>1. \A d \in Ppd : Feeding(d)' <=> Feeding(d)
  BY FeedingFrame
<1>2. ASSUME NEW x \in Ppd PROVE SourceAt(x)'
  <2>1. SourceAt(x) /\ SameGets(toPpd[x], toPpd'[x])
    BY DEF SourceInv, SameGets
  <2>2. \A s \in Sector : volume[x][s] \subseteq volume'[x][s]
    OBVIOUS
  <2> QED BY <2>1, <2>2, SourceFrame
<1>3. ASSUME NEW d \in Ppd PROVE DestinyAt(d)'
  <2>1. DestinyAt(d)
    BY DEF DestinyInv
  <2> QED BY <1>1, <2>1, DestinyFrame
<1> QED BY <1>2, <1>3 DEF SourceInv, DestinyInv

\* A thread of a storage goes on; that of a destiny does no more than wait.
LEMMA SenderLaunch ==
    ASSUME LaunchInv, NEW d \in Ppd, NEW pc, pc # "off", senderPc[d] # "off",
           senderPc \in [Ppd -> {"off", "test", "wait", "lock", "record", "count", "done"}],
           senderPc' = [senderPc EXCEPT ![d] = pc],
           UNCHANGED <<entry, ppd, ppdStorages, replicationStatusActive, syncState>>,
           \A e \in Ppd \ {d} : sentTo'[e] = sentTo[e],
           \A x \in Ppd : Copies(x, d) => pc \in {"test", "wait", "done"} /\ sentTo'[d] = sentTo[d],
           ppdStorages \in Seq(Ppd)
    PROVE  LaunchInv' /\ \A x, e : Copies(x, e)' <=> Copies(x, e)
<1>1. \A x, e : Copies(x, e)' <=> Copies(x, e)
  BY DEF Copies
<1>2. \A e \in Ppd : senderPc[e] # "off" => senderPc'[e] # "off"
  OBVIOUS
<1>3. \A i \in DOMAIN ppdStorages : ppdStorages[i] \in Ppd
  OBVIOUS
<1>4. \A e : e # d => senderPc'[e] = senderPc[e]
  OBVIOUS
<1>5. entry.master # None /\ senderPc[entry.master] # "off" => senderPc'[entry.master] # "off"
  OBVIOUS
<1>6. ASSUME NEW x \in Ppd, NEW e \in Ppd, Copies(x, e)
      PROVE  /\ x # e
             /\ senderPc'[x] # "off"
             /\ senderPc'[e] \in {"test", "wait", "done"}
             /\ sentTo'[e] = <<>>
  <2>1. /\ x # e /\ senderPc[x] # "off" /\ senderPc[e] \in {"test", "wait", "done"}
        /\ sentTo[e] = <<>>
    BY <1>6 DEF LaunchInv
  <2>2. CASE e = d
    <3>1. pc \in {"test", "wait", "done"} /\ sentTo'[d] = sentTo[d] /\ senderPc'[d] = pc
      BY <1>6, <2>2
    <3> QED BY <1>2, <2>1, <2>2, <3>1
  <2>3. CASE e # d
    <3>1. senderPc'[e] = senderPc[e] /\ sentTo'[e] = sentTo[e]
      BY <1>4, <2>3
    <3> QED BY <1>2, <2>1, <3>1
  <2> QED BY <2>2, <2>3
<1> QED BY <1>1, <1>2, <1>3, <1>5, <1>6 DEF LaunchInv

-----------------------------------------------------------------------------
(* The steps of the entrypoint listener and of the senders.                *)

\* A disk is taken in only when no copy is on.
LEMMA EntryCopy ==
    ASSUME IInv, CopyInv, SelectMaster \/ AddPpdStorage \/ BeginReplication \/ FireActive
    PROVE  CopyInv'
<1> USE DEF praidVars, storageVars, listVars, queueVars, lockVars, syncVars,
            pfsVars, senderVars, listenerVars, heldVars, threadVars, outsideVars,
            socketVars, ppdVars, copyVars, historyVars
<1>1. /\ FreshInv /\ LaunchInv /\ SourceInv /\ DestinyInv
      /\ entry \in [pc : {"accept", "select", "add", "decide", "sleep", "fire"},
                    destiny : Ppd \cup {None}, master : Ppd \cup {None}]
      /\ ppdStorages \in Seq(Ppd)
  BY CopyTypes DEF CopyInv
<1>2. /\ UNCHANGED <<ppd, senderPc, listenerPc, sentTo, toPpd, toPraid, jobsQueue, volume,
                     restoring, streaming, snapshot, syncState>>
      /\ entry.pc \in {"select", "add", "decide", "sleep"} /\ entry'.destiny = entry.destiny
      /\ entry'.pc \in {"add", "decide", "sleep", "fire"}
      /\ ~replicationStatusActive
      /\ replicationStatusActive' => entry'.pc = "fire"
      /\ entry'.pc = "fire" => replicationStatusActive'
  BY <1>1 DEF SelectMaster, AddPpdStorage, BeginReplication, FireActive, LaunchInv
<1>3. \A x, d : ~Copies(x, d) /\ ~Copies(x, d)'
  BY <1>2 DEF Copies
<1>4. FreshInv'
  BY <1>1, <1>2, FreshFrame
<1>5. SourceInv' /\ DestinyInv'
  BY <1>1, <1>2, <1>3, QuietCopy
<1>6. \A i \in DOMAIN ppdStorages' :
         \/ senderPc[ppdStorages'[i]] # "off"
         \/ entry'.pc \in {"decide", "sleep", "fire"} /\ ppdStorages'[i] = entry.destiny
  <2>1. CASE AddPpdStorage
    <3>1. /\ ppdStorages' = Append(ppdStorages, entry.destiny) /\ entry'.pc = "decide"
          /\ entry.pc = "add"
      BY <1>1, <2>1 DEF AddPpdStorage
    <3>2. entry.destiny \in Ppd
      BY <3>1 DEF IInv, EntryInv
    <3>3. \A i \in DOMAIN Append(ppdStorages, entry.destiny) :
             \/ i \in DOMAIN ppdStorages /\ Append(ppdStorages, entry.destiny)[i] = ppdStorages[i]
             \/ Append(ppdStorages, entry.destiny)[i] = entry.destiny
      BY <1>1, <3>2, AppendProperties
    <3> QED BY <1>1, <3>1, <3>3 DEF LaunchInv
  <2>2. CASE ~AddPpdStorage
    <3>1. ppdStorages' = ppdStorages
          /\ (entry.pc \in {"decide", "sleep"} => entry'.pc \in {"decide", "sleep", "fire"})
      BY <1>1, <2>2 DEF SelectMaster, BeginReplication, FireActive
    <3> QED BY <1>1, <1>2, <3>1 DEF LaunchInv
  <2> QED BY <2>1, <2>2
<1>7. entry'.master # None => senderPc[entry'.master] # "off"
  <2>1. CASE SelectMaster
    <3>1. entry'.master = SelectStorage /\ entry.pc = "select"
      BY <2>1 DEF SelectMaster
    <3>2. SelectStorage # None => \E i \in DOMAIN ppdStorages : SelectStorage = ppdStorages[i]
      BY DEF SelectStorage, BestAt
    <3> QED BY <1>1, <3>1, <3>2 DEF LaunchInv
  <2>2. CASE ~SelectMaster
    <3>1. entry'.master = entry.master /\ entry.pc \in {"add", "decide", "sleep"}
      BY <1>1, <2>2 DEF AddPpdStorage, BeginReplication, FireActive
    <3> QED BY <1>1, <3>1 DEF LaunchInv
  <2> QED BY <2>1, <2>2
<1>8. ppd'[entry'.destiny] = "up"
  BY <1>1, <1>2 DEF LaunchInv
<1>9. LaunchInv'
  BY <1>2, <1>3, <1>6, <1>7, <1>8 DEF LaunchInv
<1> QED BY <1>4, <1>5, <1>9 DEF CopyInv

\* A disk connects.
LEMMA ConnectCopy ==
    ASSUME IInv, CopyInv, NEW n \in Ppd, AcceptPpd(n)
    PROVE  CopyInv'
<1> USE DEF praidVars, storageVars, listVars, queueVars, lockVars, syncVars,
            pfsVars, senderVars, listenerVars, heldVars, threadVars, outsideVars,
            socketVars, ppdVars, copyVars, historyVars
<1>1. /\ FreshInv /\ LaunchInv /\ SourceInv /\ DestinyInv
      /\ ppd \in [Ppd -> {"off", "up", "denied", "down"}]
      /\ entry \in [pc : {"accept", "select", "add", "decide", "sleep", "fire"},
                    destiny : Ppd \cup {None}, master : Ppd \cup {None}]
      /\ entry.pc = "accept"
      /\ ppdStorages \in Seq(Ppd)
  BY CopyTypes DEF CopyInv, AcceptPpd
<1>2. /\ UNCHANGED <<senderPc, listenerPc, sentTo, toPpd, toPraid, jobsQueue, volume,
                     restoring, streaming, snapshot, syncState, ppdStorages,
                     replicationStatusActive>>
      /\ senderPc[n] = "off"
      /\ \A e \in Ppd \ {n} : ppd'[e] = ppd[e]
  BY <1>1 DEF AcceptPpd, IInv, EntryInv
<1>3. \/ replicationStatusActive /\ entry' = entry
      \/ /\ ~replicationStatusActive /\ ppd'[n] = "up"
         /\ entry' = [pc |-> "select", destiny |-> n, master |-> None]
  BY <1>1 DEF AcceptPpd
<1>4. \A x, d : Copies(x, d)' <=> Copies(x, d)
  BY <1>2, <1>3 DEF Copies
<1>5. FreshInv'
  BY <1>1, <1>2, FreshFrame
<1>6. SourceInv' /\ DestinyInv'
  BY <1>1, <1>2, <1>4, QuietCopy
<1>7. \A i \in DOMAIN ppdStorages : senderPc[ppdStorages[i]] # "off"
  BY <1>1 DEF LaunchInv
<1>8. LaunchInv'
  <2>1. CASE replicationStatusActive
    BY <1>1, <1>2, <1>3, <1>4, <1>7, <2>1 DEF LaunchInv
  <2>2. CASE ~replicationStatusActive
    <3>1. \A x, d : ~Copies(x, d)
      BY <2>2 DEF Copies
    <3> QED BY <1>1, <1>2, <1>3, <1>4, <1>7, <2>2, <3>1 DEF LaunchInv
  <2> QED BY <2>1, <2>2
<1> QED BY <1>5, <1>6, <1>8 DEF CopyInv

\* The threads of a new disk start, and no copy is due.
LEMMA SkipCopy ==
    ASSUME IInv, CopyInv, SkipReplication
    PROVE  CopyInv'
<1> USE DEF praidVars, storageVars, listVars, queueVars, lockVars, syncVars,
            pfsVars, senderVars, listenerVars, heldVars, threadVars, outsideVars,
            socketVars, ppdVars, copyVars, historyVars
<1> DEFINE n == entry.destiny   end == [kind |-> "syncEnd"]
<1>1. /\ FreshInv /\ LaunchInv /\ SourceInv /\ DestinyInv
      /\ toPpd \in [Ppd -> Seq(KnownPpdMessage)]
      /\ senderPc \in [Ppd -> {"off", "test", "wait", "lock", "record", "count", "done"}]
      /\ listenerPc \in [Ppd -> {"off", "recv", "respond", "unlist", "syncEnd", "lock",
                                 "remove", "select", "assign", "done"}]
      /\ entry \in [pc : {"accept", "select", "add", "decide", "sleep", "fire"},
                    destiny : Ppd \cup {None}, master : Ppd \cup {None}]
      /\ ppdStorages \in Seq(Ppd)
  BY CopyTypes DEF CopyInv
<1>2. /\ entry.pc = "decide" /\ n \in Ppd /\ senderPc[n] = "off" /\ ppd[n] = "up"
      /\ ~replicationStatusActive
  BY <1>1 DEF SkipReplication, IInv, EntryInv, LaunchInv
<1>3. /\ UNCHANGED <<ppd, sentTo, toPraid, jobsQueue, volume, restoring, streaming,
                     snapshot, syncState, ppdStorages, replicationStatusActive>>
      /\ entry'.pc = "accept"
      /\ toPpd' = [toPpd EXCEPT ![n] = Append(@, end)]
      /\ listenerPc' = [listenerPc EXCEPT ![n] = "recv"]
      /\ senderPc' = [senderPc EXCEPT ![n] = "test"]
  BY <1>1, <1>2 DEF SkipReplication, SendToPpd, LaunchNewSlaveThread
<1>4. /\ toPpd[n] = <<>> /\ jobsQueue[n] = {} /\ restoring[n] = None
  BY <1>1, <1>2 DEF FreshInv
<1>5. \A x, d : ~Copies(x, d) /\ ~Copies(x, d)'
  BY <1>2, <1>3 DEF Copies
<1> HIDE DEF n, end
<1>6. /\ senderPc'[n] = "test" /\ listenerPc'[n] = "recv" /\ toPpd'[n] = Append(<<>>, end)
      /\ \A e \in Ppd \ {n} : /\ senderPc'[e] = senderPc[e] /\ listenerPc'[e] = listenerPc[e]
                              /\ toPpd'[e] = toPpd[e]
  BY <1>1, <1>2, <1>3, <1>4
<1>7. /\ <<>> \in Seq(KnownPpdMessage)
      /\ \A kind : ~HasKind(<<>>, kind)
      /\ Ordered(<<>>) /\ \A i \in DOMAIN <<>> : <<>>[i].kind = "syncPut"
  BY DEF HasKind, Ordered
<1>8. /\ \A kind : HasKind(Append(<<>>, end), kind) <=> kind = "syncEnd"
      /\ Ordered(Append(<<>>, end))
  <2>1. end.kind = "syncEnd"
    BY DEF end
  <2> QED BY <1>7, <2>1, AppendKinds
<1>9. FreshInv'
  <2>1. EmptyVolume' = EmptyVolume
    BY DEF EmptyVolume
  <2>2. ASSUME NEW e \in Ppd, senderPc'[e] = "off" PROVE e \in Ppd \ {n}
    BY <1>6, <2>2
  <2>3. ASSUME NEW e \in Ppd, senderPc'[e] # "off" PROVE ppd'[e] = "up"
    BY <1>1, <1>2, <1>3, <1>6, <2>3 DEF FreshInv, n
  <2> QED BY <1>1, <1>3, <1>6, <2>1, <2>2, <2>3 DEF FreshInv
<1>10. LaunchInv'
  <2>1. \A i \in DOMAIN ppdStorages : senderPc'[ppdStorages[i]] # "off"
    <3> TAKE i \in DOMAIN ppdStorages
    <3>1. ppdStorages[i] \in Ppd
      BY <1>1
    <3>2. ppdStorages[i] = n \/ senderPc[ppdStorages[i]] # "off"
      BY <1>1 DEF LaunchInv, n
    <3> QED BY <1>6, <3>1, <3>2
  <2> QED BY <1>2, <1>3, <1>5, <2>1 DEF LaunchInv
<1>11. SourceInv'
  <2> SUFFICES ASSUME NEW x \in Ppd PROVE SourceAt(x)'
    BY DEF SourceInv
  <2>1. Idle(x)
    BY <1>1, <1>5 DEF SourceInv, SourceAt
  <2>2. HasKind(toPpd'[x], "syncGet") => HasKind(toPpd[x], "syncGet")
    BY <1>6, <1>8
  <2>3. listenerPc'[x] # "syncEnd"
    BY <1>6, <2>1 DEF Idle
  <2>4. Idle(x)'
    BY <1>3, <2>1, <2>2, <2>3 DEF Idle, Rest, NoCopy
  <2> QED BY <1>5, <2>4 DEF SourceAt
<1>12. DestinyInv'
  <2> SUFFICES ASSUME NEW d \in Ppd PROVE DestinyAt(d)'
    BY DEF DestinyInv
  <2>1. DestinyAt(d)
    BY <1>1 DEF DestinyInv
  <2>2. ~Feeding(d) /\ ~Feeding(d)'
    BY <1>5 DEF Feeding
  <2>3. CASE d = n
    <3>1. ~Receiving(d)'
      BY <1>3, <1>4, <1>6, <1>8, <2>2, <2>3 DEF Receiving
    <3>2. Ordered(toPpd'[d]) /\ restoring'[d] = None
      BY <1>3, <1>4, <1>6, <1>8, <2>3
    <3> QED BY <3>1, <3>2 DEF DestinyAt
  <2>4. CASE d # n
    BY <1>3, <1>6, <2>1, <2>2, <2>4, DestinyFrame
  <2> QED BY <2>3, <2>4
<1> QED BY <1>9, <1>10, <1>11, <1>12 DEF CopyInv

\* A copy starts: its source is asked, and the threads of its destiny start.
LEMMA FireCopy ==
    ASSUME IInv, CopyInv, FireSynchronization
    PROVE  CopyInv'
<1> USE DEF praidVars, storageVars, listVars, queueVars, lockVars, syncVars,
            pfsVars, senderVars, listenerVars, heldVars, threadVars, outsideVars,
            socketVars, ppdVars, copyVars, historyVars
<1> DEFINE n == entry.destiny   m == entry.master   ask == [kind |-> "syncGet"]
<1>1. /\ FreshInv /\ LaunchInv /\ SourceInv /\ DestinyInv
      /\ toPpd \in [Ppd -> Seq(KnownPpdMessage)]
      /\ senderPc \in [Ppd -> {"off", "test", "wait", "lock", "record", "count", "done"}]
      /\ listenerPc \in [Ppd -> {"off", "recv", "respond", "unlist", "syncEnd", "lock",
                                 "remove", "select", "assign", "done"}]
      /\ entry \in [pc : {"accept", "select", "add", "decide", "sleep", "fire"},
                    destiny : Ppd \cup {None}, master : Ppd \cup {None}]
      /\ ppdStorages \in Seq(Ppd) /\ None \notin Ppd
  BY CopyTypes DEF CopyInv
<1>2. /\ entry.pc = "fire" /\ n \in Ppd /\ m \in Ppd /\ senderPc[n] = "off" /\ ppd[n] = "up"
      /\ replicationStatusActive /\ senderPc[m] # "off" /\ ppd[m] = "up" /\ m # n
  BY <1>1 DEF FireSynchronization, IInv, EntryInv, LaunchInv, FreshInv
<1>3. /\ UNCHANGED <<ppd, sentTo, toPraid, jobsQueue, volume, restoring, streaming,
                     snapshot, ppdStorages, replicationStatusActive>>
      /\ entry'.pc = "accept"
      /\ syncState' = [source |-> m, destiny |-> n]
      /\ toPpd' = [toPpd EXCEPT ![m] = Append(@, ask)]
      /\ listenerPc' = [listenerPc EXCEPT ![n] = "recv"]
      /\ senderPc' = [senderPc EXCEPT ![n] = "test"]
  BY <1>1, <1>2 DEF FireSynchronization, SendToPpd, LaunchNewSlaveThread
<1>4. /\ toPpd[n] = <<>> /\ jobsQueue[n] = {} /\ restoring[n] = None /\ sentTo[n] = <<>>
      /\ volume[n] = EmptyVolume
  BY <1>1, <1>2 DEF FreshInv
<1>5. \A x, d : ~Copies(x, d) /\ (Copies(x, d)' <=> x = m /\ d = n)
  BY <1>2, <1>3 DEF Copies
<1> HIDE DEF n, ask, m
<1>6. /\ senderPc'[n] = "test" /\ listenerPc'[n] = "recv"
      /\ toPpd'[m] = Append(toPpd[m], ask)
      /\ \A e \in Ppd \ {n} : senderPc'[e] = senderPc[e] /\ listenerPc'[e] = listenerPc[e]
      /\ \A e \in Ppd \ {m} : toPpd'[e] = toPpd[e]
  BY <1>1, <1>2, <1>3
<1>7. /\ ask.kind = "syncGet"
      /\ toPpd[m] \in Seq(KnownPpdMessage)
  BY <1>1, <1>2 DEF ask
<1>8. \A x \in Ppd : Idle(x)
  BY <1>1, <1>5 DEF SourceInv, SourceAt
<1>9. FreshInv'
  <2>1. EmptyVolume' = EmptyVolume
    BY DEF EmptyVolume
  <2>2. ASSUME NEW e \in Ppd, senderPc'[e] = "off" PROVE e \in Ppd \ {n} /\ e \in Ppd \ {m}
    BY <1>2, <1>6, <2>2
  <2>3. ASSUME NEW e \in Ppd, senderPc'[e] # "off" PROVE ppd'[e] = "up"
    BY <1>1, <1>2, <1>3, <1>6, <2>3 DEF FreshInv
  <2> QED BY <1>1, <1>3, <1>6, <2>1, <2>2, <2>3 DEF FreshInv
<1>10. LaunchInv'
  <2>1. \A i \in DOMAIN ppdStorages : senderPc'[ppdStorages[i]] # "off"
    <3> TAKE i \in DOMAIN ppdStorages
    <3>1. ppdStorages[i] \in Ppd
      BY <1>1
    <3>2. ppdStorages[i] = n \/ senderPc[ppdStorages[i]] # "off"
      BY <1>1 DEF LaunchInv, n
    <3> QED BY <1>6, <3>1, <3>2
  <2>2. \E x, d \in Ppd : Copies(x, d)'
    BY <1>2, <1>5
  <2>3. \A x, d \in Ppd : Copies(x, d)' =>
           /\ x # d
           /\ senderPc'[x] # "off"
           /\ senderPc'[d] \in {"test", "wait", "done"}
           /\ sentTo'[d] = <<>>
    BY <1>2, <1>3, <1>4, <1>5, <1>6
  <2> QED BY <1>2, <1>3, <2>1, <2>2, <2>3 DEF LaunchInv
<1>11. SourceInv'
  <2> SUFFICES ASSUME NEW x \in Ppd PROVE SourceAt(x)'
    BY DEF SourceInv
  <2>1. Idle(x)
    BY <1>8
  <2>2. listenerPc'[x] # "syncEnd"
    BY <1>6, <2>1 DEF Idle
  <2>3. CASE x = m
    <3>1. OneGet(toPpd'[x]) /\ HasKind(toPpd'[x], "syncGet")
      <4>1. ~HasKind(toPpd[m], "syncGet")
        BY <2>1, <2>3 DEF Idle, Rest
      <4>2. OneGet(Append(toPpd[m], ask)) /\ HasKind(Append(toPpd[m], ask), "syncGet")
        BY <1>7, <4>1, AppendKinds
      <4> QED BY <1>6, <2>3, <4>2
    <3>2. toPpd'[n] = <<>> /\ restoring'[n] = None
      BY <1>2, <1>3, <1>4, <1>6
    <3>3. ASSUME NEW d \in Ppd, d = n PROVE Asked(x, d)'
      BY <1>3, <2>1, <2>2, <3>1, <3>2, <3>3 DEF Asked, Idle, Rest, NoCopy
    <3>4. \A d \in Ppd : Copies(x, d)' <=> d = n
      BY <1>5, <2>3
    <3>5. \E d \in Ppd : Copies(x, d)'
      BY <1>2, <3>4
    <3> QED BY <3>3, <3>4, <3>5 DEF SourceAt
  <2>4. CASE x # m
    <3>1. Idle(x)'
      BY <1>3, <1>6, <2>1, <2>2, <2>4 DEF Idle, Rest, NoCopy
    <3> QED BY <1>5, <2>4, <3>1 DEF SourceAt
  <2> QED BY <2>3, <2>4
<1>12. DestinyInv'
  <2> SUFFICES ASSUME NEW d \in Ppd PROVE DestinyAt(d)'
    BY DEF DestinyInv
  <2>1. DestinyAt(d)
    BY <1>1 DEF DestinyInv
  <2>2. ~Feeding(d)
    BY <1>5 DEF Feeding
  <2>3. Feeding(d)' <=> d = n
    BY <1>2, <1>5, <1>6, <1>8 DEF Feeding, Idle
  <2>4. CASE d = n
    <3>1. toPpd'[d] = <<>> /\ restoring'[d] = None
      BY <1>2, <1>3, <1>4, <1>6, <2>4
    <3>2. jobsQueue'[d] = {} /\ volume'[d] = EmptyVolume'
      BY <1>3, <1>4, <2>4 DEF EmptyVolume
    <3>3. Ordered(<<>>) /\ EndFirst(<<>>) /\ ~HasKind(<<>>, "syncEnd")
      BY DEF Ordered, EndFirst, HasKind
    <3> QED BY <2>3, <2>4, <3>1, <3>2, <3>3 DEF DestinyAt
  <2>5. CASE d # n /\ d # m
    BY <1>3, <1>6, <2>1, <2>2, <2>3, <2>5, DestinyFrame
  <2>6. CASE d = m
    <3> DEFINE q == toPpd[d]   r == Append(q, ask)
    <3>1. q \in Seq(KnownPpdMessage) /\ toPpd'[d] = r
      BY <1>6, <1>7, <2>6
    <3>2. ~Feeding(d)'
      BY <1>2, <2>3, <2>6
    <3>3. /\ \A kind : HasKind(r, kind) <=> HasKind(q, kind) \/ kind = "syncGet"
          /\ Ordered(q) => Ordered(r)
          /\ EndFirst(q) /\ HasKind(q, "syncEnd") => EndFirst(r)
      BY <1>7, <3>1, AppendKinds
    <3> HIDE DEF r, q
    <3>4. Ordered(toPpd'[d])
      BY <2>1, <3>1, <3>3 DEF DestinyAt, q
    <3>5. Receiving(d)' <=> Receiving(d)
      BY <1>3, <2>2, <3>1, <3>2, <3>3 DEF Receiving, q
    <3>6. At(d)' = At(d)
      BY <1>3 DEF At
    <3>7. Receiving(d) => Stream(q, At(d), Sectors, snapshot[d]) /\ EndFirst(q) /\ HasKind(q, "syncEnd")
      BY <2>1, <2>2 DEF DestinyAt, q
    <3>8. Receiving(d) => Stream(r, At(d), Sectors, snapshot[d])
      BY <1>7, <3>1, <3>7, StreamAppend DEF r
    <3>9. EmptyVolume' = EmptyVolume
      BY DEF EmptyVolume
    <3> QED BY <1>3, <2>1, <3>1, <3>2, <3>3, <3>4, <3>5, <3>6, <3>7, <3>8, <3>9 DEF DestinyAt
  <2> QED BY <2>4, <2>5, <2>6
<1> QED BY <1>9, <1>10, <1>11, <1>12 DEF CopyInv

\* The threads of the connections have no part in a copy.
LEMMA PfsCopy ==
    ASSUME CopyInv, NEW c \in Pfs, AcceptPfs(c) \/ PfsReceive(c) \/ PfsThreadStep(c)
    PROVE  CopyInv'
<1>1. /\ UNCHANGED <<entry, ppd, ppdStorages, senderPc, listenerPc, sentTo,
                     replicationStatusActive, syncState>>
      /\ UNCHANGED <<toPpd, toPraid, jobsQueue, streaming, restoring, volume, snapshot>>
  BY DEF AcceptPfs, PfsReceive, PfsThreadStep, SelectForGet, QueueGet, PutNext, PutQueue,
         PutDone, praidVars, storageVars, listVars, syncVars, senderVars, listenerVars,
         outsideVars, socketVars, ppdVars, copyVars, historyVars
<1>2. FreshInv /\ LaunchInv /\ SourceInv /\ DestinyInv
  BY DEF CopyInv
<1>3. FreshInv'
  BY <1>1, <1>2, FreshFrame
<1>4. LaunchInv' /\ \A x, d : Copies(x, d)' <=> Copies(x, d)
  BY <1>1, <1>2, LaunchFrame
<1>5. SourceInv' /\ DestinyInv'
  BY <1>1, <1>2, <1>4, QuietCopy
<1> QED BY <1>3, <1>4, <1>5 DEF CopyInv

\* Neither do the steps of a sender that send nothing.
LEMMA SenderCopy ==
    ASSUME IInv, CopyInv, NEW d \in Ppd,
           SenderTest(d) \/ SenderWait(d) \/ SenderQuit(d) \/ SenderRecord(d) \/ SenderCount(d)
    PROVE  CopyInv'
<1> USE DEF praidVars, storageVars, listVars, queueVars, lockVars, syncVars,
            pfsVars, senderVars, listenerVars, heldVars, threadVars, outsideVars,
            socketVars, ppdVars, copyVars, historyVars
<1>1. /\ FreshInv /\ LaunchInv /\ SourceInv /\ DestinyInv
      /\ senderPc \in [Ppd -> {"off", "test", "wait", "lock", "record", "count", "done"}]
      /\ ppdStorages \in Seq(Ppd)
  BY CopyTypes DEF CopyInv
<1>2. /\ UNCHANGED <<entry, ppd, ppdStorages, listenerPc, sentTo,
                     replicationStatusActive, syncState>>
      /\ UNCHANGED <<toPpd, toPraid, jobsQueue, streaming, restoring, volume, snapshot>>
      /\ senderPc[d] # "off"
  BY DEF SenderTest, SenderWait, SenderQuit, SenderRecord, SenderCount
<1>3. \E pc \in {"test", "wait", "lock", "count", "done"} :
         /\ senderPc' = [senderPc EXCEPT ![d] = pc]
         /\ pc \in {"lock", "count"} =>
               senderPc[d] \notin {"test", "wait", "done"} \/ ~replicationStatusActive
  BY DEF SenderTest, SenderWait, SenderQuit, SenderRecord, SenderCount, SenderCounted
<1>4. PICK pc \in {"test", "wait", "lock", "count", "done"} :
         /\ senderPc' = [senderPc EXCEPT ![d] = pc]
         /\ pc \in {"lock", "count"} =>
               senderPc[d] \notin {"test", "wait", "done"} \/ ~replicationStatusActive
  BY <1>3
<1>5. FreshInv'
  <2>1. \A e \in Ppd : senderPc'[e] = "off" <=> senderPc[e] = "off"
    BY <1>1, <1>2, <1>4
  <2> QED BY <1>1, <1>2, <2>1, FreshFrame
<1>6. LaunchInv' /\ \A x, e : Copies(x, e)' <=> Copies(x, e)
  <2>1. \A x \in Ppd : Copies(x, d) => pc \in {"test", "wait", "done"}
    BY <1>1, <1>4 DEF LaunchInv, Copies
  <2>2. pc # "off"
    BY <1>4
  <2> QED BY <1>1, <1>2, <1>4, <2>1, <2>2, SenderLaunch
<1>7. SourceInv' /\ DestinyInv'
  BY <1>1, <1>2, <1>6, QuietCopy
<1> QED BY <1>5, <1>6, <1>7 DEF CopyInv

\* A job is sent, to a disk that is not the destiny of the copy.
LEMMA SendCopy ==
    ASSUME IInv, CopyInv, NEW n \in Ppd, SenderSend(n)
    PROVE  CopyInv'
<1> USE DEF praidVars, storageVars, listVars, queueVars, lockVars, syncVars,
            pfsVars, senderVars, listenerVars, heldVars, threadVars, outsideVars,
            socketVars, ppdVars, copyVars, historyVars
<1> DEFINE m == [kind |-> "job", job |-> Head(pendingJobs[n])]
<1>1. /\ FreshInv /\ LaunchInv /\ SourceInv /\ DestinyInv
      /\ toPpd \in [Ppd -> Seq(KnownPpdMessage)]
      /\ senderPc \in [Ppd -> {"off", "test", "wait", "lock", "record", "count", "done"}]
      /\ sentTo \in [Ppd -> Seq(Known)]
      /\ ppdStorages \in Seq(Ppd)
  BY CopyTypes DEF CopyInv
<1>2. /\ senderPc[n] = "lock" /\ ppd[n] = "up"
      /\ \A x \in Ppd : ~Copies(x, n)
  BY <1>1 DEF SenderSend, FreshInv, LaunchInv
<1>3. /\ UNCHANGED <<entry, ppd, ppdStorages, listenerPc, replicationStatusActive, syncState>>
      /\ UNCHANGED <<toPraid, jobsQueue, streaming, restoring, volume, snapshot>>
      /\ toPpd' = [toPpd EXCEPT ![n] = Append(@, m)]
      /\ senderPc' = [senderPc EXCEPT ![n] = "record"]
      /\ \A e \in Ppd \ {n} : sentTo'[e] = sentTo[e]
  BY <1>1, <1>2 DEF SenderSend, SendToPpd
<1>4. m.kind = "job"
  OBVIOUS
<1> HIDE DEF m
<1>5. /\ toPpd'[n] = Append(toPpd[n], m) /\ toPpd[n] \in Seq(KnownPpdMessage)
      /\ \A e \in Ppd \ {n} : toPpd'[e] = toPpd[e]
  BY <1>1, <1>3
<1>6. FreshInv'
  <2>1. \A e \in Ppd : /\ senderPc'[e] = "off" <=> senderPc[e] = "off"
                       /\ senderPc[e] = "off" => e \in Ppd \ {n}
    BY <1>1, <1>2, <1>3
  <2> QED BY <1>1, <1>3, <1>5, <2>1, FreshFrame
<1>7. LaunchInv' /\ \A x, e : Copies(x, e)' <=> Copies(x, e)
  BY <1>1, <1>2, <1>3, SenderLaunch
<1> DEFINE q == toPpd[n]   r == Append(q, m)
<1>8. /\ \A kind : HasKind(r, kind) <=> HasKind(q, kind) \/ kind = "job"
      /\ Ordered(q) => Ordered(r)
      /\ EndFirst(q) /\ HasKind(q, "syncEnd") => EndFirst(r)
      /\ OneGet(q) => OneGet(r)
  BY <1>4, <1>5, AppendKinds
<1>9. \A i, k, held : Stream(q, i, k, held) => Stream(r, i, k, held)
  BY <1>4, <1>5, StreamAppend
<1> HIDE DEF q, r
<1>10. \A d \in Ppd : Feeding(d)' <=> Feeding(d)
  BY <1>3, <1>7, FeedingFrame
<1>11. SourceInv'
  <2> SUFFICES ASSUME NEW x \in Ppd PROVE SourceAt(x)'
    BY DEF SourceInv
  <2>1. SourceAt(x)
    BY <1>1 DEF SourceInv
  <2>2. SameGets(toPpd[x], toPpd'[x])
    BY <1>5, <1>8 DEF SameGets, q, r
  <2>3. \A d \in Ppd : Copies(x, d) => toPpd'[d] = toPpd[d]
    BY <1>2, <1>5
  <2> QED BY <1>3, <1>7, <2>1, <2>2, <2>3, SourceFrame
<1>12. DestinyInv'
  <2> SUFFICES ASSUME NEW d \in Ppd PROVE DestinyAt(d)'
    BY DEF DestinyInv
  <2>1. DestinyAt(d)
    BY <1>1 DEF DestinyInv
  <2>2. CASE d # n
    BY <1>3, <1>5, <1>10, <2>1, <2>2, DestinyFrame
  <2>3. CASE d = n
    <3>1. toPpd'[d] = r /\ toPpd[d] = q
      BY <1>5, <2>3 DEF q, r
    <3>2. ~Feeding(d) /\ ~Feeding(d)'
      BY <1>2, <1>10, <2>3 DEF Feeding
    <3>3. Receiving(d)' <=> Receiving(d)
      BY <1>3, <1>8, <3>1, <3>2 DEF Receiving
    <3>4. At(d)' = At(d)
      BY <1>3 DEF At
    <3>5. EmptyVolume' = EmptyVolume
      BY DEF EmptyVolume
    <3> QED BY <1>3, <1>8, <1>9, <2>1, <3>1, <3>2, <3>3, <3>4, <3>5 DEF DestinyAt
  <2> QED BY <2>2, <2>3
<1> QED BY <1>6, <1>7, <1>11, <1>12 DEF CopyInv

-----------------------------------------------------------------------------
(* The steps of the listeners.                                             *)

\* A disk that has started, as far as its sockets and its listener tell.
LEMMA Started ==
    ASSUME FreshInv, NEW d \in Ppd,
           listenerPc[d] # "off" \/ toPpd[d] # <<>> \/ jobsQueue[d] # {} \/ streaming[d] # None
    PROVE  senderPc[d] # "off" /\ ppd[d] = "up"
BY DEF FreshInv

\* The listener hands on a response, or strikes a job off.
LEMMA RespondCopy ==
    ASSUME IInv, CopyInv, NEW d \in Ppd, ListenerRespond(d) \/ ListenerUnlist(d)
    PROVE  CopyInv'
<1> USE DEF praidVars, storageVars, listVars, queueVars, lockVars, syncVars,
            pfsVars, senderVars, listenerVars, heldVars, threadVars, outsideVars,
            socketVars, ppdVars, copyVars, historyVars
<1>1. /\ FreshInv /\ LaunchInv /\ SourceInv /\ DestinyInv
      /\ listenerPc \in [Ppd -> {"off", "recv", "respond", "unlist", "syncEnd", "lock",
                                 "remove", "select", "assign", "done"}]
  BY CopyTypes DEF CopyInv
<1>2. /\ UNCHANGED <<entry, ppd, ppdStorages, senderPc, sentTo, replicationStatusActive,
                     syncState>>
      /\ UNCHANGED <<toPpd, toPraid, jobsQueue, streaming, restoring, volume, snapshot>>
      /\ listenerPc[d] \in {"respond", "unlist"}
      /\ \E pc \in {"unlist", "recv"} : listenerPc' = [listenerPc EXCEPT ![d] = pc]
  BY DEF ListenerRespond, ListenerUnlist
<1>3. \A e \in Ppd : /\ listenerPc'[e] = "syncEnd" <=> listenerPc[e] = "syncEnd"
                     /\ listenerPc[e] = "off" => listenerPc'[e] = "off"
  BY <1>1, <1>2
<1>4. FreshInv'
  BY <1>1, <1>2, <1>3, FreshFrame DEF FreshInv
<1>5. LaunchInv' /\ \A x, e : Copies(x, e)' <=> Copies(x, e)
  BY <1>1, <1>2, LaunchFrame
<1>6. SourceInv' /\ DestinyInv'
  BY <1>1, <1>2, <1>3, <1>5, QuietCopy
<1> QED BY <1>4, <1>5, <1>6 DEF CopyInv

\* The listener takes an answer, which may be among the pieces of a copy.
LEMMA AnswerCopy ==
    ASSUME IInv, CopyInv, NEW n \in Ppd, ListenerAnswer(n) \/ CountRace(n)
    PROVE  CopyInv'
<1> USE DEF praidVars, storageVars, listVars, queueVars, lockVars, syncVars,
            pfsVars, senderVars, listenerVars, heldVars, threadVars, outsideVars,
            socketVars, ppdVars, copyVars, historyVars
<1>1. /\ FreshInv /\ LaunchInv /\ SourceInv /\ DestinyInv
      /\ toPraid \in [Ppd -> Seq(KnownPraidMessage)]
      /\ senderPc \in [Ppd -> {"off", "test", "wait", "lock", "record", "count", "done"}]
      /\ listenerPc \in [Ppd -> {"off", "recv", "respond", "unlist", "syncEnd", "lock",
                                 "remove", "select", "assign", "done"}]
      /\ ppdStorages \in Seq(Ppd)
  BY CopyTypes DEF CopyInv
<1>2. /\ UNCHANGED <<entry, ppd, ppdStorages, sentTo, replicationStatusActive, syncState>>
      /\ UNCHANGED <<toPpd, jobsQueue, streaming, restoring, volume, snapshot>>
      /\ listenerPc[n] = "recv" /\ listenerPc' = [listenerPc EXCEPT ![n] = "respond"]
      /\ toPraid[n] # <<>> /\ Head(toPraid[n]).kind = "answer"
      /\ toPraid' = [toPraid EXCEPT ![n] = Tail(@)]
      /\ \/ senderPc' = senderPc
         \/ senderPc[n] = "count" /\ senderPc' = [senderPc EXCEPT ![n] = "test"]
  BY DEF ListenerAnswer, CountRace, TakeAnswer, Receives, SenderCounted
<1>3. /\ \A e \in Ppd : listenerPc'[e] = "syncEnd" <=> listenerPc[e] = "syncEnd"
      /\ \A e \in Ppd \ {n} : listenerPc'[e] = listenerPc[e] /\ toPraid'[e] = toPraid[e]
      /\ toPraid'[n] = Tail(toPraid[n]) /\ toPraid[n] \in Seq(KnownPraidMessage)
  BY <1>1, <1>2
<1>4. senderPc[n] # "off"
  BY <1>1, <1>2, Started
<1>5. FreshInv'
  <2>1. \A e \in Ppd : /\ senderPc'[e] = "off" <=> senderPc[e] = "off"
                       /\ senderPc[e] = "off" => e \in Ppd \ {n}
    BY <1>1, <1>2, <1>4
  <2> QED BY <1>1, <1>2, <1>3, <2>1, FreshFrame
<1>6. LaunchInv' /\ \A x, e : Copies(x, e)' <=> Copies(x, e)
  <2>1. CASE senderPc' = senderPc
    BY <1>1, <1>2, <2>1, LaunchFrame
  <2>2. CASE senderPc' = [senderPc EXCEPT ![n] = "test"]
    BY <1>1, <1>2, <1>4, <2>2, SenderLaunch
  <2> QED BY <1>2, <2>1, <2>2
<1>7. SourceInv'
  <2> SUFFICES ASSUME NEW x \in Ppd PROVE SourceAt(x)'
    BY DEF SourceInv
  <2>1. SourceAt(x) /\ SameGets(toPpd[x], toPpd'[x])
    BY <1>1, <1>2 DEF SourceInv, SameGets
  <2>2. SameCopy(toPraid[x], toPraid'[x])
    <3>1. CASE x # n
      BY <1>3, <3>1 DEF SameCopy
    <3>2. CASE x = n
      <4> DEFINE q == toPraid[n]   r == Tail(q)
      <4>1. /\ \A kind : HasKind(q, kind) <=> kind = "answer" \/ HasKind(r, kind)
            /\ EndLast(q) => EndLast(r)
        BY <1>2, <1>3, TailKinds
      <4>2. \A i, k, held : Stream(q, i, k, held) => Stream(r, i, k, held)
        BY <1>2, <1>3, StreamTail
      <4>3. SameCopy(q, r)
        BY <4>1, <4>2 DEF SameCopy
      <4> QED BY <1>3, <3>2, <4>3
    <3> QED BY <3>1, <3>2
  <2> QED BY <1>2, <1>3, <1>6, <2>1, <2>2, SourceMoves
<1>8. DestinyInv'
  <2>1. \A d \in Ppd : Feeding(d)' <=> Feeding(d)
    BY <1>3, <1>6, FeedingFrame
  <2>2. ASSUME NEW d \in Ppd PROVE DestinyAt(d)'
    <3>1. DestinyAt(d)
      BY <1>1 DEF DestinyInv
    <3> QED BY <1>2, <2>1, <3>1, DestinyFrame
  <2> QED BY <2>2 DEF DestinyInv
<1> QED BY <1>5, <1>6, <1>7, <1>8 DEF CopyInv

\* Until the end is there, the socket of a receiving disk has pieces only.
LEMMA OnlyPieces ==
    ASSUME NEW q \in Seq(KnownPpdMessage), EndFirst(q), ~HasKind(q, "syncEnd")
    PROVE  \A i \in DOMAIN q : q[i].kind = "syncPut"
<1> TAKE i \in DOMAIN q
<1>1. DOMAIN q = 1 .. Len(q) /\ Len(q) \in Nat
  BY LenProperties
<1>2. q[i].kind \in {"job", "syncGet", "syncEnd", "syncPut"}
  BY <1>1 DEF KnownPpdMessage
<1>3. q[i].kind # "syncEnd"
  BY DEF HasKind
<1>4. ~\E h \in 1 .. i - 1 : q[h].kind = "syncEnd"
  <2>1. \A h \in 1 .. i - 1 : h \in DOMAIN q
    BY <1>1
  <2> QED BY <2>1 DEF HasKind
<1> QED BY <1>2, <1>3, <1>4 DEF EndFirst

\* A disk that sends pieces of a copy, or its end, is the source of one.
LEMMA TheSource ==
    ASSUME IInv, CopyInv, NEW n \in Ppd, Receives(n, "syncPut") \/ Receives(n, "syncEnd")
    PROVE  \E d \in Ppd : /\ Copies(n, d) /\ Feeding(d) /\ n # d
                          /\ syncState.destiny = d /\ ppd[d] = "up" /\ senderPc[d] # "off"
                          /\ Streams(n, d) \/ Ended(n, d)
                          /\ Head(toPraid[n]).kind = "syncEnd" => Ended(n, d)
<1>1. /\ FreshInv /\ LaunchInv /\ SourceAt(n)
      /\ toPraid[n] \in Seq(KnownPraidMessage) /\ toPraid[n] # <<>>
      /\ listenerPc[n] = "recv" /\ Head(toPraid[n]).kind \in {"syncPut", "syncEnd"}
  BY CopyTypes DEF CopyInv, SourceInv, Receives
<1>2. HasKind(toPraid[n], Head(toPraid[n]).kind)
  BY <1>1, TailKinds
<1>3. ~NoCopy(toPraid[n])
  BY <1>1, <1>2 DEF NoCopy
<1>4. PICK d \in Ppd : Copies(n, d)
  BY <1>1, <1>3 DEF SourceAt, Idle
<1>5. Streams(n, d) \/ Ended(n, d)
  BY <1>1, <1>3, <1>4 DEF SourceAt, Asked, Told
<1>6. Head(toPraid[n]).kind = "syncEnd" => Ended(n, d)
  BY <1>2, <1>5 DEF Streams
<1>7. Feeding(d) /\ syncState.destiny = d
  BY <1>1, <1>4 DEF Feeding, Copies
<1>8. n # d /\ senderPc[d] # "off" /\ ppd[d] = "up"
  BY <1>1, <1>4 DEF LaunchInv, FreshInv
<1> QED BY <1>4, <1>5, <1>6, <1>7, <1>8

\* A piece goes from the socket of the source to that of the destiny.
LEMMA PieceCopy ==
    ASSUME IInv, CopyInv, NEW n \in Ppd, ListenerSyncPut(n)
    PROVE  CopyInv'
<1> USE DEF praidVars, storageVars, listVars, queueVars, lockVars, syncVars,
            pfsVars, senderVars, listenerVars, heldVars, threadVars, outsideVars,
            socketVars, ppdVars, copyVars, historyVars
<1>1. /\ FreshInv /\ LaunchInv /\ SourceInv /\ DestinyInv
      /\ toPpd \in [Ppd -> Seq(KnownPpdMessage)]
      /\ toPraid \in [Ppd -> Seq(KnownPraidMessage)]
  BY CopyTypes DEF CopyInv
<1>2. PICK d \in Ppd : /\ Copies(n, d) /\ Feeding(d) /\ n # d
                       /\ syncState.destiny = d /\ ppd[d] = "up" /\ senderPc[d] # "off"
                       /\ Streams(n, d) \/ Ended(n, d)
  BY TheSource DEF ListenerSyncPut
<1> DEFINE m == Head(toPraid[n])   q == toPpd[d]   r == Append(q, m)
           u == toPraid[n]   v == Tail(u)
<1>3. /\ UNCHANGED <<entry, ppd, ppdStorages, sentTo, senderPc, listenerPc,
                     replicationStatusActive, syncState>>
      /\ UNCHANGED <<jobsQueue, streaming, restoring, volume, snapshot>>
      /\ listenerPc[n] = "recv" /\ u # <<>> /\ m.kind = "syncPut"
      /\ toPraid' = [toPraid EXCEPT ![n] = Tail(@)]
      /\ toPpd' = [toPpd EXCEPT ![d] = Append(@, m)]
  BY <1>2 DEF ListenerSyncPut, Receives, SendToPpd
<1>4. /\ toPraid'[n] = v /\ u \in Seq(KnownPraidMessage) /\ \A e \in Ppd \ {n} : toPraid'[e] = toPraid[e]
      /\ toPpd'[d] = r /\ q \in Seq(KnownPpdMessage) /\ \A e \in Ppd \ {d} : toPpd'[e] = toPpd[e]
  BY <1>1, <1>3
<1> HIDE DEF m
<1>5. senderPc[n] # "off"
  BY <1>1, <1>3, Started
<1>6. FreshInv'
  BY <1>1, <1>2, <1>3, <1>4, <1>5, FreshFrame
<1>7. LaunchInv' /\ \A x, e : Copies(x, e)' <=> Copies(x, e)
  BY <1>1, <1>3, LaunchFrame
<1>8. \A e \in Ppd : Feeding(e)' <=> Feeding(e)
  BY <1>3, <1>7, FeedingFrame
<1>9. /\ \A kind : HasKind(u, kind) <=> kind = "syncPut" \/ HasKind(v, kind)
      /\ EndLast(u) => EndLast(v)
  BY <1>3, <1>4, TailKinds DEF m
<1>10. /\ \A kind : HasKind(r, kind) <=> HasKind(q, kind) \/ kind = "syncPut"
       /\ Ordered(q) /\ (\A i \in DOMAIN q : q[i].kind = "syncPut") => Ordered(r)
       /\ EndFirst(q) => EndFirst(r)
       /\ OneGet(q) => OneGet(r)
  BY <1>3, <1>4, AppendKinds
<1>11. ASSUME NEW i \in Nat, NEW j, NEW k, NEW held, Stream(q, j, i, held), Stream(u, i, k, held)
       PROVE  i + 1 \in Nat /\ Stream(r, j, i + 1, held) /\ Stream(v, i + 1, k, held)
  <2>1. i \in Sector /\ held[i] \subseteq m.data /\ Stream(v, i + 1, k, held)
    BY <1>3, <1>4, <1>11, StreamTail DEF m
  <2> QED BY <1>3, <1>4, <1>11, <2>1, StreamAppend
<1> HIDE DEF q, r, u, v
<1>12. \A k : Piped(n, d, k) => Piped(n, d, k)'
  <2> SUFFICES ASSUME NEW k, Piped(n, d, k) PROVE Piped(n, d, k)'
    OBVIOUS
  <2>1. At(d)' = At(d) /\ snapshot'[d] = snapshot[d]
    BY <1>3 DEF At
  <2>2. PICK i \in Nat : Stream(q, At(d), i, snapshot[d]) /\ Stream(u, i, k, snapshot[d])
    BY DEF Piped, q, u
  <2>3. \E j \in Nat : Stream(r, At(d), j, snapshot[d]) /\ Stream(v, j, k, snapshot[d])
    BY <1>11, <2>2
  <2> QED BY <1>4, <2>1, <2>3 DEF Piped
<1>13. SourceInv'
  <2> SUFFICES ASSUME NEW x \in Ppd PROVE SourceAt(x)'
    BY DEF SourceInv
  <2>1. SourceAt(x)
    BY <1>1 DEF SourceInv
  <2>2. CASE x # n
    <3>1. \A e \in Ppd : ~Copies(x, e)
      BY <1>2, <2>2, OneCopy
    <3>2. SameGets(toPpd[x], toPpd'[x])
      BY <1>4, <1>10 DEF SameGets, q
    <3> QED BY <1>3, <1>4, <1>7, <2>1, <2>2, <3>1, <3>2, SourceFrame
  <2>3. CASE x = n
    <3>1. Streams(n, d) => Streams(n, d)'
      BY <1>2, <1>3, <1>4, <1>9, <1>12 DEF Streams, u
    <3>2. Ended(n, d) => Ended(n, d)'
      BY <1>2, <1>3, <1>4, <1>9, <1>12 DEF Ended, Rest, u
    <3>3. \A e \in Ppd : Copies(x, e)' => e = d
      BY <1>2, <1>7, <2>3, OneCopy
    <3> QED BY <1>2, <1>7, <2>3, <3>1, <3>2, <3>3 DEF SourceAt
  <2> QED BY <2>2, <2>3
<1>14. DestinyInv'
  <2> SUFFICES ASSUME NEW e \in Ppd PROVE DestinyAt(e)'
    BY DEF DestinyInv
  <2>1. DestinyAt(e)
    BY <1>1 DEF DestinyInv
  <2>2. CASE e # d
    BY <1>3, <1>4, <1>8, <2>1, <2>2, DestinyFrame
  <2>3. CASE e = d
    <3>1. Receiving(e) /\ Feeding(e) /\ Feeding(e)'
      BY <1>2, <1>8, <2>3 DEF Receiving
    <3>2. EndFirst(q) /\ ~HasKind(q, "syncEnd") /\ Ordered(q)
      BY <2>1, <2>3, <3>1 DEF DestinyAt, q
    <3>3. Ordered(r) /\ EndFirst(r) /\ ~HasKind(r, "syncEnd")
      BY <1>4, <1>10, <3>2, OnlyPieces
    <3>4. EmptyVolume' = EmptyVolume
      BY DEF EmptyVolume
    <3> QED BY <1>3, <1>4, <2>1, <2>3, <3>1, <3>3, <3>4 DEF DestinyAt
  <2> QED BY <2>2, <2>3
<1> QED BY <1>6, <1>7, <1>13, <1>14 DEF CopyInv

\* The end goes on to the destiny, behind all pieces.
LEMMA EndCopy ==
    ASSUME IInv, CopyInv, NEW n \in Ppd, ListenerSyncEnd(n)
    PROVE  CopyInv'
<1> USE DEF praidVars, storageVars, listVars, queueVars, lockVars, syncVars,
            pfsVars, senderVars, listenerVars, heldVars, threadVars, outsideVars,
            socketVars, ppdVars, copyVars, historyVars
<1>1. /\ FreshInv /\ LaunchInv /\ SourceInv /\ DestinyInv
      /\ toPpd \in [Ppd -> Seq(KnownPpdMessage)]
      /\ toPraid \in [Ppd -> Seq(KnownPraidMessage)]
      /\ listenerPc \in [Ppd -> {"off", "recv", "respond", "unlist", "syncEnd", "lock",
                                 "remove", "select", "assign", "done"}]
      /\ Sectors \in Nat
  BY CopyTypes DEF CopyInv
<1>2. PICK d \in Ppd : /\ Copies(n, d) /\ Feeding(d) /\ n # d
                       /\ syncState.destiny = d /\ ppd[d] = "up" /\ senderPc[d] # "off"
                       /\ Ended(n, d)
  BY TheSource DEF ListenerSyncEnd, Receives
<1> DEFINE m == [kind |-> "syncEnd"]   q == toPpd[d]   r == Append(q, m)
           u == toPraid[n]   v == Tail(u)
<1>3. /\ UNCHANGED <<entry, ppd, ppdStorages, sentTo, senderPc,
                     replicationStatusActive, syncState>>
      /\ UNCHANGED <<jobsQueue, streaming, restoring, volume, snapshot>>
      /\ listenerPc[n] = "recv" /\ u # <<>> /\ Head(u).kind = "syncEnd"
      /\ toPraid' = [toPraid EXCEPT ![n] = Tail(@)]
      /\ toPpd' = [toPpd EXCEPT ![d] = Append(@, m)]
      /\ listenerPc' = [listenerPc EXCEPT ![n] = "syncEnd"]
  BY <1>2 DEF ListenerSyncEnd, Receives, SendToPpd
<1>4. /\ toPraid'[n] = v /\ u \in Seq(KnownPraidMessage) /\ \A e \in Ppd \ {n} : toPraid'[e] = toPraid[e]
      /\ toPpd'[d] = r /\ q \in Seq(KnownPpdMessage) /\ \A e \in Ppd \ {d} : toPpd'[e] = toPpd[e]
      /\ listenerPc'[n] = "syncEnd" /\ \A e \in Ppd \ {n} : listenerPc'[e] = listenerPc[e]
      /\ m.kind = "syncEnd"
  BY <1>1, <1>3
<1> HIDE DEF m
<1>5. senderPc[n] # "off"
  BY <1>1, <1>3, Started
<1>6. FreshInv'
  BY <1>1, <1>2, <1>3, <1>4, <1>5, FreshFrame
<1>7. LaunchInv' /\ \A x, e : Copies(x, e)' <=> Copies(x, e)
  BY <1>1, <1>3, LaunchFrame
<1>8. \A e \in Ppd : /\ ~Feeding(e)'
                     /\ e # d => ~Feeding(e)
  BY <1>2, <1>4, <1>7, OneCopy DEF Feeding
<1>9. NoCopy(v)
  BY <1>2, <1>3, <1>4, TailKinds DEF Ended
<1>10. /\ \A kind : HasKind(r, kind) <=> HasKind(q, kind) \/ kind = "syncEnd"
       /\ Ordered(q) /\ (\A i \in DOMAIN q : q[i].kind = "syncPut") => Ordered(r)
       /\ EndFirst(q) => EndFirst(r)
       /\ OneGet(q) => OneGet(r)
  BY <1>4, AppendKinds
<1>11. Stream(r, At(d), Sectors, snapshot[d])
  <2>1. PICK i \in Nat : Stream(q, At(d), i, snapshot[d]) /\ Stream(u, i, Sectors, snapshot[d])
    BY <1>2 DEF Ended, Piped
  <2>2. Stream(v, i, Sectors, snapshot[d]) /\ v \in Seq(KnownPraidMessage)
    BY <1>3, <1>4, <2>1, StreamTail, HeadTailProperties
  <2>3. i = Sectors
    BY <1>9, <2>2, StreamOfNone DEF NoCopy
  <2> QED BY <1>4, <2>1, <2>3, StreamAppend
<1> HIDE DEF q, r, u, v
<1>12. SourceInv'
  <2> SUFFICES ASSUME NEW x \in Ppd PROVE SourceAt(x)'
    BY DEF SourceInv
  <2>1. SourceAt(x)
    BY <1>1 DEF SourceInv
  <2>2. CASE x # n
    <3>1. \A e \in Ppd : ~Copies(x, e)
      BY <1>2, <2>2, OneCopy
    <3>2. SameGets(toPpd[x], toPpd'[x])
      BY <1>4, <1>10 DEF SameGets, q
    <3> QED BY <1>3, <1>4, <1>7, <2>1, <2>2, <3>1, <3>2, SourceFrame
  <2>3. CASE x = n
    <3>1. Told(n)'
      BY <1>2, <1>3, <1>4, <1>9 DEF Ended, Told, Rest, NoCopy
    <3> QED BY <1>2, <1>7, <2>3, <3>1 DEF SourceAt
  <2> QED BY <2>2, <2>3
<1>13. DestinyInv'
  <2> SUFFICES ASSUME NEW e \in Ppd PROVE DestinyAt(e)'
    BY DEF DestinyInv
  <2>1. DestinyAt(e)
    BY <1>1 DEF DestinyInv
  <2>2. CASE e # d
    BY <1>3, <1>4, <1>8, <2>1, <2>2, DestinyFrame
  <2>3. CASE e = d
    <3>1. Receiving(e) /\ Feeding(e) /\ ~Feeding(e)'
      BY <1>2, <1>8, <2>3 DEF Receiving
    <3>2. EndFirst(q) /\ ~HasKind(q, "syncEnd") /\ Ordered(q)
      BY <2>1, <2>3, <3>1 DEF DestinyAt, q
    <3>3. Ordered(r) /\ EndFirst(r) /\ HasKind(r, "syncEnd")
      BY <1>4, <1>10, <3>2, OnlyPieces
    <3>4. EmptyVolume' = EmptyVolume /\ At(d)' = At(d)
      BY <1>3 DEF EmptyVolume, At
    <3> QED BY <1>3, <1>4, <1>11, <2>1, <2>3, <3>1, <3>3, <3>4 DEF DestinyAt
  <2> QED BY <2>2, <2>3
<1> QED BY <1>6, <1>7, <1>12, <1>13 DEF CopyInv

\* The flag falls once the end has been sent on.
LEMMA StopCopy ==
    ASSUME IInv, CopyInv, NEW n \in Ppd, ListenerSyncStop(n)
    PROVE  CopyInv'
<1> USE DEF praidVars, storageVars, listVars, queueVars, lockVars, syncVars,
            pfsVars, senderVars, listenerVars, heldVars, threadVars, outsideVars,
            socketVars, ppdVars, copyVars, historyVars
<1>1. /\ FreshInv /\ LaunchInv /\ SourceInv /\ DestinyInv
      /\ listenerPc \in [Ppd -> {"off", "recv", "respond", "unlist", "syncEnd", "lock",
                                 "remove", "select", "assign", "done"}]
  BY CopyTypes DEF CopyInv
<1>2. /\ UNCHANGED <<entry, ppd, ppdStorages, sentTo, senderPc, syncState>>
      /\ UNCHANGED <<toPpd, toPraid, jobsQueue, streaming, restoring, volume, snapshot>>
      /\ listenerPc[n] = "syncEnd" /\ listenerPc' = [listenerPc EXCEPT ![n] = "recv"]
      /\ replicationStatusActive' = FALSE
  BY DEF ListenerSyncStop
<1>3. listenerPc'[n] = "recv" /\ \A e \in Ppd \ {n} : listenerPc'[e] = listenerPc[e]
  BY <1>1, <1>2
<1>4. PICK d \in Ppd : Copies(n, d)
  BY <1>1, <1>2 DEF SourceInv, SourceAt, Idle
<1>5. Told(n)
  BY <1>1, <1>2, <1>4 DEF SourceInv, SourceAt, Asked, Streams, Ended
<1>6. \A x, e : ~Copies(x, e)'
  BY <1>2 DEF Copies
<1>7. senderPc[n] # "off"
  BY <1>1, <1>2, Started
<1>8. FreshInv'
  <2>1. \A e \in Ppd : senderPc[e] = "off" => listenerPc'[e] = listenerPc[e]
    BY <1>3, <1>7
  <2> QED BY <1>1, <1>2, <2>1, FreshFrame
<1>9. LaunchInv'
  <2>1. entry.pc # "fire" /\ replicationStatusActive
    BY <1>4 DEF Copies
  <2>2. entry.pc = "accept"
    BY <1>1, <2>1 DEF LaunchInv
  <2> QED BY <1>1, <1>2, <1>6, <2>2 DEF LaunchInv
<1>10. SourceInv'
  <2> SUFFICES ASSUME NEW x \in Ppd PROVE SourceAt(x)'
    BY DEF SourceInv
  <2>1. CASE x = n
    <3>1. Idle(x)'
      BY <1>2, <1>3, <1>5, <2>1 DEF Told, Idle, Rest, NoCopy
    <3> QED BY <1>6, <3>1 DEF SourceAt
  <2>2. CASE x # n
    <3>1. Idle(x)
      BY <1>1, <1>4, <2>2, OneCopy DEF SourceInv, SourceAt
    <3>2. Idle(x)'
      BY <1>2, <1>3, <2>2, <3>1 DEF Idle, Rest, NoCopy
    <3> QED BY <1>6, <3>2 DEF SourceAt
  <2> QED BY <2>1, <2>2
<1>11. DestinyInv'
  <2> SUFFICES ASSUME NEW e \in Ppd PROVE DestinyAt(e)'
    BY DEF DestinyInv
  <2>1. ~Feeding(e) /\ ~Feeding(e)'
    BY <1>2, <1>4, <1>6, OneCopy DEF Feeding
  <2>2. DestinyAt(e)
    BY <1>1 DEF DestinyInv
  <2> QED BY <1>2, <2>1, <2>2, DestinyFrame
<1> QED BY <1>8, <1>9, <1>10, <1>11 DEF CopyInv

-----------------------------------------------------------------------------
(* The steps of the disks.                                                 *)

\* A step of a disk that has started is no concern of the entrypoint's.
LEMMA DiskStep ==
    ASSUME CopyInv, NEW n \in Ppd, senderPc[n] # "off",
           UNCHANGED <<entry, ppd, ppdStorages, senderPc, listenerPc, sentTo,
                       replicationStatusActive, syncState>>,
           \A e \in Ppd \ {n} :
              /\ toPpd'[e] = toPpd[e] /\ toPraid'[e] = toPraid[e]
              /\ jobsQueue'[e] = jobsQueue[e] /\ volume'[e] = volume[e]
              /\ restoring'[e] = restoring[e] /\ streaming'[e] = streaming[e]
    PROVE  /\ FreshInv' /\ LaunchInv'
           /\ \A x, d : Copies(x, d)' <=> Copies(x, d)
           /\ \A d \in Ppd : Feeding(d)' <=> Feeding(d)
<1>1. FreshInv /\ LaunchInv
  BY DEF CopyInv
<1>2. LaunchInv' /\ \A x, d : Copies(x, d)' <=> Copies(x, d)
  BY <1>1, LaunchFrame
<1>3. \A d \in Ppd : Feeding(d)' <=> Feeding(d)
  BY <1>2, FeedingFrame
<1>4. FreshInv'
  BY <1>1, FreshFrame
<1> QED BY <1>2, <1>3, <1>4

\* What is on its way to a disk that is receiving begins where its file ends.
LEMMA TheStream ==
    ASSUME CopyInv, NEW n \in Ppd, Receiving(n), toPpd[n] # <<>>
    PROVE  \E k : Stream(toPpd[n], At(n), k, snapshot[n])
<1>1. CASE ~Feeding(n)
  BY <1>1 DEF CopyInv, DestinyInv, DestinyAt
<1>2. CASE Feeding(n)
  <2>1. PICK x \in Ppd : Copies(x, n) /\ listenerPc[x] # "syncEnd"
    BY <1>2 DEF Feeding
  <2>2. Streams(x, n) \/ Ended(x, n)
    BY <2>1 DEF CopyInv, SourceInv, SourceAt, Asked, Told
  <2> QED BY <2>2 DEF Streams, Ended, Piped
<1> QED BY <1>1, <1>2

\* A job is received, so no copy is on its way behind it.
LEMMA JobCopy ==
    ASSUME IInv, CopyInv, NEW n \in Ppd, PpdReceiveJob(n)
    PROVE  CopyInv'
<1> USE DEF praidVars, storageVars, listVars, queueVars, lockVars, syncVars,
            pfsVars, senderVars, listenerVars, heldVars, threadVars, outsideVars,
            socketVars, ppdVars, copyVars, historyVars
<1> DEFINE q == toPpd[n]   r == Tail(q)
<1>1. /\ FreshInv /\ SourceInv /\ DestinyInv
      /\ toPpd \in [Ppd -> Seq(KnownPpdMessage)] /\ jobsQueue \in [Ppd -> SUBSET Known]
  BY CopyTypes DEF CopyInv
<1>2. /\ UNCHANGED <<entry, ppd, ppdStorages, senderPc, listenerPc, sentTo,
                     replicationStatusActive, syncState>>
      /\ UNCHANGED <<toPraid, streaming, restoring, volume, snapshot>>
      /\ q \in Seq(KnownPpdMessage) /\ q # <<>> /\ Head(q).kind = "job"
      /\ toPpd'[n] = r
      /\ \A e \in Ppd \ {n} : toPpd'[e] = toPpd[e] /\ jobsQueue'[e] = jobsQueue[e]
  BY <1>1 DEF PpdReceiveJob, PpdReady
<1>3. /\ senderPc[n] # "off"
  BY <1>1, <1>2, Started
<1>4. /\ FreshInv' /\ LaunchInv'
      /\ \A x, d : Copies(x, d)' <=> Copies(x, d)
      /\ \A d \in Ppd : Feeding(d)' <=> Feeding(d)
  BY <1>2, <1>3, DiskStep
<1>5. /\ \A kind : HasKind(q, kind) <=> kind = "job" \/ HasKind(r, kind)
      /\ Ordered(q) => Ordered(r)
      /\ OneGet(q) => OneGet(r)
      /\ ~EndFirst(q)
  BY <1>2, TailKinds
<1>6. ~Receiving(n)
  BY <1>1, <1>5 DEF DestinyInv, DestinyAt
<1> HIDE DEF q, r
<1>7. SourceInv'
  <2> SUFFICES ASSUME NEW x \in Ppd PROVE SourceAt(x)'
    BY DEF SourceInv
  <2>1. SourceAt(x)
    BY <1>1 DEF SourceInv
  <2>2. SameGets(toPpd[x], toPpd'[x])
    BY <1>2, <1>5 DEF SameGets, q
  <2>3. \A d \in Ppd : Copies(x, d) /\ listenerPc[x] # "syncEnd" => d # n
    BY <1>6 DEF Receiving, Feeding
  <2> QED BY <1>2, <1>4, <2>1, <2>2, <2>3, SourceFrame
<1>8. DestinyInv'
  <2> SUFFICES ASSUME NEW d \in Ppd PROVE DestinyAt(d)'
    BY DEF DestinyInv
  <2>1. DestinyAt(d)
    BY <1>1 DEF DestinyInv
  <2>2. CASE d # n
    BY <1>2, <1>4, <2>1, <2>2, DestinyFrame
  <2>3. CASE d = n
    <3>1. ~Receiving(d)'
      BY <1>2, <1>4, <1>5, <1>6, <2>3 DEF Receiving, q
    <3>2. Ordered(toPpd'[d]) /\ restoring'[d] = None
      BY <1>2, <1>5, <1>6, <2>1, <2>3 DEF Receiving, DestinyAt, q
    <3> QED BY <3>1, <3>2 DEF DestinyAt
  <2> QED BY <2>2, <2>3
<1> QED BY <1>4, <1>7, <1>8 DEF CopyInv

\* The source takes the request: what it holds now is what the copy must have.
LEMMA AskedCopy ==
    ASSUME IInv, CopyInv, NEW n \in Ppd, PpdReceiveSyncGet(n)
    PROVE  CopyInv'
<1> USE DEF praidVars, storageVars, listVars, queueVars, lockVars, syncVars,
            pfsVars, senderVars, listenerVars, heldVars, threadVars, outsideVars,
            socketVars, ppdVars, copyVars, historyVars
<1> DEFINE q == toPpd[n]   r == Tail(q)
<1>1. /\ FreshInv /\ LaunchInv /\ SourceInv /\ DestinyInv
      /\ toPpd \in [Ppd -> Seq(KnownPpdMessage)] /\ toPraid \in [Ppd -> Seq(KnownPraidMessage)]
      /\ streaming \in [Ppd -> 0 .. Sectors \cup {None}]
      /\ volume \in [Ppd -> [Sector -> SUBSET Job]]
      /\ snapshot \in [Ppd -> [Sector -> SUBSET Job]]
      /\ None \notin Nat
  BY CopyTypes DEF CopyInv
<1>2. /\ UNCHANGED <<entry, ppd, ppdStorages, senderPc, listenerPc, sentTo,
                     replicationStatusActive, syncState>>
      /\ UNCHANGED <<toPraid, jobsQueue, restoring, volume>>
      /\ q \in Seq(KnownPpdMessage) /\ q # <<>> /\ Head(q).kind = "syncGet"
      /\ toPpd'[n] = r /\ streaming'[n] = 0 /\ streaming[n] = None
      /\ \A e \in Ppd \ {n} : toPpd'[e] = toPpd[e] /\ streaming'[e] = streaming[e]
      /\ snapshot' = [snapshot EXCEPT ![syncState.destiny] = volume[n]]
  BY <1>1 DEF PpdReceiveSyncGet, PpdReady
<1>3. /\ senderPc[n] # "off"
  BY <1>1, <1>2, Started
<1>4. /\ FreshInv' /\ LaunchInv'
      /\ \A x, d : Copies(x, d)' <=> Copies(x, d)
      /\ \A d \in Ppd : Feeding(d)' <=> Feeding(d)
  BY <1>2, <1>3, DiskStep
<1>5. /\ \A kind : HasKind(q, kind) <=> kind = "syncGet" \/ HasKind(r, kind)
      /\ Ordered(q) => Ordered(r)
      /\ OneGet(q) => ~HasKind(r, "syncGet")
      /\ ~EndFirst(q)
  BY <1>2, TailKinds
<1>6. ~Receiving(n)
  BY <1>1, <1>5 DEF DestinyInv, DestinyAt
<1>7. PICK d \in Ppd : Copies(n, d)
  BY <1>1, <1>5 DEF SourceInv, SourceAt, Idle, Rest
<1>8. Asked(n, d)
  BY <1>1, <1>2, <1>5, <1>7 DEF SourceInv, SourceAt, Streams, Ended, Told, Rest
<1>9. n # d /\ syncState.destiny = d
  BY <1>1, <1>7 DEF LaunchInv, Copies
<1>10. snapshot'[d] = volume[n] /\ \A e \in Ppd \ {d} : snapshot'[e] = snapshot[e]
  BY <1>1, <1>2, <1>9
<1> HIDE DEF q, r
<1>11. SourceInv'
  <2> SUFFICES ASSUME NEW x \in Ppd PROVE SourceAt(x)'
    BY DEF SourceInv
  <2>1. SourceAt(x)
    BY <1>1 DEF SourceInv
  <2>2. CASE x # n
    <3>1. \A e \in Ppd : ~Copies(x, e)
      BY <1>7, <2>2, OneCopy
    <3>2. SameGets(toPpd[x], toPpd'[x])
      BY <1>2, <2>2 DEF SameGets
    <3> QED BY <1>2, <1>4, <2>1, <2>2, <3>1, <3>2, SourceFrame
  <2>3. CASE x = n
    <3>1. ~HasKind(toPpd'[n], "syncGet")
      BY <1>2, <1>5, <1>8 DEF Asked, q
    <3>2. Piped(n, d, 0)'
      <4>1. At(d)' = 0
        BY <1>2, <1>8 DEF At, Asked
      <4>2. /\ toPpd'[d] = <<>> /\ <<>> \in Seq(KnownPpdMessage) /\ ~HasKind(<<>>, "syncPut")
            /\ toPraid[n] \in Seq(KnownPraidMessage) /\ ~HasKind(toPraid[n], "syncPut")
        BY <1>1, <1>2, <1>8, <1>9 DEF Asked, NoCopy, HasKind
      <4>3. \A held : Stream(<<>>, 0, 0, held) /\ Stream(toPraid[n], 0, 0, held)
        BY <4>2, StreamOfNone
      <4> QED BY <1>2, <4>1, <4>2, <4>3 DEF Piped
    <3>3. /\ streaming'[n] = 0 /\ 0 # None /\ listenerPc'[n] # "syncEnd"
          /\ ~HasKind(toPraid'[n], "syncEnd")
      BY <1>1, <1>2, <1>8 DEF Asked, NoCopy
    <3>4. \A s \in Sector : snapshot'[d][s] \subseteq volume'[n][s]
      BY <1>2, <1>10
    <3>5. Streams(n, d)'
      BY <3>1, <3>2, <3>3, <3>4 DEF Streams
    <3>6. \A e \in Ppd : Copies(x, e)' => e = d
      BY <1>4, <1>7, <2>3, OneCopy
    <3> QED BY <1>4, <1>7, <2>3, <3>5, <3>6 DEF SourceAt
  <2> QED BY <2>2, <2>3
<1>12. DestinyInv'
  <2> SUFFICES ASSUME NEW e \in Ppd PROVE DestinyAt(e)'
    BY DEF DestinyInv
  <2>1. DestinyAt(e)
    BY <1>1 DEF DestinyInv
  <2>2. CASE e # n /\ e # d
    BY <1>2, <1>4, <1>10, <2>1, <2>2, DestinyFrame
  <2>3. CASE e = n
    <3>1. ~Receiving(e)'
      BY <1>2, <1>4, <1>5, <1>6, <2>3 DEF Receiving, q
    <3>2. Ordered(toPpd'[e]) /\ restoring'[e] = None
      BY <1>2, <1>5, <1>6, <2>1, <2>3 DEF Receiving, DestinyAt, q
    <3> QED BY <3>1, <3>2 DEF DestinyAt
  <2>4. CASE e = d
    <3>1. /\ toPpd'[e] = toPpd[e] /\ restoring'[e] = None /\ restoring[e] = None
          /\ toPpd[e] = <<>>
      BY <1>2, <1>8, <1>9, <2>4 DEF Asked
    <3>2. Feeding(e) /\ Feeding(e)'
      BY <1>4, <1>7, <1>8, <2>4 DEF Feeding, Asked
    <3>3. Receiving(e)
      BY <3>2 DEF Receiving
    <3>4. EmptyVolume' = EmptyVolume
      BY DEF EmptyVolume
    <3> QED BY <1>2, <2>1, <3>1, <3>2, <3>3, <3>4 DEF DestinyAt
  <2> QED BY <2>2, <2>3, <2>4
<1> QED BY <1>4, <1>11, <1>12 DEF CopyInv

\* A piece lands at the end of the file, on a sector that holds nothing yet.
LEMMA PieceLands ==
    ASSUME IInv, CopyInv, NEW n \in Ppd, PpdReceiveSyncPut(n)
    PROVE  /\ Receiving(n)
           /\ At(n) \in Sector
           /\ restoring' = [restoring EXCEPT ![n] = At(n) + 1]
           /\ volume' = [volume EXCEPT ![n] = [volume[n] EXCEPT ![At(n)] = Head(toPpd[n]).data]]
           /\ volume[n][At(n)] = {}
           /\ snapshot[n][At(n)] \subseteq Head(toPpd[n]).data
           /\ \A k : Stream(toPpd[n], At(n), k, snapshot[n])
                        => Stream(Tail(toPpd[n]), At(n) + 1, k, snapshot[n])
<1> DEFINE q == toPpd[n]
<1>1. /\ DestinyAt(n) /\ q \in Seq(KnownPpdMessage) /\ q # <<>> /\ Head(q).kind = "syncPut"
      /\ restoring \in [Ppd -> Nat \cup {None}]
      /\ None \notin Nat /\ Sectors \in Nat \ {0}
  BY CopyTypes DEF CopyInv, DestinyInv, PpdReceiveSyncPut, PpdReady
<1>2. Receiving(n)
  BY <1>1, TailKinds DEF Receiving
<1>3. PICK k : Stream(q, At(n), k, snapshot[n])
  BY <1>1, <1>2, TheStream
<1>4. /\ At(n) \in Sector /\ snapshot[n][At(n)] \subseteq Head(q).data
  BY <1>1, <1>3, StreamTail
<1>5. \A j : Stream(q, At(n), j, snapshot[n]) => Stream(Tail(q), At(n) + 1, j, snapshot[n])
  BY <1>1, StreamTail
<1>6. restoring[n] = None => volume[n] = EmptyVolume
  BY <1>1, <1>2 DEF DestinyAt
<1>7. /\ restoring' = [restoring EXCEPT ![n] = At(n) + 1]
      /\ volume' = [volume EXCEPT ![n] = [volume[n] EXCEPT ![At(n)] = Head(q).data]]
  BY <1>6 DEF PpdReceiveSyncPut, At
<1>8. volume[n][At(n)] = {}
  <2>1. CASE restoring[n] = None
    BY <1>4, <1>6, <2>1 DEF EmptyVolume
  <2>2. CASE restoring[n] # None
    <3>1. At(n) = restoring[n] /\ ~(At(n) < restoring[n])
      BY <1>1, <2>2 DEF At
    <3> QED BY <1>1, <1>4, <2>2, <3>1 DEF DestinyAt
  <2> QED BY <2>1, <2>2
<1> QED BY <1>2, <1>4, <1>5, <1>7, <1>8

\* A piece is written.
LEMMA PutCopy ==
    ASSUME IInv, CopyInv, NEW n \in Ppd, PpdReceiveSyncPut(n)
    PROVE  CopyInv'
<1> USE DEF praidVars, storageVars, listVars, queueVars, lockVars, syncVars,
            pfsVars, senderVars, listenerVars, heldVars, threadVars, outsideVars,
            socketVars, ppdVars, copyVars, historyVars
<1> DEFINE q == toPpd[n]   r == Tail(q)   a == At(n)   data == Head(q).data
<1>1. /\ FreshInv /\ LaunchInv /\ SourceInv /\ DestinyInv
      /\ toPpd \in [Ppd -> Seq(KnownPpdMessage)]
      /\ restoring \in [Ppd -> Nat \cup {None}]
      /\ volume \in [Ppd -> [Sector -> SUBSET Job]]
      /\ None \notin Nat /\ Sectors \in Nat \ {0}
  BY CopyTypes DEF CopyInv
<1>2. /\ UNCHANGED <<entry, ppd, ppdStorages, senderPc, listenerPc, sentTo,
                     replicationStatusActive, syncState>>
      /\ UNCHANGED <<toPraid, jobsQueue, streaming, snapshot>>
      /\ q \in Seq(KnownPpdMessage) /\ q # <<>> /\ Head(q).kind = "syncPut"
      /\ toPpd'[n] = r
      /\ \A e \in Ppd \ {n} : toPpd'[e] = toPpd[e]
  BY <1>1 DEF PpdReceiveSyncPut, PpdReady
<1>3. /\ Receiving(n) /\ a \in Sector
      /\ restoring' = [restoring EXCEPT ![n] = a + 1]
      /\ volume' = [volume EXCEPT ![n] = [volume[n] EXCEPT ![a] = data]]
      /\ volume[n][a] = {} /\ snapshot[n][a] \subseteq data
      /\ \A k : Stream(q, a, k, snapshot[n]) => Stream(r, a + 1, k, snapshot[n])
  BY PieceLands
<1>4. /\ senderPc[n] # "off"
  BY <1>1, <1>2, Started
<1>5. /\ restoring'[n] = a + 1 /\ a \in Nat
      /\ volume'[n] = [volume[n] EXCEPT ![a] = data]
      /\ \A e \in Ppd \ {n} : restoring'[e] = restoring[e] /\ volume'[e] = volume[e]
  BY <1>1, <1>3 DEF Sector
<1>6. /\ FreshInv' /\ LaunchInv'
      /\ \A x, d : Copies(x, d)' <=> Copies(x, d)
      /\ \A d \in Ppd : Feeding(d)' <=> Feeding(d)
  BY <1>2, <1>4, <1>5, DiskStep
<1>7. /\ \A kind : HasKind(q, kind) <=> kind = "syncPut" \/ HasKind(r, kind)
      /\ Ordered(q) => Ordered(r)
      /\ EndFirst(q) => EndFirst(r)
      /\ OneGet(q) => OneGet(r)
  BY <1>2, TailKinds
<1>8. At(n)' = a + 1 /\ restoring'[n] # None
  <2>1. a + 1 # None
    BY <1>1, <1>5
  <2> QED BY <1>5, <2>1 DEF At
<1> HIDE DEF q, r, a, data
<1>9. \A s \in Sector : volume'[n][s] = IF s = a THEN data ELSE volume[n][s]
  BY <1>1, <1>5
<1>10. \A x \in Ppd : \A s \in Sector : volume[x][s] \subseteq volume'[x][s]
  BY <1>3, <1>5, <1>9
<1>11. SourceInv'
  <2> SUFFICES ASSUME NEW x \in Ppd PROVE SourceAt(x)'
    BY DEF SourceInv
  <2>1. SourceAt(x)
    BY <1>1 DEF SourceInv
  <2>2. SameGets(toPpd[x], toPpd'[x])
    BY <1>2, <1>7 DEF SameGets, q
  <2>3. CASE Copies(x, n) /\ listenerPc[x] # "syncEnd"
    <3>1. \A k : Piped(x, n, k) => Piped(x, n, k)'
      BY <1>2, <1>3, <1>8 DEF Piped, q, a
    <3>2. Streams(x, n) \/ Ended(x, n)
      BY <1>2, <2>1, <2>3 DEF SourceAt, Asked, Told, q
    <3>3. Streams(x, n) => Streams(x, n)'
      <4>1. Streams(x, n) => \A s \in Sector : snapshot'[n][s] \subseteq volume'[x][s]
        BY <1>2, <1>10 DEF Streams
      <4> QED BY <1>2, <2>2, <3>1, <4>1 DEF Streams, SameGets
    <3>4. Ended(x, n) => Ended(x, n)'
      BY <1>2, <2>2, <3>1 DEF Ended, Rest, SameGets
    <3>5. \A e \in Ppd : Copies(x, e)' => e = n
      BY <1>6, <2>3, OneCopy
    <3> QED BY <1>6, <2>3, <3>2, <3>3, <3>4, <3>5 DEF SourceAt
  <2>4. CASE ~(Copies(x, n) /\ listenerPc[x] # "syncEnd")
    <3>1. \A d \in Ppd : Copies(x, d) /\ listenerPc[x] # "syncEnd" => d # n
      BY <2>4
    <3> QED BY <1>2, <1>5, <1>6, <1>10, <2>1, <2>2, <3>1, SourceFrame
  <2> QED BY <2>3, <2>4
<1>12. DestinyInv'
  <2> SUFFICES ASSUME NEW d \in Ppd PROVE DestinyAt(d)'
    BY DEF DestinyInv
  <2>1. DestinyAt(d)
    BY <1>1 DEF DestinyInv
  <2>2. CASE d # n
    BY <1>2, <1>5, <1>6, <2>1, <2>2, DestinyFrame
  <2>3. CASE d = n
    <3>1. /\ jobsQueue[n] = {} /\ EndFirst(q) /\ Ordered(q)
          /\ HasKind(q, "syncEnd") <=> ~Feeding(n)
          /\ ~Feeding(n) => Stream(q, a, Sectors, snapshot[n])
      BY <1>3, <2>1, <2>3 DEF DestinyAt, q, a
    <3>2. \A s \in Sector : IF s < a + 1 THEN snapshot[n][s] \subseteq volume'[n][s]
                            ELSE volume'[n][s] = {}
      <4>1. \A s \in Sector : IF s < a THEN snapshot[n][s] \subseteq volume[n][s]
                              ELSE volume[n][s] = {}
        <5>1. CASE restoring[n] = None
          <6>1. a = 0 /\ volume[n] = EmptyVolume
            BY <1>3, <2>1, <2>3, <5>1 DEF DestinyAt, At, a
          <6> QED BY <6>1 DEF EmptyVolume, Sector
        <5>2. CASE restoring[n] # None
          BY <2>1, <2>3, <5>2 DEF DestinyAt, At, a
        <5> QED BY <5>1, <5>2
      <4>2. \A s \in Sector : s \in Nat /\ (s < a + 1 <=> s < a \/ s = a)
        BY <1>5 DEF Sector
      <4> QED BY <1>3, <1>9, <4>1, <4>2
    <3>3. ~Feeding(n) => Stream(r, a + 1, Sectors, snapshot[n])
      BY <1>3, <3>1
    <3> QED BY <1>2, <1>5, <1>6, <1>7, <1>8, <2>3, <3>1, <3>2, <3>3 DEF DestinyAt
  <2> QED BY <2>2, <2>3
<1> QED BY <1>6, <1>11, <1>12 DEF CopyInv

\* The end finds all pieces written.
LEMMA AllLanded ==
    ASSUME IInv, CopyInv, NEW n \in Ppd, PpdReceiveSyncEnd(n)
    PROVE  /\ ~Feeding(n)
           /\ NoCopy(Tail(toPpd[n]))
           /\ restoring[n] # None => restoring[n] = Sectors
<1> DEFINE q == toPpd[n]   r == Tail(q)
<1>1. /\ DestinyAt(n) /\ q \in Seq(KnownPpdMessage) /\ q # <<>> /\ Head(q).kind = "syncEnd"
      /\ r \in Seq(KnownPpdMessage)
  BY CopyTypes, HeadTailProperties DEF CopyInv, DestinyInv, PpdReceiveSyncEnd, PpdReady
<1>2. HasKind(q, "syncEnd") /\ NoCopy(r)
  BY <1>1, TailKinds DEF DestinyAt
<1>3. ~Feeding(n)
  BY <1>1, <1>2 DEF DestinyAt, Receiving
<1>4. ASSUME restoring[n] # None PROVE restoring[n] = Sectors
  <2>1. Receiving(n) /\ At(n) = restoring[n]
    BY <1>4 DEF Receiving, At
  <2>2. Stream(q, At(n), Sectors, snapshot[n])
    BY <1>1, <1>3, <2>1 DEF DestinyAt
  <2>3. Stream(r, At(n), Sectors, snapshot[n])
    BY <1>1, <2>2, StreamTail
  <2>4. ~HasKind(r, "syncPut")
    BY <1>2 DEF NoCopy
  <2> HIDE DEF r
  <2>5. At(n) = Sectors
    BY <1>1, <2>3, <2>4, StreamOfNone
  <2> QED BY <2>1, <2>5
<1> QED BY <1>2, <1>3, <1>4

\* The end of the copy is received.
LEMMA DoneCopy ==
    ASSUME IInv, CopyInv, NEW n \in Ppd, PpdReceiveSyncEnd(n)
    PROVE  CopyInv'
<1> USE DEF praidVars, storageVars, listVars, queueVars, lockVars, syncVars,
            pfsVars, senderVars, listenerVars, heldVars, threadVars, outsideVars,
            socketVars, ppdVars, copyVars, historyVars
<1> DEFINE q == toPpd[n]   r == Tail(q)
<1>1. /\ FreshInv /\ SourceInv /\ DestinyInv
      /\ toPpd \in [Ppd -> Seq(KnownPpdMessage)] /\ restoring \in [Ppd -> Nat \cup {None}]
  BY CopyTypes DEF CopyInv
<1>2. /\ UNCHANGED <<entry, ppd, ppdStorages, senderPc, listenerPc, sentTo,
                     replicationStatusActive, syncState>>
      /\ UNCHANGED <<toPraid, streaming, jobsQueue, volume, snapshot>>
      /\ q \in Seq(KnownPpdMessage) /\ q # <<>> /\ Head(q).kind = "syncEnd"
      /\ toPpd'[n] = r /\ restoring'[n] = None
      /\ \A e \in Ppd \ {n} : toPpd'[e] = toPpd[e] /\ restoring'[e] = restoring[e]
  BY <1>1 DEF PpdReceiveSyncEnd, PpdReady
<1>3. /\ senderPc[n] # "off"
  BY <1>1, <1>2, Started
<1>4. /\ FreshInv' /\ LaunchInv'
      /\ \A x, d : Copies(x, d)' <=> Copies(x, d)
      /\ \A d \in Ppd : Feeding(d)' <=> Feeding(d)
  BY <1>2, <1>3, DiskStep
<1>5. /\ \A kind : HasKind(q, kind) <=> kind = "syncEnd" \/ HasKind(r, kind)
      /\ Ordered(q) => Ordered(r)
      /\ OneGet(q) => OneGet(r)
  BY <1>2, TailKinds
<1>6. ~Feeding(n) /\ NoCopy(r)
  BY AllLanded
<1> HIDE DEF q, r
<1>7. SourceInv'
  <2> SUFFICES ASSUME NEW x \in Ppd PROVE SourceAt(x)'
    BY DEF SourceInv
  <2>1. SourceAt(x)
    BY <1>1 DEF SourceInv
  <2>2. SameGets(toPpd[x], toPpd'[x])
    BY <1>2, <1>5 DEF SameGets, q
  <2>3. \A d \in Ppd : Copies(x, d) /\ listenerPc[x] # "syncEnd" => d # n
    BY <1>6 DEF Feeding
  <2> QED BY <1>2, <1>4, <2>1, <2>2, <2>3, SourceFrame
<1>8. DestinyInv'
  <2> SUFFICES ASSUME NEW d \in Ppd PROVE DestinyAt(d)'
    BY DEF DestinyInv
  <2>1. DestinyAt(d)
    BY <1>1 DEF DestinyInv
  <2>2. CASE d # n
    BY <1>2, <1>4, <2>1, <2>2, DestinyFrame
  <2>3. CASE d = n
    <3>1. ~Receiving(d)'
      BY <1>2, <1>4, <1>6, <2>3 DEF Receiving, NoCopy
    <3>2. Ordered(toPpd'[d]) /\ restoring'[d] = None
      BY <1>2, <1>5, <2>1, <2>3 DEF DestinyAt, q
    <3> QED BY <3>1, <3>2 DEF DestinyAt
  <2> QED BY <2>2, <2>3
<1> QED BY <1>4, <1>7, <1>8 DEF CopyInv

\* A disk that sends its volume is the source of the copy.
LEMMA TheStreaming ==
    ASSUME IInv, CopyInv, NEW n \in Ppd, streaming[n] # None
    PROVE  \E d \in Ppd : Copies(n, d) /\ Streams(n, d)
<1>1. SourceAt(n)
  BY DEF CopyInv, SourceInv
<1>2. PICK d \in Ppd : Copies(n, d)
  BY <1>1 DEF SourceAt, Idle, Rest
<1>3. Streams(n, d)
  BY <1>1, <1>2 DEF SourceAt, Asked, Ended, Told, Rest
<1> QED BY <1>2, <1>3

\* The source sends a piece, or the end.
LEMMA StreamCopy ==
    ASSUME IInv, CopyInv, NEW n \in Ppd, PpdStream(n) \/ PpdStreamEnd(n),
           NEW k, streaming[n] = k
    PROVE  CopyInv'
<1> USE DEF praidVars, storageVars, listVars, queueVars, lockVars, syncVars,
            pfsVars, senderVars, listenerVars, heldVars, threadVars, outsideVars,
            socketVars, ppdVars, copyVars, historyVars
<1>1. /\ FreshInv /\ LaunchInv /\ SourceInv /\ DestinyInv
      /\ toPraid \in [Ppd -> Seq(KnownPraidMessage)]
      /\ streaming \in [Ppd -> 0 .. Sectors \cup {None}]
      /\ volume \in [Ppd -> [Sector -> SUBSET Job]]
      /\ None \notin Nat /\ Sectors \in Nat \ {0}
  BY CopyTypes DEF CopyInv
<1>2. k # None
  BY <1>1 DEF PpdStream, PpdStreamEnd, Sector
<1>3. PICK d \in Ppd : Copies(n, d) /\ Streams(n, d)
  BY <1>2, TheStreaming
<1> DEFINE u == toPraid[n]
           piece == [kind |-> "syncPut", data |-> volume[n][k]]   end == [kind |-> "syncEnd"]
<1>4. /\ UNCHANGED <<entry, ppd, ppdStorages, senderPc, listenerPc, sentTo,
                     replicationStatusActive, syncState>>
      /\ UNCHANGED <<toPpd, jobsQueue, restoring, volume, snapshot>>
      /\ u \in Seq(KnownPraidMessage)
      /\ \A e \in Ppd \ {n} : toPraid'[e] = toPraid[e] /\ streaming'[e] = streaming[e]
  BY <1>1 DEF PpdStream, PpdStreamEnd
<1>5. /\ senderPc[n] # "off"
  BY <1>1, <1>2, Started
<1>6. /\ FreshInv' /\ LaunchInv'
      /\ \A x, e : Copies(x, e)' <=> Copies(x, e)
      /\ \A e \in Ppd : Feeding(e)' <=> Feeding(e)
  BY <1>4, <1>5, DiskStep
<1>7. At(d)' = At(d) /\ snapshot'[d] = snapshot[d]
  BY <1>4 DEF At
<1>8. PICK i \in Nat : Stream(toPpd[d], At(d), i, snapshot[d]) /\ Stream(u, i, k, snapshot[d])
  BY <1>3 DEF Streams, Piped
<1>9. /\ ~HasKind(toPpd'[n], "syncGet") /\ listenerPc'[n] # "syncEnd"
      /\ ~HasKind(u, "syncEnd")
      /\ \A s \in Sector : snapshot[d][s] \subseteq volume[n][s]
  BY <1>3, <1>4 DEF Streams
<1>10. ASSUME PpdStream(n) PROVE Streams(n, d)'
  <2>1. k \in Sector /\ toPraid'[n] = Append(u, piece) /\ streaming'[n] = k + 1
    BY <1>1, <1>10 DEF PpdStream
  <2>2. piece.kind = "syncPut" /\ snapshot[d][k] \subseteq piece.data
    BY <1>9, <2>1
  <2> DEFINE v == Append(u, piece)
  <2> HIDE DEF piece
  <2>3. ~HasKind(v, "syncEnd")
    BY <1>4, <1>9, <2>2, AppendKinds
  <2>4. Stream(v, i, k + 1, snapshot[d])
    BY <1>4, <1>8, <2>1, <2>2, StreamAppend
  <2> HIDE DEF v, u
  <2>5. k + 1 # None
    BY <1>1, <2>1 DEF Sector
  <2>6. Piped(n, d, streaming[n])'
    BY <1>4, <1>7, <1>8, <2>1, <2>4 DEF Piped, v
  <2>7. Streams(n, d)'
    BY <1>4, <1>9, <2>1, <2>3, <2>5, <2>6 DEF Streams, v
  <2> QED BY <2>7
<1>11. ASSUME PpdStreamEnd(n) PROVE Ended(n, d)'
  <2>1. k = Sectors /\ toPraid'[n] = Append(u, end) /\ streaming'[n] = None
    BY <1>1, <1>11 DEF PpdStreamEnd
  <2>2. end.kind = "syncEnd"
    OBVIOUS
  <2> DEFINE v == Append(u, end)
  <2> HIDE DEF end
  <2>3. HasKind(v, "syncEnd") /\ EndLast(v)
    BY <1>4, <1>9, <2>2, AppendKinds
  <2>4. Stream(v, i, Sectors, snapshot[d])
    BY <1>4, <1>8, <2>1, <2>2, StreamAppend
  <2> HIDE DEF v, u
  <2>5. Piped(n, d, Sectors)'
    BY <1>4, <1>7, <1>8, <2>1, <2>4 DEF Piped, v
  <2>6. Ended(n, d)'
    BY <1>9, <2>1, <2>3, <2>5 DEF Ended, Rest, v
  <2> QED BY <2>6
<1>12. (Streams(n, d) \/ Ended(n, d))'
  BY <1>10, <1>11
<1>13. SourceInv'
  <2> SUFFICES ASSUME NEW x \in Ppd PROVE SourceAt(x)'
    BY DEF SourceInv
  <2>1. SourceAt(x)
    BY <1>1 DEF SourceInv
  <2>2. CASE x # n
    <3>1. \A e \in Ppd : ~Copies(x, e)
      BY <1>3, <2>2, OneCopy
    <3>2. SameGets(toPpd[x], toPpd'[x])
      BY <1>4 DEF SameGets
    <3> QED BY <1>4, <1>6, <2>1, <2>2, <3>1, <3>2, SourceFrame
  <2>3. CASE x = n
    <3>1. \A e \in Ppd : Copies(x, e)' => e = d
      BY <1>3, <1>6, <2>3, OneCopy
    <3> QED BY <1>3, <1>6, <1>12, <2>3, <3>1 DEF SourceAt
  <2> QED BY <2>2, <2>3
<1>14. DestinyInv'
  <2> SUFFICES ASSUME NEW e \in Ppd PROVE DestinyAt(e)'
    BY DEF DestinyInv
  <2>1. DestinyAt(e)
    BY <1>1 DEF DestinyInv
  <2> QED BY <1>4, <1>6, <2>1, DestinyFrame
<1> QED BY <1>6, <1>13, <1>14 DEF CopyInv

\* The worker answers a read.
LEMMA ReadCopy ==
    ASSUME IInv, CopyInv, NEW n \in Ppd, PpdRead(n)
    PROVE  CopyInv'
<1> USE DEF praidVars, storageVars, listVars, queueVars, lockVars, syncVars,
            pfsVars, senderVars, listenerVars, heldVars, threadVars, outsideVars,
            socketVars, ppdVars, copyVars, historyVars
<1>1. /\ FreshInv /\ SourceInv /\ DestinyInv
      /\ toPraid \in [Ppd -> Seq(KnownPraidMessage)]
      /\ jobsQueue \in [Ppd -> SUBSET Known]
  BY CopyTypes DEF CopyInv
<1>2. PICK j \in jobsQueue[n] :
         /\ jobsQueue' = [jobsQueue EXCEPT ![n] = @ \ {j}]
         /\ toPraid' = [toPraid EXCEPT ![n] = Append(@, [kind |-> "answer", job |-> j])]
  BY DEF PpdRead
<1> DEFINE m == [kind |-> "answer", job |-> j]   q == toPraid[n]   r == Append(q, m)
<1>3. /\ UNCHANGED <<entry, ppd, ppdStorages, senderPc, listenerPc, sentTo,
                     replicationStatusActive, syncState>>
      /\ UNCHANGED <<toPpd, streaming, restoring, volume, snapshot>>
      /\ q \in Seq(KnownPraidMessage) /\ toPraid'[n] = r /\ m.kind = "answer"
      /\ \A e \in Ppd \ {n} : toPraid'[e] = toPraid[e] /\ jobsQueue'[e] = jobsQueue[e]
      /\ jobsQueue'[n] \subseteq jobsQueue[n]
  BY <1>1, <1>2 DEF PpdRead
<1> HIDE DEF m
<1>4. senderPc[n] # "off"
  BY <1>1, <1>2, Started
<1>5. /\ FreshInv' /\ LaunchInv'
      /\ \A x, d : Copies(x, d)' <=> Copies(x, d)
      /\ \A d \in Ppd : Feeding(d)' <=> Feeding(d)
  BY <1>3, <1>4, DiskStep
<1>6. SourceInv'
  <2> SUFFICES ASSUME NEW x \in Ppd PROVE SourceAt(x)'
    BY DEF SourceInv
  <2>1. SourceAt(x) /\ SameGets(toPpd[x], toPpd'[x])
    BY <1>1, <1>3 DEF SourceInv, SameGets
  <2>2. SameCopy(toPraid[x], toPraid'[x])
    <3>1. CASE x # n
      BY <1>3, <3>1 DEF SameCopy
    <3>2. CASE x = n
      <4>1. /\ \A kind : HasKind(r, kind) <=> HasKind(q, kind) \/ kind = "answer"
            /\ EndLast(q) => EndLast(r)
        BY <1>3, AppendKinds
      <4>2. \A i, k, held : Stream(q, i, k, held) => Stream(r, i, k, held)
        BY <1>3, StreamAppend
      <4>3. SameCopy(q, r)
        BY <4>1, <4>2 DEF SameCopy
      <4> QED BY <1>3, <3>2, <4>3
    <3> QED BY <3>1, <3>2
  <2> QED BY <1>3, <1>5, <2>1, <2>2, SourceMoves
<1>7. DestinyInv'
  <2> SUFFICES ASSUME NEW d \in Ppd PROVE DestinyAt(d)'
    BY DEF DestinyInv
  <2>1. DestinyAt(d) /\ jobsQueue'[d] \subseteq jobsQueue[d]
    BY <1>1, <1>3 DEF DestinyInv
  <2> QED BY <1>3, <1>5, <2>1, DestinyFrame
<1> QED BY <1>5, <1>6, <1>7 DEF CopyInv

\* The worker writes, on a disk that is not receiving a copy.
LEMMA WriteCopy ==
    ASSUME IInv, CopyInv, NEW n \in Ppd, PpdWrite(n)
    PROVE  CopyInv' /\ \A x \in Ppd : \A s \in Sector : volume[x][s] \subseteq volume'[x][s]
<1> USE DEF praidVars, storageVars, listVars, queueVars, lockVars, syncVars,
            pfsVars, senderVars, listenerVars, heldVars, threadVars, outsideVars,
            socketVars, ppdVars, copyVars, historyVars
<1>1. /\ FreshInv /\ SourceInv /\ DestinyInv
      /\ jobsQueue \in [Ppd -> SUBSET Known]
      /\ volume \in [Ppd -> [Sector -> SUBSET Job]]
  BY CopyTypes DEF CopyInv
<1>2. PICK j \in jobsQueue[n] :
         /\ jobsQueue' = [jobsQueue EXCEPT ![n] = @ \ {j}]
         /\ volume' = [volume EXCEPT ![n][j.sector] = @ \cup {j}]
  BY DEF PpdWrite
<1>3. /\ UNCHANGED <<entry, ppd, ppdStorages, senderPc, listenerPc, sentTo,
                     replicationStatusActive, syncState>>
      /\ UNCHANGED <<toPpd, toPraid, streaming, restoring, snapshot>>
      /\ \A e \in Ppd \ {n} : volume'[e] = volume[e] /\ jobsQueue'[e] = jobsQueue[e]
      /\ jobsQueue'[n] \subseteq jobsQueue[n]
  BY <1>1, <1>2 DEF PpdWrite
<1>4. senderPc[n] # "off"
  BY <1>1, <1>2, Started
<1>5. /\ FreshInv' /\ LaunchInv'
      /\ \A x, d : Copies(x, d)' <=> Copies(x, d)
      /\ \A d \in Ppd : Feeding(d)' <=> Feeding(d)
  BY <1>3, <1>4, DiskStep
<1>6. \A x \in Ppd : \A s \in Sector : volume[x][s] \subseteq volume'[x][s]
  BY <1>1, <1>2
<1>7. ~Receiving(n)
  BY <1>1, <1>2 DEF DestinyInv, DestinyAt
<1>8. SourceInv'
  <2> SUFFICES ASSUME NEW x \in Ppd PROVE SourceAt(x)'
    BY DEF SourceInv
  <2>1. SourceAt(x) /\ SameGets(toPpd[x], toPpd'[x])
    BY <1>1, <1>3 DEF SourceInv, SameGets
  <2> QED BY <1>3, <1>5, <1>6, <2>1, SourceFrame
<1>9. DestinyInv'
  <2> SUFFICES ASSUME NEW d \in Ppd PROVE DestinyAt(d)'
    BY DEF DestinyInv
  <2>1. DestinyAt(d) /\ jobsQueue'[d] \subseteq jobsQueue[d]
    BY <1>1, <1>3 DEF DestinyInv
  <2>2. Receiving(d) => volume'[d] = volume[d]
    BY <1>3, <1>7
  <2> QED BY <1>3, <1>5, <2>1, <2>2, DestinyFrame
<1> QED BY <1>5, <1>6, <1>8, <1>9 DEF CopyInv

-----------------------------------------------------------------------------
(* The copy as a whole.                                                    *)

\* The disks there are from the start are served, and no copy is on.
LEMMA CopyInit == Init => CopyInv
<1> SUFFICES ASSUME Init PROVE CopyInv
  OBVIOUS
<1>1. InitialPpd \in Seq(Ppd)
  BY PraidAssumption DEF PraidAssumption
<1>2. \A i \in DOMAIN InitialPpd : InitialPpd[i] \in Ppd /\ Initially(InitialPpd[i])
  BY <1>1 DEF Initially, ToSet
<1>3. FreshInv
  BY DEF Init, FreshInv
<1>4. \A x, d : ~Copies(x, d)
  BY DEF Init, Copies
<1>5. LaunchInv
  <2>1. /\ ppdStorages = InitialPpd /\ entry.pc = "accept" /\ ~replicationStatusActive
        /\ \A d \in Ppd : Initially(d) => senderPc[d] # "off"
    BY DEF Init
  <2>2. \A i \in DOMAIN ppdStorages : senderPc[ppdStorages[i]] # "off"
    BY <1>2, <2>1
  <2> QED BY <1>4, <2>1, <2>2 DEF LaunchInv
<1>6. \A q : q = <<>> => NoCopy(q) /\ Ordered(q) /\ ~HasKind(q, "syncGet")
  BY DEF NoCopy, HasKind, Ordered
<1>7. SourceInv
  <2> SUFFICES ASSUME NEW x \in Ppd PROVE SourceAt(x)
    BY DEF SourceInv
  <2>1. /\ toPpd[x] = <<>> /\ toPraid[x] = <<>> /\ streaming[x] = None
        /\ listenerPc[x] # "syncEnd"
    BY DEF Init
  <2> QED BY <1>4, <1>6, <2>1 DEF SourceAt, Idle, Rest
<1>8. DestinyInv
  <2> SUFFICES ASSUME NEW d \in Ppd PROVE DestinyAt(d)
    BY DEF DestinyInv
  <2>1. toPpd[d] = <<>> /\ restoring[d] = None
    BY DEF Init
  <2>2. ~Receiving(d)
    BY <1>4, <1>6, <2>1 DEF Receiving, Feeding, HasKind
  <2> QED BY <1>6, <2>1, <2>2 DEF DestinyAt
<1> QED BY <1>3, <1>5, <1>7, <1>8 DEF CopyInv

\* What the steps of the other actions leave alone: a file and its position
\* are moved by the pieces and the end, and the file by a write.
LEMMA FilesMove ==
    ASSUME UpInv, UpInv', IInv, [Next]_vars
    PROVE  /\ \/ restoring' = restoring
              \/ \E n \in Ppd : PpdReceiveSyncPut(n) \/ PpdReceiveSyncEnd(n)
           /\ \/ volume' = volume
              \/ \E n \in Ppd : PpdReceiveSyncPut(n) \/ PpdWrite(n)
<1> USE DEF ppdVars, copyVars, outsideVars
<1>1. CASE EntrypointStep
  BY <1>1 DEF EntrypointStep, SelectMaster, AddPpdStorage, SkipReplication, BeginReplication,
              FireActive, FireSynchronization
<1>2. ASSUME NEW c \in Pfs, AcceptPfs(c) \/ PfsReceive(c) \/ PfsThreadStep(c)
      PROVE  restoring' = restoring /\ volume' = volume
  BY <1>2 DEF AcceptPfs, PfsReceive, PfsThreadStep, SelectForGet, QueueGet, PutNext, PutQueue,
              PutDone
<1>3. ASSUME NEW d \in Ppd, AcceptPpd(d) \/ Sender(d)
      PROVE  restoring' = restoring /\ volume' = volume
  BY <1>3 DEF AcceptPpd, Sender, SenderTest, SenderWait, SenderQuit, SenderSend, SenderRecord,
              SenderCount, CountRace
<1>4. ASSUME NEW d \in Ppd, Listener(d)
      PROVE  restoring' = restoring /\ volume' = volume
  BY <1>4 DEF Listener, ListenerAnswer, ListenerRespond, ListenerUnlist, ListenerSyncPut,
              ListenerSyncEnd, ListenerSyncStop, ListenerBlank, ListenerCollect,
              ListenerRemove, ListenerSelect, ListenerAssign
<1>5. ASSUME NEW d \in Ppd, PpdReceiver(d) \/ PpdWorker(d)
      PROVE  /\ restoring' = restoring \/ PpdReceiveSyncPut(d) \/ PpdReceiveSyncEnd(d)
             /\ volume' = volume \/ PpdReceiveSyncPut(d) \/ PpdWrite(d)
  BY <1>5 DEF PpdReceiver, PpdReceiveJob, PpdReceiveSyncGet, PpdReceiveSyncEnd, PpdStream,
              PpdStreamEnd, PpdWorker, PpdRead, PpdWrite
<1>6. ASSUME NEW d \in Ppd, PpdCrash(d) PROVE FALSE
  <2>1. (ppd[d] # "down")' /\ ppd[d] = "up"
    BY <1>6 DEF UpInv, PpdCrash
  <2> QED BY <1>6, <2>1 DEF PpdCrash, IInv, DiskInv
<1>7. CASE UNCHANGED vars
  BY <1>7 DEF vars
<1> QED BY <1>1, <1>2, <1>3, <1>4, <1>5, <1>6, <1>7 DEF Next

\* Every step leaves the copy in one of its stages.
LEMMA CopyStep ==
    ASSUME UpInv, UpInv', IInv, CopyInv, [Next]_vars
    PROVE  CopyInv'
<1>1. CASE EntrypointStep
  <2>1. CASE SelectMaster \/ AddPpdStorage \/ BeginReplication \/ FireActive
    BY <2>1, EntryCopy
  <2>2. CASE SkipReplication
    BY <2>2, SkipCopy
  <2>3. CASE FireSynchronization
    BY <2>3, FireCopy
  <2> QED BY <1>1, <2>1, <2>2, <2>3 DEF EntrypointStep
<1>2. ASSUME NEW c \in Pfs, AcceptPfs(c) \/ PfsReceive(c) \/ PfsThreadStep(c) PROVE CopyInv'
  BY <1>2, PfsCopy
<1>3. ASSUME NEW d \in Ppd, Sender(d) PROVE CopyInv'
  <2>1. CASE SenderSend(d)
    BY <2>1, SendCopy
  <2>2. CASE CountRace(d)
    BY <2>2, AnswerCopy
  <2>3. CASE SenderTest(d) \/ SenderWait(d) \/ SenderQuit(d) \/ SenderRecord(d) \/ SenderCount(d)
    BY <2>3, SenderCopy
  <2> QED BY <1>3, <2>1, <2>2, <2>3 DEF Sender
<1>4. ASSUME NEW d \in Ppd, Listener(d) PROVE CopyInv'
  <2>1. CASE ListenerAnswer(d)
    BY <2>1, AnswerCopy
  <2>2. CASE ListenerRespond(d) \/ ListenerUnlist(d)
    BY <2>2, RespondCopy
  <2>3. CASE ListenerSyncPut(d)
    BY <2>3, PieceCopy
  <2>4. CASE ListenerSyncEnd(d)
    BY <2>4, EndCopy
  <2>5. CASE ListenerSyncStop(d)
    BY <2>5, StopCopy
  <2>6. ~ListenerBlank(d) /\ ~ListenerCollect(d) /\ ~ListenerRemove(d)
        /\ ~ListenerSelect(d) /\ ~ListenerAssign(d)
    BY DEF ListenerBlank, ListenerCollect, ListenerRemove, ListenerSelect, ListenerAssign, UpInv
  <2> QED BY <1>4, <2>1, <2>2, <2>3, <2>4, <2>5, <2>6 DEF Listener
<1>5. ASSUME NEW d \in Ppd, AcceptPpd(d) \/ PpdReceiver(d) \/ PpdWorker(d) PROVE CopyInv'
  <2>1. CASE AcceptPpd(d)
    BY <2>1, ConnectCopy
  <2>2. CASE PpdReceiveJob(d)
    BY <2>2, JobCopy
  <2>3. CASE PpdReceiveSyncGet(d)
    BY <2>3, AskedCopy
  <2>4. CASE PpdReceiveSyncPut(d)
    BY <2>4, PutCopy
  <2>5. CASE PpdReceiveSyncEnd(d)
    BY <2>5, DoneCopy
  <2>6. ASSUME NEW k, streaming[d] = k, PpdStream(d) \/ PpdStreamEnd(d) PROVE CopyInv'
    BY <2>6, StreamCopy
  <2>7. CASE PpdRead(d)
    BY <2>7, ReadCopy
  <2>8. CASE PpdWrite(d)
    BY <2>8, WriteCopy
  <2> QED BY <1>5, <2>1, <2>2, <2>3, <2>4, <2>5, <2>6, <2>7, <2>8 DEF PpdReceiver, PpdWorker
<1>6. ASSUME NEW d \in Ppd, PpdCrash(d) PROVE FALSE
  <2>1. (ppd[d] # "down")' /\ ppd[d] = "up"
    BY <1>6 DEF UpInv, PpdCrash
  <2> QED BY <1>6, <2>1 DEF PpdCrash, IInv, DiskInv
<1>7. CASE UNCHANGED vars
  <2>1. /\ UNCHANGED <<entry, ppd, ppdStorages, senderPc, listenerPc, sentTo,
                       replicationStatusActive, syncState>>
        /\ UNCHANGED <<toPpd, toPraid, jobsQueue, streaming, restoring, volume, snapshot>>
    BY <1>7 DEF vars, praidVars, storageVars, listVars, syncVars, senderVars, listenerVars,
                threadVars, outsideVars, socketVars, ppdVars, copyVars, historyVars
  <2>2. FreshInv /\ LaunchInv /\ SourceInv /\ DestinyInv
    BY DEF CopyInv
  <2>3. FreshInv'
    BY <2>1, <2>2, FreshFrame
  <2>4. LaunchInv' /\ \A x, d : Copies(x, d)' <=> Copies(x, d)
    BY <2>1, <2>2, LaunchFrame
  <2>5. SourceInv' /\ DestinyInv'
    BY <2>1, <2>2, <2>4, QuietCopy
  <2> QED BY <2>3, <2>4, <2>5 DEF CopyInv
<1> QED BY <1>1, <1>2, <1>3, <1>4, <1>5, <1>6, <1>7 DEF Next

\* While no disk dies: a copy is in one of its stages in every state.
LEMMA CopyInvariant == MaxCrash = 0 /\ Spec => [](UpInv /\ CopyInv)
<1>1. CASE MaxCrash # 0
  BY <1>1
<1>2. CASE MaxCrash = 0
  <2>1. IInv /\ UpInv /\ [Next]_vars => UpInv'
    BY <1>2, UpStep
  <2>2. UpInv /\ UpInv' /\ IInv /\ CopyInv /\ [Next]_vars => CopyInv'
    BY CopyStep
  <2>3. Init => UpInv
    BY DEF Init, UpInv
  <2>4. Init => CopyInv
    BY CopyInit
  <2> QED BY <2>1, <2>2, <2>3, <2>4, Invariant, PTL DEF Spec
<1> QED BY <1>1, <1>2

\* While no disk dies: the destiny of the copy that is on is sent no job, and
\* a disk has no job to do before the copy is on its disk.
THEOREM CopyIsAlone == MaxCrash = 0 /\ Spec => []NoJobsDuringCopy
<1>1. IInv /\ CopyInv => NoJobsDuringCopy
  <2> SUFFICES ASSUME IInv, CopyInv, NEW d \in Ppd
               PROVE  /\ replicationStatusActive /\ syncState.destiny = d /\ entry.pc # "fire"
                            => sentTo[d] = <<>>
                      /\ restoring[d] # None => jobsQueue[d] = {}
    BY DEF NoJobsDuringCopy
  <2>1. ASSUME replicationStatusActive, syncState.destiny = d, entry.pc # "fire"
        PROVE  sentTo[d] = <<>>
    <3>1. PICK x, e \in Ppd : Copies(x, e)
      BY <2>1 DEF CopyInv, LaunchInv
    <3>2. e = d
      BY <2>1, <3>1 DEF Copies
    <3> QED BY <3>1, <3>2 DEF CopyInv, LaunchInv
  <2>2. ASSUME restoring[d] # None PROVE jobsQueue[d] = {}
    BY <2>2 DEF CopyInv, DestinyInv, DestinyAt, Receiving
  <2> QED BY <2>1, <2>2
<1> QED BY <1>1, CopyInvariant, Invariant, PTL

\* While no disk dies: when the end of a copy is received, the new disk has
\* all that its source held when it was asked for its volume.
THEOREM CopyIsComplete == MaxCrash = 0 /\ Spec => CopyComplete
<1> DEFINE Whole == \A d \in Ppd :
                       restoring[d] # None /\ restoring'[d] = None /\ ppd'[d] = "up"
                         => \A s \in Sector : snapshot[d][s] \subseteq volume[d][s]
<1>1. UpInv /\ UpInv' /\ IInv /\ CopyInv /\ [Next]_vars => Whole
  <2> SUFFICES ASSUME UpInv, UpInv', IInv, CopyInv, [Next]_vars, NEW d \in Ppd,
                      restoring[d] # None, restoring'[d] = None, NEW s \in Sector
               PROVE  snapshot[d][s] \subseteq volume[d][s]
    OBVIOUS
  <2>1. PICK n \in Ppd : PpdReceiveSyncPut(n) \/ PpdReceiveSyncEnd(n)
    BY FilesMove
  <2>2. restoring \in [Ppd -> Nat \cup {None}] /\ None \notin Nat /\ Sectors \in Nat
    BY CopyTypes
  <2>3. CASE PpdReceiveSyncPut(n)
    <3>1. restoring' = [restoring EXCEPT ![n] = At(n) + 1] /\ At(n) \in Sector
      BY <2>3, PieceLands
    <3>2. At(n) + 1 \in Nat
      BY <3>1 DEF Sector
    <3> QED BY <2>2, <3>1, <3>2
  <2>4. CASE PpdReceiveSyncEnd(n)
    <3>1. restoring' = [restoring EXCEPT ![n] = None]
      BY <2>4 DEF PpdReceiveSyncEnd
    <3>2. d = n
      BY <2>2, <3>1
    <3>3. restoring[d] = Sectors
      BY <2>4, <3>2, AllLanded
    <3>4. s < restoring[d]
      BY <2>2, <3>3 DEF Sector
    <3> QED BY <3>4 DEF CopyInv, DestinyInv, DestinyAt
  <2> QED BY <2>1, <2>3, <2>4
<1>2. [Whole]_vars <=> Whole \/ UNCHANGED vars
  OBVIOUS
<1> QED BY <1>1, CopyInvariant, Invariant, PTL DEF Spec, CopyComplete

\* While no disk dies: no step takes a write from a disk that has done it; a
\* piece of a copy lands on a sector that holds nothing.
THEOREM CopyUndoesNothing == MaxCrash = 0 /\ Spec => WritesNotUndone
<1> DEFINE Kept == \A d \in Ppd, s \in Sector : volume[d][s] \subseteq volume'[d][s]
<1>1. UpInv /\ UpInv' /\ IInv /\ CopyInv /\ [Next]_vars => Kept
  <2> SUFFICES ASSUME UpInv, UpInv', IInv, CopyInv, [Next]_vars,
                      NEW d \in Ppd, NEW s \in Sector
               PROVE  volume[d][s] \subseteq volume'[d][s]
    OBVIOUS
  <2>1. CASE volume' = volume
    BY <2>1
  <2>2. ASSUME NEW n \in Ppd, PpdReceiveSyncPut(n)
        PROVE  volume[d][s] \subseteq volume'[d][s]
    <3>1. volume \in [Ppd -> [Sector -> SUBSET Job]]
      BY CopyTypes
    <3>2. /\ volume' = [volume EXCEPT ![n] = [volume[n] EXCEPT ![At(n)] = Head(toPpd[n]).data]]
          /\ volume[n][At(n)] = {} /\ At(n) \in Sector
      BY <2>2, PieceLands
    <3> QED BY <3>1, <3>2
  <2>3. ASSUME NEW n \in Ppd, PpdWrite(n) PROVE volume[d][s] \subseteq volume'[d][s]
    BY <2>3, WriteCopy
  <2> QED BY <2>1, <2>2, <2>3, FilesMove
<1> QED BY <1>1, CopyInvariant, Invariant, PTL DEF Spec, WritesNotUndone
=============================================================================
