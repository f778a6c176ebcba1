--------------------------- MODULE PpdPlannerProofs ---------------------------
(***************************************************************************)
(* Invariants of PpdPlanner for any number of connections, requests and    *)
(* sectors, and for both sorting criteria.                                 *)
(***************************************************************************)
EXTENDS PpdPlanner, SequenceTheorems, TLAPS

\* Where each thread stands, and what it has there.
Threads ==
    /\ \A c \in Conn : receiverPc[c] # "receive" => issued[c] # <<>>
    /\ \A c \in Conn : receiverPc[c] \in {"walk", "link"} <=> mutex = c
    /\ mutex # None => aux \in 1 .. Len(jobsQueue)
    /\ \A c \in Conn : receiverPc[c] = "link" => aux < Len(jobsQueue)
    /\ workerPc # "pick" => workerJob \in Job

\* What a walk knows as long as it has compared from one position: the job
\* it has reached stays before the new one, unless it is the first; and the
\* next one does not, once the walk has ended there.
Walked(c) ==
    /\ aux > 1 => seen # {}
    /\ receiverPc[c] = "link" => seen # {}
    /\ \A p \in Sector : seen \subseteq {p} =>
          /\ aux > 1 => StaysBefore(p, jobsQueue[aux], LastRequest(c))
          /\ receiverPc[c] = "link" => ~StaysBefore(p, jobsQueue[aux + 1], LastRequest(c))

WalkInv == \A c \in Conn : mutex = c => Walked(c)

Control == TypeOK /\ Threads

\* The jobs that have got a place, and the request a thread has yet to put.
Placed == ToSet(jobsQueue) \cup InWorkersHands \cup done

Numbered ==
    /\ \A c \in Conn : \A k \in DOMAIN issued[c] :
          issued[c][k].conn = c /\ issued[c][k].n = k
    /\ \A j \in Placed : j.n <= Len(issued[j.conn])
    /\ \A c \in Conn : receiverPc[c] # "receive" =>
          \A j \in Placed : j.conn = c => j.n < Len(issued[c])

OnceInv == Numbered /\ DoneOnce

Sorted(p) ==
    \A i, k \in 1 .. Len(jobsQueue) :
        i < k => Distance(p, jobsQueue[i].sector) <= Distance(p, jobsQueue[k].sector)

\* ShortestSeekFirst, with the list compared at least once when it is long.
SortInv ==
    /\ Len(jobsQueue) > 1 => sortedFor # {}
    /\ algorithm = "sstf" => \A p \in Sector : sortedFor \subseteq {p} => Sorted(p)

\* SectorOrder, likewise.
InOrder ==
    \A i, k \in 1 .. Len(jobsQueue) :
        i < k /\ SameSector(jobsQueue[i], jobsQueue[k]) => jobsQueue[i].n < jobsQueue[k].n

OrderInv ==
    algorithm = "sstf" => \A p \in Sector : sortedFor \subseteq {p} => InOrder

IInv == Control /\ WalkInv /\ OnceInv /\ SortInv /\ OrderInv

-----------------------------------------------------------------------------
(* The two ways of linking a job.                                          *)

LEMMA RangeOfSequence ==
    ASSUME NEW S, NEW q \in Seq(S)
    PROVE  ToSet(q) = {q[i] : i \in 1 .. Len(q)} /\ ToSet(q) \subseteq S
BY DOMAIN q = 1 .. Len(q) DEF ToSet

\* LinkAfter: the jobs up to aux, the new one, and the rest.
LEMMA InsertedAfter ==
    ASSUME NEW S, NEW q \in Seq(S), NEW a \in 1 .. Len(q), NEW e \in S, NEW r,
           r = InsertAt(q, a + 1, e)
    PROVE  /\ r \in Seq(S)
           /\ Len(r) = Len(q) + 1
           /\ \A i \in 1 .. a : r[i] = q[i]
           /\ r[a + 1] = e
           /\ \A i \in a + 2 .. Len(q) + 1 : r[i] = q[i - 1]
<1> DEFINE before == SubSeq(q, 1, a)
           front == before \o <<e>>
           after == SubSeq(q, a + 1, Len(q))
<1>0. Len(q) \in Nat /\ a \in Nat /\ 1 <= a /\ a <= Len(q)
  BY LenProperties
<1>1. /\ before \in Seq(S) /\ Len(before) = a
      /\ \A i \in 1 .. a : before[i] = q[i]
  BY <1>0, SubSeqProperties
<1>2. /\ after \in Seq(S) /\ Len(after) = Len(q) - a
      /\ \A i \in 1 .. Len(q) - a : after[i] = q[a + i]
  BY <1>0, SubSeqProperties
<1>3. r = front \o after
  <2>1. (a + 1) - 1 = a
    BY <1>0
  <2> QED BY <2>1, Zenon DEF InsertAt
<1> HIDE DEF before, after
<1>4. /\ front \in Seq(S) /\ Len(front) = a + 1
      /\ \A i \in 1 .. a : front[i] = q[i]
      /\ front[a + 1] = e
  <2>1. <<e>> \in Seq(S) /\ Len(<<e>>) = 1 /\ <<e>>[1] = e
    OBVIOUS
  <2>2. /\ front \in Seq(S) /\ Len(front) = Len(before) + 1
        /\ \A i \in 1 .. Len(before) + 1 :
              front[i] = IF i <= Len(before) THEN before[i] ELSE <<e>>[i - Len(before)]
    BY <1>1, <2>1, ConcatProperties
  <2> QED BY <1>0, <1>1, <2>1, <2>2
<1> HIDE DEF front
<1>5. /\ r \in Seq(S) /\ Len(r) = Len(front) + Len(after)
      /\ \A i \in 1 .. Len(front) + Len(after) :
            r[i] = IF i <= Len(front) THEN front[i] ELSE after[i - Len(front)]
  <2>1. front \in Seq(S) /\ after \in Seq(S)
    BY <1>2, <1>4
  <2>2. /\ front \o after \in Seq(S)
        /\ Len(front \o after) = Len(front) + Len(after)
        /\ \A i \in 1 .. Len(front) + Len(after) :
              (front \o after)[i]
                = IF i <= Len(front) THEN front[i] ELSE after[i - Len(front)]
    BY <2>1, ConcatProperties
  <2> QED BY <1>3, <2>2
<1>6. Len(r) = Len(q) + 1
  BY <1>0, <1>2, <1>4, <1>5
<1>7. \A i \in 1 .. Len(q) + 1 :
         r[i] = IF i <= a + 1 THEN front[i] ELSE after[i - (a + 1)]
  BY <1>0, <1>2, <1>4, <1>5
<1>8. \A i \in 1 .. a : r[i] = q[i]
  BY <1>0, <1>4, <1>7
<1>9. r[a + 1] = e
  BY <1>0, <1>4, <1>7
<1>10. ASSUME NEW i \in a + 2 .. Len(q) + 1
       PROVE  r[i] = q[i - 1]
  <2>1. r[i] = after[i - (a + 1)]
    BY <1>0, <1>7
  <2>2. i - (a + 1) \in 1 .. Len(q) - a /\ a + (i - (a + 1)) = i - 1
    BY <1>0
  <2> QED BY <1>2, <2>1, <2>2
<1> QED BY <1>5, <1>6, <1>8, <1>9, <1>10

\* LinkInFront: the new job, and the list from aux on.
LEMMA InsertedInFront ==
    ASSUME NEW S, NEW q \in Seq(S), NEW a \in 1 .. Len(q), NEW e \in S, NEW r,
           r = <<e>> \o SubSeq(q, a, Len(q))
    PROVE  /\ r \in Seq(S)
           /\ Len(r) = Len(q) - a + 2
           /\ r[1] = e
           /\ \A i \in 2 .. Len(q) - a + 2 : r[i] = q[a + i - 2]
<1> DEFINE after == SubSeq(q, a, Len(q))
<1>0. Len(q) \in Nat /\ a \in Nat /\ 1 <= a /\ a <= Len(q)
  BY LenProperties
<1>1. /\ after \in Seq(S) /\ Len(after) = Len(q) - a + 1
      /\ \A i \in 1 .. Len(q) - a + 1 : after[i] = q[a + i - 1]
  BY <1>0, SubSeqProperties
<1> HIDE DEF after
<1>2. <<e>> \in Seq(S) /\ Len(<<e>>) = 1 /\ <<e>>[1] = e
  OBVIOUS
<1>3. /\ r \in Seq(S) /\ Len(r) = 1 + Len(after)
      /\ \A i \in 1 .. 1 + Len(after) :
            r[i] = IF i <= 1 THEN <<e>>[i] ELSE after[i - 1]
  BY <1>1, <1>2, ConcatProperties DEF after
<1>4. Len(r) = Len(q) - a + 2
  BY <1>0, <1>1, <1>3
<1>5. r[1] = e
  BY <1>0, <1>1, <1>2, <1>3
<1>6. ASSUME NEW i \in 2 .. Len(q) - a + 2
      PROVE  r[i] = q[a + i - 2]
  <2>1. r[i] = after[i - 1]
    BY <1>0, <1>1, <1>3
  <2>2. i - 1 \in 1 .. Len(q) - a + 1 /\ a + (i - 1) - 1 = a + i - 2
    BY <1>0
  <2> QED BY <1>1, <2>1, <2>2
<1> QED BY <1>3, <1>4, <1>5, <1>6

\* Neither loses a job, the second if it starts from the first place.
LEMMA InsertedAfterKeeps ==
    ASSUME NEW S, NEW q \in Seq(S), NEW a \in 1 .. Len(q), NEW e \in S, NEW r,
           r = InsertAt(q, a + 1, e)
    PROVE  ToSet(r) = ToSet(q) \cup {e}
<1>0. Len(q) \in Nat /\ a \in Nat /\ 1 <= a /\ a <= Len(q)
  BY LenProperties
<1>1. /\ r \in Seq(S) /\ Len(r) = Len(q) + 1
      /\ \A i \in 1 .. a : r[i] = q[i]
      /\ r[a + 1] = e
      /\ \A i \in a + 2 .. Len(q) + 1 : r[i] = q[i - 1]
  BY ONLY q \in Seq(S), a \in 1 .. Len(q), e \in S, r = InsertAt(q, a + 1, e), InsertedAfter, SMTT(60)
<1>2. ToSet(q) = {q[i] : i \in 1 .. Len(q)} /\ ToSet(r) = {r[i] : i \in 1 .. Len(r)}
  BY <1>1, RangeOfSequence
<1>3. ASSUME NEW i \in 1 .. Len(r)
      PROVE  r[i] \in ToSet(q) \cup {e}
  <2>1. CASE i <= a
    <3>1. i \in 1 .. a /\ i \in 1 .. Len(q)
      BY <1>0, <1>1, <2>1
    <3> QED BY <1>1, <1>2, <3>1
  <2>2. CASE i = a + 1
    BY <1>1, <2>2
  <2>3. CASE i > a + 1
    <3>1. i \in a + 2 .. Len(q) + 1 /\ i - 1 \in 1 .. Len(q)
      BY <1>0, <1>1, <2>3
    <3> QED BY <1>1, <1>2, <3>1
  <2> QED BY <1>0, <1>1, <2>1, <2>2, <2>3
<1>4. e \in ToSet(r)
  <2>1. a + 1 \in 1 .. Len(r)
    BY <1>0, <1>1
  <2> QED BY <1>1, <1>2, <2>1
<1>5. ASSUME NEW i \in 1 .. Len(q)
      PROVE  q[i] \in ToSet(r)
  <2>1. CASE i <= a
    <3>1. i \in 1 .. a /\ i \in 1 .. Len(r)
      BY <1>0, <1>1, <2>1
    <3> QED BY <1>1, <1>2, <3>1
  <2>2. CASE i > a
    <3>1. i + 1 \in a + 2 .. Len(q) + 1 /\ i + 1 \in 1 .. Len(r) /\ (i + 1) - 1 = i
      BY <1>0, <1>1, <2>2
    <3> QED BY <1>1, <1>2, <3>1
  <2> QED BY <1>0, <2>1, <2>2
<1> QED BY <1>2, <1>3, <1>4, <1>5

LEMMA InsertedInFrontKeeps ==
    ASSUME NEW S, NEW q \in Seq(S), NEW e \in S, NEW r \in Seq(S),
           Len(r) = Len(q) + 1, r[1] = e,
           \A i \in 2 .. Len(q) + 1 : r[i] = q[i - 1]
    PROVE  ToSet(r) = ToSet(q) \cup {e}
<1>0. Len(q) \in Nat
  BY LenProperties
<1>1. r \in Seq(S) /\ r[1] = e
  OBVIOUS
<1>2. ToSet(q) = {q[i] : i \in 1 .. Len(q)} /\ ToSet(r) = {r[i] : i \in 1 .. Len(r)}
  BY ONLY q \in Seq(S), <1>1, RangeOfSequence
<1>3. Len(r) = Len(q) + 1 /\ \A i \in 2 .. Len(r) : i - 1 \in 1 .. Len(q) /\ r[i] = q[i - 1]
  BY <1>0
<1>4. 1 \in 1 .. Len(r)
  BY ONLY <1>0, <1>3
<1>5. e \in ToSet(r)
  BY ONLY <1>1, <1>2, <1>4
<1>6. ASSUME NEW i \in 1 .. Len(q)
      PROVE  q[i] \in ToSet(r)
  <2>1. i + 1 \in 2 .. Len(r) /\ i + 1 \in 1 .. Len(r) /\ (i + 1) - 1 = i
    BY <1>0, <1>3
  <2> QED BY <1>2, <1>3, <2>1
<1>7. ASSUME NEW i \in 1 .. Len(r)
      PROVE  r[i] \in ToSet(q) \cup {e}
  <2>1. CASE i = 1
    BY ONLY <1>1, <2>1
  <2>2. CASE i # 1
    <3>1. i \in 2 .. Len(r)
      BY <1>0, <1>3, <2>2
    <3> QED BY <1>2, <1>3, <3>1
  <2> QED BY <2>1, <2>2
<1>8. /\ \A x \in ToSet(r) : x \in ToSet(q) \cup {e}
      /\ \A x \in ToSet(q) \cup {e} : x \in ToSet(r)
  BY ONLY <1>2, <1>5, <1>6, <1>7, Zenon
<1> QED BY ONLY <1>8

\* Either way the list gains the new job only, and no job twice.
LEMMA Linked ==
    ASSUME NEW S, NEW q \in Seq(S), NEW a \in 1 .. Len(q), NEW e \in S, NEW r,
           \/ r = InsertAt(q, a + 1, e)
           \/ r = <<e>> \o SubSeq(q, a, Len(q))
    PROVE  /\ r \in Seq(S)
           /\ Len(r) > 1
           /\ ToSet(r) \subseteq ToSet(q) \cup {e}
           /\ e \notin ToSet(q) /\ IsInjective(q) => IsInjective(r)
<1> DEFINE Place(i) == IF r = InsertAt(q, a + 1, e)
                       THEN IF i <= a THEN i ELSE i - 1
                       ELSE a + i - 2
           New == IF r = InsertAt(q, a + 1, e) THEN a + 1 ELSE 1
<1>0. Len(q) \in Nat /\ a \in Nat /\ 1 <= a /\ a <= Len(q)
  BY LenProperties
<1>1. /\ r \in Seq(S) /\ Len(r) \in Nat /\ Len(r) > 1
      /\ New \in 1 .. Len(r) /\ r[New] = e
      /\ \A i \in 1 .. Len(r) : i # New => Place(i) \in 1 .. Len(q) /\ r[i] = q[Place(i)]
      /\ \A i, k \in 1 .. Len(r) : i # New /\ k # New /\ i # k => Place(i) # Place(k)
  <2>1. CASE r = InsertAt(q, a + 1, e)
    <3>1. /\ r \in Seq(S) /\ Len(r) = Len(q) + 1
          /\ \A i \in 1 .. a : r[i] = q[i]
          /\ r[a + 1] = e
          /\ \A i \in a + 2 .. Len(q) + 1 : r[i] = q[i - 1]
      BY ONLY q \in Seq(S), a \in 1 .. Len(q), e \in S, <2>1, InsertedAfter, SMTT(60)
    <3>2. New = a + 1 /\ \A i \in 1 .. Len(r) : Place(i) = IF i <= a THEN i ELSE i - 1
      BY <2>1
    <3> HIDE DEF New, Place
    <3> QED BY <1>0, <3>1, <3>2
  <2>2. CASE r # InsertAt(q, a + 1, e)
    <3>0. r = <<e>> \o SubSeq(q, a, Len(q))
      BY <2>2
    <3>1. /\ r \in Seq(S) /\ Len(r) = Len(q) - a + 2
          /\ r[1] = e
          /\ \A i \in 2 .. Len(q) - a + 2 : r[i] = q[a + i - 2]
      BY ONLY q \in Seq(S), a \in 1 .. Len(q), e \in S, <3>0, InsertedInFront
    <3>2. New = 1 /\ \A i \in 1 .. Len(r) : Place(i) = a + i - 2
      BY <2>2
    <3> HIDE DEF New, Place
    <3> QED BY <1>0, <3>1, <3>2
  <2> QED BY <2>1, <2>2
<1> HIDE DEF New, Place
<1>2. ToSet(r) \subseteq ToSet(q) \cup {e}
  <2>1. ToSet(r) = {r[i] : i \in 1 .. Len(r)} /\ ToSet(q) = {q[i] : i \in 1 .. Len(q)}
    BY <1>1, RangeOfSequence
  <2> QED BY <1>1, <2>1
<1>3. ASSUME e \notin ToSet(q), IsInjective(q)
      PROVE  IsInjective(r)
  <2>1. \A i \in 1 .. Len(q) : q[i] # e
    BY <1>3, RangeOfSequence
  <2>2. \A i, k \in 1 .. Len(q) : q[i] = q[k] => i = k
    BY <1>3, DOMAIN q = 1 .. Len(q) DEF IsInjective
  <2>3. ASSUME NEW i \in 1 .. Len(r), NEW k \in 1 .. Len(r), r[i] = r[k]
        PROVE  i = k
    BY <1>1, <2>1, <2>2, <2>3
  <2> QED BY <1>1, <2>3, DOMAIN r = 1 .. Len(r) DEF IsInjective
<1> QED BY <1>1, <1>2, <1>3

-----------------------------------------------------------------------------
(* Where the threads stand.                                                *)

LEMMA LastRequestIsJob ==
    ASSUME TypeOK, NEW c \in Conn, issued[c] # <<>>
    PROVE  LastRequest(c) \in Job
<1>1. issued[c] \in Seq(Job)
  BY DEF TypeOK
<1>2. Len(issued[c]) \in 1 .. Len(issued[c])
  BY <1>1
<1> QED BY <1>1, <1>2 DEF LastRequest

LEMMA InitControl == Init => Control
<1> SUFFICES ASSUME Init PROVE Control
  OBVIOUS
<1> USE PlannerAssumption DEF PlannerAssumption, Init
<1>1. TypeOK
  BY DEF TypeOK, Sector
<1>2. Threads
  BY DEF Threads
<1> QED BY <1>1, <1>2 DEF Control

\* What Link does to the list, whichever way it goes.
LEMMA LinkList ==
    ASSUME Control, NEW c \in Conn, Link(c)
    PROVE  /\ mutex = c
           /\ aux \in 1 .. Len(jobsQueue)
           /\ LastRequest(c) \in Job
           /\ jobsQueue' \in Seq(Job)
           /\ Len(jobsQueue') > 1
           /\ ToSet(jobsQueue') \subseteq ToSet(jobsQueue) \cup {LastRequest(c)}
           /\ LastRequest(c) \notin ToSet(jobsQueue) /\ IsInjective(jobsQueue)
                => IsInjective(jobsQueue')
<1>1. mutex = c /\ aux \in 1 .. Len(jobsQueue) /\ issued[c] # <<>>
  BY PlannerAssumption DEF Control, Threads, Link, Linking, PlannerAssumption
<1>2. LastRequest(c) \in Job /\ jobsQueue \in Seq(Job)
  BY <1>1, LastRequestIsJob DEF Control, TypeOK
<1>3. \/ jobsQueue' = InsertAt(jobsQueue, aux + 1, LastRequest(c))
      \/ jobsQueue' = <<LastRequest(c)>> \o SubSeq(jobsQueue, aux, Len(jobsQueue))
  BY DEF Link, LinkAfter, LinkInFront
<1> DEFINE q == jobsQueue
           a == aux
           e == LastRequest(c)
           r == jobsQueue'
<1>4. /\ q \in Seq(Job) /\ a \in 1 .. Len(q) /\ e \in Job
      /\ \/ r = InsertAt(q, a + 1, e)
         \/ r = <<e>> \o SubSeq(q, a, Len(q))
  BY <1>1, <1>2, <1>3
<1> HIDE DEF q, a, e, r
<1>5. /\ r \in Seq(Job)
      /\ Len(r) > 1
      /\ ToSet(r) \subseteq ToSet(q) \cup {e}
      /\ e \notin ToSet(q) /\ IsInjective(q) => IsInjective(r)
  BY ONLY <1>4, Linked, Zenon
<1> QED BY <1>1, <1>2, <1>5 DEF q, a, e, r

LEMMA ControlStep ==
    ASSUME Control, [Next]_vars
    PROVE  Control'
<1> USE PlannerAssumption DEF PlannerAssumption
<1>0. /\ jobsQueue \in Seq(Job) /\ Len(jobsQueue) \in Nat
      /\ issued \in [Conn -> Seq(Job)] /\ posicionActual \in Sector
      /\ seen \in SUBSET Sector /\ sortedFor \in SUBSET Sector
  BY LenProperties DEF Control, TypeOK
<1>1. CASE UNCHANGED vars
  BY <1>1 DEF vars, receiverVars, workerVars, listVars, Control, TypeOK, Threads
<1>2. ASSUME NEW c \in Conn, Receive(c)
      PROVE  Control'
  <2> USE <1>2 DEF Receive, workerVars, listVars
  <2>1. PICK r \in Requests :
           issued' = [issued EXCEPT ![c] =
              Append(@, [conn |-> c, n |-> Len(@) + 1, op |-> r.op, sector |-> r.sector])]
    OBVIOUS
  <2> DEFINE j == [conn |-> c, n |-> Len(issued[c]) + 1, op |-> r.op, sector |-> r.sector]
  <2>2. issued[c] \in Seq(Job) /\ Len(issued[c]) \in Nat
    BY <1>0, LenProperties
  <2>3. j \in Job
    <3>1. r \in [op : {"get", "put"}, sector : Sector]
      OBVIOUS
    <3>2. r.op \in {"get", "put"} /\ r.sector \in Sector
      BY <3>1
    <3> QED BY <2>2, <3>2 DEF Job
  <2> HIDE DEF j
  <2>4. Append(issued[c], j) \in Seq(Job) /\ Append(issued[c], j) # <<>>
    BY <2>2, <2>3, AppendProperties
  <2>5. issued' = [issued EXCEPT ![c] = Append(issued[c], j)]
    BY <2>1 DEF j
  <2>6. issued' \in [Conn -> Seq(Job)]
    BY <1>0, <2>4, <2>5
  <2>7. TypeOK'
    BY <2>6 DEF Control, TypeOK
  <2>8. Threads'
    BY <1>0, <2>4, <2>5 DEF Control, TypeOK, Threads
  <2> QED BY <2>7, <2>8 DEF Control
<1>3. ASSUME NEW c \in Conn, PutFirst(c)
      PROVE  Control'
  <2> USE <1>3 DEF PutFirst, workerVars
  <2>1. LastRequest(c) \in Job
    BY LastRequestIsJob DEF Control, Threads
  <2>2. jobsQueue' \in Seq(Job) /\ Len(jobsQueue') = 1
    BY <2>1
  <2>3. TypeOK'
    BY <2>2 DEF Control, TypeOK
  <2>4. Threads'
    BY DEF Control, TypeOK, Threads
  <2> QED BY <2>3, <2>4 DEF Control
<1>4. ASSUME NEW c \in Conn, Put(c)
      PROVE  Control'
  <2> USE <1>4 DEF Put, workerVars, listVars
  <2>1. Len(jobsQueue) > 0
    BY <1>0
  <2>2. TypeOK'
    BY DEF Control, TypeOK
  <2>3. Threads'
    BY <1>0, <2>1 DEF Control, TypeOK, Threads
  <2> QED BY <2>2, <2>3 DEF Control
<1>5. ASSUME NEW c \in Conn, Walk(c)
      PROVE  Control'
  <2> USE <1>5 DEF Walk, workerVars, listVars
  <2>1. mutex = c /\ aux \in 1 .. Len(jobsQueue)
    BY DEF Control, Threads
  <2>2. TypeOK'
    BY <1>0, <2>1 DEF Control, TypeOK
  <2>3. Threads'
    BY <1>0, <2>1 DEF Control, TypeOK, Threads
  <2> QED BY <2>2, <2>3 DEF Control
<1>6. ASSUME NEW c \in Conn, WalkEnd(c)
      PROVE  Control'
  <2> USE <1>6 DEF WalkEnd, workerVars, listVars
  <2>1. mutex = c /\ aux \in 1 .. Len(jobsQueue)
    BY DEF Control, Threads
  <2>2. TypeOK'
    BY <1>0, <2>1 DEF Control, TypeOK
  <2>3. Threads'
    BY <1>0, <2>1 DEF Control, TypeOK, Threads
  <2> QED BY <2>2, <2>3 DEF Control
<1>7. ASSUME NEW c \in Conn, Link(c)
      PROVE  Control'
  <2>1. /\ mutex = c /\ jobsQueue' \in Seq(Job) /\ aux \in 1 .. Len(jobsQueue)
    BY <1>7, LinkList
  <2> USE <1>7 DEF Link, workerVars
  <2>2. Compared \in SUBSET Sector
    BY <1>0 DEF Compared
  <2>3. dropped' \in SUBSET Job
    <3>1. ASSUME NEW i \in 1 .. aux - 1 PROVE jobsQueue[i] \in Job
      BY <1>0, <2>1
    <3> QED BY <3>1 DEF LinkAfter, LinkInFront, Control, TypeOK
  <2>4. sortedFor' \in SUBSET Sector
    BY <1>0, <2>2
  <2>5. TypeOK'
    BY <2>1, <2>3, <2>4 DEF Control, TypeOK
  <2>6. Threads'
    BY <2>1 DEF Control, TypeOK, Threads
  <2> QED BY <2>5, <2>6 DEF Control
<1>8. CASE PickFromQueue
  <2> USE <1>8 DEF PickFromQueue, receiverVars
  <2>1. Head(jobsQueue) \in Job /\ Tail(jobsQueue) \in Seq(Job)
    BY <1>0, HeadTailProperties
  <2>2. TypeOK'
    BY <2>1 DEF Control, TypeOK
  <2>3. Threads'
    BY <2>1 DEF Control, TypeOK, Threads
  <2> QED BY <2>2, <2>3 DEF Control
<1>9. CASE DoJob
  <2> USE <1>9 DEF DoJob, receiverVars, listVars
  <2>1. workerJob \in Job
    BY DEF Control, Threads
  <2>2. TypeOK'
    BY <2>1 DEF Control, TypeOK
  <2>3. Threads'
    BY <2>1 DEF Control, TypeOK, Threads
  <2> QED BY <2>2, <2>3 DEF Control
<1>10. CASE MoveHead
  <2> USE <1>10 DEF MoveHead, receiverVars, listVars
  <2>1. workerJob.sector \in Sector
    BY DEF Control, Threads, Job
  <2>2. TypeOK'
    BY <2>1 DEF Control, TypeOK
  <2>3. Threads'
    BY DEF Control, TypeOK, Threads
  <2> QED BY <2>2, <2>3 DEF Control
<1> QED BY <1>1, <1>2, <1>3, <1>4, <1>5, <1>6, <1>7, <1>8, <1>9, <1>10
        DEF Next, Insertion, Worker

-----------------------------------------------------------------------------
(* What a walk knows.                                                      *)

LEMMA WalkInvStep ==
    ASSUME Control, WalkInv, [Next]_vars
    PROVE  WalkInv'
<1> USE PlannerAssumption DEF PlannerAssumption
<1>0. /\ jobsQueue \in Seq(Job) /\ Len(jobsQueue) \in Nat
      /\ issued \in [Conn -> Seq(Job)] /\ posicionActual \in Sector
  BY LenProperties DEF Control, TypeOK
<1> SUFFICES ASSUME NEW d \in Conn, (mutex = d)'
             PROVE  Walked(d)'
  BY DEF WalkInv
<1>1. CASE UNCHANGED <<algorithm, jobsQueue, issued, mutex, receiverPc, aux, seen>>
  BY <1>1 DEF WalkInv, Walked, StaysBefore, LastRequest
<1>2. ASSUME NEW c \in Conn, Receive(c)
      PROVE  Walked(d)'
  <2>1. mutex = d /\ c # d
    BY <1>2 DEF Receive, Control, Threads
  <2>2. UNCHANGED <<algorithm, jobsQueue, aux, seen>>
    BY <1>2 DEF Receive, listVars
  <2>3. UNCHANGED <<issued[d], receiverPc[d]>>
    BY <1>2, <2>1 DEF Receive, Control, TypeOK
  <2> QED BY <2>1, <2>2, <2>3 DEF WalkInv, Walked, StaysBefore, LastRequest
<1>3. ASSUME NEW c \in Conn, PutFirst(c)
      PROVE  Walked(d)'
  BY <1>3 DEF PutFirst
<1>4. ASSUME NEW c \in Conn, Put(c)
      PROVE  Walked(d)'
  BY <1>4 DEF Put, Walked, Control, TypeOK
<1>5. ASSUME NEW c \in Conn, Walk(c)
      PROVE  Walked(d)'
  <2>1. mutex = c /\ c = d /\ aux \in 1 .. Len(jobsQueue)
    BY <1>5 DEF Walk, Control, Threads
  <2>2. /\ UNCHANGED <<algorithm, jobsQueue, issued, receiverPc>>
        /\ aux' = aux + 1 /\ seen' = seen \cup {posicionActual}
        /\ receiverPc[d] = "walk"
        /\ StaysBefore(posicionActual, jobsQueue[aux + 1], LastRequest(d))
    BY <1>5, <2>1 DEF Walk, listVars
  <2> QED BY <2>1, <2>2 DEF Walked, StaysBefore, LastRequest
<1>6. ASSUME NEW c \in Conn, WalkEnd(c)
      PROVE  Walked(d)'
  <2>1. mutex = c /\ c = d /\ aux \in 1 .. Len(jobsQueue)
    BY <1>6 DEF WalkEnd, Control, Threads
  <2>2. /\ UNCHANGED <<algorithm, jobsQueue, issued, aux>>
        /\ seen' = seen \cup {posicionActual}
        /\ ~StaysBefore(posicionActual, jobsQueue[aux + 1], LastRequest(d))
    BY <1>6, <2>1 DEF WalkEnd, listVars
  <2> QED BY <2>1, <2>2 DEF WalkInv, Walked, StaysBefore, LastRequest
<1>7. ASSUME NEW c \in Conn, Link(c)
      PROVE  Walked(d)'
  BY <1>7 DEF Link
<1>8. CASE PickFromQueue
  BY <1>8 DEF PickFromQueue, receiverVars
<1>9. CASE DoJob \/ MoveHead
  BY <1>1, <1>9 DEF DoJob, MoveHead, receiverVars, listVars
<1>10. CASE UNCHANGED vars
  BY <1>1, <1>10 DEF vars, receiverVars, listVars
<1> QED BY <1>2, <1>3, <1>4, <1>5, <1>6, <1>7, <1>8, <1>9, <1>10
        DEF Next, Insertion, Worker

\* Where the head has stood still since the walk began, a job linked in
\* front is linked in front of the whole list.
LEMMA StillInFront ==
    ASSUME Control, WalkInv, NEW c \in Conn, Linking(c), LinkInFront(c),
           seen \subseteq {posicionActual}
    PROVE  aux = 1
<1>1. mutex = c /\ aux \in 1 .. Len(jobsQueue)
  BY PlannerAssumption DEF Linking, Control, Threads, PlannerAssumption
<1>2. Walked(c) /\ posicionActual \in Sector
  BY <1>1 DEF WalkInv, Control, TypeOK
<1>3. ~(aux > 1)
  BY <1>2 DEF Walked, LinkInFront
<1> QED BY <1>1, <1>3

-----------------------------------------------------------------------------
(* No job twice.                                                           *)

\* The request a thread has yet to put is the last of its connection.
LEMMA NotYetPlaced ==
    ASSUME Control, Numbered, NEW c \in Conn, receiverPc[c] # "receive"
    PROVE  /\ LastRequest(c) \in Job
           /\ LastRequest(c).conn = c
           /\ LastRequest(c).n = Len(issued[c])
           /\ LastRequest(c) \notin Placed
<1>1. issued[c] # <<>> /\ issued[c] \in Seq(Job)
  BY DEF Control, Threads, TypeOK
<1>2. Len(issued[c]) \in DOMAIN issued[c] /\ Len(issued[c]) \in Nat
  BY <1>1, LenProperties
<1>3. LastRequest(c) \in Job
  BY <1>1, LastRequestIsJob DEF Control
<1>4. LastRequest(c).conn = c /\ LastRequest(c).n = Len(issued[c])
  BY <1>2 DEF Numbered, LastRequest
<1>5. LastRequest(c) \notin Placed
  <2> DEFINE e == LastRequest(c)
  <2> HIDE DEF e
  <2>1. e \notin Placed
    BY <1>2, <1>4 DEF Numbered, e
  <2> QED BY <2>1 DEF e
<1> QED BY <1>3, <1>4, <1>5

LEMMA OnceStep ==
    ASSUME Control, OnceInv, [Next]_vars
    PROVE  OnceInv'
<1> USE PlannerAssumption DEF PlannerAssumption
<1>0. /\ jobsQueue \in Seq(Job) /\ Len(jobsQueue) \in Nat
      /\ issued \in [Conn -> Seq(Job)]
      /\ \A c \in Conn : issued[c] \in Seq(Job) /\ Len(issued[c]) \in Nat
      /\ Placed \subseteq Job
  <2>1. jobsQueue \in Seq(Job) /\ issued \in [Conn -> Seq(Job)]
    BY DEF Control, TypeOK
  <2>2. Len(jobsQueue) \in Nat /\ \A c \in Conn : Len(issued[c]) \in Nat
    BY <2>1, LenProperties
  <2>3. ToSet(jobsQueue) \subseteq Job
    BY <2>1, RangeOfSequence
  <2>4. InWorkersHands \subseteq Job
    BY DEF InWorkersHands, Control, Threads
  <2> QED BY <2>1, <2>2, <2>3, <2>4 DEF Placed, Control, TypeOK
\* Who has put nothing new leaves every request as it was.
<1>1. ASSUME UNCHANGED <<issued, receiverPc>>, Placed' \subseteq Placed
      PROVE  Numbered'
  BY <1>1 DEF OnceInv, Numbered, LastRequest
\* A request that gets its place is nobody else's.
<1>2. ASSUME NEW c \in Conn, receiverPc[c] # "receive",
             receiverPc' = [receiverPc EXCEPT ![c] = "receive"],
             UNCHANGED issued, Placed' \subseteq Placed \cup {LastRequest(c)}
      PROVE  Numbered'
  <2> DEFINE j == LastRequest(c)
  <2>1. j \in Job /\ j.conn = c /\ j.n = Len(issued[c])
    BY <1>2, NotYetPlaced DEF OnceInv
  <2> HIDE DEF j
  <2>3. Placed' \subseteq Placed \cup {j}
    BY <1>2 DEF j
  <2>4. \A i \in Placed' : i.n <= Len(issued'[i.conn])
    BY <1>0, <1>2, <2>1, <2>3 DEF OnceInv, Numbered
  <2>5. ASSUME NEW d \in Conn, receiverPc'[d] # "receive", NEW i \in Placed', i.conn = d
        PROVE  i.n < Len(issued'[d])
    <3>1. d # c /\ receiverPc[d] # "receive"
      BY <1>2, <2>5 DEF Control, TypeOK
    <3> QED BY <1>2, <2>1, <2>3, <2>5, <3>1 DEF OnceInv, Numbered
  <2>6. \A d \in Conn : \A k \in DOMAIN issued'[d] :
           issued'[d][k].conn = d /\ issued'[d][k].n = k
    BY <1>2 DEF OnceInv, Numbered
  <2> QED BY <2>4, <2>5, <2>6 DEF Numbered
<1>3. CASE UNCHANGED <<jobsQueue, workerPc, workerJob, done, issued, receiverPc>>
  BY <1>3 DEF OnceInv, Numbered, DoneOnce, Placed, InWorkersHands, LastRequest
<1>4. ASSUME NEW c \in Conn, Receive(c)
      PROVE  OnceInv'
  <2> USE <1>4 DEF Receive, workerVars, listVars
  <2>1. PICK r \in Requests :
           issued' = [issued EXCEPT ![c] =
              Append(@, [conn |-> c, n |-> Len(@) + 1, op |-> r.op, sector |-> r.sector])]
    OBVIOUS
  <2> DEFINE n == Len(issued[c]) + 1
             j == [conn |-> c, n |-> n, op |-> r.op, sector |-> r.sector]
  <2>2. j.conn = c /\ j.n = n
    OBVIOUS
  <2>3. n \in Nat /\ n > Len(issued[c])
    BY <1>0
  <2>4. issued' = [issued EXCEPT ![c] = Append(issued[c], j)]
    BY <2>1
  <2> HIDE DEF j, n
  <2>5. /\ Len(Append(issued[c], j)) = n
        /\ \A k \in 1 .. Len(issued[c]) : Append(issued[c], j)[k] = issued[c][k]
        /\ Append(issued[c], j)[n] = j
        /\ DOMAIN Append(issued[c], j) = 1 .. n
    BY <1>0, <2>3 DEF n
  <2>6. \A d \in Conn : issued'[d] = IF d = c THEN Append(issued[c], j) ELSE issued[d]
    BY <1>0, <2>4
  <2>7. Placed' = Placed /\ DoneOnce'
    BY DEF Placed, InWorkersHands, OnceInv, DoneOnce
  <2>8. \A d \in Conn : \A k \in DOMAIN issued'[d] :
           issued'[d][k].conn = d /\ issued'[d][k].n = k
    <3>1. ASSUME NEW k \in 1 .. n
          PROVE  Append(issued[c], j)[k].conn = c /\ Append(issued[c], j)[k].n = k
      <4>1. CASE k = n
        BY <2>2, <2>5, <4>1
      <4>2. CASE k # n
        <5>1. k \in 1 .. Len(issued[c]) /\ k \in DOMAIN issued[c]
          BY <1>0, <2>3, <4>2 DEF n
        <5> QED BY <2>5, <5>1 DEF OnceInv, Numbered
      <4> QED BY <4>1, <4>2
    <3> QED BY <2>5, <2>6, <3>1 DEF OnceInv, Numbered
  <2>9. \A i \in Placed' : i.n <= Len(issued'[i.conn])
    <3> SUFFICES ASSUME NEW i \in Placed
                 PROVE  i.n <= Len(issued'[i.conn])
      BY <2>7
    <3>1. i.n \in Nat /\ i.conn \in Conn /\ i.n <= Len(issued[i.conn])
      BY <1>0 DEF Job, OnceInv, Numbered
    <3> QED BY <1>0, <2>3, <2>5, <2>6, <3>1
  <2>10. ASSUME NEW d \in Conn, receiverPc'[d] # "receive", NEW i \in Placed', i.conn = d
         PROVE  i.n < Len(issued'[d])
    <3>0. i \in Placed /\ i.n \in Nat /\ i.n <= Len(issued[d])
      BY <1>0, <2>7, <2>10 DEF Job, OnceInv, Numbered
    <3>1. CASE d = c
      BY <1>0, <2>3, <2>5, <2>6, <3>0, <3>1
    <3>2. CASE d # c
      <4>1. receiverPc[d] # "receive"
        BY <2>10, <3>2 DEF Control, TypeOK
      <4> QED BY <2>6, <2>10, <3>0, <3>2, <4>1 DEF OnceInv, Numbered
    <3> QED BY <3>1, <3>2
  <2> QED BY <2>7, <2>8, <2>9, <2>10 DEF OnceInv, Numbered
<1>5. ASSUME NEW c \in Conn, PutFirst(c)
      PROVE  OnceInv'
  <2> USE <1>5 DEF PutFirst, workerVars
  <2>1. jobsQueue' = <<LastRequest(c)>> /\ ToSet(jobsQueue') = {LastRequest(c)}
    BY DEF ToSet
  <2>2. InWorkersHands' = InWorkersHands
    BY DEF InWorkersHands
  <2>3. LastRequest(c) \notin Placed
    BY NotYetPlaced DEF OnceInv
  <2>4. Placed' \subseteq Placed \cup {LastRequest(c)}
    BY <2>1, <2>2 DEF Placed
  <2>5. Numbered'
    BY <1>2, <2>4
  <2>6. DoneOnce'
    BY <2>1, <2>2, <2>3 DEF DoneOnce, OnceInv, Placed, IsInjective
  <2> QED BY <2>5, <2>6 DEF OnceInv
<1>6. ASSUME NEW c \in Conn, Put(c)
      PROVE  OnceInv'
  <2> USE <1>6 DEF Put, workerVars, listVars
  <2>1. Placed' = Placed /\ DoneOnce'
    BY DEF Placed, InWorkersHands, OnceInv, DoneOnce
  <2>2. \A d \in Conn : receiverPc'[d] # "receive" => receiverPc[d] # "receive"
    BY DEF Control, TypeOK
  <2> QED BY <2>1, <2>2 DEF OnceInv, Numbered, LastRequest
<1>7. ASSUME NEW c \in Conn, WalkEnd(c)
      PROVE  OnceInv'
  <2> USE <1>7 DEF WalkEnd, workerVars, listVars
  <2>1. Placed' = Placed /\ DoneOnce'
    BY DEF Placed, InWorkersHands, OnceInv, DoneOnce
  <2>2. \A d \in Conn : receiverPc'[d] # "receive" => receiverPc[d] # "receive"
    BY DEF Control, TypeOK
  <2> QED BY <2>1, <2>2 DEF OnceInv, Numbered, LastRequest
<1>8. ASSUME NEW c \in Conn, Link(c)
      PROVE  OnceInv'
  <2>1. /\ ToSet(jobsQueue') \subseteq ToSet(jobsQueue) \cup {LastRequest(c)}
        /\ LastRequest(c) \notin ToSet(jobsQueue) /\ IsInjective(jobsQueue)
             => IsInjective(jobsQueue')
        /\ mutex = c
    BY <1>8, LinkList
  <2> USE <1>8 DEF Link, workerVars
  <2>2. InWorkersHands' = InWorkersHands
    BY DEF InWorkersHands
  <2>3. receiverPc[c] # "receive" /\ LastRequest(c) \notin Placed
    BY NotYetPlaced DEF Linking, OnceInv
  <2>4. Placed' \subseteq Placed \cup {LastRequest(c)}
    BY <2>1, <2>2 DEF Placed
  <2>5. Numbered'
    BY <1>2, <2>3, <2>4
  <2>6. IsInjective(jobsQueue')
    BY <2>1, <2>3 DEF Placed, OnceInv, DoneOnce
  <2>7. DoneOnce'
    BY <2>1, <2>2, <2>3, <2>6 DEF DoneOnce, OnceInv, Placed
  <2> QED BY <2>5, <2>7 DEF OnceInv
<1>9. CASE PickFromQueue
  <2> USE <1>9 DEF PickFromQueue, receiverVars
  <2> DEFINE q == jobsQueue
             r == jobsQueue'
  <2>1. /\ q # <<>> /\ r = Tail(q) /\ Head(q) = q[1]
        /\ r \in Seq(Job) /\ Len(r) = Len(q) - 1
        /\ \A i \in 1 .. Len(r) : r[i] = q[i + 1]
    BY <1>0, HeadTailProperties
  <2>2. \A i, k \in 1 .. Len(q) : q[i] = q[k] => i = k
    BY <1>0, DOMAIN q = 1 .. Len(q) DEF OnceInv, DoneOnce, IsInjective
  <2>3. Len(q) >= 1
    BY <1>0, <2>1
  <2>4. InWorkersHands' = {q[1]} /\ InWorkersHands = {}
    BY <2>1 DEF InWorkersHands
  <2>5. ToSet(q) = {q[i] : i \in 1 .. Len(q)} /\ ToSet(r) = {r[i] : i \in 1 .. Len(r)}
    BY <1>0, <2>1, RangeOfSequence
  <2> HIDE DEF q, r
  <2>6. q[1] \in ToSet(q) /\ q[1] \notin ToSet(r) /\ ToSet(r) \subseteq ToSet(q)
    BY <1>0, <2>1, <2>2, <2>3, <2>5 DEF q
  <2>7. IsInjective(r)
    <3>1. \A i, k \in 1 .. Len(r) : r[i] = r[k] => i = k
      BY <1>0, <2>1, <2>2 DEF q
    <3> QED BY <2>1, <3>1, DOMAIN r = 1 .. Len(r) DEF IsInjective
  <2>8. Placed' \subseteq Placed
    BY <2>4, <2>6 DEF Placed, q, r
  <2>9. Numbered'
    BY <1>1, <2>8
  <2>10. DoneOnce'
    BY <2>4, <2>6, <2>7 DEF DoneOnce, OnceInv, q, r
  <2> QED BY <2>9, <2>10 DEF OnceInv
<1>10. CASE DoJob
  <2> USE <1>10 DEF DoJob, receiverVars, listVars
  <2>1. InWorkersHands = {workerJob} /\ InWorkersHands' = {}
    BY DEF InWorkersHands
  <2>2. Placed' \subseteq Placed
    BY <2>1 DEF Placed
  <2>3. Numbered'
    BY <1>1, <2>2
  <2>4. DoneOnce'
    BY <2>1 DEF DoneOnce, OnceInv
  <2> QED BY <2>3, <2>4 DEF OnceInv
<1>11. CASE MoveHead
  <2> USE <1>11 DEF MoveHead, receiverVars, listVars
  <2>1. InWorkersHands = {} /\ InWorkersHands' = {}
    BY DEF InWorkersHands
  <2>2. Placed' \subseteq Placed
    BY <2>1 DEF Placed
  <2>3. Numbered'
    BY <1>1, <2>2
  <2>4. DoneOnce'
    BY <2>1 DEF DoneOnce, OnceInv
  <2> QED BY <2>3, <2>4 DEF OnceInv
<1>12. ASSUME NEW c \in Conn, Walk(c)
       PROVE  OnceInv'
  BY <1>3, <1>12 DEF Walk, workerVars, listVars
<1>13. CASE UNCHANGED vars
  BY <1>3, <1>13 DEF vars, receiverVars, workerVars, listVars
<1> QED BY <1>4, <1>5, <1>6, <1>7, <1>8, <1>9, <1>10, <1>11, <1>12, <1>13
        DEF Next, Insertion, Worker

-----------------------------------------------------------------------------
(* The order of the list.                                                  *)

LEMMA DistanceIsNatural ==
    ASSUME NEW p \in Sector, NEW s \in Sector
    PROVE  Distance(p, s) \in Nat
BY PlannerAssumption DEF PlannerAssumption, Sector, Distance

\* The list an insertion finds was sorted from the position it compares from.
LEMMA LinkWasSorted ==
    ASSUME SortInv, NEW c \in Conn, Link(c),
           algorithm = "sstf", NEW p \in Sector, sortedFor' \subseteq {p}
    PROVE  Sorted(p)
<1>1. CASE Len(jobsQueue) = 1
  BY <1>1 DEF Sorted
<1>2. CASE Len(jobsQueue) # 1
  <2>1. sortedFor \subseteq {p}
    BY <1>2 DEF Link
  <2> QED BY <2>1 DEF SortInv
<1> QED BY <1>1, <1>2

\* An insertion that compared from one position only puts the new job behind
\* all that are no farther and before all that are: a is the last of the former.
Between(q, r, e, p, a) ==
    /\ a \in 0 .. Len(q)
    /\ r \in Seq(Job) /\ Len(r) = Len(q) + 1
    /\ \A i \in 1 .. a : r[i] = q[i]
    /\ r[a + 1] = e
    /\ \A i \in a + 2 .. Len(q) + 1 : r[i] = q[i - 1]
    /\ \A i \in 1 .. a : Distance(p, q[i].sector) <= Distance(p, e.sector)
    /\ \A i \in a + 1 .. Len(q) : Distance(p, e.sector) < Distance(p, q[i].sector)

LEMMA LinkPlaces ==
    ASSUME Control, WalkInv, SortInv, NEW c \in Conn, Link(c),
           algorithm = "sstf", NEW p \in Sector, sortedFor' \subseteq {p}
    PROVE  \E a \in 0 .. Len(jobsQueue) :
              Between(jobsQueue, jobsQueue', LastRequest(c), p, a)
<1> DEFINE q == jobsQueue
           r == jobsQueue'
           e == LastRequest(c)
           At(i) == Distance(p, q[i].sector)
           Mine == Distance(p, e.sector)
<1>0. /\ mutex = c /\ aux \in 1 .. Len(q) /\ e \in Job
      /\ q \in Seq(Job) /\ Len(q) \in Nat
  BY LinkList, LenProperties DEF Control, TypeOK
<1>1. posicionActual = p /\ seen \subseteq {p}
  BY DEF Link, Compared
<1>2. \A i, k \in 1 .. Len(q) : i < k => At(i) <= At(k)
  BY LinkWasSorted DEF Sorted
<1>3. Mine \in Nat /\ \A i \in 1 .. Len(q) : At(i) \in Nat
  <2>1. e.sector \in Sector
    <3> HIDE DEF e
    <3> QED BY <1>0 DEF Job
  <2>2. ASSUME NEW i \in 1 .. Len(q)
        PROVE  q[i].sector \in Sector
    <3> HIDE DEF q
    <3>1. q[i] \in Job
      BY <1>0
    <3> QED BY <3>1 DEF Job
  <2> QED BY <2>1, <2>2, DistanceIsNatural
<1>4. /\ aux > 1 => At(aux) <= Mine
      /\ receiverPc[c] = "link" => Mine < At(aux + 1)
      /\ receiverPc[c] = "link" => aux < Len(q)
      /\ receiverPc[c] # "link" => aux = Len(q)
  <2>1. Walked(c)
    BY <1>0 DEF WalkInv
  <2>2. receiverPc[c] = "link" => aux < Len(q)
    BY DEF Control, Threads
  <2>3. receiverPc[c] # "link" => aux = Len(q)
    BY DEF Link, Linking
  <2>4. receiverPc[c] = "link" => aux + 1 \in 1 .. Len(q)
    BY <1>0, <2>2
  <2>5. aux > 1 => At(aux) <= Mine
    BY <1>1, <2>1 DEF Walked, StaysBefore
  <2>6. receiverPc[c] = "link" => ~(At(aux + 1) <= Mine)
    BY <1>1, <2>1 DEF Walked, StaysBefore
  <2> HIDE DEF At, Mine
  <2> QED BY <1>3, <2>2, <2>3, <2>4, <2>5, <2>6
<1>5. CASE LinkAfter(c)
  <2>1. At(aux) <= Mine
    BY <1>1, <1>5 DEF LinkAfter, StaysBefore
  <2>2. /\ r \in Seq(Job) /\ Len(r) = Len(q) + 1
        /\ \A i \in 1 .. aux : r[i] = q[i]
        /\ r[aux + 1] = e
        /\ \A i \in aux + 2 .. Len(q) + 1 : r[i] = q[i - 1]
    <3>1. r = InsertAt(q, aux + 1, e)
      BY <1>5 DEF LinkAfter
    <3> HIDE DEF q, r, e
    <3> QED BY ONLY <1>0, <3>1, InsertedAfter, SMTT(60)
  <2>3. \A i \in 1 .. aux : At(i) <= Mine
    <3> HIDE DEF At, Mine
    <3> QED BY <1>0, <1>2, <1>3, <2>1
  <2>4. \A i \in aux + 1 .. Len(q) : Mine < At(i)
    <3>1. ASSUME NEW i \in aux + 1 .. Len(q)
          PROVE  Mine < At(i)
      <4> HIDE DEF q, At, Mine
      <4>1. aux + 1 \in 1 .. Len(q) /\ i \in 1 .. Len(q) /\ Mine < At(aux + 1)
        BY <1>0, <1>4
      <4>2. At(aux + 1) <= At(i)
        BY <1>0, <1>2, <1>3, <4>1
      <4> QED BY <1>3, <4>1, <4>2
    <3> QED BY <3>1
  <2>5. Between(q, r, e, p, aux)
    BY <1>0, <2>2, <2>3, <2>4 DEF Between
  <2> QED BY <1>0, <2>5
<1>6. CASE LinkInFront(c)
  <2>1. aux = 1
    BY <1>1, <1>6, StillInFront DEF Link
  <2>2. /\ r \in Seq(Job) /\ Len(r) = Len(q) + 1
        /\ r[1] = e
        /\ \A i \in 2 .. Len(q) + 1 : r[i] = q[i - 1]
    <3>1. r = <<e>> \o SubSeq(q, aux, Len(q))
      BY <1>6 DEF LinkInFront
    <3> HIDE DEF q, r, e
    <3>2. /\ r \in Seq(Job)
          /\ Len(r) = Len(q) - aux + 2
          /\ r[1] = e
          /\ \A i \in 2 .. Len(q) - aux + 2 : r[i] = q[aux + i - 2]
      BY ONLY <1>0, <3>1, InsertedInFront
    <3> QED BY <1>0, <2>1, <3>2
  <2>3. ~(At(1) <= Mine)
    BY <1>1, <1>6, <2>1 DEF LinkInFront, StaysBefore
  <2>4. \A i \in 1 .. Len(q) : Mine < At(i)
    <3> HIDE DEF At, Mine
    <3> QED BY <1>0, <1>2, <1>3, <2>1, <2>3
  <2>5. Between(q, r, e, p, 0)
    BY <1>0, <2>2, <2>4 DEF Between
  <2> QED BY <1>0, <2>5
<1> QED BY <1>5, <1>6 DEF Link

\* Hence the list stays sorted.
LEMMA BetweenSorts ==
    ASSUME NEW q \in Seq(Job), NEW r, NEW e \in Job, NEW p \in Sector,
           NEW a \in 0 .. Len(q), Between(q, r, e, p, a),
           \A i, k \in 1 .. Len(q) :
              i < k => Distance(p, q[i].sector) <= Distance(p, q[k].sector)
    PROVE  \A i, k \in 1 .. Len(r) :
              i < k => Distance(p, r[i].sector) <= Distance(p, r[k].sector)
<1> DEFINE At(i) == Distance(p, q[i].sector)
           To(i) == Distance(p, r[i].sector)
           Mine == Distance(p, e.sector)
<1>0. Len(q) \in Nat /\ Len(r) = Len(q) + 1
  BY LenProperties DEF Between
<1>1. \A i, k \in 1 .. Len(q) : i < k => At(i) <= At(k)
  OBVIOUS
<1>2. Mine \in Nat /\ \A i \in 1 .. Len(q) : At(i) \in Nat
  <2>1. e.sector \in Sector
    BY DEF Job
  <2>2. ASSUME NEW i \in 1 .. Len(q)
        PROVE  q[i].sector \in Sector
    <3>1. q[i] \in Job
      OBVIOUS
    <3> QED BY <3>1 DEF Job
  <2> QED BY <2>1, <2>2, DistanceIsNatural
<1>3. /\ \A i \in 1 .. a : To(i) = At(i)
      /\ To(a + 1) = Mine
      /\ \A i \in a + 2 .. Len(q) + 1 : To(i) = At(i - 1)
  BY Zenon DEF Between
<1>4. /\ \A i \in 1 .. a : At(i) <= Mine
      /\ \A i \in a + 1 .. Len(q) : Mine < At(i)
  BY Zenon DEF Between
<1> SUFFICES ASSUME NEW i \in 1 .. Len(q) + 1, NEW k \in 1 .. Len(q) + 1, i < k
             PROVE  To(i) <= To(k)
  BY <1>0
<1> HIDE DEF At, Mine, To
<1>5. CASE k <= a
  BY <1>0, <1>1, <1>3, <1>5
<1>6. CASE k = a + 1
  BY <1>0, <1>3, <1>4, <1>6
<1>7. CASE k > a + 1 /\ i <= a
  <2>1. i \in 1 .. a /\ k - 1 \in a + 1 .. Len(q) /\ k \in a + 2 .. Len(q) + 1
    BY <1>0, <1>7
  <2>2. At(i) <= Mine /\ Mine < At(k - 1) /\ At(i) \in Nat /\ At(k - 1) \in Nat
    BY <1>0, <1>2, <1>4, <2>1
  <2>3. To(i) = At(i) /\ To(k) = At(k - 1)
    BY <1>3, <2>1
  <2> QED BY <1>2, <2>2, <2>3
<1>8. CASE k > a + 1 /\ i = a + 1
  <2>1. k - 1 \in a + 1 .. Len(q) /\ k - 1 \in 1 .. Len(q) /\ k \in a + 2 .. Len(q) + 1
    BY <1>0, <1>8
  <2> QED BY <1>2, <1>3, <1>4, <1>8, <2>1
<1>9. CASE k > a + 1 /\ i > a + 1
  <2>1. i - 1 \in 1 .. Len(q) /\ k - 1 \in 1 .. Len(q) /\ i - 1 < k - 1
    BY <1>0, <1>9
  <2>2. To(i) = At(i - 1) /\ To(k) = At(k - 1)
    BY <1>0, <1>3, <1>9
  <2> QED BY <1>1, <2>1, <2>2
<1> QED BY <1>0, <1>5, <1>6, <1>7, <1>8, <1>9

LEMMA LinkSorted ==
    ASSUME Control, WalkInv, SortInv, NEW c \in Conn, Link(c),
           algorithm = "sstf", NEW p \in Sector, sortedFor' \subseteq {p}
    PROVE  Sorted(p)'
<1> DEFINE q == jobsQueue
           r == jobsQueue'
           e == LastRequest(c)
<1>1. q \in Seq(Job) /\ e \in Job
  BY LinkList DEF Control, TypeOK
<1>2. PICK a \in 0 .. Len(q) : Between(q, r, e, p, a)
  BY LinkPlaces
<1>3. \A i, k \in 1 .. Len(q) :
         i < k => Distance(p, q[i].sector) <= Distance(p, q[k].sector)
  BY LinkWasSorted DEF Sorted
<1> HIDE DEF q, r, e
<1>4. \A i, k \in 1 .. Len(r) :
         i < k => Distance(p, r[i].sector) <= Distance(p, r[k].sector)
  BY ONLY <1>1, <1>2, <1>3, p \in Sector, BetweenSorts
<1> QED BY <1>4 DEF r, Sorted

\* Requests of one connection for one sector keep their order.
LEMMA BetweenKeepsOrder ==
    ASSUME NEW q \in Seq(Job), NEW r, NEW e \in Job, NEW p \in Sector,
           NEW a \in 0 .. Len(q), Between(q, r, e, p, a),
           \A i \in 1 .. Len(q) : q[i].conn = e.conn => q[i].n < e.n,
           \A i, k \in 1 .. Len(q) : i < k /\ SameSector(q[i], q[k]) => q[i].n < q[k].n
    PROVE  \A i, k \in 1 .. Len(r) : i < k /\ SameSector(r[i], r[k]) => r[i].n < r[k].n
<1>0. /\ Len(q) \in Nat /\ Len(r) = Len(q) + 1
      /\ \A i \in 1 .. a : r[i] = q[i]
      /\ r[a + 1] = e
      /\ \A i \in a + 2 .. Len(q) + 1 : r[i] = q[i - 1]
  BY LenProperties DEF Between
<1>1. ASSUME NEW i \in a + 1 .. Len(q)
      PROVE  q[i].sector # e.sector
  <2>1. Distance(p, e.sector) < Distance(p, q[i].sector)
    BY DEF Between
  <2>2. e.sector \in Sector
    BY DEF Job
  <2>3. Distance(p, e.sector) \in Nat
    BY <2>2, DistanceIsNatural
  <2> QED BY <2>1, <2>3
<1> SUFFICES ASSUME NEW i \in 1 .. Len(q) + 1, NEW k \in 1 .. Len(q) + 1, i < k,
                    SameSector(r[i], r[k])
             PROVE  r[i].n < r[k].n
  BY <1>0
<1>2. CASE k <= a
  <2>1. i \in 1 .. Len(q) /\ k \in 1 .. Len(q) /\ r[i] = q[i] /\ r[k] = q[k]
    BY <1>0, <1>2
  <2> QED BY <2>1
<1>3. CASE k = a + 1
  <2>1. i \in 1 .. Len(q) /\ r[i] = q[i] /\ r[k] = e
    BY <1>0, <1>3
  <2> QED BY <2>1 DEF SameSector
<1>4. CASE k > a + 1 /\ i <= a
  <2>1. /\ i \in 1 .. Len(q) /\ k - 1 \in 1 .. Len(q) /\ i < k - 1
        /\ r[i] = q[i] /\ r[k] = q[k - 1]
    BY <1>0, <1>4
  <2> QED BY <2>1
<1>5. CASE k > a + 1 /\ i = a + 1
  <2>1. k - 1 \in a + 1 .. Len(q) /\ r[i] = e /\ r[k] = q[k - 1]
    BY <1>0, <1>5
  <2> QED BY <1>1, <2>1 DEF SameSector
<1>6. CASE k > a + 1 /\ i > a + 1
  <2>1. /\ i - 1 \in 1 .. Len(q) /\ k - 1 \in 1 .. Len(q) /\ i - 1 < k - 1
        /\ r[i] = q[i - 1] /\ r[k] = q[k - 1]
    BY <1>0, <1>6
  <2> QED BY <2>1
<1> QED BY <1>0, <1>2, <1>3, <1>4, <1>5, <1>6

LEMMA LinkKeepsOrder ==
    ASSUME Control, WalkInv, OnceInv, SortInv, OrderInv, NEW c \in Conn, Link(c),
           algorithm = "sstf", NEW p \in Sector, sortedFor' \subseteq {p}
    PROVE  InOrder'
<1> DEFINE q == jobsQueue
           r == jobsQueue'
           e == LastRequest(c)
<1>1. q \in Seq(Job) /\ e \in Job
  BY LinkList DEF Control, TypeOK
<1>2. PICK a \in 0 .. Len(q) : Between(q, r, e, p, a)
  BY LinkPlaces
<1>3. \A i, k \in 1 .. Len(q) : i < k /\ SameSector(q[i], q[k]) => q[i].n < q[k].n
  <2>1. CASE Len(q) = 1
    BY <2>1
  <2>2. CASE Len(q) # 1
    <3>1. sortedFor \subseteq {p}
      BY <2>2 DEF Link
    <3> QED BY <3>1 DEF OrderInv, InOrder
  <2> QED BY <2>1, <2>2
<1>4. \A i \in 1 .. Len(q) : q[i].conn = e.conn => q[i].n < e.n
  <2>1. receiverPc[c] # "receive"
    BY DEF Link, Linking
  <2>2. e.conn = c /\ e.n = Len(issued[c])
    BY <2>1, NotYetPlaced DEF OnceInv
  <2>3. \A i \in 1 .. Len(q) : q[i] \in Placed
    BY <1>1, RangeOfSequence DEF Placed
  <2> QED BY <2>1, <2>2, <2>3 DEF OnceInv, Numbered
<1> HIDE DEF q, r, e
<1>5. \A i, k \in 1 .. Len(r) : i < k /\ SameSector(r[i], r[k]) => r[i].n < r[k].n
  BY ONLY <1>1, <1>2, <1>3, <1>4, p \in Sector, BetweenKeepsOrder
<1> QED BY <1>5 DEF r, InOrder, SameSector

LEMMA SortStep ==
    ASSUME Control, WalkInv, SortInv, [Next]_vars
    PROVE  SortInv'
<1>1. CASE UNCHANGED <<algorithm, jobsQueue, sortedFor>>
  BY <1>1 DEF SortInv, Sorted
<1>2. ASSUME NEW c \in Conn, PutFirst(c)
      PROVE  SortInv'
  BY <1>2 DEF PutFirst, SortInv, Sorted
<1>3. ASSUME NEW c \in Conn, Link(c)
      PROVE  SortInv'
  <2>1. sortedFor' # {} /\ algorithm' = algorithm
    BY <1>3 DEF Link, Compared
  <2>2. ASSUME algorithm = "sstf", NEW p \in Sector, sortedFor' \subseteq {p}
        PROVE  Sorted(p)'
    BY <1>3, <2>2, LinkSorted
  <2> QED BY <2>1, <2>2 DEF SortInv
<1>4. CASE PickFromQueue
  <2>1. /\ jobsQueue' \in Seq(Job) /\ Len(jobsQueue') = Len(jobsQueue) - 1
        /\ \A i \in 1 .. Len(jobsQueue') : jobsQueue'[i] = jobsQueue[i + 1]
    BY <1>4, HeadTailProperties DEF PickFromQueue, Control, TypeOK
  <2>2. Len(jobsQueue) \in Nat /\ UNCHANGED <<algorithm, sortedFor>>
    BY <1>4, LenProperties DEF PickFromQueue, Control, TypeOK
  <2>3. ASSUME NEW p \in Sector, Sorted(p)
        PROVE  Sorted(p)'
    BY <2>1, <2>2, <2>3 DEF Sorted
  <2> QED BY <2>1, <2>2, <2>3 DEF SortInv
<1>5. ASSUME NEW c \in Conn, Receive(c) \/ Put(c) \/ Walk(c) \/ WalkEnd(c)
      PROVE  SortInv'
  BY <1>1, <1>5 DEF Receive, Put, Walk, WalkEnd, listVars
<1>6. CASE DoJob \/ MoveHead \/ UNCHANGED vars
  BY <1>1, <1>6 DEF DoJob, MoveHead, vars, listVars
<1> QED BY <1>2, <1>3, <1>4, <1>5, <1>6 DEF Next, Insertion, Worker

LEMMA OrderStep ==
    ASSUME Control, WalkInv, OnceInv, SortInv, OrderInv, [Next]_vars
    PROVE  OrderInv'
<1>1. CASE UNCHANGED <<algorithm, jobsQueue, sortedFor>>
  BY <1>1 DEF OrderInv, InOrder, SameSector
<1>2. ASSUME NEW c \in Conn, PutFirst(c)
      PROVE  OrderInv'
  BY <1>2 DEF PutFirst, OrderInv, InOrder
<1>3. ASSUME NEW c \in Conn, Link(c)
      PROVE  OrderInv'
  <2>1. algorithm' = algorithm
    BY <1>3 DEF Link
  <2>2. ASSUME algorithm = "sstf", NEW p \in Sector, sortedFor' \subseteq {p}
        PROVE  InOrder'
    BY <1>3, <2>2, LinkKeepsOrder
  <2> QED BY <2>1, <2>2 DEF OrderInv
<1>4. CASE PickFromQueue
  <2>1. /\ jobsQueue' \in Seq(Job) /\ Len(jobsQueue') = Len(jobsQueue) - 1
        /\ \A i \in 1 .. Len(jobsQueue') : jobsQueue'[i] = jobsQueue[i + 1]
    BY <1>4, HeadTailProperties DEF PickFromQueue, Control, TypeOK
  <2>2. Len(jobsQueue) \in Nat /\ UNCHANGED <<algorithm, sortedFor>>
    BY <1>4, LenProperties DEF PickFromQueue, Control, TypeOK
  <2>3. ASSUME InOrder
        PROVE  InOrder'
    <3> DEFINE q == jobsQueue
               r == jobsQueue'
    <3>1. \A i, k \in 1 .. Len(q) : i < k /\ SameSector(q[i], q[k]) => q[i].n < q[k].n
      BY <2>3 DEF InOrder
    <3>2. \A i, k \in 1 .. Len(r) : i < k /\ SameSector(r[i], r[k]) => r[i].n < r[k].n
      <4>1. Len(r) = Len(q) - 1 /\ \A i \in 1 .. Len(r) : r[i] = q[i + 1]
        BY <2>1
      <4>2. Len(q) \in Nat
        BY <2>2
      <4> HIDE DEF q, r
      <4>3. \A i \in 1 .. Len(r) : i + 1 \in 1 .. Len(q)
        BY <4>1, <4>2
      <4> QED BY <3>1, <4>1, <4>2, <4>3
    <3> QED BY <3>2 DEF InOrder, SameSector
  <2> QED BY <2>1, <2>2, <2>3 DEF OrderInv
<1>5. ASSUME NEW c \in Conn, Receive(c) \/ Put(c) \/ Walk(c) \/ WalkEnd(c)
      PROVE  OrderInv'
  BY <1>1, <1>5 DEF Receive, Put, Walk, WalkEnd, listVars
<1>6. CASE DoJob \/ MoveHead \/ UNCHANGED vars
  BY <1>1, <1>6 DEF DoJob, MoveHead, vars, listVars
<1> QED BY <1>2, <1>3, <1>4, <1>5, <1>6 DEF Next, Insertion, Worker

-----------------------------------------------------------------------------
(* The theorems.                                                           *)

LEMMA InitIInv == Init => IInv
<1> SUFFICES ASSUME Init PROVE IInv
  OBVIOUS
<1>1. Control
  BY InitControl
<1>2. WalkInv
  BY PlannerAssumption DEF Init, WalkInv, PlannerAssumption
<1>3. OnceInv
  BY DEF Init, OnceInv, Numbered, DoneOnce, Placed, InWorkersHands, ToSet, IsInjective
<1>4. SortInv
  BY DEF Init, SortInv, Sorted
<1>5. OrderInv
  BY DEF Init, OrderInv, InOrder
<1> QED BY <1>1, <1>2, <1>3, <1>4, <1>5 DEF IInv

\* The inductive invariant.
THEOREM Invariant == Spec => []IInv
<1>1. IInv /\ [Next]_vars => IInv'
  BY ControlStep, WalkInvStep, OnceStep, SortStep, OrderStep DEF IInv
<1> QED BY InitIInv, <1>1, PTL DEF Spec

\* Every variable of the planner stays in its type.
THEOREM TypeCorrect == Spec => []TypeOK
<1>1. IInv => TypeOK
  BY DEF IInv, Control
<1> QED BY <1>1, Invariant, PTL

\* No job is on the list twice, done twice, or done and still to be done,
\* however insertions, the worker and the head interleave
\* (linux-commons-list.c:53-90, linux-commons-queue.c:12-34).
THEOREM NothingTwice == Spec => []DoneOnce
<1>1. IInv => DoneOnce
  BY DEF IInv, OnceInv
<1> QED BY <1>1, Invariant, PTL

\* SSTF puts the shortest seek first as long as the jobs of the list were
\* sorted by one position of the head (ppd-algorythm-strategy.c:26-37).
THEOREM ShortestFirst == Spec => []ShortestSeekFirst
<1>1. IInv => ShortestSeekFirst
  BY DEF IInv, Control, TypeOK, SortInv, Sorted, ShortestSeekFirst
<1> QED BY <1>1, Invariant, PTL

\* SSTF keeps the requests of a connection for one sector in order as long as
\* the jobs of the list were sorted by one position of the head
\* (ppd-algorythm-strategy.c:26-37, linux-commons-list.c:62-84).
THEOREM SectorInOrder == Spec => []SectorOrder
<1>1. IInv => SectorOrder
  <2> SUFFICES ASSUME IInv, algorithm = "sstf", OnePosition
               PROVE  \A i, k \in DOMAIN jobsQueue :
                         i < k /\ SameSector(jobsQueue[i], jobsQueue[k])
                           => jobsQueue[i].n < jobsQueue[k].n
    BY DEF SectorOrder
  <2>1. InOrder
    BY DEF IInv, OrderInv, OnePosition
  <2>2. DOMAIN jobsQueue = 1 .. Len(jobsQueue)
    BY DEF IInv, Control, TypeOK
  <2> QED BY <2>1, <2>2 DEF InOrder
<1> QED BY <1>1, Invariant, PTL

\* An insertion through which the head stands still loses no job
\* (linux-commons-list.c:62-84).
THEOREM StillKeepsAll == Spec => KeptWhileStill
<1> DEFINE Keeps(c) ==
        Linking(c) /\ receiverPc'[c] = "receive" /\ Compared = {posicionActual}
          => ToSet(jobsQueue') = ToSet(jobsQueue) \cup {LastRequest(c)}
<1>1. ASSUME IInv, [Next]_vars, NEW c \in Conn
      PROVE  Keeps(c)
  <2> SUFFICES ASSUME Linking(c), receiverPc'[c] = "receive", Compared = {posicionActual}
               PROVE  ToSet(jobsQueue') = ToSet(jobsQueue) \cup {LastRequest(c)}
    OBVIOUS
  <2>0. Control /\ WalkInv
    BY <1>1 DEF IInv
  <2>1. Link(c)
    <3>1. mutex = c /\ receiverPc[c] \in {"walk", "link"}
      BY <2>0 DEF Linking, Control, Threads
    <3>2. ASSUME NEW d \in Conn, Receive(d) \/ PutFirst(d) \/ Put(d) \/ Walk(d) \/ WalkEnd(d)
          PROVE  FALSE
      BY <2>0, <3>1, <3>2, PlannerAssumption
         DEF Receive, PutFirst, Put, Walk, WalkEnd, Control, TypeOK, PlannerAssumption
    <3>3. ASSUME NEW d \in Conn, Link(d)
          PROVE  d = c
      BY <2>0, <3>1, <3>3, LinkList
    <3>4. ~UNCHANGED receiverPc
      BY <3>1
    <3>5. ~Worker /\ ~UNCHANGED vars
      BY <3>4 DEF Worker, PickFromQueue, DoJob, MoveHead, receiverVars, vars
    <3> QED BY <1>1, <3>2, <3>3, <3>5 DEF Next, Insertion
  <2> DEFINE q == jobsQueue
             a == aux
             r == jobsQueue'
             e == LastRequest(c)
             S == Job
  <2>2. q \in Seq(S) /\ a \in 1 .. Len(q) /\ e \in S
    BY <2>0, <2>1, LinkList DEF Control, TypeOK
  <2>3. CASE LinkAfter(c)
    <3>1. r = InsertAt(q, a + 1, e)
      BY <2>3 DEF LinkAfter
    <3> HIDE DEF q, a, r, e, S
    <3>2. ToSet(r) = ToSet(q) \cup {e}
      BY ONLY <2>2, <3>1, InsertedAfterKeeps
    <3> QED BY <3>2 DEF q, r, e
  <2>4. CASE LinkInFront(c)
    <3>1. a = 1
      <4>1. Linking(c) /\ LinkInFront(c) /\ seen \subseteq {posicionActual}
        BY <2>4 DEF Compared
      <4> QED BY <2>0, <4>1, StillInFront
    <3>2. r = <<e>> \o SubSeq(q, a, Len(q))
      BY <2>4 DEF LinkInFront
    <3> HIDE DEF q, a, r, e, S
    <3>3. /\ r \in Seq(S)
          /\ Len(r) = Len(q) - a + 2
          /\ r[1] = e
          /\ \A i \in 2 .. Len(q) - a + 2 : r[i] = q[a + i - 2]
      BY ONLY <2>2, <3>2, InsertedInFront
    <3>4. Len(r) = Len(q) + 1 /\ \A i \in 2 .. Len(q) + 1 : r[i] = q[i - 1]
      BY <2>2, <3>1, <3>3, LenProperties
    <3>5. ToSet(r) = ToSet(q) \cup {e}
      BY ONLY <2>2, <3>3, <3>4, InsertedInFrontKeeps
    <3> QED BY <3>5 DEF q, r, e
  <2> QED BY <2>1, <2>3, <2>4 DEF Link
<1>2. IInv /\ [Next]_vars => [\A c \in Conn : Keeps(c)]_vars
  BY <1>1
<1> QED BY Invariant, <1>2, PTL DEF Spec, KeptWhileStill
=============================================================================
