--------------------------- MODULE PfsFileProofs ---------------------------
(***************************************************************************)
(* Invariants of PfsFile for any number of opens, threads, sectors and     *)
(* clusters and for caches of any size.  A transfer goes through a cluster *)
(* sector by sector and through a chain cluster by cluster, as recursive   *)
(* functions; what they compute is proved by induction.                    *)
(***************************************************************************)
EXTENDS PfsFile, WellFoundedInduction, TLAPS

-----------------------------------------------------------------------------
(* Induction.                                                              *)

\* Less than, on the naturals, is well founded.
LEMMA LessWellFounded == IsWellFoundedOn({p \in Nat \X Nat : p[1] < p[2]}, Nat)
BY NatLessThanWellFounded DEF OpToRel

\* A set of naturals with 0, and with the successor of each of its members
\* that is below n, has every natural up to n.
LEMMA UpTo ==
    ASSUME NEW n \in Nat, NEW S \in SUBSET Nat,
           0 \in S, \A m \in S : m < n => m + 1 \in S
    PROVE  \A m \in 0 .. n : m \in S
<1> DEFINE R == {p \in Nat \X Nat : p[1] < p[2]}
           T == {m \in 0 .. n : m \notin S}
<1>1. SUFFICES ASSUME T # {} PROVE FALSE
  OBVIOUS
<1>2. PICK x \in T : \A y \in T : ~(<<y, x>> \in R)
  <2>1. T \subseteq Nat
    OBVIOUS
  <2> HIDE DEF R, T
  <2>2. IsWellFoundedOn({p \in Nat \X Nat : p[1] < p[2]}, Nat)
    BY LessWellFounded
  <2>3. IsWellFoundedOn(R, Nat)
    BY <2>2 DEF R
  <2> QED BY <1>1, <2>1, <2>3, WFMin
<1>3. x \in Nat /\ x # 0 /\ x <= n
  OBVIOUS
<1>4. x - 1 \in 0 .. n /\ <<x - 1, x>> \in R
  BY <1>3
<1>5. x - 1 \in S
  BY <1>2, <1>4
<1>6. x \in S
  BY <1>3, <1>5
<1> QED BY <1>6
-----------------------------------------------------------------------------
(* Arithmetic of sectors and clusters.                                     *)

\* A number is its whole clusters and the rest of its last one.
LEMMA Divided ==
    ASSUME NEW n \in Nat
    PROVE  /\ n \div Sectors \in Nat /\ n % Sectors \in 0 .. Sectors - 1
           /\ n = (Sectors * (n \div Sectors)) + (n % Sectors)
BY FileAssumption

\* ... and is divided in only one way.
LEMMA DividedOnce ==
    ASSUME NEW q \in Nat, NEW r \in 0 .. Sectors - 1
    PROVE  /\ ((Sectors * q) + r) \div Sectors = q
           /\ ((Sectors * q) + r) % Sectors = r
BY FileAssumption

\* The order of cluster numbers is that of the units they begin at.
LEMMA TimesOrder ==
    ASSUME NEW a \in Int, NEW b \in Int
    PROVE  /\ a <= b <=> Sectors * a <= Sectors * b
           /\ a < b <=> Sectors * a < Sectors * b
           /\ Sectors * a \in Int
           /\ Sectors * (a + b) = (Sectors * a) + (Sectors * b)
BY FileAssumption

\* Clusters that hold n units: enough of them, none too many, and within the
\* volume if the units are.
LEMMA CeilType ==
    ASSUME NEW n \in Nat
    PROVE  /\ Ceil(n) \in Nat /\ n <= Sectors * Ceil(n)
           /\ Sectors * Ceil(n) < n + Sectors
           /\ n > 0 => Ceil(n) > 0
           /\ n \in 0 .. Units => Ceil(n) \in 0 .. Clusters
           /\ Ceil(n) = IF n % Sectors = 0 THEN n \div Sectors ELSE (n \div Sectors) + 1
<1> DEFINE q == n \div Sectors   r == n % Sectors
<1>1. q \in Nat /\ r \in 0 .. Sectors - 1 /\ n = (Sectors * q) + r
  BY Divided
<1>2. Sectors \in Nat \ {0} /\ Clusters \in Nat \ {0}
  BY FileAssumption
<1>a. Ceil(n) = IF n % Sectors = 0 THEN n \div Sectors ELSE (n \div Sectors) + 1
  <2> HIDE DEF q, r
  <2>1. CASE r = 0
    <3>1. n + Sectors - 1 = (Sectors * q) + (Sectors - 1)
      BY <1>1, <1>2, <2>1
    <3>2. ((Sectors * q) + (Sectors - 1)) \div Sectors = q
      BY <1>1, <1>2, DividedOnce
    <3> QED BY <2>1, <3>1, <3>2 DEF Ceil, q, r
  <2>2. CASE r # 0
    <3>1. n + Sectors - 1 = (Sectors * (q + 1)) + (r - 1)
      BY <1>1, <1>2, <2>2, TimesOrder
    <3>2. ((Sectors * (q + 1)) + (r - 1)) \div Sectors = q + 1
      BY <1>1, <1>2, <2>2, DividedOnce
    <3> QED BY <2>2, <3>1, <3>2 DEF Ceil, q, r
  <2> QED BY <2>1, <2>2
<1> DEFINE c == Ceil(n)
<1>3. c \in Nat /\ n <= Sectors * c /\ Sectors * c < n + Sectors
  <2>1. c = IF r = 0 THEN q ELSE q + 1
    BY <1>a
  <2> HIDE DEF q, r, c
  <2>2. Sectors * (q + 1) = (Sectors * q) + Sectors
    BY <1>1, <1>2, TimesOrder
  <2> QED BY <1>1, <1>2, <2>1, <2>2
<1>4. n > 0 => c > 0
  <2> HIDE DEF c
  <2> QED BY <1>2, <1>3
<1>5. n <= Units => c <= Clusters
  <2> HIDE DEF c
  <2> SUFFICES ASSUME n <= Units, c >= Clusters + 1 PROVE FALSE
    BY <1>2, <1>3
  <2>1. Sectors * c >= Sectors * (Clusters + 1)
    BY <1>2, <1>3, TimesOrder
  <2>2. Sectors * (Clusters + 1) = (Sectors * Clusters) + Sectors
    BY <1>2, TimesOrder
  <2>3. Units = Sectors * Clusters
    BY <1>2 DEF Units
  <2> QED BY <1>2, <1>3, <2>1, <2>2, <2>3
<1> QED BY <1>2, <1>3, <1>4, <1>5, <1>a
-----------------------------------------------------------------------------
(* The recursive functions of a transfer, each with its value at 0 and the *)
(* step from one argument to the next.                                     *)

\* The sectors of a cluster that were read so far.
GetSteps(v, c) ==
    LET get[s \in 0 .. Sectors] ==
            IF s = 0 THEN [view |-> v, block |-> <<>>]
            ELSE LET w == get[s - 1] IN
                 [view |-> GetFileSector(w.view, c, s),
                  block |-> Append(w.block, Seen(w.view, c, s))]
    IN get

\* GetBlock, sector by sector.
LEMMA GetStepByStep ==
    ASSUME NEW v, NEW c
    PROVE  /\ Cached(c) => GetBlock(v, c) = GetSteps(v, c)[Sectors]
           /\ GetSteps(v, c)[0] = [view |-> v, block |-> <<>>]
           /\ \A s \in 1 .. Sectors :
                 LET w == GetSteps(v, c)[s - 1] IN
                 GetSteps(v, c)[s] = [view |-> GetFileSector(w.view, c, s),
                                      block |-> Append(w.block, Seen(w.view, c, s))]
<1> DEFINE Base == [view |-> v, block |-> <<>>]
           After(w, s) == [view |-> GetFileSector(w.view, c, s),
                           block |-> Append(w.block, Seen(w.view, c, s))]
           Is(f, n) == f = [s \in 0 .. n |-> IF s = 0 THEN Base ELSE After(f[s - 1], s)]
           I == {n \in Nat : \E f : Is(f, n)}
<1>1. Sectors \in Nat
  BY FileAssumption
<1>2. \E f : Is(f, Sectors)
  <2> HIDE DEF Base, After
  <2>1. 0 \in I
    <3>1. Is([s \in 0 .. 0 |-> Base], 0)
      OBVIOUS
    <3> QED BY <3>1
  <2>2. ASSUME NEW n \in I PROVE n + 1 \in I
    <3>1. PICK f : Is(f, n)
      OBVIOUS
    <3> DEFINE g == [s \in 0 .. n + 1 |-> IF s = n + 1 THEN After(f[n], s) ELSE f[s]]
    <3>2. \A s \in 0 .. n + 1 : g[s] = IF s = 0 THEN Base ELSE After(g[s - 1], s)
      BY <3>1
    <3>3. Is(g, n + 1)
      BY <3>2
    <3>4. \E h : Is(h, n + 1)
      <4> HIDE DEF g, Is
      <4> QED BY <3>3
    <3> QED BY <3>4
  <2>3. \A n \in 0 .. Sectors : n \in I
    <3> HIDE DEF I
    <3>1. I \in SUBSET Nat
      BY DEF I
    <3> QED BY <1>1, <2>1, <2>2, <3>1, UpTo
  <2> QED BY <1>1, <2>3
<1>3. GetSteps(v, c) = CHOOSE f : Is(f, Sectors)
  BY DEF GetSteps
<1>4. Is(GetSteps(v, c), Sectors)
  <2> HIDE DEF Is
  <2> QED BY <1>2, <1>3
<1>5. Cached(c) => GetBlock(v, c) = GetSteps(v, c)[Sectors]
  BY DEF GetBlock, GetSteps
<1> HIDE DEF Base, After
<1>6. /\ GetSteps(v, c)[0] = Base
      /\ \A s \in 1 .. Sectors : GetSteps(v, c)[s] = After(GetSteps(v, c)[s - 1], s)
  BY <1>1, <1>4
<1> QED BY <1>5, <1>6 DEF Base, After

\* The sectors of a cluster that were put so far.
PutSteps(v, c, x) ==
    LET put[s \in 0 .. Sectors] ==
            IF s = 0 THEN v
            ELSE PutInFileCache(put[s - 1], c, s, x)
    IN put

\* PutBlock, sector by sector.
LEMMA PutStepByStep ==
    ASSUME NEW v, NEW c, NEW x
    PROVE  /\ Cached(c) => \A block : block[1] = x => PutBlock(v, c, block) = PutSteps(v, c, x)[Sectors]
           /\ PutSteps(v, c, x)[0] = v
           /\ \A s \in 1 .. Sectors :
                 PutSteps(v, c, x)[s] = PutInFileCache(PutSteps(v, c, x)[s - 1], c, s, x)
<1> DEFINE Base == v
           After(w, s) == PutInFileCache(w, c, s, x)
           Is(f, n) == f = [s \in 0 .. n |-> IF s = 0 THEN Base ELSE After(f[s - 1], s)]
           I == {n \in Nat : \E f : Is(f, n)}
<1>1. Sectors \in Nat
  BY FileAssumption
<1>2. \E f : Is(f, Sectors)
  <2> HIDE DEF Base, After
  <2>1. 0 \in I
    <3>1. Is([s \in 0 .. 0 |-> Base], 0)
      OBVIOUS
    <3> QED BY <3>1
  <2>2. ASSUME NEW n \in I PROVE n + 1 \in I
    <3>1. PICK f : Is(f, n)
      OBVIOUS
    <3> DEFINE g == [s \in 0 .. n + 1 |-> IF s = n + 1 THEN After(f[n], s) ELSE f[s]]
    <3>2. \A s \in 0 .. n + 1 : g[s] = IF s = 0 THEN Base ELSE After(g[s - 1], s)
      BY <3>1
    <3>3. Is(g, n + 1)
      BY <3>2
    <3>4. \E h : Is(h, n + 1)
      <4> HIDE DEF g, Is
      <4> QED BY <3>3
    <3> QED BY <3>4
  <2>3. \A n \in 0 .. Sectors : n \in I
    <3> HIDE DEF I
    <3>1. I \in SUBSET Nat
      BY DEF I
    <3> QED BY <1>1, <2>1, <2>2, <3>1, UpTo
  <2> QED BY <1>1, <2>3
<1>3. PutSteps(v, c, x) = CHOOSE f : Is(f, Sectors)
  BY DEF PutSteps
<1>4. Is(PutSteps(v, c, x), Sectors)
  <2> HIDE DEF Is
  <2> QED BY <1>2, <1>3
<1>5. Cached(c) => \A block : block[1] = x => PutBlock(v, c, block) = PutSteps(v, c, x)[Sectors]
  BY DEF PutBlock, PutSteps
<1> HIDE DEF Base, After
<1>6. /\ PutSteps(v, c, x)[0] = Base
      /\ \A s \in 1 .. Sectors : PutSteps(v, c, x)[s] = After(PutSteps(v, c, x)[s - 1], s)
  BY <1>1, <1>4
<1> QED BY <1>5, <1>6 DEF Base, After

\* The records of a cache that were flushed so far.
FlushSteps(v) ==
    LET put[k \in 0 .. Len(v.cache)] ==
            IF k = 0 THEN v.disk
            ELSE LET r == v.cache[k] IN
                 [put[k - 1] EXCEPT ![r.cluster][r.sector] = r.content]
    IN put

\* Flushed, record by record.
LEMMA FlushStepByStep ==
    ASSUME NEW v, Len(v.cache) \in Nat
    PROVE  /\ Flushed(v) = [disk |-> FlushSteps(v)[Len(v.cache)], cache |-> <<>>]
           /\ FlushSteps(v)[0] = v.disk
           /\ \A k \in 1 .. Len(v.cache) :
                 LET r == v.cache[k] IN
                 FlushSteps(v)[k] = [FlushSteps(v)[k - 1] EXCEPT ![r.cluster][r.sector] = r.content]
<1> DEFINE Base == v.disk
           After(w, k) == [w EXCEPT ![v.cache[k].cluster][v.cache[k].sector] = v.cache[k].content]
           Is(f, n) == f = [k \in 0 .. n |-> IF k = 0 THEN Base ELSE After(f[k - 1], k)]
           I == {n \in Nat : \E f : Is(f, n)}
<1>1. Len(v.cache) \in Nat
  BY FileAssumption
<1>2. \E f : Is(f, Len(v.cache))
  <2> HIDE DEF Base, After
  <2>1. 0 \in I
    <3>1. Is([k \in 0 .. 0 |-> Base], 0)
      OBVIOUS
    <3> QED BY <3>1
  <2>2. ASSUME NEW n \in I PROVE n + 1 \in I
    <3>1. PICK f : Is(f, n)
      OBVIOUS
    <3> DEFINE g == [k \in 0 .. n + 1 |-> IF k = n + 1 THEN After(f[n], k) ELSE f[k]]
    <3>2. \A k \in 0 .. n + 1 : g[k] = IF k = 0 THEN Base ELSE After(g[k - 1], k)
      BY <3>1
    <3>3. Is(g, n + 1)
      BY <3>2
    <3>4. \E h : Is(h, n + 1)
      <4> HIDE DEF g, Is
      <4> QED BY <3>3
    <3> QED BY <3>4
  <2>3. \A n \in 0 .. Len(v.cache) : n \in I
    <3> HIDE DEF I
    <3>1. I \in SUBSET Nat
      BY DEF I
    <3> QED BY <1>1, <2>1, <2>2, <3>1, UpTo
  <2> QED BY <1>1, <2>3
<1>3. FlushSteps(v) = CHOOSE f : Is(f, Len(v.cache))
  BY DEF FlushSteps
<1>4. Is(FlushSteps(v), Len(v.cache))
  <2> HIDE DEF Is
  <2> QED BY <1>2, <1>3
<1>5. Flushed(v) = [disk |-> FlushSteps(v)[Len(v.cache)], cache |-> <<>>]
  BY DEF Flushed, FlushSteps
<1> HIDE DEF Base, After
<1>6. /\ FlushSteps(v)[0] = Base
      /\ \A k \in 1 .. Len(v.cache) : FlushSteps(v)[k] = After(FlushSteps(v)[k - 1], k)
  <2> DEFINE F == FlushSteps(v)   m == Len(v.cache)
  <2>1. m \in Nat /\ Is(F, m)
    BY <1>4
  <2> HIDE DEF F, m
  <2>2. F[0] = Base /\ \A k \in 1 .. m : F[k] = After(F[k - 1], k)
    BY <2>1
  <2> QED BY <2>2 DEF F, m
<1> QED BY <1>5, <1>6 DEF Base, After

\* What was read, and one more cluster.
ReadNext(w, c) ==
    LET b == GetBlock(w.view, c) IN [view |-> b.view, block |-> w.block \o b.block]

\* One cluster more: the view after it, and its sectors after those so far.
LEMMA ReadNextParts ==
    ASSUME NEW w, NEW c
    PROVE  /\ ReadNext(w, c).view = GetBlock(w.view, c).view
           /\ ReadNext(w, c).block = w.block \o GetBlock(w.view, c).block
BY DEF ReadNext

\* The clusters of a read that were read so far.
OnSteps(w, from, n) ==
    LET on[k \in 0 .. n] == IF k = 0 THEN w ELSE ReadNext(on[k - 1], from + k)
    IN on

\* ReadOn, cluster by cluster.
LEMMA OnStepByStep ==
    ASSUME NEW w, NEW from \in Nat, NEW n \in Nat
    PROVE  /\ ReadOn(w, from, n) = OnSteps(w, from, n)[n]
           /\ OnSteps(w, from, n)[0] = w
           /\ \A k \in 1 .. n :
                 OnSteps(w, from, n)[k] = ReadNext(OnSteps(w, from, n)[k - 1], from + k)
<1> DEFINE Base == w
           After(x, k) == ReadNext(x, from + k)
           Is(f, m) == f = [k \in 0 .. m |-> IF k = 0 THEN Base ELSE After(f[k - 1], k)]
           I == {m \in Nat : \E f : Is(f, m)}
<1>1. n \in Nat
  BY FileAssumption
<1>2. \E f : Is(f, n)
  <2> HIDE DEF Base, After
  <2>1. 0 \in I
    <3>1. Is([k \in 0 .. 0 |-> Base], 0)
      OBVIOUS
    <3> QED BY <3>1
  <2>2. ASSUME NEW m \in I PROVE m + 1 \in I
    <3>1. PICK f : Is(f, m)
      OBVIOUS
    <3> DEFINE g == [k \in 0 .. m + 1 |-> IF k = m + 1 THEN After(f[m], k) ELSE f[k]]
    <3>2. \A k \in 0 .. m + 1 : g[k] = IF k = 0 THEN Base ELSE After(g[k - 1], k)
      BY <3>1
    <3>3. Is(g, m + 1)
      BY <3>2
    <3>4. \E h : Is(h, m + 1)
      <4> HIDE DEF g, Is
      <4> QED BY <3>3
    <3> QED BY <3>4
  <2>3. \A m \in 0 .. n : m \in I
    <3> HIDE DEF I
    <3>1. I \in SUBSET Nat
      BY DEF I
    <3> QED BY <1>1, <2>1, <2>2, <3>1, UpTo
  <2> QED BY <1>1, <2>3
<1>3. OnSteps(w, from, n) = CHOOSE f : Is(f, n)
  BY DEF OnSteps
<1>4. Is(OnSteps(w, from, n), n)
  <2> HIDE DEF Is
  <2> QED BY <1>2, <1>3
<1>5. ReadOn(w, from, n) = OnSteps(w, from, n)[n]
  BY DEF ReadOn, OnSteps, ReadNext
<1> HIDE DEF Base, After
<1>6. /\ OnSteps(w, from, n)[0] = Base
      /\ \A k \in 1 .. n : OnSteps(w, from, n)[k] = After(OnSteps(w, from, n)[k - 1], k)
  BY <1>1, <1>4
<1> QED BY <1>5, <1>6 DEF Base, After
-----------------------------------------------------------------------------
(* Views.  Dirs is what may stand in the sectors of the directory.         *)

Cluster == (1 .. Clusters) \cup {Dir}

IsStore(d, Dirs) ==
    /\ d \in [Cluster -> [1 .. Sectors -> Contents]]
    /\ \A s \in 1 .. Sectors : d[Dir][s] \in Dirs

\* No sector has two records.
IsCache(q, Dirs) ==
    /\ q \in Seq(CacheRecord)
    /\ Len(q) <= cacheMax
    /\ \A i, j \in 1 .. Len(q) :
          q[i].cluster = q[j].cluster /\ q[i].sector = q[j].sector => i = j
    /\ \A i \in 1 .. Len(q) : q[i].cluster = Dir => q[i].content \in Dirs

IsView(v, Dirs) ==
    /\ v = [disk |-> v.disk, cache |-> v.cache]
    /\ IsStore(v.disk, Dirs)
    /\ IsCache(v.cache, Dirs)

\* Through both views the volume looks the same.
SameSeen(v, w) ==
    \A c \in Cluster, s \in 1 .. Sectors : Seen(w, c, s) = Seen(v, c, s)

Stored(d, c, s, x) == [d EXCEPT ![c][s] = x]

\* One sector of the volume is written.
LEMMA StoreWrite ==
    ASSUME NEW Dirs, NEW d, IsStore(d, Dirs), NEW a \in Cluster, NEW b \in 1 .. Sectors,
           NEW x \in Contents, a = Dir => x \in Dirs
    PROVE  /\ IsStore(Stored(d, a, b, x), Dirs)
           /\ \A c \in Cluster, s \in 1 .. Sectors :
                 Stored(d, a, b, x)[c][s] = IF c = a /\ s = b THEN x ELSE d[c][s]
<1> DEFINE e == Stored(d, a, b, x)
<1>0. e = [d EXCEPT ![a] = [d[a] EXCEPT ![b] = x]]
  BY DEF Stored
<1> HIDE DEF e
<1>1. d \in [Cluster -> [1 .. Sectors -> Contents]]
  BY DEF IsStore
<1>2. d[a] \in [1 .. Sectors -> Contents]
  BY <1>1
<1>3. [d[a] EXCEPT ![b] = x] \in [1 .. Sectors -> Contents]
  BY <1>2
<1>4. e \in [Cluster -> [1 .. Sectors -> Contents]]
  <2> DEFINE g == [d[a] EXCEPT ![b] = x]
  <2>1. e = [d EXCEPT ![a] = g]
    BY <1>0
  <2> HIDE DEF g
  <2> QED BY <1>1, <1>3, <2>1 DEF g
<1>5. \A c \in Cluster, s \in 1 .. Sectors :
         e[c][s] = IF c = a /\ s = b THEN x ELSE d[c][s]
  <2> SUFFICES ASSUME NEW c \in Cluster, NEW s \in 1 .. Sectors
               PROVE  e[c][s] = IF c = a /\ s = b THEN x ELSE d[c][s]
    OBVIOUS
  <2>1. CASE c = a
    <3>1. e[c] = [d[a] EXCEPT ![b] = x]
      BY <1>0, <1>1, <2>1
    <3> QED BY <1>2, <2>1, <3>1
  <2>2. CASE c # a
    <3>1. e[c] = d[c]
      BY <1>0, <1>1, <2>2
    <3> QED BY <2>2, <3>1
  <2> QED BY <2>1, <2>2
<1>6. \A s \in 1 .. Sectors : e[Dir][s] \in Dirs
  <2>1. Dir \in Cluster
    BY DEF Cluster
  <2> QED BY <1>5, <2>1 DEF IsStore
<1> QED BY <1>4, <1>5, <1>6 DEF IsStore, e

\* A sector's place in a cache is where its one record is.
LEMMA PlaceRight ==
    ASSUME NEW Dirs, NEW q, IsCache(q, Dirs), NEW c, NEW s
    PROVE  /\ Place(q, c, s) \in 0 .. Len(q)
           /\ Place(q, c, s) # 0 =>
                 q[Place(q, c, s)].cluster = c /\ q[Place(q, c, s)].sector = s
           /\ \A k \in 1 .. Len(q) :
                 q[k].cluster = c /\ q[k].sector = s => Place(q, c, s) = k
<1> DEFINE P(k) == q[k].cluster = c /\ q[k].sector = s
<1>1. Len(q) \in Nat
  BY DEF IsCache
<1>2. CASE \E k \in 1 .. Len(q) : P(k)
  <2>1. Place(q, c, s) = CHOOSE k \in 1 .. Len(q) : P(k)
    BY <1>2 DEF Place
  <2>2. Place(q, c, s) \in 1 .. Len(q) /\ P(Place(q, c, s))
    <3> HIDE DEF P
    <3> QED BY <1>2, <2>1
  <2>3. \A k \in 1 .. Len(q) : P(k) => Place(q, c, s) = k
    BY <2>2 DEF IsCache
  <2> QED BY <1>1, <2>2, <2>3
<1>3. CASE ~ \E k \in 1 .. Len(q) : P(k)
  BY <1>1, <1>3 DEF Place
<1> QED BY <1>2, <1>3

\* What a FatFile sees of a sector is contents of a sector.
LEMMA SeenType ==
    ASSUME NEW Dirs, NEW v, IsView(v, Dirs), NEW c \in Cluster, NEW s \in 1 .. Sectors
    PROVE  Seen(v, c, s) \in Contents /\ (c = Dir => Seen(v, c, s) \in Dirs)
<1> DEFINE k == Place(v.cache, c, s)
<1>1. k \in 0 .. Len(v.cache) /\ (k # 0 => v.cache[k].cluster = c)
  BY PlaceRight DEF IsView
<1>2. CASE k = 0
  <2>1. Seen(v, c, s) = v.disk[c][s]
    BY <1>2 DEF Seen
  <2>2. IsStore(v.disk, Dirs)
    BY DEF IsView
  <2>3. v.disk[c][s] \in Contents /\ (c = Dir => v.disk[c][s] \in Dirs)
    <3> DEFINE d == v.disk
    <3>1. d \in [Cluster -> [1 .. Sectors -> Contents]] /\ \A z \in 1 .. Sectors : d[Dir][z] \in Dirs
      BY <2>2 DEF IsStore
    <3> HIDE DEF d
    <3>2. d[c] \in [1 .. Sectors -> Contents]
      BY <3>1
    <3>3. d[c][s] \in Contents /\ (c = Dir => d[c][s] \in Dirs)
      BY <3>1, <3>2
    <3> QED BY <3>3 DEF d
  <2> QED BY <2>1, <2>3, Zenon
<1>3. CASE k # 0
  <2>1. Seen(v, c, s) = v.cache[k].content
    BY <1>3 DEF Seen
  <2>2. k \in 1 .. Len(v.cache)
    BY <1>1, <1>3 DEF IsView, IsCache
  <2>3. v.cache[k] \in CacheRecord
    BY <2>2 DEF IsView, IsCache
  <2>4. v.cache[k].content \in Contents
    BY <2>3 DEF CacheRecord
  <2>5. v.cache[k].cluster = Dir => v.cache[k].content \in Dirs
    BY <2>2 DEF IsView, IsCache
  <2>6. v.cache[k].cluster = c
    BY <1>1, <1>3
  <2> QED BY <2>1, <2>4, <2>5, <2>6, Zenon
<1> QED BY <1>2, <1>3

\* What is evicted is on the volume.
LEMMA Evicted ==
    ASSUME NEW Dirs, NEW v, IsView(v, Dirs), cacheMax \in Nat \ {0}
    PROVE  /\ IsView(Evict(v), Dirs)
           /\ Len(Evict(v).cache) < cacheMax
           /\ SameSeen(v, Evict(v))
           /\ \A c \in Cluster, s \in 1 .. Sectors : Place(v.cache, c, s) = 0 =>
                 Place(Evict(v).cache, c, s) = 0 /\ Evict(v).disk[c][s] = v.disk[c][s]
<1>1. v.cache \in Seq(CacheRecord) /\ Len(v.cache) \in Nat /\ Len(v.cache) <= cacheMax
  BY DEF IsView, IsCache
<1>2. CASE Len(v.cache) < cacheMax
  <2>1. Evict(v) = v
    BY <1>1, <1>2 DEF Evict
  <2> QED BY <1>2, <2>1 DEF SameSeen
<1>3. CASE Len(v.cache) >= cacheMax
  <2> DEFINE q == v.cache
             r == Head(v.cache)
             w == Evict(v)
  <2>1. /\ w.disk = [v.disk EXCEPT ![r.cluster][r.sector] = r.content]
        /\ w.cache = Tail(q)
        /\ w = [disk |-> w.disk, cache |-> w.cache]
    BY <1>3 DEF Evict
  <2>2. /\ q # <<>> /\ r = q[1] /\ r \in CacheRecord
        /\ Len(q) = cacheMax
    BY <1>1, <1>3
  <2>3. /\ Tail(q) \in Seq(CacheRecord)
        /\ Len(Tail(q)) = Len(q) - 1
        /\ \A k \in 1 .. Len(q) - 1 : Tail(q)[k] = q[k + 1]
    BY <1>1, <2>2
  <2> HIDE DEF w, r, q
  <2>4. /\ r.cluster \in Cluster /\ r.sector \in 1 .. Sectors /\ r.content \in Contents
        /\ (r.cluster = Dir => r.content \in Dirs)
    <3>1. 1 \in 1 .. Len(q)
      BY <1>1, <1>3 DEF q
    <3>2. q[1].cluster = Dir => q[1].content \in Dirs
      BY <3>1 DEF IsView, IsCache, q
    <3> QED BY <2>2, <3>2 DEF CacheRecord, Cluster
  <2>5. /\ IsStore(w.disk, Dirs)
        /\ \A c \in Cluster, s \in 1 .. Sectors :
              w.disk[c][s] = IF c = r.cluster /\ s = r.sector THEN r.content ELSE v.disk[c][s]
    <3> DEFINE d == v.disk   e == w.disk   a == r.cluster   b == r.sector   x == r.content
    <3>1. IsStore(d, Dirs)
      BY DEF IsView
    <3>2. e = Stored(d, a, b, x)
      BY <2>1, Zenon DEF Stored
    <3>3. a \in Cluster /\ b \in 1 .. Sectors /\ x \in Contents /\ (a = Dir => x \in Dirs)
      BY <2>4
    <3> HIDE DEF d, e, a, b, x
    <3>4. /\ IsStore(e, Dirs)
          /\ \A c \in Cluster, s \in 1 .. Sectors :
                e[c][s] = IF c = a /\ s = b THEN x ELSE d[c][s]
      BY <3>1, <3>2, <3>3, StoreWrite
    <3> QED BY <3>4 DEF d, e, a, b, x
  <2>6. IsCache(w.cache, Dirs)
    <3>1. Len(w.cache) = cacheMax - 1 /\ \A k \in 1 .. Len(w.cache) : w.cache[k] = q[k + 1] /\ k + 1 \in 1 .. Len(q)
      BY <2>1, <2>2, <2>3
    <3>2. \A i, j \in 1 .. Len(q) :
             q[i].cluster = q[j].cluster /\ q[i].sector = q[j].sector => i = j
      BY DEF IsView, IsCache, q
    <3>3. \A i \in 1 .. Len(q) : q[i].cluster = Dir => q[i].content \in Dirs
      BY DEF IsView, IsCache, q
    <3> QED BY <2>1, <2>3, <3>1, <3>2, <3>3 DEF IsCache
  <2>7. ASSUME NEW c, NEW s
        PROVE  Place(w.cache, c, s) =
                  IF Place(q, c, s) > 1 THEN Place(q, c, s) - 1 ELSE 0
    <3> DEFINE k == Place(q, c, s)   m == Place(w.cache, c, s)
    <3>1. /\ k \in 0 .. Len(q)
          /\ k # 0 => q[k].cluster = c /\ q[k].sector = s
          /\ \A i \in 1 .. Len(q) : q[i].cluster = c /\ q[i].sector = s => k = i
      BY PlaceRight DEF IsView, q
    <3>2. /\ m \in 0 .. Len(w.cache)
          /\ m # 0 => w.cache[m].cluster = c /\ w.cache[m].sector = s
          /\ \A i \in 1 .. Len(w.cache) : w.cache[i].cluster = c /\ w.cache[i].sector = s => m = i
      BY <2>6, PlaceRight
    <3>3. Len(w.cache) = Len(q) - 1 /\ Len(q) \in Nat
          /\ \A i \in 1 .. Len(w.cache) : w.cache[i] = q[i + 1] /\ i + 1 \in 1 .. Len(q)
      BY <1>1, <2>1, <2>2, <2>3 DEF q
    <3> HIDE DEF k, m
    <3>4. CASE k > 1
      <4>1. k - 1 \in 1 .. Len(w.cache) /\ w.cache[k - 1] = q[k]
        BY <3>1, <3>3, <3>4
      <4>2. m = k - 1
        BY <3>1, <3>2, <3>4, <4>1
      <4> QED BY <3>4, <4>2 DEF k, m
    <3>5. CASE ~(k > 1)
      <4>1. m = 0
        <5> SUFFICES ASSUME m # 0 PROVE FALSE
          OBVIOUS
        <5>1. m \in 1 .. Len(w.cache) /\ m + 1 \in 1 .. Len(q) /\ w.cache[m] = q[m + 1]
          BY <3>2, <3>3
        <5>2. k = m + 1
          BY <3>1, <3>2, <5>1
        <5> QED BY <3>5, <5>1, <5>2
      <4> QED BY <3>5, <4>1 DEF k, m
    <3> QED BY <3>4, <3>5
  <2>8. SameSeen(v, w)
    <3> SUFFICES ASSUME NEW c \in Cluster, NEW s \in 1 .. Sectors
                 PROVE  Seen(w, c, s) = Seen(v, c, s)
      BY DEF SameSeen
    <3> DEFINE k == Place(q, c, s)   m == Place(w.cache, c, s)
    <3>1. /\ k \in 0 .. Len(q)
          /\ k # 0 => q[k].cluster = c /\ q[k].sector = s
          /\ \A i \in 1 .. Len(q) : q[i].cluster = c /\ q[i].sector = s => k = i
      BY PlaceRight DEF IsView, q
    <3>2. m = IF k > 1 THEN k - 1 ELSE 0
      BY <2>7
    <3>3. /\ Seen(v, c, s) = IF k = 0 THEN v.disk[c][s] ELSE q[k].content
          /\ Seen(w, c, s) = IF m = 0 THEN w.disk[c][s] ELSE w.cache[m].content
      BY DEF Seen, q
    <3>4. w.disk[c][s] = IF r.cluster = c /\ r.sector = s THEN r.content ELSE v.disk[c][s]
      BY <2>5
    <3>5. r.cluster = c /\ r.sector = s => k = 1
      <4>1. 1 \in 1 .. Len(q)
        BY <1>1, <1>3 DEF q
      <4> QED BY <2>2, <3>1, <4>1
    <3>6. k = 1 => r.cluster = c /\ r.sector = s /\ r.content = q[k].content
      BY <2>2, <3>1
    <3>7. k > 1 => k - 1 \in 1 .. Len(q) - 1 /\ w.cache[k - 1] = q[k]
      <4>1. Len(q) \in Nat
        BY <1>1 DEF q
      <4>2. k \in Nat /\ k <= Len(q)
        BY <3>1, <4>1
      <4> HIDE DEF k
      <4>3. k > 1 => k - 1 \in 1 .. Len(q) - 1 /\ (k - 1) + 1 = k
        BY <4>1, <4>2
      <4> QED BY <2>1, <2>3, <4>3
    <3>8. k \in Nat
      BY <1>1, <3>1 DEF q
    <3> HIDE DEF k, m
    <3> QED BY <3>2, <3>3, <3>4, <3>5, <3>6, <3>7, <3>8
  <2>9. ASSUME NEW c \in Cluster, NEW s \in 1 .. Sectors, Place(q, c, s) = 0
        PROVE  Place(w.cache, c, s) = 0 /\ w.disk[c][s] = v.disk[c][s]
    <3>1. Place(w.cache, c, s) = 0
      BY <2>7, <2>9
    <3>2. ~(r.cluster = c /\ r.sector = s)
      <4>1. 1 \in 1 .. Len(q) /\ IsCache(q, Dirs)
        BY <1>1, <1>3 DEF q, IsView
      <4>2. q[1].cluster = c /\ q[1].sector = s => Place(q, c, s) = 1
        BY <4>1, PlaceRight
      <4> QED BY <2>2, <2>9, <4>2
    <3>3. w.disk[c][s] = v.disk[c][s]
      BY <2>5, <3>2
    <3> QED BY <3>1, <3>3
  <2>10. Len(w.cache) < cacheMax
    BY <1>1, <2>1, <2>2, <2>3
  <2> QED BY <2>1, <2>5, <2>6, <2>8, <2>9, <2>10 DEF IsView, w, q
<1> QED BY <1>1, <1>2, <1>3

\* A record is added in front of the others, and only its sector looks
\* different afterwards.
LEMMA Added ==
    ASSUME NEW Dirs, NEW v, IsView(v, Dirs), cacheMax \in Nat \ {0},
           NEW c \in Cluster, NEW s \in 1 .. Sectors, Place(v.cache, c, s) = 0,
           NEW x \in Contents, c = Dir => x \in Dirs
    PROVE  /\ IsView(AddRecord(v, c, s, x), Dirs)
           /\ AddRecord(v, c, s, x).cache # <<>>
           /\ \A a \in Cluster, b \in 1 .. Sectors :
                 Seen(AddRecord(v, c, s, x), a, b) =
                    IF a = c /\ b = s THEN x ELSE Seen(v, a, b)
<1> DEFINE u == Evict(v)
           q == u.cache
           r == Record(c, s, x)
           p == <<r>> \o q
           w == AddRecord(v, c, s, x)
<1>1. /\ IsView(u, Dirs) /\ Len(q) < cacheMax /\ SameSeen(v, u)
      /\ Place(q, c, s) = 0
  BY Evicted
<1>2. w.disk = u.disk /\ w.cache = p /\ w = [disk |-> w.disk, cache |-> w.cache]
  <2>1. w = [u EXCEPT !.cache = p]
    BY DEF AddRecord
  <2>2. u = [disk |-> u.disk, cache |-> u.cache]
    BY <1>1 DEF IsView
  <2> HIDE DEF u, w, p
  <2> QED BY <2>1, <2>2
<1>3. q \in Seq(CacheRecord) /\ IsCache(q, Dirs) /\ IsStore(u.disk, Dirs)
  BY <1>1 DEF IsView, IsCache
<1>4. r \in CacheRecord /\ r.cluster = c /\ r.sector = s /\ r.content = x
  BY DEF Record, CacheRecord, Cluster
<1> HIDE DEF u, w, r
<1>5. /\ p \in Seq(CacheRecord) /\ Len(p) = Len(q) + 1 /\ Len(q) \in Nat
      /\ p[1] = r /\ \A k \in 1 .. Len(q) : p[k + 1] = q[k]
      /\ p # <<>>
  <2> HIDE DEF q
  <2> QED BY <1>3, <1>4
<1>6. \A k \in 1 .. Len(p) : k = 1 \/ (k - 1 \in 1 .. Len(q) /\ p[k] = q[k - 1])
  <2> HIDE DEF q, p
  <2> SUFFICES ASSUME NEW k \in 1 .. Len(p), k # 1
               PROVE  k - 1 \in 1 .. Len(q) /\ p[k] = q[k - 1]
    OBVIOUS
  <2>1. k - 1 \in 1 .. Len(q) /\ (k - 1) + 1 = k
    BY <1>5
  <2> QED BY <1>5, <2>1
<1>7. \A k \in 1 .. Len(q) : ~(q[k].cluster = c /\ q[k].sector = s)
  <2>1. \A k \in 1 .. Len(q) : q[k].cluster = c /\ q[k].sector = s => Place(q, c, s) = k
    BY <1>3, PlaceRight
  <2> QED BY <1>1, <1>5, <2>1
<1> HIDE DEF p, q
<1>8. IsCache(p, Dirs)
  <2>1. \A i, j \in 1 .. Len(p) :
           p[i].cluster = p[j].cluster /\ p[i].sector = p[j].sector => i = j
    <3> SUFFICES ASSUME NEW i \in 1 .. Len(p), NEW j \in 1 .. Len(p),
                        p[i].cluster = p[j].cluster, p[i].sector = p[j].sector
                 PROVE  i = j
      OBVIOUS
    <3> DEFINE m == i - 1   n == j - 1
    <3>1. /\ i = 1 \/ (m \in 1 .. Len(q) /\ p[i] = q[m])
          /\ j = 1 \/ (n \in 1 .. Len(q) /\ p[j] = q[n])
      BY <1>6
    <3>2. m \in Int /\ n \in Int /\ (m = n <=> i = j)
      BY <1>5
    <3>3. \A x1, x2 \in 1 .. Len(q) :
             q[x1].cluster = q[x2].cluster /\ q[x1].sector = q[x2].sector => x1 = x2
      BY <1>3 DEF IsCache
    <3> HIDE DEF m, n
    <3>4. CASE i = 1 /\ j # 1
      BY <1>4, <1>5, <1>7, <3>1, <3>4
    <3>5. CASE i # 1 /\ j = 1
      BY <1>4, <1>5, <1>7, <3>1, <3>5
    <3>6. CASE i # 1 /\ j # 1
      BY <3>1, <3>2, <3>3, <3>6
    <3> QED BY <3>4, <3>5, <3>6
  <2>2. \A i \in 1 .. Len(p) : p[i].cluster = Dir => p[i].content \in Dirs
    <3> SUFFICES ASSUME NEW i \in 1 .. Len(p), p[i].cluster = Dir
                 PROVE  p[i].content \in Dirs
      OBVIOUS
    <3> DEFINE m == i - 1
    <3>1. i = 1 \/ (m \in 1 .. Len(q) /\ p[i] = q[m])
      BY <1>6
    <3>2. \A j \in 1 .. Len(q) : q[j].cluster = Dir => q[j].content \in Dirs
      BY <1>3 DEF IsCache
    <3> HIDE DEF m
    <3> QED BY <1>4, <1>5, <3>1, <3>2
  <2>3. Len(p) <= cacheMax
    BY <1>1, <1>5
  <2> QED BY <1>5, <2>1, <2>2, <2>3 DEF IsCache
<1>9. IsView(w, Dirs)
  BY <1>2, <1>3, <1>8 DEF IsView
<1>10. ASSUME NEW a \in Cluster, NEW b \in 1 .. Sectors
       PROVE  Seen(w, a, b) = IF a = c /\ b = s THEN x ELSE Seen(v, a, b)
  <2> DEFINE k == Place(q, a, b)   m == Place(p, a, b)
  <2>1. /\ k \in 0 .. Len(q)
        /\ k # 0 => q[k].cluster = a /\ q[k].sector = b
    BY <1>3, PlaceRight
  <2>2. /\ m \in 0 .. Len(p)
        /\ m # 0 => p[m].cluster = a /\ p[m].sector = b
        /\ \A i \in 1 .. Len(p) : p[i].cluster = a /\ p[i].sector = b => m = i
    BY <1>8, PlaceRight
  <2>3. Seen(w, a, b) = IF m = 0 THEN w.disk[a][b] ELSE p[m].content
    BY <1>2 DEF Seen
  <2>4. Seen(v, a, b) = IF k = 0 THEN u.disk[a][b] ELSE q[k].content
    <3>1. Seen(v, a, b) = Seen(u, a, b)
      BY <1>1 DEF SameSeen
    <3> QED BY <3>1 DEF Seen, q
  <2> HIDE DEF k, m
  <2>5. CASE a = c /\ b = s
    <3>1. m = 1
      BY <1>4, <1>5, <2>2, <2>5
    <3> QED BY <1>4, <1>5, <2>3, <2>5, <3>1
  <2>6. CASE ~(a = c /\ b = s) /\ k # 0
    <3>1. k \in 1 .. Len(q) /\ k + 1 \in 1 .. Len(p) /\ p[k + 1] = q[k]
      BY <1>5, <2>1, <2>6
    <3>2. m = k + 1
      BY <2>1, <2>2, <2>6, <3>1
    <3>3. m # 0 /\ p[m] = q[k]
      BY <3>1, <3>2
    <3> QED BY <2>3, <2>4, <2>6, <3>3
  <2>7. CASE ~(a = c /\ b = s) /\ k = 0
    <3>1. m = 0
      <4> SUFFICES ASSUME m # 0 PROVE FALSE
        OBVIOUS
      <4>1. m \in 1 .. Len(p) /\ m # 1
        BY <1>4, <1>5, <2>2, <2>7
      <4>2. m - 1 \in 1 .. Len(q) /\ p[m] = q[m - 1]
        BY <1>6, <4>1
      <4>3. k = m - 1
        <5>1. \A i \in 1 .. Len(q) : q[i].cluster = a /\ q[i].sector = b => Place(q, a, b) = i
          BY <1>3, PlaceRight
        <5> QED BY <2>2, <4>1, <4>2, <5>1 DEF k
      <4> QED BY <2>7, <4>2, <4>3
    <3> QED BY <1>2, <2>3, <2>4, <2>7, <3>1
  <2> QED BY <2>5, <2>6, <2>7
<1>11. w.cache # <<>>
  BY <1>2, <1>5
<1> QED BY <1>9, <1>10, <1>11 DEF w

\* A sector that is put is seen from then on, and no other sector changes.
LEMMA PutInCache ==
    ASSUME NEW Dirs, NEW v, IsView(v, Dirs), cacheMax \in Nat \ {0},
           NEW c \in Cluster, NEW s \in 1 .. Sectors,
           NEW x \in Contents, c = Dir => x \in Dirs
    PROVE  /\ IsView(PutInFileCache(v, c, s, x), Dirs)
           /\ PutInFileCache(v, c, s, x).cache # <<>>
           /\ \A a \in Cluster, b \in 1 .. Sectors :
                 Seen(PutInFileCache(v, c, s, x), a, b) =
                    IF a = c /\ b = s THEN x ELSE Seen(v, a, b)
<1> DEFINE k == Place(v.cache, c, s)
           q == v.cache
           w == PutInFileCache(v, c, s, x)
<1>1. CASE k = 0
  <2>1. w = AddRecord(v, c, s, x)
    BY <1>1 DEF PutInFileCache
  <2> HIDE DEF w
  <2> QED BY <1>1, <2>1, Added DEF w
<1>2. CASE k # 0
  <2> DEFINE r == [q[k] EXCEPT !.content = x]
             p == [q EXCEPT ![k] = r]
  <2>1. w = [v EXCEPT !.cache = p]
    BY <1>2 DEF PutInFileCache
  <2>2. v = [disk |-> v.disk, cache |-> v.cache] /\ IsStore(v.disk, Dirs) /\ IsCache(q, Dirs)
    BY DEF IsView
  <2>3. w.disk = v.disk /\ w.cache = p /\ w = [disk |-> w.disk, cache |-> w.cache]
    <3> HIDE DEF p, w
    <3> QED BY <2>1, <2>2
  <2>4. /\ k \in 0 .. Len(q)
        /\ q[k].cluster = c /\ q[k].sector = s
    BY <1>2, <2>2, PlaceRight
  <2>5. q \in Seq(CacheRecord) /\ k \in 1 .. Len(q) /\ Len(q) \in Nat
    BY <1>2, <2>2, <2>4 DEF IsCache
  <2> HIDE DEF w, k, q
  <2>6. r \in CacheRecord /\ r.cluster = c /\ r.sector = s /\ r.content = x
    <3>1. q[k] \in CacheRecord
      BY <2>5
    <3> QED BY <2>4, <3>1 DEF CacheRecord
  <2> HIDE DEF r
  <2>7. /\ p \in Seq(CacheRecord) /\ Len(p) = Len(q)
        /\ \A i \in 1 .. Len(q) : p[i] = IF i = k THEN r ELSE q[i]
    BY <2>5, <2>6
  <2> HIDE DEF p
  <2>8. \A i \in 1 .. Len(q) : p[i].cluster = q[i].cluster /\ p[i].sector = q[i].sector
    BY <2>4, <2>6, <2>7
  <2>9. IsCache(p, Dirs)
    <3>1. \A i \in 1 .. Len(p) : p[i].cluster = Dir => p[i].content \in Dirs
      BY <2>2, <2>6, <2>7 DEF IsCache
    <3>2. \A i, j \in 1 .. Len(p) :
             p[i].cluster = p[j].cluster /\ p[i].sector = p[j].sector => i = j
      BY <2>2, <2>7, <2>8 DEF IsCache
    <3> QED BY <2>2, <2>7, <3>1, <3>2 DEF IsCache
  <2>10. IsView(w, Dirs)
    BY <2>2, <2>3, <2>9 DEF IsView
  <2>11. p # <<>>
    BY <2>5, <2>7
  <2>12. ASSUME NEW a \in Cluster, NEW b \in 1 .. Sectors
         PROVE  Seen(w, a, b) = IF a = c /\ b = s THEN x ELSE Seen(v, a, b)
    <3> DEFINE i == Place(q, a, b)   m == Place(p, a, b)
    <3>1. /\ i \in 0 .. Len(q)
          /\ i # 0 => q[i].cluster = a /\ q[i].sector = b
          /\ \A j \in 1 .. Len(q) : q[j].cluster = a /\ q[j].sector = b => i = j
      BY <2>2, PlaceRight
    <3>2. /\ m \in 0 .. Len(p)
          /\ m # 0 => p[m].cluster = a /\ p[m].sector = b
          /\ \A j \in 1 .. Len(p) : p[j].cluster = a /\ p[j].sector = b => m = j
      BY <2>9, PlaceRight
    <3>3. /\ Seen(w, a, b) = IF m = 0 THEN v.disk[a][b] ELSE p[m].content
          /\ Seen(v, a, b) = IF i = 0 THEN v.disk[a][b] ELSE q[i].content
      BY <2>3 DEF Seen, q
    <3> HIDE DEF i, m
    <3>4. i = m
      BY <2>5, <2>7, <2>8, <3>1, <3>2
    <3>5. i = k <=> (a = c /\ b = s)
      BY <2>4, <2>5, <3>1
    <3>6. CASE i = 0
      BY <2>5, <3>3, <3>4, <3>5, <3>6
    <3>7. CASE i # 0
      <4>1. p[i] = IF i = k THEN r ELSE q[i]
        BY <2>5, <2>7, <3>1, <3>7
      <4> QED BY <2>6, <3>3, <3>4, <3>5, <3>7, <4>1
    <3> QED BY <3>6, <3>7
  <2> QED BY <2>3, <2>10, <2>11, <2>12 DEF w
<1> QED BY <1>1, <1>2

\* A sector that is read comes into the cache, and nothing looks different.
LEMMA GotSector ==
    ASSUME NEW Dirs, NEW v, IsView(v, Dirs), cacheMax \in Nat \ {0},
           NEW c \in Cluster, NEW s \in 1 .. Sectors
    PROVE  /\ IsView(GetFileSector(v, c, s), Dirs)
           /\ GetFileSector(v, c, s).cache # <<>>
           /\ SameSeen(v, GetFileSector(v, c, s))
<1> DEFINE w == GetFileSector(v, c, s)
<1>1. CASE Place(v.cache, c, s) = 0
  <2> DEFINE x == v.disk[c][s]
  <2>1. w = PutInFileCache(v, c, s, x)
    BY <1>1 DEF GetFileSector
  <2>2. x = Seen(v, c, s)
    BY <1>1 DEF Seen
  <2>3. x \in Contents /\ (c = Dir => x \in Dirs)
    BY <2>2, SeenType
  <2> HIDE DEF w, x
  <2>4. /\ IsView(w, Dirs) /\ w.cache # <<>>
        /\ \A a \in Cluster, b \in 1 .. Sectors :
              Seen(w, a, b) = IF a = c /\ b = s THEN x ELSE Seen(v, a, b)
    BY <2>1, <2>3, PutInCache
  <2>5. SameSeen(v, w)
    BY <2>2, <2>4 DEF SameSeen
  <2> QED BY <2>4, <2>5 DEF w
<1>2. CASE Place(v.cache, c, s) # 0
  <2>1. w = v
    BY <1>2 DEF GetFileSector
  <2>2. Place(v.cache, c, s) \in 0 .. Len(v.cache)
    BY PlaceRight DEF IsView
  <2>3. v.cache # <<>>
    BY <1>2, <2>2
  <2> HIDE DEF w
  <2> QED BY <2>1, <2>3 DEF SameSeen, w
<1> QED BY <1>1, <1>2
-----------------------------------------------------------------------------
(* Blocks.                                                                 *)

\* A block is read as it looks, and reading it changes no looks.
LEMMA GotBlock ==
    ASSUME NEW Dirs, NEW v, IsView(v, Dirs), cacheMax \in Nat, NEW c \in Cluster
    PROVE  /\ IsView(GetBlock(v, c).view, Dirs)
           /\ SameSeen(v, GetBlock(v, c).view)
           /\ GetBlock(v, c).block \in [1 .. Sectors -> Contents]
           /\ c = Dir => \A s \in 1 .. Sectors : GetBlock(v, c).block[s] \in Dirs
           /\ Cached(c) => GetBlock(v, c).view.cache # <<>>
           /\ ~Cached(c) => GetBlock(v, c) = [view |-> v, block |-> v.disk[c]]
<1>1. CASE Cached(c)
  <2> DEFINE G == GetSteps(v, c)
             Right(s) ==
                /\ IsView(G[s].view, Dirs) /\ SameSeen(v, G[s].view)
                /\ s > 0 => G[s].view.cache # <<>>
                /\ G[s].block \in Seq(Contents) /\ Len(G[s].block) = s
                /\ \A i \in 1 .. s : G[s].block[i] = Seen(v, c, i)
             I == {s \in Nat : Right(s)}
  <2>1. /\ GetBlock(v, c) = G[Sectors]
        /\ G[0] = [view |-> v, block |-> <<>>]
        /\ \A s \in 1 .. Sectors :
              G[s] = [view |-> GetFileSector(G[s - 1].view, c, s),
                      block |-> Append(G[s - 1].block, Seen(G[s - 1].view, c, s))]
    BY <1>1, GetStepByStep
  <2>2. cacheMax \in Nat \ {0} /\ Sectors \in Nat \ {0}
    BY <1>1, FileAssumption DEF Cached
  <2> HIDE DEF G
  <2>3. Right(0)
    <3>1. G[0].view = v /\ G[0].block = <<>>
      BY <2>1
    <3> QED BY <3>1 DEF SameSeen
  <2>4. ASSUME NEW m \in Nat, Right(m), m < Sectors
        PROVE  Right(m + 1)
    <3> DEFINE w == G[m].view   x == G[m].block   n == m + 1
    <3>1. n \in 1 .. Sectors /\ n - 1 = m
      BY <2>2, <2>4
    <3>2. G[n] = [view |-> GetFileSector(w, c, n), block |-> Append(x, Seen(w, c, n))]
      <4> HIDE DEF n
      <4> QED BY <2>1, <3>1
    <3>3. G[n].view = GetFileSector(w, c, n) /\ G[n].block = Append(x, Seen(w, c, n))
      BY <3>2
    <3>4. IsView(w, Dirs) /\ SameSeen(v, w) /\ x \in Seq(Contents) /\ Len(x) = m
          /\ \A i \in 1 .. m : x[i] = Seen(v, c, i)
      BY <2>4
    <3>5. Seen(w, c, n) = Seen(v, c, n) /\ Seen(w, c, n) \in Contents
      BY <3>1, <3>4, SeenType DEF SameSeen
    <3> HIDE DEF w, x, n
    <3>6. /\ IsView(GetFileSector(w, c, n), Dirs)
          /\ GetFileSector(w, c, n).cache # <<>>
          /\ SameSeen(w, GetFileSector(w, c, n))
      BY <2>2, <3>1, <3>4, GotSector
    <3>7. SameSeen(v, GetFileSector(w, c, n))
      BY <3>4, <3>6 DEF SameSeen
    <3>8. /\ Append(x, Seen(w, c, n)) \in Seq(Contents)
          /\ Len(Append(x, Seen(w, c, n))) = n
          /\ \A i \in 1 .. n : Append(x, Seen(w, c, n))[i] = Seen(v, c, i)
      <4> DEFINE y == Seen(w, c, n)
      <4>1. y \in Contents /\ y = Seen(v, c, n)
        BY <3>5
      <4> HIDE DEF y
      <4>2. Append(x, y) \in Seq(Contents) /\ Len(Append(x, y)) = n
        BY <3>1, <3>4, <4>1
      <4>3. \A i \in 1 .. n : i = n \/ i \in 1 .. m
        BY <3>1
      <4>4. \A i \in 1 .. m : Append(x, y)[i] = x[i]
        BY <3>4, <4>1
      <4>5. Append(x, y)[n] = y
        BY <2>4, <3>1, <3>4, <4>1 DEF n
      <4> QED BY <3>4, <4>1, <4>2, <4>3, <4>4, <4>5 DEF y
    <3>9. Right(n)
      BY <3>3, <3>6, <3>7, <3>8
    <3> QED BY <3>9 DEF n
  <2>5. Right(Sectors)
    <3>1. I \in SUBSET Nat /\ 0 \in I /\ \A m \in I : m < Sectors => m + 1 \in I
      BY <2>3, <2>4
    <3> HIDE DEF I
    <3>2. \A m \in 0 .. Sectors : m \in I
      BY <2>2, <3>1, UpTo
    <3>3. Sectors \in I
      BY <2>2, <3>2
    <3> QED BY <3>3 DEF I
  <2>6. /\ IsView(G[Sectors].view, Dirs) /\ SameSeen(v, G[Sectors].view)
        /\ G[Sectors].view.cache # <<>>
        /\ G[Sectors].block \in Seq(Contents) /\ Len(G[Sectors].block) = Sectors
        /\ \A i \in 1 .. Sectors : G[Sectors].block[i] = Seen(v, c, i)
    BY <2>2, <2>5
  <2>7. G[Sectors].block \in [1 .. Sectors -> Contents]
    <3> DEFINE x == G[Sectors].block
    <3>1. x \in Seq(Contents) /\ Len(x) = Sectors
      BY <2>6
    <3> HIDE DEF x
    <3>2. x \in [1 .. Sectors -> Contents]
      BY <3>1
    <3> QED BY <3>2 DEF x
  <2>8. c = Dir => \A s \in 1 .. Sectors : G[Sectors].block[s] \in Dirs
    BY <2>6, SeenType
  <2> QED BY <1>1, <2>1, <2>6, <2>7, <2>8
<1>2. CASE ~Cached(c)
  <2>1. GetBlock(v, c) = [view |-> v, block |-> v.disk[c]]
    BY <1>2 DEF GetBlock
  <2>2. GetBlock(v, c).view = v /\ GetBlock(v, c).block = v.disk[c]
    BY <2>1
  <2> DEFINE d == v.disk
  <2>3. d \in [Cluster -> [1 .. Sectors -> Contents]] /\ \A s \in 1 .. Sectors : d[Dir][s] \in Dirs
    BY DEF IsView, IsStore
  <2> HIDE DEF d
  <2>4. d[c] \in [1 .. Sectors -> Contents]
        /\ (c = Dir => \A s \in 1 .. Sectors : d[c][s] \in Dirs)
    BY <2>3
  <2>5. SameSeen(v, v)
    BY DEF SameSeen
  <2> QED BY <1>2, <2>1, <2>2, <2>4, <2>5 DEF d
<1> QED BY <1>1, <1>2

\* A block is put, into the cache or else on the volume.
LEMMA BlockPut ==
    ASSUME NEW Dirs, NEW v, IsView(v, Dirs), cacheMax \in Nat, NEW c \in Cluster,
           NEW block \in [1 .. Sectors -> Contents],
           c = Dir => \A s \in 1 .. Sectors : block[s] \in Dirs
    PROVE  /\ IsView(PutBlock(v, c, block), Dirs)
           /\ Cached(c) => PutBlock(v, c, block).cache # <<>>
           /\ ~Cached(c) => PutBlock(v, c, block) =
                               [disk |-> [v.disk EXCEPT ![c] = block], cache |-> v.cache]
<1>1. CASE Cached(c)
  <2> DEFINE x == block[1]
             P == PutSteps(v, c, x)
             Right(s) == IsView(P[s], Dirs) /\ (s > 0 => P[s].cache # <<>>)
             I == {s \in Nat : Right(s)}
  <2>1. /\ PutBlock(v, c, block) = P[Sectors]
        /\ P[0] = v
        /\ \A s \in 1 .. Sectors : P[s] = PutInFileCache(P[s - 1], c, s, x)
    <3>1. block[1] = x
      OBVIOUS
    <3> HIDE DEF x
    <3>2. PutBlock(v, c, block) = P[Sectors]
      <4>1. \A b : b[1] = x => PutBlock(v, c, b) = PutSteps(v, c, x)[Sectors]
        BY <1>1, PutStepByStep
      <4> QED BY <3>1, <4>1, Zenon
    <3> QED BY <3>2, PutStepByStep
  <2>2. cacheMax \in Nat \ {0} /\ Sectors \in Nat \ {0}
    BY <1>1, FileAssumption DEF Cached
  <2>3. x \in Contents /\ (c = Dir => x \in Dirs)
    BY <2>2
  <2> HIDE DEF P, x
  <2>4. Right(0)
    BY <2>1
  <2>5. ASSUME NEW m \in Nat, Right(m), m < Sectors
        PROVE  Right(m + 1)
    <3> DEFINE n == m + 1   w == P[m]
    <3>1. n \in 1 .. Sectors /\ n - 1 = m /\ IsView(w, Dirs)
      BY <2>2, <2>5
    <3> HIDE DEF n
    <3>2. P[n] = PutInFileCache(w, c, n, x)
      BY <2>1, <3>1
    <3> HIDE DEF w
    <3>3. IsView(P[n], Dirs) /\ P[n].cache # <<>>
      BY <2>2, <2>3, <3>1, <3>2, PutInCache
    <3> QED BY <3>3 DEF n
  <2>6. Right(Sectors)
    <3>1. I \in SUBSET Nat /\ 0 \in I /\ \A m \in I : m < Sectors => m + 1 \in I
      BY <2>4, <2>5
    <3> HIDE DEF I
    <3>2. \A m \in 0 .. Sectors : m \in I
      BY <2>2, <3>1, UpTo
    <3>3. Sectors \in I
      BY <2>2, <3>2
    <3> QED BY <3>3 DEF I
  <2> QED BY <1>1, <2>1, <2>2, <2>6
<1>2. CASE ~Cached(c)
  <2> DEFINE d == v.disk   e == [d EXCEPT ![c] = block]
  <2>1. v = [disk |-> v.disk, cache |-> v.cache] /\ IsStore(d, Dirs) /\ IsCache(v.cache, Dirs)
    BY DEF IsView
  <2>2. PutBlock(v, c, block) = [v EXCEPT !.disk = e]
    BY <1>2 DEF PutBlock
  <2> HIDE DEF d
  <2>3. IsStore(e, Dirs)
    <3>1. d \in [Cluster -> [1 .. Sectors -> Contents]] /\ \A s \in 1 .. Sectors : d[Dir][s] \in Dirs
      BY <2>1 DEF IsStore
    <3>2. e \in [Cluster -> [1 .. Sectors -> Contents]]
      BY <3>1
    <3>3. \A s \in 1 .. Sectors : e[Dir][s] \in Dirs
      <4>1. e[Dir] = IF c = Dir THEN block ELSE d[Dir]
        BY <3>1 DEF Cluster
      <4> QED BY <3>1, <4>1
    <3> QED BY <3>2, <3>3 DEF IsStore
  <2> HIDE DEF e
  <2>4. [v EXCEPT !.disk = e] = [disk |-> e, cache |-> v.cache]
    BY <2>1
  <2>5. PutBlock(v, c, block) = [disk |-> e, cache |-> v.cache]
    BY <2>2, <2>4
  <2>6. IsView(PutBlock(v, c, block), Dirs)
    BY <2>1, <2>3, <2>5 DEF IsView
  <2> QED BY <1>2, <2>5, <2>6 DEF d, e
<1> QED BY <1>1, <1>2

\* A flush empties the cache and changes no looks.
LEMMA FlushedRight ==
    ASSUME NEW Dirs, NEW v, IsView(v, Dirs), cacheMax \in Nat
    PROVE  IsView(Flushed(v), Dirs) /\ Flushed(v).cache = <<>> /\ SameSeen(v, Flushed(v))
<1> DEFINE F == FlushSteps(v)
           q == v.cache
           d == v.disk
           Right(n) ==
              /\ IsStore(F[n], Dirs)
              /\ \A c \in Cluster, s \in 1 .. Sectors :
                    F[n][c][s] = IF Place(q, c, s) \in 1 .. n THEN q[Place(q, c, s)].content
                                 ELSE d[c][s]
           I == {n \in Nat : Right(n)}
<1>1. /\ Len(q) \in Nat /\ q \in Seq(CacheRecord) /\ IsCache(q, Dirs) /\ IsStore(d, Dirs)
  BY DEF IsView, IsCache
<1>2. /\ Flushed(v) = [disk |-> F[Len(q)], cache |-> <<>>]
      /\ F[0] = d
      /\ \A k \in 1 .. Len(q) : F[k] = Stored(F[k - 1], q[k].cluster, q[k].sector, q[k].content)
  BY <1>1, FlushStepByStep DEF Stored
<1> HIDE DEF F, q, d
<1>3. Right(0)
  BY <1>1, <1>2
<1>4. ASSUME NEW m \in Nat, Right(m), m < Len(q)
      PROVE  Right(m + 1)
  <2> DEFINE n == m + 1   r == q[n]   g == F[m]
  <2>1. n \in 1 .. Len(q) /\ n - 1 = m
    BY <1>1, <1>4
  <2>2. \A i \in Nat : i \in 1 .. n <=> i = n \/ i \in 1 .. m
    BY <1>4
  <2> HIDE DEF n
  <2>3. F[n] = Stored(g, r.cluster, r.sector, r.content)
    BY <1>2, <2>1
  <2>4. r.cluster \in Cluster /\ r.sector \in 1 .. Sectors /\ r.content \in Contents
        /\ (r.cluster = Dir => r.content \in Dirs)
    <3>1. r \in CacheRecord
      BY <1>1, <2>1
    <3>2. r.cluster = Dir => r.content \in Dirs
      BY <1>1, <2>1 DEF IsCache
    <3> QED BY <3>1, <3>2 DEF CacheRecord, Cluster
  <2> HIDE DEF r, g
  <2>5. IsStore(g, Dirs)
    BY <1>4 DEF g
  <2>6. /\ IsStore(F[n], Dirs)
        /\ \A c \in Cluster, s \in 1 .. Sectors :
              F[n][c][s] = IF c = r.cluster /\ s = r.sector THEN r.content ELSE g[c][s]
    <3> DEFINE a == r.cluster   b == r.sector   x == r.content   e == F[n]
    <3>1. e = Stored(g, a, b, x)
      BY <2>3
    <3>2. a \in Cluster /\ b \in 1 .. Sectors /\ x \in Contents /\ (a = Dir => x \in Dirs)
      BY <2>4
    <3> HIDE DEF a, b, x, e
    <3>3. /\ IsStore(e, Dirs)
          /\ \A c \in Cluster, s \in 1 .. Sectors : e[c][s] = IF c = a /\ s = b THEN x ELSE g[c][s]
      BY <2>5, <3>1, <3>2, StoreWrite
    <3> QED BY <3>3 DEF a, b, x, e
  <2>7. ASSUME NEW c \in Cluster, NEW s \in 1 .. Sectors
        PROVE  F[n][c][s] = IF Place(q, c, s) \in 1 .. n THEN q[Place(q, c, s)].content
                            ELSE d[c][s]
    <3> DEFINE k == Place(q, c, s)
    <3>1. /\ k \in 0 .. Len(q)
          /\ k # 0 => q[k].cluster = c /\ q[k].sector = s
          /\ \A i \in 1 .. Len(q) : q[i].cluster = c /\ q[i].sector = s => k = i
      BY <1>1, PlaceRight
    <3>2. k = n <=> c = r.cluster /\ s = r.sector
      <4>1. k = n => q[k].cluster = c /\ q[k].sector = s
        BY <2>1, <3>1
      <4>2. c = r.cluster /\ s = r.sector => k = n
        BY <2>1, <3>1 DEF r
      <4> HIDE DEF k
      <4> QED BY <4>1, <4>2 DEF r
    <3>3. k \in Nat /\ (k \in 1 .. n <=> k = n \/ k \in 1 .. m)
      BY <1>1, <2>2, <3>1
    <3>4. g[c][s] = IF k \in 1 .. m THEN q[k].content ELSE d[c][s]
      BY <1>4 DEF g
    <3>5. F[n][c][s] = IF c = r.cluster /\ s = r.sector THEN r.content ELSE g[c][s]
      BY <2>6
    <3> HIDE DEF k
    <3>6. CASE k = n
      <4>1. F[n][c][s] = q[k].content
        BY <3>2, <3>5, <3>6, Zenon DEF r
      <4> QED BY <3>3, <3>6, <4>1 DEF k
    <3>7. CASE k # n
      <4>1. F[n][c][s] = g[c][s]
        BY <3>2, <3>5, <3>7
      <4> QED BY <3>3, <3>4, <3>7, <4>1 DEF k
    <3> QED BY <3>6, <3>7
  <2>8. Right(n)
    BY <2>6, <2>7
  <2> QED BY <2>8 DEF n
<1>5. Right(Len(q))
  <2>1. I \in SUBSET Nat /\ 0 \in I /\ \A m \in I : m < Len(q) => m + 1 \in I
    BY <1>3, <1>4
  <2> HIDE DEF I
  <2>2. \A m \in 0 .. Len(q) : m \in I
    BY <1>1, <2>1, UpTo
  <2>3. Len(q) \in I
    BY <1>1, <2>2
  <2> QED BY <2>3 DEF I
<1> DEFINE w == Flushed(v)
<1>6. w.cache = <<>> /\ w.disk = F[Len(q)] /\ w = [disk |-> w.disk, cache |-> w.cache]
  BY <1>2
<1> HIDE DEF w
<1>7. IsView(w, Dirs)
  <2>1. IsCache(<<>>, Dirs)
    <3>1. Len(<<>>) = 0 /\ <<>> \in Seq(CacheRecord) /\ 0 <= cacheMax
      BY <1>1 DEF IsCache
    <3> QED BY <3>1 DEF IsCache
  <2> QED BY <1>5, <1>6, <2>1 DEF IsView
<1>8. SameSeen(v, w)
  <2> SUFFICES ASSUME NEW c \in Cluster, NEW s \in 1 .. Sectors
               PROVE  Seen(w, c, s) = Seen(v, c, s)
    BY DEF SameSeen
  <2> DEFINE k == Place(q, c, s)
  <2>1. k \in 0 .. Len(q)
    BY <1>1, PlaceRight
  <2>2. k = 0 \/ k \in 1 .. Len(q)
    BY <1>1, <2>1
  <2>3. Seen(w, c, s) = F[Len(q)][c][s]
    BY <1>6 DEF Seen, Place
  <2>4. Seen(v, c, s) = IF k = 0 THEN d[c][s] ELSE q[k].content
    BY DEF Seen, q, d
  <2>5. F[Len(q)][c][s] = IF k \in 1 .. Len(q) THEN q[k].content ELSE d[c][s]
    BY <1>5
  <2>6. ~(0 \in 1 .. Len(q))
    BY <1>1
  <2> HIDE DEF k
  <2> QED BY <2>2, <2>3, <2>4, <2>5, <2>6
<1> QED BY <1>6, <1>7, <1>8 DEF w

\* A read over many clusters changes no looks; without a cache it has met one
\* cluster of the volume after the other.
LEMMA ReadOnRight ==
    ASSUME NEW Dirs, NEW w, IsView(w.view, Dirs), cacheMax \in Nat,
           NEW from \in Nat, NEW n \in Nat, from + n <= Clusters
    PROVE  /\ IsView(ReadOn(w, from, n).view, Dirs)
           /\ SameSeen(w.view, ReadOn(w, from, n).view)
<1> DEFINE F == OnSteps(w, from, n)
           Right(k) == IsView(F[k].view, Dirs) /\ SameSeen(w.view, F[k].view)
           I == {k \in Nat : Right(k)}
<1>1. /\ ReadOn(w, from, n) = F[n]
      /\ F[0] = w
      /\ \A k \in 1 .. n : F[k] = ReadNext(F[k - 1], from + k)
  BY OnStepByStep
<1> HIDE DEF F
<1>2. Right(0)
  BY <1>1 DEF SameSeen
<1>3. ASSUME NEW m \in Nat, Right(m), m < n
      PROVE  Right(m + 1)
  <2> DEFINE k == m + 1   v == F[m].view
  <2>1. k \in 1 .. n /\ k - 1 = m /\ from + k \in Cluster
    BY <1>3, FileAssumption DEF Cluster
  <2> HIDE DEF k
  <2>2. F[k].view = GetBlock(v, from + k).view
    <3> DEFINE c == from + k   x == F[k - 1]
    <3>1. F[k] = ReadNext(x, c)
      BY <1>1, <2>1
    <3> HIDE DEF c, x
    <3>2. F[k].view = GetBlock(x.view, c).view
      BY <3>1, ReadNextParts
    <3>3. x.view = v
      BY <2>1 DEF x
    <3> HIDE DEF v
    <3> QED BY <3>2, <3>3 DEF c
  <2> HIDE DEF v
  <2>3. IsView(v, Dirs) /\ SameSeen(w.view, v)
    BY <1>3 DEF v
  <2>4. IsView(F[k].view, Dirs) /\ SameSeen(v, F[k].view)
    BY <2>1, <2>2, <2>3, GotBlock
  <2>5. SameSeen(w.view, F[k].view)
    BY <2>3, <2>4 DEF SameSeen
  <2> QED BY <2>4, <2>5 DEF k
<1>4. Right(n)
  <2>1. I \in SUBSET Nat /\ 0 \in I /\ \A m \in I : m < n => m + 1 \in I
    <3> HIDE DEF Right
    <3> QED BY <1>2, <1>3
  <2> HIDE DEF I
  <2>2. \A m \in 0 .. n : m \in I
    BY <2>1, UpTo
  <2>3. n \in I
    BY <2>2
  <2> QED BY <2>3 DEF I
<1> QED BY <1>1, <1>4

\* Without a cache: w has one cluster's sectors, and n more may be read from
\* the view v, beginning after the cluster "from".
CanRead(v, w, X, from, n) ==
    /\ w.view = v /\ cacheMax = 0 /\ v.disk \in [Cluster -> [1 .. Sectors -> X]]
    /\ w.block \in Seq(X) /\ Len(w.block) = Sectors
    /\ from + n <= Clusters

\* They have been.
HasRead(v, w, X, from, n, on) ==
    /\ on.view = v
    /\ on.block \in Seq(X)
    /\ Len(on.block) = Sectors * (n + 1)
    /\ \A j \in 1 .. Sectors : on.block[j] = w.block[j]
    /\ \A i \in 1 .. n, r \in 1 .. Sectors :
          on.block[(Sectors * i) + r] = v.disk[from + i][r]

\* Without a cache a read changes nothing, and returns the sectors of one
\* cluster after the other.
LEMMA ReadOnUncached ==
    ASSUME NEW v, NEW w, NEW X, NEW from \in Nat, NEW n \in Nat
    PROVE  CanRead(v, w, X, from, n) => HasRead(v, w, X, from, n, ReadOn(w, from, n))
<1> DEFINE F == OnSteps(w, from, n)
           Right(k) ==
              /\ F[k].view = v
              /\ F[k].block \in Seq(X) /\ Len(F[k].block) = Sectors * (k + 1)
              /\ \A j \in 1 .. Sectors : F[k].block[j] = w.block[j]
              /\ \A i \in 1 .. k, r \in 1 .. Sectors :
                    F[k].block[(Sectors * i) + r] = v.disk[from + i][r]
           I == {k \in Nat : Right(k)}
<1>1. /\ ReadOn(w, from, n) = F[n]
      /\ F[0] = w
      /\ \A k \in 1 .. n : F[k] = ReadNext(F[k - 1], from + k)
  BY OnStepByStep
<1> HIDE DEF F
<1> SUFFICES ASSUME w.view = v, cacheMax = 0,
                    v.disk \in [Cluster -> [1 .. Sectors -> X]],
                    w.block \in Seq(X), Len(w.block) = Sectors,
                    from + n <= Clusters
             PROVE  Right(n)
  BY <1>1 DEF CanRead, HasRead
<1>0. Sectors \in Nat \ {0} /\ \A c : ~Cached(c)
  BY FileAssumption DEF Cached
<1>2. Right(0)
  <2>1. Sectors * (0 + 1) = Sectors /\ ~ \E i : i \in 1 .. 0
    BY <1>0
  <2> QED BY <1>1, <2>1
<1>3. ASSUME NEW m \in Nat, Right(m), m < n
      PROVE  Right(m + 1)
  <2> DEFINE k == m + 1   x == F[m].block   y == v.disk[from + k]   L == Sectors * k
  <2>1. k \in 1 .. n /\ k - 1 = m /\ from + k \in Cluster /\ k \in Nat
    BY <1>3, FileAssumption DEF Cluster
  <2>2. y \in [1 .. Sectors -> X]
    BY <2>1
  <2>3. x \in Seq(X) /\ Len(x) = L
    BY <1>3
  <2>4. \A i \in 1 .. k : i = k \/ i \in 1 .. m
    BY <1>3
  <2> HIDE DEF k, y, L
  <2>5. GetBlock(v, from + k) = [view |-> v, block |-> y]
    BY <1>0 DEF GetBlock, y
  <2>6. F[k].view = v /\ F[k].block = x \o y
    <3> DEFINE c == from + k   z == F[k - 1]
    <3>1. F[k] = ReadNext(z, c)
      BY <1>1, <2>1
    <3>2. z.view = v /\ z.block = x
      BY <1>3, <2>1
    <3>3. GetBlock(v, c).view = v /\ GetBlock(v, c).block = y
      BY <2>5
    <3> HIDE DEF c, z, x
    <3>4. F[k].view = GetBlock(z.view, c).view /\ F[k].block = z.block \o GetBlock(z.view, c).block
      BY <3>1, ReadNextParts
    <3> QED BY <3>2, <3>3, <3>4
  <2>7. L \in Nat /\ Sectors * (k + 1) = L + Sectors
        /\ L >= Sectors
    <3>1. L \in Nat
      BY <1>0, <2>1 DEF L
    <3>2. Sectors * (k + 1) = L + Sectors
      BY <1>0, <2>1, TimesOrder DEF L
    <3>3. 1 <= k /\ Sectors * 1 = Sectors
      BY <1>0, <2>1
    <3>4. Sectors * 1 <= Sectors * k
      BY <2>1, <3>3, TimesOrder
    <3> QED BY <3>1, <3>2, <3>3, <3>4 DEF L
  <2>8. /\ x \o y \in Seq(X) /\ Len(x \o y) = L + Sectors
        /\ \A j \in 1 .. L : (x \o y)[j] = x[j]
        /\ \A r \in 1 .. Sectors : (x \o y)[L + r] = y[r]
    <3>1. y \in Seq(X) /\ Len(y) = Sectors
      BY <1>0, <2>2
    <3> HIDE DEF x
    <3>2. x \o y \in Seq(X) /\ Len(x \o y) = L + Sectors
      BY <2>3, <3>1
    <3>3. \A j \in 1 .. L : (x \o y)[j] = x[j]
      BY <2>3, <2>7, <3>1
    <3>4. ASSUME NEW r \in 1 .. Sectors PROVE (x \o y)[L + r] = y[r]
      <4>1. L + r \in 1 .. L + Sectors /\ L + r > L /\ (L + r) - L = r
        BY <1>0, <2>7
      <4> QED BY <2>3, <3>1, <4>1
    <3> QED BY <3>2, <3>3, <3>4
  <2>9. ASSUME NEW i \in 1 .. k, NEW r \in 1 .. Sectors
        PROVE  (x \o y)[(Sectors * i) + r] = v.disk[from + i][r]
    <3>1. CASE i = k
      BY <2>8, <3>1 DEF L, y
    <3>2. CASE i # k
      <4>1. i \in 1 .. m
        BY <2>4, <3>2
      <4>2. i + 1 <= k /\ i \in Nat
        BY <2>1, <4>1
      <4>3. Sectors * i \in Int /\ (Sectors * i) + Sectors <= L
        <5>1. Sectors * (i + 1) <= Sectors * k
          BY <2>1, <4>2, TimesOrder
        <5>2. Sectors * (i + 1) = (Sectors * i) + Sectors /\ Sectors * i \in Int
          BY <1>0, <4>2, TimesOrder
        <5> QED BY <5>1, <5>2 DEF L
      <4>4. Sectors * i >= 0
        BY <1>0, <4>2
      <4> DEFINE a == Sectors * i
      <4>a. a \in Int /\ a + Sectors <= L /\ a >= 0
        BY <4>3, <4>4
      <4> HIDE DEF a
      <4>5. a + r \in 1 .. L
        BY <1>0, <2>7, <4>a
      <4>6. x[a + r] = v.disk[from + i][r]
        BY <1>3, <4>1 DEF a
      <4>7. (x \o y)[a + r] = x[a + r]
        BY <2>8, <4>5
      <4> QED BY <4>6, <4>7 DEF a
    <3> QED BY <3>1, <3>2
  <2>10. \A j \in 1 .. Sectors : (x \o y)[j] = w.block[j]
    <3> SUFFICES ASSUME NEW j \in 1 .. Sectors PROVE (x \o y)[j] = w.block[j]
      OBVIOUS
    <3>1. j \in 1 .. L
      BY <1>0, <2>7
    <3>2. x[j] = w.block[j]
      BY <1>3
    <3> QED BY <2>8, <3>1, <3>2
  <2>11. Right(k)
    <3> HIDE DEF x
    <3> QED BY <2>6, <2>7, <2>8, <2>9, <2>10
  <2> QED BY <2>11 DEF k
<1>4. Right(n)
  <2>1. I \in SUBSET Nat /\ 0 \in I /\ \A m \in I : m < n => m + 1 \in I
    <3> HIDE DEF Right
    <3> QED BY <1>2, <1>3
  <2> HIDE DEF I
  <2>2. \A m \in 0 .. n : m \in I
    BY <2>1, UpTo
  <2>3. n \in I
    BY <2>2
  <2> QED BY <2>3 DEF I
<1> QED BY <1>4

\* A write puts its data over its cluster and changes no other; if it ends
\* within the cluster the data are where they belong.
LEMMA WrittenRight ==
    ASSUME NEW Dirs, NEW v, IsView(v, Dirs), cacheMax \in Nat,
           NEW c \in 1 .. Clusters, NEW offset \in 0 .. Sectors - 1,
           NEW data \in Seq(Contents)
    PROVE  /\ IsView(Written(v, c, offset, data), Dirs)
           /\ v.cache # <<>> => Written(v, c, offset, data).cache # <<>>
           /\ cacheMax = 0 /\ offset + Len(data) <= Sectors =>
                 Written(v, c, offset, data).disk =
                    [v.disk EXCEPT ![c] = Over(v.disk[c], offset, data)]
<1> DEFINE b == GetBlock(v, c)
           fits == Sectors - offset
           n == IF Len(data) < fits THEN Len(data) ELSE fits
           one == Over(b.block, offset, SubSeq(data, 1, n))
           w == PutBlock(b.view, c, one)
           rest == SubSeq(data, fits + 1, Len(data))
           two == Over(one, 0, rest)
<1>1. Sectors \in Nat \ {0} /\ c \in Cluster /\ c # Dir /\ fits \in Nat /\ n \in 0 .. Len(data)
      /\ Len(data) \in Nat
  BY FileAssumption DEF Cluster, Dir
<1>2. /\ IsView(b.view, Dirs) /\ b.block \in [1 .. Sectors -> Contents]
      /\ Cached(c) => b.view.cache # <<>>
      /\ ~Cached(c) => b.view = v /\ b.block = v.disk[c]
  BY <1>1, GotBlock
<1>3. \A block \in [1 .. Sectors -> Contents], o \in 0 .. Sectors - 1, d \in Seq(Contents) :
         Over(block, o, d) \in [1 .. Sectors -> Contents]
  <2> SUFFICES ASSUME NEW block \in [1 .. Sectors -> Contents], NEW o \in 0 .. Sectors - 1,
                      NEW d \in Seq(Contents), NEW s \in 1 .. Sectors
               PROVE  (IF s > o /\ s <= o + Len(d) THEN d[s - o] ELSE block[s]) \in Contents
    BY DEF Over
  <2>1. CASE s > o /\ s <= o + Len(d)
    <3>1. s - o \in 1 .. Len(d)
      BY <1>1, <2>1
    <3> QED BY <2>1, <3>1
  <2>2. CASE ~(s > o /\ s <= o + Len(d))
    BY <2>2
  <2> QED BY <2>1, <2>2
<1>4. SubSeq(data, 1, n) \in Seq(Contents)
  <2> HIDE DEF n
  <2> QED BY <1>1
<1>5. fits < Len(data) => rest \in Seq(Contents)
  <2> HIDE DEF fits
  <2> QED BY <1>1
<1> HIDE DEF b
<1>6. one \in [1 .. Sectors -> Contents]
  <2> HIDE DEF n
  <2> QED BY <1>2, <1>3, <1>4
<1>7. /\ IsView(w, Dirs)
      /\ Cached(c) => w.cache # <<>>
      /\ ~Cached(c) => w = [disk |-> [b.view.disk EXCEPT ![c] = one], cache |-> b.view.cache]
  <2> HIDE DEF one
  <2> QED BY <1>1, <1>2, <1>6, BlockPut
<1>8. fits < Len(data) => two \in [1 .. Sectors -> Contents]
  <2> HIDE DEF one, rest
  <2>1. 0 \in 0 .. Sectors - 1
    BY <1>1
  <2> QED BY <1>3, <1>5, <1>6, <2>1
<1>9. Written(v, c, offset, data) = IF Len(data) <= fits THEN w ELSE PutBlock(w, c, two)
  BY DEF Written, b
<1>10. v.cache # <<>> => Cached(c)
  <2>1. v.cache \in Seq(CacheRecord) /\ Len(v.cache) <= cacheMax
    BY DEF IsView, IsCache
  <2>2. v.cache # <<>> => Len(v.cache) > 0
    BY <2>1
  <2> QED BY <1>1, <2>1, <2>2 DEF Cached
<1>11. CASE Len(data) <= fits
  <2>1. Written(v, c, offset, data) = w
    BY <1>9, <1>11
  <2>2. ASSUME cacheMax = 0, offset + Len(data) <= Sectors
        PROVE  w.disk = [v.disk EXCEPT ![c] = Over(v.disk[c], offset, data)]
    <3>1. ~Cached(c)
      BY <2>2 DEF Cached
    <3>2. SubSeq(data, 1, n) = data
      <4>1. n = Len(data)
        BY <1>1, <1>11
      <4> HIDE DEF n
      <4> QED BY <1>1, <4>1
    <3>3. one = Over(v.disk[c], offset, data)
      BY <1>2, <3>1, <3>2
    <3> HIDE DEF one, w
    <3> QED BY <1>2, <1>7, <3>1, <3>3
  <2> HIDE DEF w
  <2> QED BY <1>7, <1>10, <2>1, <2>2
<1>12. CASE ~(Len(data) <= fits)
  <2>1. Written(v, c, offset, data) = PutBlock(w, c, two)
    BY <1>9, <1>12
  <2>2. two \in [1 .. Sectors -> Contents]
    BY <1>1, <1>8, <1>12
  <2> HIDE DEF w, two
  <2>3. IsView(PutBlock(w, c, two), Dirs) /\ (Cached(c) => PutBlock(w, c, two).cache # <<>>)
    BY <1>1, <1>7, <2>2, BlockPut
  <2>4. ~(offset + Len(data) <= Sectors)
    BY <1>1, <1>12
  <2> QED BY <1>10, <2>1, <2>3, <2>4
<1> QED BY <1>11, <1>12
-----------------------------------------------------------------------------
(* The inductive invariant.                                                *)

\* What may stand in the directory: as long as the file has no cluster its
\* entry says that its size is 0.
Sizes == IF length = 0 THEN {0, Other} ELSE Contents

FatFile == [open : {TRUE}, size : 0 .. Units, number : 0 .. Clusters,
            offset : 0 .. Sectors - 1, read : 0 .. Clusters, write : 0 .. Clusters,
            cache : Seq(CacheRecord)]

\* A FatFile of a file of n clusters.
IsFile(f, n, Dirs) ==
    /\ f \in FatFile
    /\ f.read <= n /\ f.write <= n
    /\ n = 0 => f.size = 0
    /\ IsCache(f.cache, Dirs)

CallRecord == [op : {"read", "write"}, handle : Handle, offset : 0 .. Units,
               size : 1 .. Units, number : 0 .. MaxCalls[cacheMax],
               within : BOOLEAN, alone : BOOLEAN]

\* A call on FatFile f of a file of n clusters.  One that was alone all the
\* time finds in f where it began.
IsCall(c, f, n) ==
    /\ c \in CallRecord
    /\ c.offset + c.size <= Units
    /\ c.op = "write" => n > 0 /\ c.size <= Sectors
    /\ c.alone => f.number = Ceil(c.offset) /\ f.offset = c.offset % Sectors

\* What is remembered of the calls before (p) and the cluster (n) that the
\* FatFile has.
IsPast(p, n) ==
    /\ p \in {None, Lost} \cup Nat
    /\ p = None <=> n = 0
    /\ p \in Nat => n = p + 1

VolumeInv ==
    /\ status \in {"up", "astray"}
    /\ length \in 0 .. Clusters
    /\ calls \in 0 .. MaxCalls[cacheMax]
    /\ cacheMax \in CacheSizes
    /\ IsStore(disk, Sizes)

FileInv ==
    /\ file \in [Handle -> {Closed} \cup FatFile]
    /\ \A h \in Handle : IsOpen(h) => IsFile(file[h], length, Sizes)

CallInv ==
    /\ call \in [Thread -> {Idle} \cup CallRecord]
    /\ \A t \in Thread : call[t] # Idle =>
          IsOpen(call[t].handle) /\ IsCall(call[t], file[call[t].handle], length)

PastInv ==
    /\ past \in [Handle -> [read : Int, write : Int]]
    /\ \A h \in Handle : IsOpen(h) =>
          IsPast(past[h].read, file[h].read) /\ IsPast(past[h].write, file[h].write)

\* Without a cache, what was written is in a cluster of the file.
TruthInv ==
    /\ truth \in [0 .. Units - 1 -> Int]
    /\ kept \in BOOLEAN
    /\ cacheMax = 0 /\ kept =>
          \A u \in 0 .. Units - 1 : truth[u] # Unset =>
              truth[u] = Unit(u) /\ u < Sectors * length

IInv == VolumeInv /\ FileInv /\ CallInv /\ PastInv /\ TruthInv /\ ReadsRight
-----------------------------------------------------------------------------
(* Types.                                                                  *)

\* The types depend on the configuration only, which no step changes.
LEMMA SameTypes ==
    ASSUME cacheMax' = cacheMax
    PROVE  /\ Contents' = Contents /\ CacheRecord' = CacheRecord
           /\ FatFile' = FatFile /\ CallRecord' = CallRecord
<1>1. Contents' = Contents
  BY DEF Contents
<1>2. CacheRecord' = CacheRecord
  BY <1>1 DEF CacheRecord
<1> QED BY <1>1, <1>2 DEF FatFile, CallRecord

\* Contents include every size, and all that a call may write.
LEMMA ContentsHave ==
    ASSUME cacheMax \in CacheSizes
    PROVE  /\ cacheMax \in Nat /\ MaxCalls[cacheMax] \in Nat
           /\ 0 .. Units \subseteq Contents /\ Unset \in Contents /\ Other \in Contents
           /\ \A k \in 0 .. MaxCalls[cacheMax], u \in 0 .. Units - 1 : Data(k, u) \in Contents
<1> DEFINE M == MaxCalls[cacheMax]
<1>1. cacheMax \in Nat /\ M \in Nat
  BY FileAssumption
<1>2. Units \in Nat
  BY FileAssumption DEF Units
<1> HIDE DEF M
<1>3. (M + 1) * Units = (M * Units) + Units /\ M * Units \in Nat
  BY <1>1, <1>2
<1>4. Contents = (0 .. (M + 1) * Units) \cup {Unset, Other}
  BY DEF Contents, M
<1>5. 0 .. Units \subseteq Contents /\ Unset \in Contents /\ Other \in Contents
  BY <1>2, <1>3, <1>4
<1>6. ASSUME NEW k \in 0 .. M, NEW u \in 0 .. Units - 1
      PROVE  Data(k, u) \in Contents
  <2>1. k * Units \in Nat /\ k * Units <= M * Units
    BY <1>1, <1>2
  <2>2. (k * Units) + u \in 0 .. (M + 1) * Units
    BY <1>2, <1>3, <2>1
  <2> QED BY <1>4, <2>2 DEF Data
<1> QED BY <1>1, <1>5, <1>6 DEF M

\* Where a unit of the file is on the volume.
LEMMA UnitPlace ==
    ASSUME NEW u \in 0 .. Units - 1
    PROVE  /\ (u \div Sectors) + 1 \in 1 .. Clusters
           /\ (u % Sectors) + 1 \in 1 .. Sectors
           /\ u = (Sectors * (u \div Sectors)) + (u % Sectors)
<1> DEFINE q == u \div Sectors
<1>1. Sectors \in Nat \ {0} /\ Clusters \in Nat \ {0} /\ Units = Sectors * Clusters
  BY FileAssumption DEF Units
<1>2. u \in Nat /\ u < Units
  BY <1>1
<1>3. q \in Nat /\ u % Sectors \in 0 .. Sectors - 1
      /\ u = (Sectors * q) + (u % Sectors)
  BY <1>2, Divided
<1> HIDE DEF q
<1>4. q < Clusters
  <2> SUFFICES ASSUME q >= Clusters PROVE FALSE
    BY <1>1, <1>3
  <2>1. Sectors * q >= Sectors * Clusters
    BY <1>1, <1>3, TimesOrder
  <2> QED BY <1>1, <1>2, <1>3, <2>1
<1> QED BY <1>1, <1>3, <1>4 DEF q

\* An open file sees the volume through a cache that is in order.
LEMMA ViewRight ==
    ASSUME VolumeInv, FileInv, NEW h \in Handle, IsOpen(h)
    PROVE  IsView(View(h), Sizes)
<1>1. View(h).disk = disk /\ View(h).cache = file[h].cache
      /\ View(h) = [disk |-> View(h).disk, cache |-> View(h).cache]
  BY DEF View
<1>2. IsStore(disk, Sizes) /\ IsCache(file[h].cache, Sizes)
  BY DEF VolumeInv, FileInv, IsFile
<1> QED BY <1>1, <1>2 DEF IsView

\* What an entry sector may hold is contents of a sector.
LEMMA SizesType ==
    ASSUME VolumeInv
    PROVE  /\ Sizes \subseteq Contents
           /\ length # 0 => Sizes = Contents
           /\ length = 0 => Sizes = {0, Other}
BY ContentsHave, FileAssumption DEF VolumeInv, Sizes, Units

\* A view in order stays so when more is allowed in the entry sectors.
LEMMA Wider ==
    ASSUME NEW A, NEW B, A \subseteq B
    PROVE  /\ \A d : IsStore(d, A) => IsStore(d, B)
           /\ \A q : IsCache(q, A) => IsCache(q, B)
           /\ \A v : IsView(v, A) => IsView(v, B)
BY DEF IsStore, IsCache, IsView

\* A FatFile is not Closed.
LEMMA ClosedApart == \A f \in FatFile : f # Closed
<1> SUFFICES ASSUME NEW f \in FatFile PROVE f # Closed
  OBVIOUS
<1>1. f.open = TRUE
  BY DEF FatFile
<1>2. Closed.open = FALSE
  BY DEF Closed
<1> QED BY <1>1, <1>2

\* A call is not Idle.
LEMMA IdleApart == \A c \in CallRecord : c # Idle
<1> SUFFICES ASSUME NEW c \in CallRecord PROVE c # Idle
  OBVIOUS
<1>1. c.op \in {"read", "write"}
  BY DEF CallRecord
<1>2. Idle.op = "none"
  BY DEF Idle
<1> QED BY <1>1, <1>2
-----------------------------------------------------------------------------
(* Each part of the invariant, when a step changes one FatFile at most.    *)

\* What a step owes to the volume.
LEMMA VolumeStep ==
    ASSUME VolumeInv, cacheMax' = cacheMax,
           status' \in {"up", "astray"}, length' \in 0 .. Clusters,
           calls' \in 0 .. MaxCalls[cacheMax], IsStore(disk', Sizes')
    PROVE  VolumeInv'
<1>1. Contents' = Contents
  BY SameTypes
<1> HIDE DEF Contents
<1> QED BY <1>1 DEF VolumeInv, IsStore

\* As the file grows more may be in the entry sectors, never less.
LEMMA SizesStep ==
    ASSUME VolumeInv, cacheMax' = cacheMax, length' \in Nat, length <= length'
    PROVE  Sizes \subseteq Sizes' /\ (length' = length => Sizes' = Sizes)
<1>1. Contents' = Contents
  BY SameTypes
<1>2. Sizes' = IF length' = 0 THEN {0, Other} ELSE Contents'
  BY DEF Sizes
<1>3. length \in Nat
  BY DEF VolumeInv
<1> QED BY <1>1, <1>2, <1>3, SizesType DEF Sizes

\* A step that changes one FatFile owes only that one.
LEMMA FileStep ==
    ASSUME VolumeInv, FileInv, cacheMax' = cacheMax, length' \in Nat, length <= length',
           NEW h \in Handle, NEW g, g = Closed \/ IsFile(g, length', Sizes'),
           file' = [file EXCEPT ![h] = g]
    PROVE  FileInv'
<1>1. Contents' = Contents /\ CacheRecord' = CacheRecord /\ FatFile' = FatFile
  BY SameTypes
<1>2. Sizes \subseteq Sizes' /\ length \in Nat
  BY SizesStep DEF VolumeInv
<1>3. g \in {Closed} \cup FatFile
  BY DEF IsFile
<1>4. file \in [Handle -> {Closed} \cup FatFile]
  BY DEF FileInv
<1>5. file' \in [Handle -> {Closed} \cup FatFile]
  BY <1>3, <1>4
<1>6. ASSUME NEW k \in Handle, file'[k] # Closed
      PROVE  IsFile(file'[k], length', Sizes')
  <2>1. CASE k = h
    BY <1>4, <1>6, <2>1
  <2>2. CASE k # h
    <3>1. file'[k] = file[k]
      BY <1>4, <2>2
    <3>2. IsFile(file[k], length, Sizes)
      BY <1>6, <3>1 DEF FileInv, IsOpen
    <3>3. file[k].read \in Nat /\ file[k].write \in Nat
      <4> DEFINE f == file[k]
      <4>1. f \in FatFile
        BY <3>2 DEF IsFile
      <4> HIDE DEF f
      <4>2. f.read \in 0 .. Clusters /\ f.write \in 0 .. Clusters
        BY <4>1 DEF FatFile
      <4> QED BY <4>2, FileAssumption DEF f
    <3>4. IsCache(file[k].cache, Sizes')
      BY <1>2, <3>2, Wider DEF IsFile
    <3> QED BY <1>2, <3>1, <3>2, <3>3, <3>4 DEF IsFile
  <2> QED BY <2>1, <2>2
<1> QED BY <1>1, <1>5, <1>6 DEF FileInv, IsOpen, IsFile, IsCache

\* No call begins; at most one ends.
LEMMA CallStep ==
    ASSUME VolumeInv, FileInv, CallInv, cacheMax' = cacheMax,
           length' \in Nat, length <= length',
           NEW h \in Handle, NEW g, file' = [file EXCEPT ![h] = g],
           \/ CallsOn(h) = {}
           \/ /\ g # Closed
              /\ g.number = file[h].number /\ g.offset = file[h].offset,
           \/ call' = call
           \/ \E t \in Thread : call' = [call EXCEPT ![t] = Idle]
    PROVE  CallInv'
<1>1. CallRecord' = CallRecord
  BY SameTypes
<1>2. call \in [Thread -> {Idle} \cup CallRecord] /\ file \in [Handle -> {Closed} \cup FatFile]
  BY DEF CallInv, FileInv
<1>3. /\ call' \in [Thread -> {Idle} \cup CallRecord]
      /\ \A u \in Thread : call'[u] = Idle \/ call'[u] = call[u]
  BY <1>2
<1>4. ASSUME NEW u \in Thread, call'[u] # Idle
      PROVE  file'[call'[u].handle] # Closed /\ IsCall(call'[u], file'[call'[u].handle], length')
  <2> DEFINE c == call[u]
  <2>1. call'[u] = c
    BY <1>3, <1>4
  <2>2. /\ c # Idle /\ c \in CallRecord /\ file[c.handle] # Closed
        /\ IsCall(c, file[c.handle], length)
    BY <1>2, <1>4, <2>1 DEF CallInv, IsOpen
  <2>3. c.handle \in Handle
    BY <2>2 DEF CallRecord
  <2>4. IsCall(c, file[c.handle], length')
    BY <2>2 DEF IsCall, VolumeInv
  <2>5. CASE c.handle = h
    <3>1. u \in CallsOn(h)
      BY <2>2, <2>5 DEF CallsOn
    <3>2. file'[h] = g /\ g # Closed /\ g.number = file[h].number /\ g.offset = file[h].offset
      BY <1>2, <3>1
    <3> HIDE DEF c
    <3> QED BY <2>1, <2>4, <2>5, <3>2 DEF IsCall
  <2>6. CASE c.handle # h
    <3>1. file'[c.handle] = file[c.handle]
      BY <1>2, <2>3, <2>6
    <3> HIDE DEF c
    <3> QED BY <2>1, <2>2, <2>4, <3>1
  <2> QED BY <2>5, <2>6
<1> QED BY <1>1, <1>3, <1>4 DEF CallInv, IsOpen, IsCall

\* Whatever is remembered of one FatFile fits the clusters it has.
LEMMA PastStep ==
    ASSUME FileInv, PastInv, NEW h \in Handle, NEW g, file' = [file EXCEPT ![h] = g],
           NEW p, past' = [past EXCEPT ![h] = p], p \in [read : Int, write : Int],
           g # Closed => IsPast(p.read, g.read) /\ IsPast(p.write, g.write)
    PROVE  PastInv'
<1>1. file \in [Handle -> {Closed} \cup FatFile] /\ past \in [Handle -> [read : Int, write : Int]]
  BY DEF FileInv, PastInv
<1>2. past' \in [Handle -> [read : Int, write : Int]]
  BY <1>1
<1>3. ASSUME NEW k \in Handle, file'[k] # Closed
      PROVE  IsPast(past'[k].read, file'[k].read) /\ IsPast(past'[k].write, file'[k].write)
  <2>1. CASE k = h
    <3>1. file'[k] = g /\ past'[k] = p
      BY <1>1, <2>1
    <3> QED BY <1>3, <3>1
  <2>2. CASE k # h
    <3>1. file'[k] = file[k] /\ past'[k] = past[k]
      BY <1>1, <2>2
    <3> QED BY <1>3, <3>1 DEF PastInv, IsOpen
  <2> QED BY <2>1, <2>2
<1> QED BY <1>2, <1>3 DEF PastInv, IsOpen

\* Without a cache the clusters of the file stay as they are.
LEMMA TruthStep ==
    ASSUME VolumeInv, TruthInv, cacheMax' = cacheMax, truth' = truth, kept' = kept,
           length' \in Nat, length <= length',
           cacheMax = 0 => \A c \in 1 .. Clusters : disk'[c] = disk[c]
    PROVE  TruthInv'
<1>1. truth \in [0 .. Units - 1 -> Int] /\ kept \in BOOLEAN
  BY DEF TruthInv
<1>2. ASSUME cacheMax = 0, kept, NEW u \in 0 .. Units - 1, truth[u] # Unset
      PROVE  truth[u] = Unit(u)' /\ u < Sectors * length'
  <2>1. truth[u] = Unit(u) /\ u < Sectors * length
    BY <1>2 DEF TruthInv
  <2>2. Unit(u)' = Unit(u)
    <3>1. (u \div Sectors) + 1 \in 1 .. Clusters
      BY UnitPlace
    <3> DEFINE c == (u \div Sectors) + 1   s == (u % Sectors) + 1
    <3>2. Unit(u) = disk[c][s] /\ Unit(u)' = disk'[c][s]
      BY DEF Unit
    <3>3. c \in 1 .. Clusters
      BY <3>1
    <3> HIDE DEF c, s
    <3> QED BY <1>2, <3>2, <3>3
  <2>3. Sectors * length <= Sectors * length' /\ Sectors * length \in Int
        /\ Sectors * length' \in Int
    <3>1. length \in Int /\ length' \in Int
      BY DEF VolumeInv
    <3> QED BY <3>1, TimesOrder
  <2>4. u \in Int
    BY FileAssumption DEF Units
  <2> HIDE DEF Unit
  <2> QED BY <2>1, <2>2, <2>3, <2>4
<1> QED BY <1>1, <1>2 DEF TruthInv

\* A step that returns nothing to a reader keeps what was returned right.
LEMMA ReadsStep ==
    ASSUME ReadsRight, cacheMax' = cacheMax, kept' => kept, got' = got
    PROVE  ReadsRight'
BY DEF ReadsRight, Match
-----------------------------------------------------------------------------
(* The steps.                                                              *)

\* The invariant holds at first.
LEMMA InitInv == Init => IInv
<1> SUFFICES ASSUME Init PROVE IInv
  OBVIOUS
<1>0. Sectors \in Nat \ {0} /\ Clusters \in Nat \ {0} /\ Units \in Nat
      /\ InitSize \in 0 .. Units /\ Units = Sectors * Clusters
  BY FileAssumption DEF Units
<1>1. cacheMax \in CacheSizes /\ cacheMax \in Nat /\ MaxCalls[cacheMax] \in Nat
      /\ 0 .. Units \subseteq Contents /\ Unset \in Contents /\ Other \in Contents
  BY ContentsHave DEF Init
<1>2. length \in 0 .. Clusters /\ InitSize <= Sectors * length
      /\ (InitSize > 0 => length > 0) /\ length = Ceil(InitSize)
  BY <1>0, CeilType DEF Init
<1>3. VolumeInv
  <2>1. ASSUME NEW c \in Cluster, NEW s \in 1 .. Sectors
        PROVE  disk[c][s] \in Contents /\ (c = Dir => disk[c][s] \in Sizes)
    <3> DEFINE u == (c - 1) * Sectors + s - 1
    <3>1. disk[c][s] = IF c = Dir THEN IF s = EntrySector THEN InitSize ELSE Other
                       ELSE IF u < InitSize THEN Data(0, u) ELSE Unset
      BY DEF Init, Cluster
    <3>2. CASE c = Dir
      <4>1. disk[c][s] \in {InitSize, Other}
        BY <3>1, <3>2
      <4>2. InitSize \in Sizes /\ Other \in Sizes
        BY <1>0, <1>1, <1>2 DEF Sizes
      <4> QED BY <1>0, <1>1, <4>1, <4>2
    <3>3. CASE c # Dir
      <4>1. c - 1 \in Nat
        BY <3>3, <1>0 DEF Cluster
      <4>2. (c - 1) * Sectors \in Nat
        BY <1>0, <4>1
      <4> DEFINE a == (c - 1) * Sectors
      <4>3. u \in Nat
        <5>1. a \in Nat /\ u = a + s - 1
          BY <4>2
        <5> HIDE DEF a, u
        <5> QED BY <1>0, <5>1
      <4> HIDE DEF u
      <4>4. u < InitSize => Data(0, u) \in Contents
        <5>1. u < InitSize => u \in 0 .. Units - 1
          BY <1>0, <4>3
        <5>2. 0 \in 0 .. MaxCalls[cacheMax]
          BY <1>1
        <5> QED BY <1>1, <5>1, <5>2, ContentsHave
      <4> QED BY <1>1, <3>1, <3>3, <4>4
    <3> QED BY <3>2, <3>3
  <2>2. disk \in [Cluster -> [1 .. Sectors -> Contents]]
    <3>1. disk = [c \in Cluster |-> [s \in 1 .. Sectors |-> disk[c][s]]]
      BY DEF Init, Cluster
    <3> QED BY <2>1, <3>1
  <2>3. \A s \in 1 .. Sectors : disk[Dir][s] \in Sizes
    BY <2>1 DEF Cluster
  <2> QED BY <1>1, <1>2, <2>2, <2>3 DEF VolumeInv, IsStore, Init
<1>4. FileInv
  BY DEF Init, FileInv, IsOpen
<1>5. CallInv
  BY DEF Init, CallInv
<1>6. PastInv
  BY DEF Init, PastInv, None, IsOpen
<1>7. TruthInv
  <2>1. ASSUME NEW u \in 0 .. Units - 1
        PROVE  /\ truth[u] \in Int
               /\ truth[u] # Unset => truth[u] = Unit(u) /\ u < Sectors * length
    <3> DEFINE q == u \div Sectors   r == u % Sectors   c == q + 1   s == r + 1
    <3>1. c \in 1 .. Clusters /\ s \in 1 .. Sectors /\ u = (Sectors * q) + r /\ u \in Nat
      BY <1>0, UnitPlace
    <3>2. truth[u] = IF u < InitSize THEN Data(0, u) ELSE Unset
      BY DEF Init
    <3>3. Data(0, u) = u
      BY <1>0, <3>1 DEF Data
    <3>4. c \in Cluster /\ c # Dir
      BY <1>0, <3>1 DEF Cluster, Dir
    <3>5. Unit(u) = disk[c][s]
      BY DEF Unit
    <3> HIDE DEF c, s
    <3>6. disk[c][s] = IF (c - 1) * Sectors + s - 1 < InitSize
                       THEN Data(0, (c - 1) * Sectors + s - 1) ELSE Unset
      BY <3>1, <3>4 DEF Init, Cluster
    <3>7. (c - 1) * Sectors + s - 1 = u
      <4>1. c - 1 = q /\ s - 1 = r /\ q \in Nat /\ r \in Nat
        BY <1>0, <3>1, Divided DEF c, s
      <4> HIDE DEF q, r
      <4>2. (c - 1) * Sectors = Sectors * q /\ Sectors * q \in Nat
        BY <1>0, <4>1
      <4> DEFINE a == Sectors * q
      <4>3. (c - 1) * Sectors = a /\ a \in Nat /\ u = a + r
        BY <3>1, <4>2
      <4> HIDE DEF a
      <4>4. (c - 1) * Sectors + s - 1 = (a + s) - 1
        BY <3>1, <4>1, <4>3
      <4> QED BY <3>1, <4>1, <4>3, <4>4
    <3>8. disk[c][s] = truth[u]
      BY <3>2, <3>6, <3>7
    <3>9. Sectors * length \in Int
      BY <1>0, <1>2
    <3>10. truth[u] # Unset => u < InitSize
      BY <3>2
    <3>11. truth[u] \in Int
      BY <3>1, <3>2, <3>3 DEF Unset
    <3> QED BY <1>0, <1>2, <3>1, <3>5, <3>8, <3>9, <3>10, <3>11
  <2>2. truth = [u \in 0 .. Units - 1 |-> truth[u]]
    BY DEF Init
  <2>3. truth \in [0 .. Units - 1 -> Int]
    BY <2>1, <2>2
  <2>4. kept = TRUE
    BY DEF Init
  <2> QED BY <2>1, <2>3, <2>4 DEF TruthInv
<1>8. ReadsRight
  BY DEF Init, ReadsRight
<1> QED BY <1>3, <1>4, <1>5, <1>6, <1>7, <1>8 DEF IInv

\* What is known of an open file.
LEMMA FileIn ==
    ASSUME FileInv, NEW h \in Handle, IsOpen(h)
    PROVE  /\ IsFile(file[h], length, Sizes) /\ file[h] \in FatFile
           /\ file[h] # Closed
BY DEF FileInv, IsOpen, IsFile

\* Nothing of the volume's bounds changes but its sectors.
LEMMA SameLength ==
    ASSUME VolumeInv, cacheMax' = cacheMax, length' = length
    PROVE  Sizes' = Sizes /\ length' \in Nat /\ length <= length' /\ length' \in 0 .. Clusters
           /\ cacheMax \in Nat
<1>1. length \in Nat /\ length \in 0 .. Clusters
  BY FileAssumption DEF VolumeInv
<1> QED BY <1>1, SizesStep, ContentsHave DEF VolumeInv

\* open: the entry is read through an empty cache.
LEMMA OpenStep ==
    ASSUME IInv, cacheMax' = cacheMax, NEW h \in Handle, Open(h)
    PROVE  IInv'
<1> USE DEF IInv
<1> DEFINE v == [disk |-> disk, cache |-> <<>>]
           b == GetBlock(v, Dir)
           g == [open |-> TRUE, size |-> b.block[EntrySector], number |-> 0, offset |-> 0,
                 read |-> 0, write |-> 0, cache |-> b.view.cache]
           p == [read |-> None, write |-> None]
<1>1. /\ status = "up" /\ file[h] = Closed
      /\ b.block[EntrySector] \in 0 .. Units
      /\ disk' = b.view.disk
      /\ file' = [file EXCEPT ![h] = g]
      /\ past' = [past EXCEPT ![h] = p]
      /\ UNCHANGED <<status, length, call, calls, truth, kept, got>>
  BY DEF Open, IsOpen
<1>2. /\ Sizes' = Sizes /\ length' \in Nat /\ length <= length' /\ length' \in 0 .. Clusters
      /\ cacheMax \in Nat
  BY <1>1, SameLength
<1>3. IsView(v, Sizes)
  <2>1. Len(<<>>) = 0 /\ <<>> \in Seq(CacheRecord)
    OBVIOUS
  <2>2. IsCache(<<>>, Sizes)
    BY <1>2, <2>1 DEF IsCache
  <2> QED BY <2>2 DEF IsView, VolumeInv
<1>4. Dir \in Cluster
  BY DEF Cluster
<1>5. /\ IsView(b.view, Sizes)
      /\ \A s \in 1 .. Sectors : b.block[s] \in Sizes
      /\ cacheMax = 0 => b.view.disk = disk
  <2>1. ~Cached(Dir) => b = [view |-> v, block |-> v.disk[Dir]]
    BY <1>2, <1>3, <1>4, GotBlock
  <2>2. cacheMax = 0 => ~Cached(Dir)
    BY DEF Cached
  <2>3. cacheMax = 0 => b.view = v
    BY <2>1, <2>2
  <2>4. v.disk = disk
    OBVIOUS
  <2> HIDE DEF v
  <2> QED BY <1>2, <1>3, <1>4, <2>3, <2>4, GotBlock
<1>6. IsStore(b.view.disk, Sizes) /\ IsCache(b.view.cache, Sizes)
  BY <1>5 DEF IsView
<1>7. IsFile(g, length, Sizes)
  <2>1. b.view.cache \in Seq(CacheRecord)
    BY <1>6 DEF IsCache
  <2>2. b.block[EntrySector] \in Sizes
    BY <1>5, FileAssumption
  <2>3. length = 0 => b.block[EntrySector] = 0
    BY <1>1, <2>2, FileAssumption DEF Sizes, Other, Units
  <2> DEFINE z == b.block[EntrySector]   q == b.view.cache
  <2>4. g = [open |-> TRUE, size |-> z, number |-> 0, offset |-> 0,
             read |-> 0, write |-> 0, cache |-> q]
    OBVIOUS
  <2>5. z \in 0 .. Units /\ q \in Seq(CacheRecord) /\ (length = 0 => z = 0) /\ IsCache(q, Sizes)
    BY <1>1, <1>6, <2>1, <2>3
  <2> HIDE DEF z, q, g
  <2>6. g \in FatFile /\ g.read = 0 /\ g.write = 0 /\ g.size = z /\ g.cache = q
    BY <2>4, <2>5, FileAssumption DEF FatFile
  <2> QED BY <1>1, <1>2, <2>5, <2>6 DEF IsFile
<1> HIDE DEF g, b
<1>8. CallsOn(h) = {}
  BY <1>1 DEF CallsOn, CallInv, IsOpen
<1>9. VolumeInv'
  BY <1>1, <1>2, <1>6, VolumeStep DEF VolumeInv
<1>10. FileInv'
  BY <1>1, <1>2, <1>7, FileStep
<1>11. CallInv'
  BY <1>1, <1>2, <1>8, CallStep
<1>12. PastInv'
  <2>1. g.read = 0 /\ g.write = 0
    BY DEF g
  <2>2. p \in [read : Int, write : Int] /\ p.read = None /\ p.write = None
    BY DEF None
  <2>3. IsPast(None, 0)
    BY DEF IsPast, None
  <2> HIDE DEF p
  <2> QED BY <1>1, <2>1, <2>2, <2>3, PastStep
<1>13. TruthInv'
  BY <1>1, <1>2, <1>5, TruthStep
<1>14. ReadsRight'
  BY <1>1, ReadsStep
<1> QED BY <1>9, <1>10, <1>11, <1>12, <1>13, <1>14

\* flush: every record goes to its place, and nothing changes in what is seen.
LEMMA FlushStep ==
    ASSUME IInv, cacheMax' = cacheMax, NEW h \in Handle, Flush(h)
    PROVE  IInv' /\ SameSeen(View(h), Flushed(View(h)))
<1> USE DEF IInv
<1> DEFINE f == file[h]
           v == Flushed(View(h))
           g == [f EXCEPT !.cache = v.cache]
<1>1. /\ status = "up" /\ IsOpen(h) /\ cacheMax > 0
      /\ disk' = v.disk
      /\ file' = [file EXCEPT ![h] = g]
      /\ UNCHANGED <<status, length, call, calls, history>>
  BY DEF Flush
<1>2. /\ Sizes' = Sizes /\ length' \in Nat /\ length <= length' /\ length' \in 0 .. Clusters
      /\ cacheMax \in Nat
  BY <1>1, SameLength
<1>3. IsView(View(h), Sizes)
  BY <1>1, ViewRight
<1>4. IsView(v, Sizes) /\ SameSeen(View(h), v)
  BY <1>2, <1>3, FlushedRight
<1>5. IsStore(v.disk, Sizes) /\ IsCache(v.cache, Sizes)
  BY <1>4 DEF IsView
<1>6. IsFile(f, length, Sizes) /\ f \in FatFile
  BY <1>1, FileIn
<1> HIDE DEF f, v
<1>7. /\ IsFile(g, length, Sizes)
      /\ g.number = f.number /\ g.offset = f.offset
      /\ g.read = f.read /\ g.write = f.write
  <2>1. v.cache \in Seq(CacheRecord)
    BY <1>5 DEF IsCache
  <2>2. /\ g \in FatFile /\ g.cache = v.cache /\ g.size = f.size
        /\ g.number = f.number /\ g.offset = f.offset
        /\ g.read = f.read /\ g.write = f.write
    BY <1>6, <2>1 DEF FatFile
  <2> HIDE DEF g
  <2> QED BY <1>5, <1>6, <2>2 DEF IsFile
<1> HIDE DEF g
<1>8. VolumeInv'
  BY <1>1, <1>2, <1>5, VolumeStep DEF VolumeInv
<1>9. FileInv'
  BY <1>1, <1>2, <1>7, FileStep
<1>10. g # Closed
  BY <1>7, ClosedApart DEF IsFile
<1>11. CallInv'
  BY <1>1, <1>2, <1>7, <1>10, CallStep DEF f
<1>12. PastInv'
  <2> DEFINE p == past[h]
  <2>1. p \in [read : Int, write : Int] /\ past' = [past EXCEPT ![h] = p]
    BY <1>1 DEF PastInv, history
  <2>2. IsPast(p.read, f.read) /\ IsPast(p.write, f.write)
    BY <1>1 DEF PastInv, f
  <2> HIDE DEF p
  <2> QED BY <1>1, <1>7, <2>1, <2>2, PastStep
<1>13. TruthInv'
  BY <1>1, <1>2, TruthStep DEF history
<1>14. ReadsRight'
  BY <1>1, ReadsStep DEF history
<1> QED BY <1>4, <1>8, <1>9, <1>11, <1>12, <1>13, <1>14 DEF v

\* release: the cache is empty and nobody is in a call.
LEMMA ReleaseStep ==
    ASSUME IInv, cacheMax' = cacheMax, NEW h \in Handle, Release(h)
    PROVE  IInv'
<1> USE DEF IInv
<1>1. /\ status = "up" /\ CallsOn(h) = {}
      /\ file' = [file EXCEPT ![h] = Closed]
      /\ UNCHANGED <<status, disk, length, call, calls, history>>
  BY DEF Release
<1>2. /\ Sizes' = Sizes /\ length' \in Nat /\ length <= length' /\ length' \in 0 .. Clusters
  BY <1>1, SameLength
<1>3. VolumeInv'
  BY <1>1, <1>2, VolumeStep DEF VolumeInv
<1>4. FileInv'
  BY <1>1, <1>2, FileStep
<1>5. CallInv'
  BY <1>1, <1>2, CallStep
<1>6. PastInv'
  <2> DEFINE p == past[h]
  <2>1. p \in [read : Int, write : Int] /\ past' = [past EXCEPT ![h] = p]
    BY <1>1 DEF PastInv, history
  <2> HIDE DEF p
  <2> QED BY <1>1, <2>1, PastStep
<1>7. TruthInv'
  BY <1>1, <1>2, TruthStep DEF history
<1>8. ReadsRight'
  BY <1>1, ReadsStep DEF history
<1> QED BY <1>3, <1>4, <1>5, <1>6, <1>7, <1>8

\* A seek sets the two fields of the place and leaves the others.
LEMMA SeekType ==
    ASSUME NEW f \in FatFile, NEW o \in 0 .. Units
    PROVE  /\ Seek(f, o) \in FatFile
           /\ Seek(f, o).number = Ceil(o) /\ Seek(f, o).offset = o % Sectors
           /\ Seek(f, o).size = f.size /\ Seek(f, o).cache = f.cache
           /\ Seek(f, o).read = f.read /\ Seek(f, o).write = f.write
<1>1. o \in Nat
  BY FileAssumption DEF Units
<1>2. Ceil(o) \in 0 .. Clusters /\ o % Sectors \in 0 .. Sectors - 1
  BY <1>1, CeilType, Divided
<1> DEFINE a == Ceil(o)   b == o % Sectors
<1>3. Seek(f, o) = [f EXCEPT !.number = a, !.offset = b]
  BY DEF Seek
<1>4. a \in 0 .. Clusters /\ b \in 0 .. Sectors - 1
  BY <1>2
<1> HIDE DEF a, b
<1>5. /\ Seek(f, o) \in FatFile
      /\ Seek(f, o).number = a /\ Seek(f, o).offset = b
      /\ Seek(f, o).size = f.size /\ Seek(f, o).cache = f.cache
      /\ Seek(f, o).read = f.read /\ Seek(f, o).write = f.write
  BY <1>3, <1>4 DEF FatFile
<1> QED BY <1>5 DEF a, b

\* A call begins: the FatFile is where it says, and every other call on that
\* FatFile is no longer alone.
LEMMA BeginStep ==
    ASSUME VolumeInv, FileInv, CallInv, cacheMax' = cacheMax,
           length' \in Nat, length <= length',
           NEW t \in Thread, NEW h \in Handle, NEW g \in FatFile,
           file' = [file EXCEPT ![h] = g],
           NEW c \in CallRecord, c.handle = h, Begin(t, c),
           c.offset + c.size <= Units,
           c.op = "write" => length' > 0 /\ c.size <= Sectors,
           g.number = Ceil(c.offset), g.offset = c.offset % Sectors
    PROVE  CallInv'
<1>1. CallRecord' = CallRecord
  BY SameTypes
<1>2. call \in [Thread -> {Idle} \cup CallRecord] /\ file \in [Handle -> {Closed} \cup FatFile]
  BY DEF CallInv, FileInv
<1> DEFINE b == CallsOn(h) = {}
           d == [c EXCEPT !.alone = b]
           Other_(u) == [call[u] EXCEPT !.alone = FALSE]
<1>3. call' = [u \in Thread |-> IF u = t THEN d
                                ELSE IF u \in CallsOn(h) THEN Other_(u) ELSE call[u]]
  BY DEF Begin
<1>4. /\ d \in CallRecord /\ d.offset = c.offset /\ d.size = c.size /\ d.op = c.op
      /\ d.handle = c.handle
  <2>1. b \in BOOLEAN
    OBVIOUS
  <2> HIDE DEF b
  <2> QED BY <2>1 DEF CallRecord
<1>5. file'[h] = g /\ g # Closed /\ \A k \in Handle : k # h => file'[k] = file[k]
  BY <1>2, ClosedApart
<1>6. ASSUME NEW u \in Thread, u # t
      PROVE  /\ call'[u] \in {Idle} \cup CallRecord
             /\ call'[u] # Idle => /\ file'[call'[u].handle] # Closed
                                   /\ IsCall(call'[u], file'[call'[u].handle], length')
  <2>1. CASE u \in CallsOn(h)
    <3>1. call[u] # Idle /\ call[u] \in CallRecord /\ call[u].handle = h
          /\ IsCall(call[u], file[h], length)
      BY <1>2, <2>1 DEF CallsOn, CallInv
    <3>2. call'[u] = Other_(u)
      BY <1>3, <1>6, <2>1
    <3> DEFINE x == call[u]   y == [x EXCEPT !.alone = FALSE]
    <3>3. call'[u] = y /\ x \in CallRecord /\ x.handle = h /\ IsCall(x, file[h], length)
      BY <3>1, <3>2
    <3> HIDE DEF x
    <3>4. /\ y \in CallRecord /\ y.offset = x.offset /\ y.size = x.size /\ y.op = x.op
          /\ y.handle = x.handle /\ y.alone = FALSE
      BY <3>3 DEF CallRecord
    <3> HIDE DEF y
    <3>5. IsCall(y, g, length')
      BY <3>3, <3>4 DEF IsCall, VolumeInv
    <3> QED BY <1>5, <3>3, <3>4, <3>5
  <2>2. CASE u \notin CallsOn(h)
    <3>1. call'[u] = call[u]
      BY <1>3, <1>6, <2>2
    <3>2. call[u] # Idle => /\ call[u] \in CallRecord /\ call[u].handle \in Handle
                            /\ call[u].handle # h /\ file[call[u].handle] # Closed
                            /\ IsCall(call[u], file[call[u].handle], length)
      BY <1>2, <2>2 DEF CallsOn, CallInv, IsOpen, CallRecord
    <3>3. \A x, f : IsCall(x, f, length) => IsCall(x, f, length')
      BY DEF IsCall, VolumeInv
    <3>4. call[u] \in {Idle} \cup CallRecord
      BY <1>2
    <3> QED BY <1>5, <3>1, <3>2, <3>3, <3>4
  <2> QED BY <2>1, <2>2
<1>7. call'[t] = d /\ IsCall(d, g, length')
  <2>1. call'[t] = d
    BY <1>3
  <2> HIDE DEF d
  <2> QED BY <1>4, <2>1 DEF IsCall
<1> HIDE DEF d, Other_
<1>8. \A u \in Thread : /\ call'[u] \in {Idle} \cup CallRecord
                        /\ call'[u] # Idle => /\ file'[call'[u].handle] # Closed
                                              /\ IsCall(call'[u], file'[call'[u].handle], length')
  BY <1>4, <1>5, <1>6, <1>7
<1>9. call' = [u \in Thread |-> call'[u]]
  BY <1>3
<1>10. call' \in [Thread -> {Idle} \cup CallRecord]
  BY <1>8, <1>9
<1> QED BY <1>1, <1>8, <1>10 DEF CallInv, IsOpen, IsCall

\* The first half of a read.
LEMMA BeginReadStep ==
    ASSUME IInv, cacheMax' = cacheMax, NEW t \in Thread, NEW h \in Handle,
           NEW r \in Reads, BeginRead(t, h, r[1], r[2])
    PROVE  IInv'
<1> USE DEF IInv
<1> DEFINE f == file[h]
           o == r[1]
           z == r[2]
           n == IF o + z > f.size THEN f.size - o ELSE z
           g == Seek(f, o)
           c == [op |-> "read", handle |-> h, offset |-> o, size |-> n,
                 number |-> 0, within |-> TRUE, alone |-> TRUE]
<1>1. /\ status = "up" /\ IsOpen(h) /\ o < f.size /\ calls < MaxCalls[cacheMax]
      /\ calls' = calls + 1
      /\ file' = [file EXCEPT ![h] = g]
      /\ Begin(t, c)
      /\ UNCHANGED <<status, disk, length, history>>
  BY DEF BeginRead
<1>2. /\ Sizes' = Sizes /\ length' \in Nat /\ length <= length' /\ length' \in 0 .. Clusters
      /\ cacheMax \in Nat
  BY <1>1, SameLength
<1>3. o \in 0 .. Units /\ z \in 1 .. Units /\ Units \in Nat
  BY FileAssumption DEF Units
<1>4. IsFile(f, length, Sizes) /\ f \in FatFile
  BY <1>1, FileIn
<1>5. f.size \in 0 .. Units
  BY <1>4 DEF FatFile
<1>6. n \in 1 .. Units /\ o + n <= Units
  <2> DEFINE s == f.size
  <2>1. s \in 0 .. Units /\ o < s /\ n = IF o + z > s THEN s - o ELSE z
    BY <1>1, <1>5
  <2> HIDE DEF s, o, z, n
  <2> QED BY <1>3, <2>1
<1> HIDE DEF f, o, z, n
<1>7. c \in CallRecord /\ c.handle = h /\ c.offset = o /\ c.size = n /\ c.op = "read"
  <2>1. 0 \in 0 .. MaxCalls[cacheMax]
    BY ContentsHave DEF VolumeInv
  <2> QED BY <1>3, <1>6, <2>1 DEF CallRecord
<1>8. /\ g \in FatFile /\ g.number = Ceil(o) /\ g.offset = o % Sectors
      /\ g.size = f.size /\ g.cache = f.cache /\ g.read = f.read /\ g.write = f.write
  BY <1>3, <1>4, SeekType
<1> HIDE DEF g, c
<1>9. IsFile(g, length, Sizes)
  BY <1>4, <1>8 DEF IsFile
<1>10. VolumeInv'
  <2>1. calls' \in 0 .. MaxCalls[cacheMax]
    BY <1>1, ContentsHave DEF VolumeInv
  <2>2. IsStore(disk', Sizes')
    BY <1>1, <1>2 DEF VolumeInv, history
  <2>3. status' \in {"up", "astray"}
    BY <1>1
  <2> QED BY <1>2, <2>1, <2>2, <2>3, VolumeStep
<1>11. FileInv'
  BY <1>1, <1>2, <1>9, FileStep
<1>12. CallInv'
  BY <1>1, <1>2, <1>6, <1>7, <1>8, BeginStep
<1>13. PastInv'
  <2> DEFINE p == past[h]
  <2>1. p \in [read : Int, write : Int] /\ past' = [past EXCEPT ![h] = p]
    BY <1>1 DEF PastInv, history
  <2>2. IsPast(p.read, f.read) /\ IsPast(p.write, f.write)
    BY <1>1 DEF PastInv, f
  <2> HIDE DEF p
  <2> QED BY <1>1, <1>8, <2>1, <2>2, PastStep
<1>14. TruthInv'
  BY <1>1, <1>2, TruthStep DEF history
<1>15. ReadsRight'
  BY <1>1, ReadsStep DEF history
<1> QED BY <1>10, <1>11, <1>12, <1>13, <1>14, <1>15

\* The entry of the file in its directory is written, or nothing is.
LEMMA ResizedRight ==
    ASSUME VolumeInv, FileInv, NEW h \in Handle, IsOpen(h), NEW size \in 0 .. Units
    PROVE  /\ IsView(Resized(h, size), Contents)
           /\ file[h].cache # <<>> => Resized(h, size).cache # <<>>
           /\ cacheMax = 0 => \A c \in 1 .. Clusters : Resized(h, size).disk[c] = disk[c]
<1>1. IsView(View(h), Contents)
  BY ViewRight, SizesType, Wider
<1>2. View(h).disk = disk /\ View(h).cache = file[h].cache
  BY DEF View
<1>3. CASE size = file[h].size
  <2>1. Resized(h, size) = View(h)
    BY <1>3 DEF Resized
  <2> QED BY <1>1, <1>2, <2>1
<1>4. CASE size # file[h].size
  <2> DEFINE v == View(h)
             b == GetBlock(v, Dir)
             block == [b.block EXCEPT ![EntrySector] = size]
             w == PutBlock(b.view, Dir, block)
  <2>1. Resized(h, size) = w
    BY <1>4 DEF Resized, Updated
  <2>2. cacheMax \in Nat /\ Dir \in Cluster /\ size \in Contents
        /\ EntrySector \in 1 .. Sectors /\ \A c \in 1 .. Clusters : c # Dir
    BY ContentsHave, FileAssumption DEF VolumeInv, Cluster, Dir
  <2> HIDE DEF v
  <2>3. /\ IsView(b.view, Contents) /\ b.block \in [1 .. Sectors -> Contents]
        /\ Cached(Dir) => b.view.cache # <<>>
        /\ ~Cached(Dir) => b = [view |-> v, block |-> v.disk[Dir]]
    BY <1>1, <2>2, GotBlock DEF v
  <2> HIDE DEF b
  <2>4. block \in [1 .. Sectors -> Contents]
    BY <2>2, <2>3
  <2> HIDE DEF block
  <2>5. /\ IsView(w, Contents)
        /\ Cached(Dir) => w.cache # <<>>
        /\ ~Cached(Dir) => w = [disk |-> [b.view.disk EXCEPT ![Dir] = block],
                                cache |-> b.view.cache]
    <3> DEFINE x == b.view
    <3>1. \A s \in 1 .. Sectors : block[s] \in Contents
      BY <2>4
    <3>2. IsView(x, Contents)
      BY <2>3
    <3> HIDE DEF x
    <3>3. IsView(PutBlock(x, Dir, block), Contents)
      BY <2>2, <2>4, <3>1, <3>2, BlockPut
    <3>4. Cached(Dir) => PutBlock(x, Dir, block).cache # <<>>
      BY <2>2, <2>4, <3>1, <3>2, BlockPut
    <3>5. ~Cached(Dir) => PutBlock(x, Dir, block) =
                                 [disk |-> [x.disk EXCEPT ![Dir] = block], cache |-> x.cache]
      <4>1. x = [disk |-> x.disk, cache |-> x.cache]
        BY <3>2 DEF IsView
      <4>2. ~Cached(Dir) => PutBlock(x, Dir, block) = [x EXCEPT !.disk = [x.disk EXCEPT ![Dir] = block]]
        BY DEF PutBlock
      <4> QED BY <4>1, <4>2
    <3> QED BY <3>3, <3>4, <3>5 DEF x, w
  <2> HIDE DEF w
  <2>6. CASE Cached(Dir)
    BY <2>1, <2>5, <2>6 DEF Cached
  <2>7. CASE ~Cached(Dir)
    <3>1. b.view = v
      BY <2>3, <2>7
    <3>2. w.cache = v.cache /\ w.disk = [v.disk EXCEPT ![Dir] = block]
      BY <2>5, <2>7, <3>1
    <3>3. disk \in [Cluster -> [1 .. Sectors -> Contents]]
      BY DEF VolumeInv, IsStore
    <3>4. w.disk = [disk EXCEPT ![Dir] = block]
      BY <1>2, <3>2 DEF v
    <3>5. \A c \in 1 .. Clusters : w.disk[c] = disk[c]
      BY <2>2, <3>3, <3>4 DEF Cluster
    <3> QED BY <1>2, <2>1, <2>5, <3>2, <3>5 DEF v
  <2> QED BY <2>6, <2>7
<1> QED BY <1>3, <1>4

\* The first half of a write: the file may grow, and its entry with it.  A
\* cache that has records has records afterwards.
LEMMA BeginWriteStep ==
    ASSUME IInv, cacheMax' = cacheMax, NEW t \in Thread, NEW h \in Handle,
           NEW r \in Writes, BeginWrite(t, h, r[1], r[2])
    PROVE  IInv' /\ (file[h].cache # <<>> => file'[h].cache # <<>>)
<1> USE DEF IInv
<1> DEFINE f == file[h]
           o == r[1]
           z == r[2]
           more == IF Extends(f, o, z) THEN Ceil(z) ELSE 0
           new == NewSize(f, o, z)
           v == Resized(h, new)
           e == [f EXCEPT !.size = new, !.cache = v.cache]
           g == Seek(e, o)
           c == [op |-> "write", handle |-> h, offset |-> o, size |-> z,
                 number |-> calls + 1, within |-> o <= f.size, alone |-> TRUE]
<1>1. /\ status = "up" /\ IsOpen(h) /\ calls < MaxCalls[cacheMax]
      /\ length + more <= Clusters /\ new <= Units
      /\ calls' = calls + 1 /\ length' = length + more
      /\ disk' = v.disk
      /\ file' = [file EXCEPT ![h] = g]
      /\ Begin(t, c)
      /\ UNCHANGED <<status, history>>
  BY DEF BeginWrite
<1>2. /\ o \in 0 .. Units /\ z \in 1 .. Sectors /\ o + z <= Units /\ Units \in Nat
      /\ z \in 1 .. Units /\ Sectors \in Nat \ {0}
  BY FileAssumption DEF Units
<1>3. IsFile(f, length, Sizes) /\ f \in FatFile
  BY <1>1, FileIn
<1>4. f.size \in 0 .. Units
  BY <1>3 DEF FatFile
<1>5. more \in Nat /\ length \in Nat /\ (Extends(f, o, z) => more > 0)
  <2>1. Ceil(z) \in Nat /\ Ceil(z) > 0
    <3> HIDE DEF z
    <3>1. z \in Nat /\ z > 0
      BY <1>2
    <3> QED BY <3>1, CeilType
  <2> QED BY <2>1, FileAssumption DEF VolumeInv
<1>6. length' \in 0 .. Clusters /\ length <= length' /\ length' \in Nat /\ length' > 0
  <2>1. ~Extends(f, o, z) => length > 0
    <3> SUFFICES ASSUME ~Extends(f, o, z), length = 0 PROVE FALSE
      BY <1>5
    <3>1. o < f.size
      BY <1>2, <1>4 DEF Extends
    <3>2. f.size = 0
      BY <1>3 DEF IsFile
    <3> QED BY <1>2, <3>1, <3>2
  <2> HIDE DEF more
  <2> QED BY <1>1, <1>5, <2>1, FileAssumption
<1>7. new \in 0 .. Units
  <2> DEFINE s == f.size
  <2>1. s \in Nat /\ (new = s + z \/ new = o + z \/ new = s)
    BY <1>2, <1>4 DEF NewSize
  <2> HIDE DEF s, o, z, new
  <2>2. o \in Nat /\ z \in Nat /\ new <= Units
    BY <1>1, <1>2
  <2> QED BY <1>2, <2>1, <2>2
<1>8. cacheMax \in Nat
  BY ContentsHave DEF VolumeInv
<1>9. /\ IsView(v, Contents)
      /\ f.cache # <<>> => v.cache # <<>>
      /\ cacheMax = 0 => \A x \in 1 .. Clusters : v.disk[x] = disk[x]
  <2> HIDE DEF new
  <2> QED BY <1>1, <1>7, ResizedRight
<1>10. Sizes' = Contents
  <2>1. Contents' = Contents
    BY SameTypes
  <2> QED BY <1>6, <2>1 DEF Sizes
<1>11. IsStore(v.disk, Contents) /\ IsCache(v.cache, Contents) /\ v.cache \in Seq(CacheRecord)
  BY <1>9 DEF IsView, IsCache
<1> HIDE DEF v, new, more
<1>12. /\ e \in FatFile /\ e.cache = v.cache /\ e.read = f.read /\ e.write = f.write
  <2> HIDE DEF f
  <2> QED BY <1>3, <1>7, <1>11 DEF FatFile
<1> HIDE DEF e
<1>13. /\ g \in FatFile /\ g.number = Ceil(o) /\ g.offset = o % Sectors
       /\ g.cache = v.cache /\ g.read = f.read /\ g.write = f.write
  BY <1>2, <1>12, SeekType
<1>14. /\ c \in CallRecord /\ c.handle = h /\ c.offset = o /\ c.size = z /\ c.op = "write"
  <2>1. calls + 1 \in 0 .. MaxCalls[cacheMax]
    BY <1>1, ContentsHave DEF VolumeInv
  <2>2. (o <= f.size) \in BOOLEAN
    OBVIOUS
  <2> DEFINE b == o <= f.size   k == calls + 1
  <2> HIDE DEF b, k, o, z, f
  <2>3. b \in BOOLEAN /\ k \in 0 .. MaxCalls[cacheMax]
    BY <2>1, <2>2 DEF b, k
  <2>4. c = [op |-> "write", handle |-> h, offset |-> o, size |-> z,
             number |-> k, within |-> b, alone |-> TRUE]
    BY DEF b, k
  <2> QED BY <1>2, <2>3, <2>4 DEF CallRecord
<1> HIDE DEF g, c
<1>15. IsFile(g, length', Sizes')
  <2>1. f.read <= length /\ f.write <= length
    BY <1>3 DEF IsFile
  <2>2. f.read \in Nat /\ f.write \in Nat
    <3> HIDE DEF f
    <3> QED BY <1>3, FileAssumption DEF FatFile
  <2> QED BY <1>5, <1>6, <1>10, <1>11, <1>13, <2>1, <2>2 DEF IsFile
<1>16. VolumeInv'
  <2>1. calls' \in 0 .. MaxCalls[cacheMax]
    BY <1>1, ContentsHave DEF VolumeInv
  <2>2. IsStore(disk', Sizes')
    BY <1>1, <1>10, <1>11
  <2>3. status' \in {"up", "astray"}
    BY <1>1
  <2> QED BY <1>6, <2>1, <2>2, <2>3, VolumeStep
<1>17. FileInv'
  BY <1>1, <1>6, <1>15, FileStep
<1>18. CallInv'
  <2>1. c.offset + c.size <= Units /\ c.size <= Sectors
    BY <1>2, <1>14
  <2> QED BY <1>1, <1>6, <1>13, <1>14, <2>1, BeginStep
<1>19. PastInv'
  <2> DEFINE p == past[h]
  <2>1. p \in [read : Int, write : Int] /\ past' = [past EXCEPT ![h] = p]
    BY <1>1 DEF PastInv, history
  <2>2. IsPast(p.read, f.read) /\ IsPast(p.write, f.write)
    BY <1>1 DEF PastInv, f
  <2> HIDE DEF p
  <2> QED BY <1>1, <1>13, <2>1, <2>2, PastStep
<1>20. TruthInv'
  BY <1>1, <1>6, <1>9, TruthStep DEF history
<1>21. ReadsRight'
  BY <1>1, ReadsStep DEF history
<1>22. file'[h].cache = v.cache
  BY <1>1, <1>13 DEF FileInv
<1> QED BY <1>9, <1>16, <1>17, <1>18, <1>19, <1>20, <1>21, <1>22
-----------------------------------------------------------------------------
(* Transfers.                                                              *)

\* The cluster that a transfer begins in, n being the one that its FatFile
\* remembers and m the number that was sought.
Begins(n, m) == IF n = 0 THEN Nth(m) ELSE NextInChain(n)

\* A transfer begins in a cluster of the file or in none.
LEMMA BeginsType ==
    ASSUME VolumeInv, NEW n \in Nat, n <= length, NEW m \in Nat
    PROVE  /\ Begins(n, m) \in Nat /\ Begins(n, m) >= 1
           /\ Begins(n, m) # EOC /\ length > 0 => Begins(n, m) <= length
           /\ EOC > length
           /\ n > 0 => Begins(n, m) = IF n < length THEN n + 1 ELSE EOC
BY FileAssumption DEF VolumeInv, Begins, Nth, NextInChain, EOC

\* The units of the first cluster.
LEMMA DividedBelow ==
    ASSUME NEW o \in Nat
    PROVE  o < Sectors <=> o \div Sectors = 0
<1> DEFINE q == o \div Sectors
<1>1. q \in Nat /\ o % Sectors \in 0 .. Sectors - 1 /\ o = (Sectors * q) + (o % Sectors)
      /\ Sectors \in Nat \ {0}
  BY Divided, FileAssumption
<1> HIDE DEF q
<1>2. CASE q = 0
  <2>1. Sectors * q = 0
    BY <1>1, <1>2
  <2> QED BY <1>1, <1>2, <2>1 DEF q
<1>3. CASE q # 0
  <2>1. 1 <= q /\ Sectors * 1 = Sectors
    BY <1>1, <1>3
  <2>2. Sectors * 1 <= Sectors * q
    BY <1>1, <2>1, TimesOrder
  <2> QED BY <1>1, <1>3, <2>1, <2>2 DEF q
<1> QED BY <1>2, <1>3

\* A call that the code serves begins in the cluster of its offset, unless
\* there is none.
LEMMA BeginsServed ==
    ASSUME VolumeInv, NEW n \in Nat, n <= length, NEW o \in Nat, NEW z,
           NEW p, IsPast(p, n), Served(p, o, z)
    PROVE  /\ Begins(n, Ceil(o)) = (o \div Sectors) + 1 \/ Begins(n, Ceil(o)) = EOC
           /\ p # None => p \in Nat /\ n = p + 1 /\ o \div Sectors = n
                          /\ (o % Sectors) + z <= Sectors
           /\ p = None => n = 0
<1> DEFINE q == o \div Sectors
<1>1. q \in Nat /\ Ceil(o) = IF o % Sectors = 0 THEN q ELSE q + 1
  BY Divided, CeilType
<1>2. CASE p = None
  <2>1. n = 0 /\ (o < Sectors \/ o % Sectors # 0)
    BY <1>2 DEF IsPast, Served
  <2>2. q = 0 \/ Ceil(o) = q + 1
    BY <1>1, <2>1, DividedBelow
  <2> DEFINE m == Ceil(o)
  <2>3. q \in Nat /\ m \in Nat /\ (m = q \/ m = q + 1) /\ (q = 0 \/ m = q + 1)
    BY <1>1, <2>2
  <2>4. Begins(n, m) = Nth(m)
    BY <2>1 DEF Begins
  <2> HIDE DEF m, q
  <2>5. Nth(m) = q + 1 \/ Nth(m) = EOC
    <3>1. CASE m <= 1
      BY <2>3, <3>1 DEF Nth
    <3>2. CASE ~(m <= 1)
      <4>1. m = q + 1
        BY <2>3, <3>2
      <4>2. Nth(m) = m \/ Nth(m) = EOC
        BY <3>2 DEF Nth
      <4> QED BY <4>1, <4>2
    <3> QED BY <3>1, <3>2
  <2> QED BY <1>2, <2>1, <2>4, <2>5 DEF m, q
<1>3. CASE p # None
  <2>1. p \in Nat /\ n = p + 1 /\ q = p + 1 /\ (o % Sectors) + z <= Sectors
    BY <1>3 DEF IsPast, Served
  <2> HIDE DEF q
  <2>2. Begins(n, Ceil(o)) = n + 1 \/ Begins(n, Ceil(o)) = EOC
    BY <2>1 DEF Begins, NextInChain
  <2> QED BY <1>3, <2>1, <2>2 DEF q
<1> QED BY <1>2, <1>3

\* How many clusters a transfer goes on for, x being how far its end is from
\* the beginning of its first cluster.
More(x) == IF x > Sectors THEN Ceil(x - Sectors) ELSE 0

\* The last cluster of a transfer, and how many clusters lie between.
LEMMA Spanned ==
    ASSUME NEW o \in Nat, NEW z \in Nat \ {0}
    PROVE  LET x == (o % Sectors) + z IN
           /\ More(x) \in Nat
           /\ x <= Sectors * (More(x) + 1)
           /\ x <= Sectors => More(x) = 0
           /\ LastCluster(o, z) = (o \div Sectors) + More(x)
<1> DEFINE q == o \div Sectors
           d == o % Sectors
           x == d + z
           y == x - 1
           i == y \div Sectors
           r == y % Sectors
<1>0. Sectors \in Nat \ {0}
  BY FileAssumption
<1>1. q \in Nat /\ d \in 0 .. Sectors - 1 /\ o = (Sectors * q) + d
  BY Divided
<1> HIDE DEF q, d
<1>2. x \in Nat /\ y \in Nat /\ x = y + 1
  BY <1>0, <1>1
<1> HIDE DEF x
<1>3. i \in Nat /\ r \in 0 .. Sectors - 1 /\ y = (Sectors * i) + r
  <2> HIDE DEF y
  <2> QED BY <1>2, Divided
<1>4. More(x) = i
  <2>1. CASE x > Sectors
    <3>1. Ceil(x - Sectors) = (x - Sectors + Sectors - 1) \div Sectors
      BY DEF Ceil
    <3>2. x - Sectors + Sectors - 1 = y
      BY <1>0, <1>2
    <3> QED BY <2>1, <3>1, <3>2 DEF More
  <2>2. CASE ~(x > Sectors)
    <3>1. y < Sectors
      BY <1>0, <1>2, <2>2
    <3> HIDE DEF y
    <3> QED BY <1>2, <2>2, <3>1, DividedBelow DEF More
  <2> QED BY <2>1, <2>2
<1>5. x <= Sectors * (i + 1)
  <2> HIDE DEF i, r, y
  <2>1. Sectors * (i + 1) = (Sectors * i) + Sectors /\ Sectors * i \in Int
    BY <1>0, <1>3, TimesOrder
  <2> QED BY <1>0, <1>2, <1>3, <2>1
<1>6. LastCluster(o, z) = q + i
  <2> HIDE DEF i, r, y
  <2>1. Sectors * (q + i) = (Sectors * q) + (Sectors * i)
        /\ Sectors * q \in Int /\ Sectors * i \in Int
    BY <1>1, <1>3, TimesOrder
  <2>2. o + z - 1 = (Sectors * q) + y
    BY <1>1, <1>2, <2>1 DEF x
  <2>3. o + z - 1 = (Sectors * (q + i)) + r
    <3> DEFINE a == Sectors * q   b == Sectors * i   e == Sectors * (q + i)
    <3>1. e = a + b /\ a \in Int /\ b \in Int /\ o + z - 1 = a + y /\ y = b + r
      BY <1>3, <2>1, <2>2
    <3> HIDE DEF a, b, e
    <3>2. o + z - 1 = e + r
      BY <1>0, <1>3, <3>1
    <3> QED BY <3>2 DEF e
  <2>4. ((Sectors * (q + i)) + r) \div Sectors = q + i
    BY <1>1, <1>3, DividedOnce
  <2> QED BY <2>3, <2>4 DEF LastCluster
<1>7. x <= Sectors => More(x) = 0
  BY <1>0, <1>2 DEF More
<1> QED BY <1>3, <1>4, <1>5, <1>6, <1>7 DEF x, q, d

\* What is remembered after a call, if it found what it asked for.
LEMMA PastNext ==
    ASSUME VolumeInv, NEW n \in Nat, n <= length, NEW o \in Nat, NEW z \in Nat \ {0},
           NEW p, IsPast(p, n), Served(p, o, z), n = 0 => Begins(n, Ceil(o)) # EOC
    PROVE  IsPast(Ended(p, o, z),
                  (IF n = 0 THEN Begins(n, Ceil(o)) ELSE n) + More((o % Sectors) + z))
<1> DEFINE q == o \div Sectors
           x == (o % Sectors) + z
           more == More(x)
           b == Begins(n, Ceil(o))
<1>1. /\ b = q + 1 \/ b = EOC
      /\ p # None => p \in Nat /\ n = p + 1 /\ x <= Sectors
      /\ p = None => n = 0
  BY BeginsServed
<1>2. LastCluster(o, z) = q + more /\ more \in Nat /\ (x <= Sectors => more = 0)
  BY Spanned
<1>3. q \in Nat
  BY Divided
<1>4. n = 0 => b # EOC
  OBVIOUS
<1> HIDE DEF q, x, more, b
<1>5. CASE p = None
  <2>1. n = 0 /\ b = q + 1
    BY <1>1, <1>4, <1>5
  <2>2. Ended(p, o, z) = q + more
    BY <1>2, <1>5 DEF Ended
  <2>3. Ended(p, o, z) \in Nat /\ b + more = Ended(p, o, z) + 1 /\ b + more # 0
    BY <1>2, <1>3, <2>1, <2>2
  <2>4. IsPast(Ended(p, o, z), b + more)
    BY <2>3 DEF IsPast, None
  <2> QED BY <2>1, <2>4 DEF b, more, x
<1>6. CASE p # None
  <2>1. Ended(p, o, z) = p /\ n = p + 1 /\ p \in Nat /\ more = 0
    BY <1>1, <1>2, <1>6 DEF Ended
  <2>2. n # 0 /\ n + more = n
    BY <2>1
  <2> QED BY <2>1, <2>2 DEF b, more, x
<1> QED BY <1>5, <1>6

\* A step that changes at most the status.
LEMMA StatusStep ==
    ASSUME IInv, cacheMax' = cacheMax, status' \in {"up", "astray"},
           UNCHANGED <<disk, length, file, call, calls, history>>
    PROVE  IInv'
<1> USE DEF IInv
<1>1. Contents' = Contents /\ CacheRecord' = CacheRecord /\ FatFile' = FatFile
      /\ CallRecord' = CallRecord
  BY SameTypes
<1>2. /\ length' \in Nat /\ length <= length' /\ length' \in 0 .. Clusters /\ Sizes' = Sizes
  BY SameLength
<1>3. VolumeInv'
  <2>1. calls' \in 0 .. MaxCalls[cacheMax] /\ IsStore(disk', Sizes')
    BY <1>2 DEF VolumeInv
  <2> QED BY <1>2, <2>1, VolumeStep
<1>4. FileInv'
  BY <1>1, <1>2 DEF FileInv, IsOpen, IsFile, IsCache
<1>5. CallInv'
  BY <1>1 DEF CallInv, IsOpen, IsCall
<1>6. PastInv'
  BY DEF PastInv, IsOpen, history
<1>7. TruthInv'
  BY <1>2, TruthStep DEF history
<1>8. ReadsRight'
  BY ReadsStep DEF history
<1> QED BY <1>3, <1>4, <1>5, <1>6, <1>7, <1>8

\* What a block holds after data were laid over it.
LEMMA OverAt ==
    ASSUME NEW block, NEW d, NEW data, NEW s \in 1 .. Sectors
    PROVE  Over(block, d, data)[s] =
              IF s > d /\ s <= d + Len(data) THEN data[s - d] ELSE block[s]
BY DEF Over

\* A write that goes to the cluster of its offset, and within it, leaves the
\* truth in the file.
LEMMA TruthWritten ==
    ASSUME VolumeInv, TruthInv, cacheMax' = cacheMax, length' = length,
           NEW at \in 1 .. length, NEW o \in Nat, NEW z \in Nat \ {0}, NEW k \in Nat,
           kept' => kept, kept' \in BOOLEAN,
           kept' => (o \div Sectors) + 1 = at /\ (o % Sectors) + z <= Sectors,
           cacheMax = 0 /\ kept' =>
              disk' = [disk EXCEPT ![at] =
                         Over(disk[at], o % Sectors, [i \in 1 .. z |-> Data(k, o + i - 1)])],
           truth' = [u \in DOMAIN truth |->
                        IF u >= o /\ u < o + z THEN Data(k, u) ELSE truth[u]]
    PROVE  TruthInv'
<1>0. Sectors \in Nat \ {0} /\ Clusters \in Nat \ {0} /\ Units \in Nat
  BY FileAssumption DEF Units
<1>1. truth' \in [0 .. Units - 1 -> Int]
  <2>1. \A u \in 0 .. Units - 1 : Data(k, u) \in Int
    BY <1>0 DEF Data
  <2> QED BY <2>1 DEF TruthInv
<1>2. ASSUME cacheMax = 0, kept', NEW u \in 0 .. Units - 1
      PROVE  truth'[u] # Unset => truth'[u] = Unit(u)' /\ u < Sectors * length
  <2> DEFINE a == u \div Sectors   r == u % Sectors
             q == o \div Sectors   d == o % Sectors
             data == [i \in 1 .. z |-> Data(k, o + i - 1)]
             new == IF u >= o /\ u < o + z THEN Data(k, u) ELSE truth[u]
  <2>1. /\ a \in Nat /\ r \in 0 .. Sectors - 1 /\ u = (Sectors * a) + r
        /\ a + 1 \in 1 .. Clusters /\ r + 1 \in 1 .. Sectors
    BY UnitPlace, Divided
  <2>2. q \in Nat /\ d \in 0 .. Sectors - 1 /\ o = (Sectors * q) + d
    BY Divided
  <2>3. /\ kept /\ q + 1 = at /\ d + z <= Sectors
        /\ disk' = [disk EXCEPT ![at] = Over(disk[at], d, data)]
    BY <1>2
  <2>4. truth'[u] = new
    BY <1>2 DEF TruthInv
  <2>5. truth[u] # Unset => truth[u] = disk[a + 1][r + 1] /\ u < Sectors * length
    BY <1>2, <2>3 DEF TruthInv, Unit
  <2>6. Unit(u)' = disk'[a + 1][r + 1]
    BY DEF Unit
  <2>7. length \in Nat /\ disk \in [Cluster -> [1 .. Sectors -> Contents]] /\ at \in Cluster
    BY FileAssumption DEF VolumeInv, IsStore, Cluster
  <2> HIDE DEF a, r, q, d
  <2>8. CASE a = q
    <3>1. u >= o <=> r + 1 > d
      <4> DEFINE i == Sectors * q
      <4>1. i \in Int /\ u = i + r /\ o = i + d
        BY <2>1, <2>2, <2>8, TimesOrder
      <4> HIDE DEF i
      <4> QED BY <1>0, <2>1, <2>2, <4>1
    <3>2. u < o + z <=> r + 1 <= d + z
      <4> DEFINE i == Sectors * q
      <4>1. i \in Int /\ u = i + r /\ o = i + d
        BY <2>1, <2>2, <2>8, TimesOrder
      <4> HIDE DEF i
      <4> QED BY <1>0, <2>1, <2>2, <4>1
    <3>3. r + 1 > d => o + (r + 1 - d) - 1 = u
      <4> DEFINE i == Sectors * q
      <4>1. i \in Int /\ u = i + r /\ o = i + d
        BY <2>1, <2>2, <2>8, TimesOrder
      <4> HIDE DEF i
      <4>2. i + d + (r + 1 - d) - 1 = i + r
        BY <1>0, <2>1, <2>2, <4>1
      <4> QED BY <4>1, <4>2
    <3>4. disk'[a + 1] = Over(disk[at], d, data)
      BY <2>3, <2>7, <2>8
    <3>5. Len(data) = z
      OBVIOUS
    <3>6. Over(disk[at], d, data)[r + 1] =
             IF r + 1 > d /\ r + 1 <= d + z THEN data[r + 1 - d] ELSE disk[at][r + 1]
      <4> HIDE DEF data
      <4>1. \A i \in 1 .. Sectors : Over(disk[at], d, data)[i] =
               IF i > d /\ i <= d + Len(data) THEN data[i - d] ELSE disk[at][i]
        BY OverAt
      <4>2. \A i \in 1 .. Sectors : Over(disk[at], d, data)[i] =
               IF i > d /\ i <= d + z THEN data[i - d] ELSE disk[at][i]
        BY <3>5, <4>1
      <4>3. r + 1 \in 1 .. Sectors
        BY <2>1
      <4>4. CASE r + 1 > d /\ r + 1 <= d + z
        <5>1. Over(disk[at], d, data)[r + 1] = data[r + 1 - d]
          BY <1>0, <2>1, <2>2, <4>2, <4>3, <4>4
        <5> QED BY <4>4, <5>1
      <4>5. CASE ~(r + 1 > d /\ r + 1 <= d + z)
        <5>1. Over(disk[at], d, data)[r + 1] = disk[at][r + 1]
          BY <4>2, <4>3, <4>5
        <5> QED BY <4>5, <5>1
      <4> QED BY <4>4, <4>5
    <3>7. r + 1 > d /\ r + 1 <= d + z => data[r + 1 - d] = Data(k, u)
      <4> SUFFICES ASSUME r + 1 > d, r + 1 <= d + z PROVE data[r + 1 - d] = Data(k, u)
        OBVIOUS
      <4>1. r + 1 - d \in 1 .. z
        BY <1>0, <2>1, <2>2
      <4>2. data[r + 1 - d] = Data(k, o + (r + 1 - d) - 1)
        BY <4>1
      <4> QED BY <3>3, <4>2
    <3>8. u < Sectors * length
      <4>1. Sectors * (a + 1) <= Sectors * length
        BY <2>1, <2>3, <2>7, <2>8, TimesOrder
      <4>2. Sectors * (a + 1) = (Sectors * a) + Sectors /\ Sectors * a \in Int
            /\ Sectors * length \in Int
        BY <1>0, <2>1, <2>7, TimesOrder
      <4> DEFINE i == Sectors * a  j == Sectors * length
      <4>3. i \in Int /\ j \in Int /\ i + Sectors <= j /\ u = i + r
        BY <2>1, <4>1, <4>2
      <4> HIDE DEF i, j
      <4>4. u < j
        BY <1>0, <2>1, <4>3
      <4> QED BY <4>4 DEF j
    <3> HIDE DEF data
    <3>9. Unit(u)' = IF r + 1 > d /\ r + 1 <= d + z THEN Data(k, u) ELSE disk[a + 1][r + 1]
      BY <2>3, <2>6, <2>8, <3>4, <3>6, <3>7
    <3> QED BY <2>4, <2>5, <3>1, <3>2, <3>8, <3>9
  <2>9. CASE a # q
    <3>1. ~(u >= o /\ u < o + z)
      <4> DEFINE i == Sectors * a  j == Sectors * q
      <4>1. /\ i \in Int /\ j \in Int /\ u = i + r /\ o = j + d
            /\ Sectors * (a + 1) = i + Sectors /\ Sectors * (q + 1) = j + Sectors
        BY <1>0, <2>1, <2>2, TimesOrder
      <4>2. a < q => Sectors * (a + 1) <= Sectors * q
        BY <2>1, <2>2, TimesOrder
      <4>3. q < a => Sectors * (q + 1) <= Sectors * a
        BY <2>1, <2>2, TimesOrder
      <4>4. i + Sectors <= j \/ j + Sectors <= i
        BY <2>1, <2>2, <2>9, <4>1, <4>2, <4>3
      <4> HIDE DEF i, j
      <4> QED BY <1>0, <2>1, <2>2, <2>3, <4>1, <4>4
    <3>2. disk'[a + 1] = disk[a + 1]
      <4>1. a + 1 # at /\ a + 1 \in Cluster
        BY <2>1, <2>2, <2>3, <2>9 DEF Cluster
      <4> HIDE DEF data
      <4> QED BY <2>3, <2>7, <4>1
    <3> QED BY <2>4, <2>5, <2>6, <3>1, <3>2
  <2> QED BY <2>8, <2>9
<1>3. \A u \in 0 .. Units - 1 : cacheMax = 0 /\ kept' =>
         (truth'[u] # Unset => truth'[u] = Unit(u)' /\ u < Sectors * length)
  BY <1>2
<1> QED BY <1>1, <1>3 DEF TruthInv

\* The second half of a write.  A cache that has records has records
\* afterwards, and only a write ends.
LEMMA EndWriteStep ==
    ASSUME IInv, cacheMax' = cacheMax, NEW t \in Thread, EndWrite(t)
    PROVE  /\ IInv'
           /\ \A h \in Handle : file[h].cache # <<>> => file'[h].cache # <<>>
           /\ \A u \in Thread : call'[u] # call[u] => call[u].op = "write"
<1> USE DEF IInv
<1> DEFINE c == call[t]
           h == c.handle
           f == file[h]
           n == f.write
           o == c.offset
           z == c.size
           p == past[h]
           at == WriteCluster(f)
           data == [i \in 1 .. z |-> Data(c.number, o + i - 1)]
           v == Written(View(h), at, f.offset, data)
           regular == /\ c.alone /\ c.within /\ Served(p.write, o, z)
                      /\ (o % Sectors) + z <= Sectors
           g == [f EXCEPT !.cache = v.cache, !.write = IF n = 0 THEN at ELSE n]
           e == [p EXCEPT !.write = IF regular THEN Ended(p.write, o, z) ELSE Lost]
<1>1. /\ status = "up" /\ c.op = "write"
      /\ IF at = EOC THEN GoAstray
         ELSE /\ disk' = v.disk
              /\ file' = [file EXCEPT ![h].cache = v.cache,
                                      ![h].write = IF @ = 0 THEN at ELSE @]
              /\ call' = [call EXCEPT ![t] = Idle]
              /\ truth' = [u \in DOMAIN truth |->
                    IF u >= o /\ u < o + z THEN Data(c.number, u) ELSE truth[u]]
              /\ past' = [past EXCEPT ![h].write =
                    IF regular THEN Ended(p.write, o, z) ELSE Lost]
              /\ kept' = (kept /\ regular)
              /\ UNCHANGED <<status, length, calls, got>>
  BY DEF EndWrite
<1>2. /\ c \in CallRecord /\ c # Idle /\ IsOpen(h) /\ IsCall(c, f, length)
  <2>1. c # Idle
    BY <1>1 DEF Idle
  <2> QED BY <2>1 DEF CallInv
<1>3. /\ h \in Handle /\ o \in 0 .. Units /\ z \in 1 .. Units /\ c.number \in 0 .. MaxCalls[cacheMax]
      /\ o + z <= Units /\ length > 0 /\ z <= Sectors
      /\ c.alone \in BOOLEAN /\ c.within \in BOOLEAN
      /\ c.alone => f.number = Ceil(o) /\ f.offset = o % Sectors
  BY <1>1, <1>2 DEF CallRecord, IsCall
<1>4. IsFile(f, length, Sizes) /\ f \in FatFile
  BY <1>2, <1>3, FileIn
<1>5. /\ n \in Nat /\ n <= length /\ f.number \in Nat /\ f.offset \in 0 .. Sectors - 1
      /\ Units \in Nat /\ Sectors \in Nat \ {0} /\ length \in Nat /\ length <= Clusters
  <2>1. Units \in Nat /\ Sectors \in Nat \ {0} /\ Clusters \in Nat \ {0}
    BY FileAssumption DEF Units
  <2>2. length \in Nat /\ length <= Clusters
    BY <2>1 DEF VolumeInv
  <2> HIDE DEF f
  <2>3. f.write \in Nat /\ f.write <= length /\ f.number \in Nat /\ f.offset \in 0 .. Sectors - 1
    BY <1>4, <2>1, <2>2 DEF FatFile, IsFile
  <2> QED BY <2>1, <2>2, <2>3
<1>6. at = Begins(n, f.number)
  BY DEF WriteCluster, Begins
<1>7. CASE at = EOC
  <2>1. /\ status' = "astray"
        /\ UNCHANGED <<disk, length, file, call, calls, history>>
    BY <1>1, <1>7 DEF GoAstray
  <2>2. IInv'
    BY <2>1, StatusStep
  <2> QED BY <2>1, <2>2
<1>8. CASE at # EOC
  <2>1. at \in 1 .. length /\ at \in 1 .. Clusters /\ at \in Nat
    <3> DEFINE x == f.number
    <3> HIDE DEF at, n, x
    <3>1. n \in Nat /\ n <= length /\ x \in Nat /\ at = Begins(n, x) /\ length > 0
      BY <1>3, <1>5, <1>6 DEF x
    <3>2. at \in Nat /\ at >= 1 /\ at <= length
      BY <1>8, <3>1, BeginsType
    <3> QED BY <1>5, <3>2, FileAssumption
  <2>2. c.number \in Nat /\ o \in Nat /\ z \in Nat \ {0} /\ cacheMax \in Nat
    BY <1>3, <1>5, ContentsHave DEF VolumeInv
  <2>3. data \in Seq(Contents) /\ Len(data) = z
    <3>1. \A i \in 1 .. z : Data(c.number, o + i - 1) \in Contents
      <4> HIDE DEF o, z
      <4>1. \A i \in 1 .. z : o + i - 1 \in 0 .. Units - 1
        BY <1>3, <1>5, <2>2
      <4> QED BY <1>3, <4>1, ContentsHave DEF VolumeInv
    <3> HIDE DEF o, z, c
    <3> QED BY <2>2, <3>1
  <2>4. IsView(View(h), Contents) /\ View(h).disk = disk /\ View(h).cache = f.cache
    <3>1. IsView(View(h), Sizes) /\ Sizes = Contents
      BY <1>2, <1>3, ViewRight DEF Sizes
    <3> QED BY <3>1 DEF View
  <2> HIDE DEF data
  <2>5. /\ IsView(v, Contents)
        /\ f.cache # <<>> => v.cache # <<>>
        /\ cacheMax = 0 /\ f.offset + z <= Sectors =>
              v.disk = [disk EXCEPT ![at] = Over(disk[at], f.offset, data)]
    <3> HIDE DEF at, f, z
    <3> QED BY <1>5, <2>1, <2>2, <2>3, <2>4, WrittenRight
  <2>6. /\ disk' = v.disk
        /\ call' = [call EXCEPT ![t] = Idle]
        /\ truth' = [u \in DOMAIN truth |->
              IF u >= o /\ u < o + z THEN Data(c.number, u) ELSE truth[u]]
        /\ kept' = (kept /\ regular)
        /\ UNCHANGED <<status, length, calls, got>>
    BY <1>1, <1>8
  <2>7. file' = [file EXCEPT ![h] = g]
    <3> HIDE DEF v, at
    <3> QED BY <1>1, <1>3, <1>8 DEF FileInv
  <2>8. past' = [past EXCEPT ![h] = e]
    <3> HIDE DEF regular
    <3> QED BY <1>1, <1>3, <1>8 DEF PastInv
  <2>9. /\ Sizes' = Sizes /\ length' \in Nat /\ length <= length' /\ length' \in 0 .. Clusters
        /\ Sizes = Contents
    BY <1>3, <2>6, SameLength DEF Sizes
  <2>10. IsStore(v.disk, Contents) /\ IsCache(v.cache, Contents) /\ v.cache \in Seq(CacheRecord)
    BY <2>5 DEF IsView, IsCache
  <2> DEFINE m == IF n = 0 THEN at ELSE n
  <2>11. m \in 0 .. Clusters /\ m \in Nat /\ m <= length /\ m # 0
    <3> HIDE DEF at, n
    <3> QED BY <1>5, <2>1, FileAssumption
  <2> HIDE DEF v, at, regular
  <2>12. /\ g \in FatFile /\ g.cache = v.cache /\ g.size = f.size
         /\ g.number = f.number /\ g.offset = f.offset
         /\ g.read = f.read /\ g.write = m
    <3> HIDE DEF f, m
    <3>1. g = [f EXCEPT !.cache = v.cache, !.write = m]
      BY DEF m
    <3> QED BY <1>4, <2>10, <2>11, <3>1 DEF FatFile
  <2> HIDE DEF g, f, e, m
  <2>13. IsFile(g, length, Sizes)
    BY <1>4, <2>9, <2>10, <2>11, <2>12 DEF IsFile
  <2>14. VolumeInv'
    BY <1>1, <2>6, <2>9, <2>10, VolumeStep DEF VolumeInv
  <2>15. FileInv'
    <3> HIDE DEF h
    <3>1. IsFile(g, length', Sizes')
      BY <2>6, <2>9, <2>13
    <3> QED BY <1>3, <2>7, <2>9, <3>1, FileStep
  <2>16. g # Closed
    BY <2>12, ClosedApart
  <2>17. CallInv'
    BY <1>3, <2>6, <2>7, <2>9, <2>12, <2>16, CallStep DEF f
  <2>18. regular => IsPast(Ended(p.write, o, z), m)
    <3> SUFFICES ASSUME regular PROVE IsPast(Ended(p.write, o, z), m)
      OBVIOUS
    <3>1. c.alone /\ Served(p.write, o, z) /\ (o % Sectors) + z <= Sectors
      BY DEF regular
    <3>2. IsPast(p.write, n)
      BY <1>2, <1>3 DEF PastInv, f
    <3>3. at = Begins(n, Ceil(o))
      BY <1>3, <1>6, <3>1 DEF at
    <3>4. More((o % Sectors) + z) = 0
      BY <2>2, <3>1, Spanned
    <3> DEFINE x == Ended(p.write, o, z)   b == Begins(n, Ceil(o))
               k == More((o % Sectors) + z)
    <3>5. IsPast(x, (IF n = 0 THEN b ELSE n) + k)
      <4> HIDE DEF n, o, z, p
      <4> QED BY <1>5, <1>8, <2>2, <3>1, <3>2, <3>3, PastNext
    <3> HIDE DEF n, x, b, k
    <3>6. (IF n = 0 THEN b ELSE n) + k = m
      BY <2>11, <3>3, <3>4 DEF m, k, b
    <3> QED BY <3>5, <3>6 DEF x
  <2>19. PastInv'
    <3>1. p \in [read : Int, write : Int] /\ IsPast(p.read, f.read)
      BY <1>2, <1>3 DEF PastInv, f
    <3> DEFINE x == IF regular THEN Ended(p.write, o, z) ELSE Lost
    <3>2. IsPast(x, m)
      BY <2>11, <2>18 DEF IsPast, Lost, None
    <3>3. x \in Int
      BY <3>2 DEF IsPast, Lost, None
    <3> HIDE DEF x, p
    <3>4. e = [p EXCEPT !.write = x]
      BY DEF e, x, p
    <3>5. e \in [read : Int, write : Int] /\ e.read = p.read /\ e.write = x
      BY <3>1, <3>3, <3>4
    <3> QED BY <1>3, <2>7, <2>8, <2>12, <3>1, <3>2, <3>5, PastStep
  <2>20. TruthInv'
    <3>1. kept' => kept /\ regular
      BY <2>6
    <3>2. kept' \in BOOLEAN
      BY <2>6 DEF TruthInv, regular
    <3>3. regular => c.alone /\ Served(p.write, o, z) /\ (o % Sectors) + z <= Sectors
      BY DEF regular
    <3>4. regular => (o \div Sectors) + 1 = at /\ (o % Sectors) + z <= Sectors
      <4> SUFFICES ASSUME regular PROVE (o \div Sectors) + 1 = at
        BY <3>3
      <4>1. IsPast(p.write, n)
        BY <1>2, <1>3 DEF PastInv, f
      <4>2. at = Begins(n, Ceil(o))
        BY <1>3, <1>6, <3>3 DEF at
      <4> HIDE DEF n, o, z, p
      <4> QED BY <1>5, <1>8, <2>2, <3>3, <4>1, <4>2, BeginsServed
    <3>5. cacheMax = 0 /\ kept' =>
             disk' = [disk EXCEPT ![at] = Over(disk[at], o % Sectors, data)]
      BY <1>3, <2>5, <2>6, <3>1, <3>3
    <3> DEFINE k == c.number
    <3>6. /\ k \in Nat
          /\ truth' = [u \in DOMAIN truth |-> IF u >= o /\ u < o + z THEN Data(k, u) ELSE truth[u]]
          /\ cacheMax = 0 /\ kept' =>
               disk' = [disk EXCEPT ![at] =
                          Over(disk[at], o % Sectors, [i \in 1 .. z |-> Data(k, o + i - 1)])]
      BY <2>2, <2>6, <3>5 DEF data
    <3> HIDE DEF regular, at, k, o, z
    <3>7. /\ at \in 1 .. length /\ o \in Nat /\ z \in Nat \ {0} /\ length' = length
          /\ kept' => kept /\ regular
      BY <2>1, <2>2, <2>6
    <3> QED BY <3>2, <3>4, <3>6, <3>7, TruthWritten
  <2>21. ReadsRight'
    BY <2>6, ReadsStep
  <2>22. \A k \in Handle : file[k].cache # <<>> => file'[k].cache # <<>>
    BY <1>3, <2>5, <2>7, <2>12 DEF FileInv, f
  <2>23. \A u \in Thread : call'[u] # call[u] => call[u].op = "write"
    BY <1>1, <2>6 DEF CallInv
  <2> QED BY <2>14, <2>15, <2>17, <2>19, <2>20, <2>21, <2>22, <2>23
<1> QED BY <1>7, <1>8

\* The sectors of cluster q + 1 of the file, if it has one, and of the "more"
\* clusters after it.
IsOfFile(block, q, more, X) ==
    /\ block \in Seq(X) /\ Len(block) = Sectors * (more + 1)
    /\ q < length => \A r \in 1 .. Sectors : block[r] = disk[q + 1][r]
    /\ \A i \in 1 .. more, r \in 1 .. Sectors :
          block[(Sectors * i) + r] = disk[q + 1 + i][r]

\* What a transfer over these sectors returns matches the truth.
LEMMA TruthRead ==
    ASSUME VolumeInv, TruthInv, cacheMax = 0, kept,
           NEW o \in Nat, NEW z \in Nat \ {0}, o + z <= Units,
           NEW more \in Nat, NEW q, q = o \div Sectors, NEW d, d = o % Sectors,
           d + z <= Sectors * (more + 1),
           NEW X, NEW block, IsOfFile(block, q, more, X)
    PROVE  Match(SubSeq(block, d + 1, d + z), [k \in 1 .. z |-> truth[o + k - 1]])
<1> DEFINE data == SubSeq(block, d + 1, d + z)
           wanted == [k \in 1 .. z |-> truth[o + k - 1]]
<1> USE DEF IsOfFile
<1>0. Sectors \in Nat \ {0} /\ Clusters \in Nat \ {0} /\ Units \in Nat /\ length \in Nat
  BY FileAssumption DEF Units, VolumeInv
<1>1. q \in Nat /\ d \in 0 .. Sectors - 1 /\ o = (Sectors * q) + d
  BY Divided
<1>2. /\ Len(data) = z /\ \A k \in 1 .. z : data[k] = block[d + k]
  <2> DEFINE n == Sectors * (more + 1)
  <2>1. n = Len(block) /\ n \in Nat /\ d + z <= n
    OBVIOUS
  <2> HIDE DEF n
  <2>2. d + 1 \in 1 .. n /\ d + z \in Nat /\ (d + z) - (d + 1) + 1 = z
    BY <1>0, <1>1, <2>1
  <2>3. \A k \in 1 .. z : (d + 1) + k - 1 = d + k
    BY <1>0, <1>1
  <2> QED BY <1>0, <1>1, <2>1, <2>2, <2>3
<1>3. Len(wanted) = z
  OBVIOUS
<1>4. ASSUME NEW k \in 1 .. z PROVE wanted[k] \in {Unset, data[k]}
  <2> DEFINE u == o + k - 1
             y == d + k - 1
             i == y \div Sectors
             r == y % Sectors
  <2>1. u \in 0 .. Units - 1 /\ wanted[k] = truth[u]
    BY <1>0
  <2>2. y \in Nat /\ u = (Sectors * q) + y /\ y < d + z /\ d + k = y + 1
    <3> DEFINE a == Sectors * q
    <3>1. a \in Int /\ o = a + d
      BY <1>1, TimesOrder
    <3> HIDE DEF a
    <3>2. y \in Nat /\ u = a + y /\ y < d + z /\ d + k = y + 1
      BY <1>0, <1>1, <3>1
    <3> QED BY <3>2 DEF a
  <2>3. data[k] = block[y + 1]
    BY <1>2, <2>2
  <2> HIDE DEF y, u, data, wanted
  <2>4. i \in Nat /\ r \in 0 .. Sectors - 1 /\ y = (Sectors * i) + r
    BY <2>2, Divided
  <2> HIDE DEF i, r
  <2>5. u = (Sectors * (q + i)) + r
    <3>0. /\ Sectors * (q + i) = (Sectors * q) + (Sectors * i)
          /\ Sectors * q \in Int /\ Sectors * i \in Int
      <4>1. q \in Int /\ i \in Int
        BY <1>1, <2>4
      <4> QED BY <4>1, TimesOrder
    <3> DEFINE a == Sectors * q   b == Sectors * i   e == Sectors * (q + i)
    <3>1. e = a + b /\ a \in Int /\ b \in Int /\ u = a + y /\ y = b + r
      BY <2>2, <2>4, <3>0
    <3> HIDE DEF a, b, e
    <3>2. u = e + r
      BY <1>0, <2>4, <3>1
    <3> QED BY <3>2 DEF e
  <2>6. u \div Sectors = q + i /\ u % Sectors = r
    <3>1. /\ ((Sectors * (q + i)) + r) \div Sectors = q + i
          /\ ((Sectors * (q + i)) + r) % Sectors = r
      BY <1>1, <2>4, DividedOnce
    <3> QED BY <2>5, <3>1
  <2>7. truth[u] # Unset => truth[u] = disk[q + i + 1][r + 1] /\ u < Sectors * length
    BY <2>1, <2>6 DEF TruthInv, Unit
  <2>8. SUFFICES ASSUME truth[u] # Unset PROVE disk[q + i + 1][r + 1] = block[y + 1]
    BY <2>1, <2>3, <2>7
  <2>9. q + i < length
    <3> DEFINE e == Sectors * (q + i)   m == Sectors * length
    <3>0. e \in Int /\ m \in Int
      BY <1>0, <1>1, <2>4, TimesOrder
    <3>1. e \in Int /\ m \in Int /\ u < m /\ u = e + r
      BY <2>5, <2>7, <2>8, <3>0
    <3>2. q + i < length <=> e < m
      BY <1>0, <1>1, <2>4, TimesOrder
    <3> HIDE DEF e, m
    <3>3. e < m
      BY <1>0, <2>4, <3>1
    <3> QED BY <3>2, <3>3
  <2>10. CASE i = 0
    <3>1. y = r /\ q + i + 1 = q + 1 /\ q < length /\ r + 1 \in 1 .. Sectors
      BY <1>0, <1>1, <2>4, <2>9, <2>10
    <3> QED BY <3>1
  <2>11. CASE i # 0
    <3>1. i < more + 1
      <4> DEFINE b == Sectors * i   m == Sectors * (more + 1)
      <4>1. /\ b \in Int /\ m \in Int /\ y = b + r /\ d + z <= m
            /\ i < more + 1 <=> b < m
        BY <1>0, <2>4, TimesOrder
      <4> HIDE DEF b, m
      <4>2. b < m
        BY <1>0, <1>1, <2>2, <2>4, <4>1
      <4> QED BY <4>1, <4>2
    <3>2. i \in 1 .. more /\ r + 1 \in 1 .. Sectors
      BY <1>0, <2>4, <2>11, <3>1
    <3>3. block[(Sectors * i) + (r + 1)] = disk[q + 1 + i][r + 1]
      BY <3>2
    <3>4. (Sectors * i) + (r + 1) = y + 1 /\ q + 1 + i = q + i + 1
      <4> DEFINE b == Sectors * i
      <4>1. b \in Int /\ y = b + r
        BY <1>0, <2>4, TimesOrder
      <4> HIDE DEF b
      <4>2. b + (r + 1) = y + 1 /\ q + 1 + i = q + i + 1
        BY <1>0, <1>1, <2>4, <4>1
      <4> QED BY <4>2 DEF b
    <3> QED BY <3>3, <3>4
  <2> QED BY <2>10, <2>11
<1> HIDE DEF data, wanted
<1>5. Match(data, wanted)
  BY <1>2, <1>3, <1>4 DEF Match
<1> QED BY <1>5 DEF data, wanted

\* The second half of a read.  Only its own FatFile and its own call change,
\* and nothing in what the FatFile sees.
LEMMA EndReadStep ==
    ASSUME IInv, cacheMax' = cacheMax, NEW t \in Thread, EndRead(t)
    PROVE  /\ IInv'
           /\ \A h \in Handle : h # call[t].handle => file'[h] = file[h]
           /\ \A u \in Thread : call'[u] # call[u] => u = t
           /\ call[t].handle \in Handle /\ IsOpen(call[t].handle)
           /\ \A h \in Handle : h = call[t].handle => SameSeen(View(h), View(h)')
<1> USE DEF IInv
<1> DEFINE c == call[t]
           h == c.handle
           f == file[h]
           n == f.read
           o == c.offset
           z == c.size
           p == past[h]
           at == ReadCluster(f)
           memory == IF n = 0 THEN at ELSE n
           more == More(f.offset + z)
           first == IF at = EOC THEN [view |-> View(h), block |-> JunkBlock]
                    ELSE GetBlock(View(h), at)
           all == ReadOn(first, memory, more)
           regular == c.alone /\ Served(p.read, o, z)
           g == [f EXCEPT !.cache = all.view.cache, !.read = memory + more]
           e == [p EXCEPT !.read = IF regular THEN Ended(p.read, o, z) ELSE Lost]
<1>1. status = "up" /\ c.op = "read"
  BY DEF EndRead
<1>2. /\ c \in CallRecord /\ c # Idle /\ IsOpen(h) /\ IsCall(c, f, length)
  <2>1. c # Idle
    BY <1>1 DEF Idle
  <2> QED BY <2>1 DEF CallInv
<1>3. /\ h \in Handle /\ o \in 0 .. Units /\ z \in 1 .. Units
      /\ o + z <= Units /\ c.alone \in BOOLEAN
      /\ c.alone => f.number = Ceil(o) /\ f.offset = o % Sectors
  BY <1>2 DEF CallRecord, IsCall
<1>4. IsFile(f, length, Sizes) /\ f \in FatFile
  BY <1>2, <1>3, FileIn
<1>5. /\ n \in Nat /\ n <= length /\ f.number \in Nat /\ f.offset \in 0 .. Sectors - 1
      /\ Units \in Nat /\ Sectors \in Nat \ {0} /\ length \in Nat /\ length <= Clusters
      /\ Clusters \in Nat
  <2>1. Units \in Nat /\ Sectors \in Nat \ {0} /\ Clusters \in Nat \ {0}
    BY FileAssumption DEF Units
  <2>2. length \in Nat /\ length <= Clusters
    BY <2>1 DEF VolumeInv
  <2> HIDE DEF f
  <2>3. f.read \in Nat /\ f.read <= length /\ f.number \in Nat /\ f.offset \in 0 .. Sectors - 1
    BY <1>4, <2>1, <2>2 DEF FatFile, IsFile
  <2> QED BY <2>1, <2>2, <2>3
<1>6. at = Begins(n, f.number)
  BY DEF ReadCluster, Begins
<1>7. o \in Nat /\ z \in Nat \ {0}
  BY <1>3, <1>5
<1>8. more \in Nat
  <2> DEFINE x == f.offset + z
  <2>1. x \in Nat /\ Sectors \in Nat
    <3> DEFINE d == f.offset
    <3> HIDE DEF d, z
    <3>1. d \in Nat
      BY <1>5 DEF d
    <3> QED BY <1>5, <1>7, <3>1 DEF d
  <2> HIDE DEF x
  <2>2. x > Sectors => x - Sectors \in Nat
    BY <2>1
  <2>3. More(x) \in Nat
    <3>1. CASE x > Sectors
      <4> DEFINE y == x - Sectors
      <4>1. y \in Nat
        BY <2>2, <3>1
      <4> HIDE DEF y
      <4>2. Ceil(y) \in Nat
        BY <4>1, CeilType
      <4> QED BY <3>1, <4>2 DEF More, y
    <3>2. CASE ~(x > Sectors)
      BY <3>2 DEF More
    <3> QED BY <3>1, <3>2
  <2> QED BY <2>3 DEF x
<1>9. at \in Nat /\ at >= 1 /\ (at # EOC /\ length > 0 => at <= length) /\ EOC > length
      /\ (n > 0 => at = IF n < length THEN n + 1 ELSE EOC)
  <2> DEFINE x == f.number
  <2> HIDE DEF at, n, x
  <2>1. n \in Nat /\ n <= length /\ x \in Nat /\ at = Begins(n, x)
    BY <1>3, <1>5, <1>6 DEF x
  <2> QED BY <2>1, BeginsType
<1>10. /\ IF memory + more > length THEN GoAstray
         ELSE /\ disk' = all.view.disk
              /\ file' = [file EXCEPT ![h].cache = all.view.cache, ![h].read = memory + more]
              /\ call' = [call EXCEPT ![t] = Idle]
              /\ past' = [past EXCEPT ![h].read =
                    IF regular THEN Ended(p.read, o, z) ELSE Lost]
              /\ got' = [regular |-> regular,
                         data |-> SubSeq(all.block, f.offset + 1, f.offset + z),
                         wanted |-> [k \in 1 .. z |-> truth[o + k - 1]]]
              /\ UNCHANGED <<status, length, calls, truth, kept>>
  <2>1. more = IF f.offset + z > Sectors THEN Ceil(f.offset + z - Sectors) ELSE 0
    <3> DEFINE d == f.offset
    <3> HIDE DEF d, z
    <3>1. d \in Int /\ z \in Int /\ Sectors \in Int
      BY <1>5, <1>7 DEF d
    <3>2. (d + z) - Sectors = d + z - Sectors
      BY <3>1
    <3>3. More(d + z) = IF d + z > Sectors THEN Ceil(d + z - Sectors) ELSE 0
      BY <3>2 DEF More
    <3> QED BY <3>3 DEF d
  <2> HIDE DEF more
  <2> QED BY <2>1 DEF EndRead
<1>11. CASE memory + more > length
  <2>1. /\ status' = "astray"
        /\ UNCHANGED <<disk, length, file, call, calls, history>>
    <3> HIDE DEF memory, more, all, regular
    <3> QED BY <1>10, <1>11 DEF GoAstray
  <2>2. IInv'
    BY <2>1, StatusStep
  <2> QED BY <1>2, <1>3, <2>1, <2>2 DEF SameSeen, Seen, View
<1>12. CASE ~(memory + more > length)
  <2>1. /\ disk' = all.view.disk
        /\ file' = [file EXCEPT ![h].cache = all.view.cache, ![h].read = memory + more]
        /\ call' = [call EXCEPT ![t] = Idle]
        /\ past' = [past EXCEPT ![h].read =
              IF regular THEN Ended(p.read, o, z) ELSE Lost]
        /\ got' = [regular |-> regular,
                   data |-> SubSeq(all.block, f.offset + 1, f.offset + z),
                   wanted |-> [k \in 1 .. z |-> truth[o + k - 1]]]
        /\ UNCHANGED <<status, length, calls, truth, kept>>
    <3> HIDE DEF memory, more, all, regular
    <3> QED BY <1>10, <1>12
  <2>2. /\ memory \in Nat /\ memory >= 1 /\ memory + more <= length /\ length > 0
        /\ memory + more \in 1 .. Clusters
        /\ at # EOC => at \in 1 .. Clusters
        /\ n = 0 => at # EOC
        /\ at = EOC => n > 0 /\ n = length
    <3> HIDE DEF at, n, more
    <3> QED BY <1>5, <1>8, <1>9, <1>12
  <2>3. Sizes = Contents /\ cacheMax \in Nat
    BY <2>2, ContentsHave DEF Sizes, VolumeInv
  <2>4. IsView(View(h), Contents) /\ View(h).disk = disk /\ View(h).cache = f.cache
    <3>1. IsView(View(h), Sizes)
      BY <1>2, <1>3, ViewRight
    <3> QED BY <2>3, <3>1 DEF View
  <2>5. IsView(first.view, Contents) /\ SameSeen(View(h), first.view)
    <3>1. CASE at = EOC
      BY <2>4, <3>1 DEF SameSeen
    <3>2. CASE at # EOC
      <4>1. at \in Cluster
        BY <2>2, <3>2 DEF Cluster
      <4> HIDE DEF at
      <4>2. first = GetBlock(View(h), at)
        BY <3>2
      <4> QED BY <2>3, <2>4, <4>1, <4>2, GotBlock
    <3> QED BY <3>1, <3>2
  <2>6. IsView(all.view, Contents) /\ SameSeen(first.view, all.view)
    <3> HIDE DEF first, memory, more
    <3> QED BY <1>5, <1>8, <2>2, <2>3, <2>5, ReadOnRight
  <2>7. SameSeen(View(h), all.view)
    BY <2>5, <2>6 DEF SameSeen
  <2>8. IsStore(all.view.disk, Contents) /\ IsCache(all.view.cache, Contents)
        /\ all.view.cache \in Seq(CacheRecord)
        /\ all.view = [disk |-> all.view.disk, cache |-> all.view.cache]
    BY <2>6 DEF IsView, IsCache
  <2>9. file' = [file EXCEPT ![h] = g]
    <3> HIDE DEF all, memory, more
    <3> QED BY <1>3, <2>1 DEF FileInv
  <2>10. past' = [past EXCEPT ![h] = e]
    <3> HIDE DEF regular
    <3> QED BY <1>3, <2>1 DEF PastInv
  <2>11. /\ Sizes' = Sizes /\ length' \in Nat /\ length <= length' /\ length' \in 0 .. Clusters
    BY <2>1, SameLength
  <2> DEFINE m == memory + more
             q == all.view.cache
  <2>12. m \in 1 .. Clusters /\ m \in Nat /\ m <= length /\ m # 0
    <3> HIDE DEF memory, more
    <3> QED BY <1>5, <1>8, <2>2
  <2>13. /\ g \in FatFile /\ g.cache = q /\ g.size = f.size
         /\ g.number = f.number /\ g.offset = f.offset
         /\ g.read = m /\ g.write = f.write
    <3> HIDE DEF m, q
    <3>1. q \in Seq(CacheRecord)
      BY <2>8 DEF q
    <3>2. g = [f EXCEPT !.cache = q, !.read = m]
      BY DEF m, q
    <3>3. m \in 0 .. Clusters
      BY <1>5, <2>12
    <3> HIDE DEF f
    <3> QED BY <1>4, <3>1, <3>2, <3>3 DEF FatFile
  <2> HIDE DEF g
  <2>14. IsFile(g, length, Sizes)
    <3> HIDE DEF q, m, f
    <3> QED BY <1>4, <2>3, <2>8, <2>12, <2>13 DEF IsFile, q
  <2> HIDE DEF e, m, q
  <2>15. VolumeInv'
    <3>1. calls' \in 0 .. MaxCalls[cacheMax] /\ status' \in {"up", "astray"}
      BY <1>1, <2>1 DEF VolumeInv
    <3>2. IsStore(disk', Sizes')
      BY <2>1, <2>3, <2>8, <2>11
    <3> QED BY <2>11, <3>1, <3>2, VolumeStep
  <2>16. FileInv'
    <3> HIDE DEF h
    <3>1. IsFile(g, length', Sizes')
      BY <2>1, <2>11, <2>14
    <3> QED BY <1>3, <2>9, <2>11, <3>1, FileStep
  <2>17. g # Closed
    BY <2>13, ClosedApart
  <2>18. CallInv'
    <3> HIDE DEF h
    <3> QED BY <1>3, <2>1, <2>9, <2>11, <2>13, <2>17, CallStep DEF f
  <2>19. PastInv'
    <3>1. p \in [read : Int, write : Int] /\ IsPast(p.write, f.write)
      BY <1>2, <1>3 DEF PastInv, f
    <3> DEFINE x == IF regular THEN Ended(p.read, o, z) ELSE Lost
    <3>2. regular => IsPast(Ended(p.read, o, z), m)
      <4> SUFFICES ASSUME regular PROVE IsPast(Ended(p.read, o, z), m)
        OBVIOUS
      <4>1. c.alone /\ Served(p.read, o, z)
        OBVIOUS
      <4>2. IsPast(p.read, n)
        BY <1>2, <1>3 DEF PastInv, f
      <4>3. at = Begins(n, Ceil(o)) /\ more = More((o % Sectors) + z)
        BY <1>3, <1>6, <4>1
      <4> DEFINE k == More((o % Sectors) + z)   b == Begins(n, Ceil(o))
                 y == Ended(p.read, o, z)
      <4>4. IsPast(y, (IF n = 0 THEN b ELSE n) + k)
        <5>1. n = 0 => b # EOC
          BY <2>2, <4>3
        <5> HIDE DEF n, o, z, p
        <5> QED BY <1>5, <1>7, <4>1, <4>2, <5>1, PastNext
      <4>5. (IF n = 0 THEN b ELSE n) + k = m
        BY <4>3 DEF m
      <4> QED BY <4>4, <4>5
    <3> HIDE DEF regular
    <3>3. IsPast(x, m)
      BY <2>12, <3>2 DEF IsPast, Lost, None
    <3>4. x \in Int
      BY <3>3 DEF IsPast, Lost, None
    <3> HIDE DEF x, p
    <3>5. e = [p EXCEPT !.read = x]
      BY DEF e, x, p
    <3>6. e \in [read : Int, write : Int] /\ e.write = p.write /\ e.read = x
      BY <3>1, <3>4, <3>5
    <3> QED BY <1>3, <2>9, <2>10, <2>13, <3>1, <3>3, <3>6, PastStep
  <2>20. ASSUME cacheMax = 0
         PROVE  /\ first.view = View(h) /\ all.view = View(h)
                /\ first.block \in Seq(Contents \cup {Junk}) /\ Len(first.block) = Sectors
                /\ at # EOC => first.block = disk[at]
                /\ all.block \in Seq(Contents \cup {Junk})
                /\ Len(all.block) = Sectors * (more + 1)
                /\ \A j \in 1 .. Sectors : all.block[j] = first.block[j]
                /\ \A i \in 1 .. more, r \in 1 .. Sectors :
                      all.block[(Sectors * i) + r] = disk[memory + i][r]
    <3> DEFINE X == Contents \cup {Junk}
    <3>1. /\ first.view = View(h)
          /\ first.block \in Seq(X) /\ Len(first.block) = Sectors
          /\ at # EOC => first.block = disk[at]
      <4>1. CASE at = EOC
        <5>1. first.view = View(h) /\ first.block = JunkBlock
          BY <4>1
        <5>2. JunkBlock \in Seq(X) /\ Len(JunkBlock) = Sectors
          BY <1>5 DEF JunkBlock
        <5> QED BY <4>1, <5>1, <5>2
      <4>2. CASE at # EOC
        <5>1. at \in Cluster
          BY <2>2, <4>2 DEF Cluster
        <5> HIDE DEF at
        <5>2. first = GetBlock(View(h), at) /\ ~Cached(at)
          BY <2>20, <4>2 DEF Cached
        <5>3. first = [view |-> View(h), block |-> disk[at]]
          BY <2>3, <2>4, <5>1, <5>2, GotBlock
        <5>4. disk[at] \in [1 .. Sectors -> Contents]
          BY <5>1 DEF VolumeInv, IsStore
        <5>5. disk[at] \in Seq(X) /\ Len(disk[at]) = Sectors
          BY <1>5, <5>4
        <5> HIDE DEF first, X
        <5> QED BY <5>3, <5>5
      <4> QED BY <4>1, <4>2
    <3>2. View(h).disk \in [Cluster -> [1 .. Sectors -> X]]
      BY <2>4 DEF IsView, IsStore
    <3> DEFINE v == View(h)   d == v.disk
    <3>3. /\ all.view = v
          /\ all.block \in Seq(X)
          /\ Len(all.block) = Sectors * (more + 1)
          /\ \A j \in 1 .. Sectors : all.block[j] = first.block[j]
          /\ \A i \in 1 .. more, r \in 1 .. Sectors :
                all.block[(Sectors * i) + r] = v.disk[memory + i][r]
      <4>1. memory + more <= Clusters
        BY <2>12 DEF m
      <4> HIDE DEF first, memory, more, v, X
      <4>2. first.view = v /\ v.disk \in [Cluster -> [1 .. Sectors -> X]]
        BY <3>1, <3>2 DEF v
      <4>3. /\ memory \in Nat /\ more \in Nat /\ cacheMax = 0
            /\ first.block \in Seq(X) /\ Len(first.block) = Sectors
        BY <1>8, <2>2, <2>20, <3>1
      <4>4. CanRead(v, first, X, memory, more)
        BY <4>1, <4>2, <4>3 DEF CanRead
      <4>5. HasRead(v, first, X, memory, more, ReadOn(first, memory, more))
        BY <4>3, <4>4, ReadOnUncached
      <4> QED BY <4>5 DEF HasRead
    <3> HIDE DEF first, all, memory, more, at
    <3> QED BY <2>4, <3>1, <3>3 DEF v, X
  <2>21. TruthInv'
    <3>1. cacheMax = 0 => disk' = disk
      BY <2>1, <2>4, <2>20
    <3> QED BY <2>1, <2>11, <3>1, TruthStep
  <2>22. ReadsRight'
    <3> SUFFICES ASSUME cacheMax = 0, kept, regular
                 PROVE  Match(SubSeq(all.block, f.offset + 1, f.offset + z),
                              [k \in 1 .. z |-> truth[o + k - 1]])
      <4> HIDE DEF regular, all
      <4> QED BY <2>1 DEF ReadsRight, Match
    <3> DEFINE a == o \div Sectors   d == o % Sectors
               X == Contents \cup {Junk}
    <3>1. c.alone /\ Served(p.read, o, z) /\ f.offset = d
      BY <1>3
    <3>2. IsPast(p.read, n)
      BY <1>2, <1>3 DEF PastInv, f
    <3>3. at = Begins(n, Ceil(o)) /\ more = More(d + z)
      BY <1>3, <1>6, <3>1
    <3>4. /\ at = a + 1 \/ at = EOC
          /\ p.read # None => n = p.read + 1 /\ p.read \in Nat /\ a = n /\ d + z <= Sectors
          /\ p.read = None => n = 0
      <4> HIDE DEF n, o, z, p
      <4> QED BY <1>5, <1>7, <3>1, <3>2, <3>3, BeginsServed
    <3>5. /\ d + z <= Sectors * (more + 1)
          /\ d + z <= Sectors => more = 0
      <4> HIDE DEF o, z
      <4> QED BY <1>7, <3>3, Spanned
    <3>6. a \in Nat
      BY <1>7, Divided
    <3> HIDE DEF a, d
    <3>7. n # 0 => more = 0 /\ a = n
      BY <3>4, <3>5
    <3>8. more > 0 => memory = a + 1
      <4> HIDE DEF more, at, n
      <4> QED BY <1>8, <2>2, <3>4, <3>7
    <3>9. a < length => at = a + 1
      <4> HIDE DEF more, at, n
      <4> QED BY <1>5, <2>2, <3>4, <3>6, <3>7
    <3>10. a < length => \A r \in 1 .. Sectors : all.block[r] = disk[a + 1][r]
      <4>1. at # EOC => \A r \in 1 .. Sectors : all.block[r] = disk[at][r]
        <5> HIDE DEF all, first, at
        <5> QED BY <2>20
      <4>2. a < length => at = a + 1 /\ at # EOC
        <5> HIDE DEF at
        <5> QED BY <1>5, <1>9, <3>6, <3>9 DEF EOC
      <4> HIDE DEF all, at
      <4> QED BY <4>1, <4>2
    <3>11. \A i \in 1 .. more, r \in 1 .. Sectors :
              all.block[(Sectors * i) + r] = disk[a + 1 + i][r]
      <4> HIDE DEF all, memory, more
      <4> QED BY <1>8, <2>20, <3>8
    <3>12. all.block \in Seq(X) /\ Len(all.block) = Sectors * (more + 1)
      <4> HIDE DEF all, more
      <4> QED BY <2>20
    <3> DEFINE block == all.block
    <3> HIDE DEF all, more, X, o, z
    <3>13. IsOfFile(block, a, more, X)
      BY <3>10, <3>11, <3>12 DEF IsOfFile
    <3> HIDE DEF block
    <3>14. a = o \div Sectors /\ d = o % Sectors
      BY DEF a, d
    <3>15. Match(SubSeq(block, d + 1, d + z), [k \in 1 .. z |-> truth[o + k - 1]])
      <4>1. /\ o \in Nat /\ z \in Nat \ {0} /\ o + z <= Units /\ more \in Nat
            /\ d + z <= Sectors * (more + 1)
        BY <1>3, <1>7, <1>8, <3>5
      <4> QED BY <3>13, <3>14, <4>1, TruthRead
    <3> QED BY <3>1, <3>15 DEF block
  <2>23. \A k \in Handle : k # h => file'[k] = file[k]
    BY <1>3, <2>9 DEF FileInv
  <2>24. \A u \in Thread : call'[u] # call[u] => u = t
    BY <2>1 DEF CallInv
  <2>25. ASSUME NEW k \in Handle, k = h PROVE SameSeen(View(k), View(k)')
    <3>1. View(k)' = all.view
      <4> HIDE DEF all, h
      <4>1. file'[k].cache = all.view.cache
        BY <1>3, <2>9, <2>13, <2>25 DEF FileInv, q
      <4> QED BY <2>1, <2>8, <4>1 DEF View
    <3> HIDE DEF all, h
    <3>2. View(k) = View(h)
      BY <2>25
    <3> QED BY <2>7, <3>1, <3>2
  <2> HIDE DEF all, memory, more, first, at, regular
  <2> QED BY <1>2, <1>3, <2>15, <2>16, <2>18, <2>19, <2>21, <2>22, <2>23, <2>24, <2>25
<1> QED BY <1>11, <1>12
-----------------------------------------------------------------------------
(* The theorems.                                                           *)

\* Every step keeps the invariant.
LEMMA InvStep == IInv /\ [Next]_vars => IInv'
<1> SUFFICES ASSUME IInv, [Next]_vars PROVE IInv'
  OBVIOUS
<1>1. CASE Next
  <2>1. cacheMax' = cacheMax /\ Step
    BY <1>1 DEF Next
  <2>2. CASE \E h \in Handle : Open(h) \/ Flush(h) \/ Release(h)
    BY <2>1, <2>2, OpenStep, FlushStep, ReleaseStep
  <2>3. CASE \E t \in Thread, h \in Handle :
                \/ \E r \in Reads : BeginRead(t, h, r[1], r[2])
                \/ \E r \in Writes : BeginWrite(t, h, r[1], r[2])
    BY <2>1, <2>3, BeginReadStep, BeginWriteStep
  <2>4. CASE \E t \in Thread : EndRead(t) \/ EndWrite(t)
    BY <2>1, <2>4, EndReadStep, EndWriteStep
  <2> QED BY <2>1, <2>2, <2>3, <2>4 DEF Step
<1>2. CASE UNCHANGED vars
  <2>1. cacheMax' = cacheMax /\ status' \in {"up", "astray"}
        /\ UNCHANGED <<disk, length, file, call, calls, history>>
    BY <1>2 DEF vars, IInv, VolumeInv
  <2> QED BY <2>1, StatusStep
<1> QED BY <1>1, <1>2

\* The inductive invariant holds of every reachable state.
THEOREM Invariant == Spec => []IInv
BY InitInv, InvStep, PTL DEF Spec

\* Every variable keeps to its type, for every volume, cache and program of
\* calls: what is remembered of a file is a cluster of it, a cache never
\* exceeds what the configuration allows, and a call is on an open file.
THEOREM Typed == Spec => []TypeOK
<1>1. IInv => TypeOK
  <2> SUFFICES ASSUME IInv PROVE TypeOK
    OBVIOUS
  <2> USE DEF IInv
  <2>1. /\ status \in {"up", "astray"} /\ length \in 0 .. Clusters
        /\ calls \in 0 .. MaxCalls[cacheMax] /\ cacheMax \in CacheSizes
        /\ disk \in [(1 .. Clusters) \cup {Dir} -> [1 .. Sectors -> Contents]]
    BY DEF VolumeInv, IsStore, Cluster
  <2>2. ASSUME NEW h \in Handle, IsOpen(h)
        PROVE  /\ file[h].size \in 0 .. Units
               /\ file[h].number \in 0 .. Clusters /\ file[h].offset \in 0 .. Sectors - 1
               /\ file[h].read \in 0 .. length /\ file[h].write \in 0 .. length
               /\ Len(file[h].cache) <= cacheMax
               /\ \A k \in 1 .. Len(file[h].cache) : file[h].cache[k] \in CacheRecord
    <3> DEFINE f == file[h]
    <3>1. IsFile(f, length, Sizes) /\ f \in FatFile
      BY <2>2, FileIn
    <3> HIDE DEF f
    <3>2. f.size \in 0 .. Units /\ f.number \in 0 .. Clusters /\ f.offset \in 0 .. Sectors - 1
          /\ f.read \in 0 .. Clusters /\ f.write \in 0 .. Clusters
      BY <3>1 DEF FatFile
    <3>3. f.read \in 0 .. length /\ f.write \in 0 .. length
      BY <2>1, <3>1, <3>2, FileAssumption DEF IsFile
    <3>4. Len(f.cache) <= cacheMax /\ f.cache \in Seq(CacheRecord)
      BY <3>1 DEF IsFile, IsCache
    <3>5. \A k \in 1 .. Len(f.cache) : f.cache[k] \in CacheRecord
      BY <3>4
    <3> QED BY <3>2, <3>3, <3>4, <3>5 DEF f
  <2>3. \A t \in Thread : call[t] # Idle => call[t].handle \in Handle /\ IsOpen(call[t].handle)
    BY DEF CallInv, IsCall, CallRecord
  <2> QED BY <2>1, <2>2, <2>3 DEF TypeOK
<1> QED BY <1>1, Invariant, PTL

\* Without a cache, a file into which only writes went that the code serves
\* holds, in every unit, what was last written there.
THEOREM Holds == Spec => []FileHolds
<1>1. IInv => FileHolds
  BY DEF IInv, TruthInv, FileHolds, FileIsWritten
<1> QED BY <1>1, Invariant, PTL

\* Without a cache, a read that the code serves, of such a file, returns what
\* was last written.
THEOREM ReadsAreRight == Spec => []ReadsRight
<1>1. IInv => ReadsRight
  BY DEF IInv
<1> QED BY <1>1, Invariant, PTL

\* The beginning of a call ends none.
LEMMA BeginEndsNone ==
    ASSUME CallInv, NEW t \in Thread, NEW c, Begin(t, c), call[t] = Idle,
           NEW u \in Thread, call[u] # Idle
    PROVE  call'[u] # Idle
<1>1. call'[u] = call[u] \/ call'[u] = [call[u] EXCEPT !.alone = FALSE]
  BY DEF Begin
<1>2. call[u] \in CallRecord
  BY DEF CallInv
<1> DEFINE d == call[u]
<1> HIDE DEF d
<1>3. [d EXCEPT !.alone = FALSE] \in CallRecord
  BY <1>2 DEF CallRecord, d
<1> QED BY <1>1, <1>2, <1>3, IdleApart DEF d

\* A step that ends a read or empties a cache changes nothing of what the
\* FatFile sees.
LEMMA TransparentStep ==
    ASSUME IInv, Next, NEW h \in Handle, IsOpen(h), Serving(h)
    PROVE  \A c \in (1 .. Clusters) \cup {Dir}, s \in 1 .. Sectors :
              Seen(View(h)', c, s) = Seen(View(h), c, s)
<1> USE DEF IInv
<1>1. cacheMax' = cacheMax /\ Step
  BY DEF Next
<1>2. \/ \E t \in Thread : call[t] # Idle /\ call[t].handle = h /\ call[t].op = "read"
                           /\ call'[t] = Idle
      \/ file[h].cache # <<>> /\ file'[h] # Closed /\ file'[h].cache = <<>>
  BY DEF Serving, CallsOn
<1>3. SUFFICES SameSeen(View(h), View(h)')
  BY DEF SameSeen, Cluster
<1>4. ASSUME NEW k \in Handle, Open(k) PROVE FALSE
  <2>1. call' = call /\ file'[h] = file[h]
    BY <1>4 DEF Open, FileInv
  <2> QED BY <1>2, <2>1
<1>5. ASSUME NEW k \in Handle, Flush(k) PROVE SameSeen(View(h), View(h)')
  <2>1. call' = call /\ (k # h => file'[h] = file[h])
    BY <1>5 DEF Flush, FileInv
  <2>2. k = h
    BY <1>2, <2>1
  <2>3. SameSeen(View(h), Flushed(View(h)))
    BY <1>1, <1>5, <2>2, FlushStep
  <2>4. View(h)' = Flushed(View(h))
    <3> DEFINE v == Flushed(View(h))
    <3>1. v = [disk |-> v.disk, cache |-> v.cache]
      BY DEF Flushed
    <3>2. disk' = v.disk /\ file' = [file EXCEPT ![h].cache = v.cache]
      BY <1>5, <2>2 DEF Flush
    <3> HIDE DEF v
    <3>3. file[h] \in FatFile
      BY FileIn
    <3>4. file'[h].cache = v.cache
      BY <3>2, <3>3 DEF FileInv, FatFile
    <3> QED BY <3>1, <3>2, <3>4 DEF View, v
  <2> QED BY <2>3, <2>4
<1>6. ASSUME NEW k \in Handle, Release(k) PROVE FALSE
  <2>1. call' = call /\ (k # h => file'[h] = file[h]) /\ (k = h => file'[h] = Closed)
    BY <1>6 DEF Release, FileInv
  <2> QED BY <1>2, <2>1
<1>7. ASSUME NEW t \in Thread, NEW k \in Handle, NEW r \in Reads, BeginRead(t, k, r[1], r[2])
      PROVE  FALSE
  <2>1. call[t] = Idle /\ \E c : Begin(t, c)
    BY <1>7 DEF BeginRead
  <2>2. \A u \in Thread : call[u] # Idle => call'[u] # Idle
    BY <2>1, BeginEndsNone
  <2>3. k # h => file'[h] = file[h]
    BY <1>7 DEF BeginRead, FileInv
  <2>4. k = h => file'[h].cache = file[h].cache
    <3>1. file[h] \in FatFile
      BY FileIn
    <3>2. k = h => file'[h] = Seek(file[h], r[1])
      BY <1>7 DEF BeginRead, FileInv
    <3>3. r[1] \in 0 .. Units
      BY FileAssumption
    <3> QED BY <3>1, <3>2, <3>3, SeekType
  <2> QED BY <1>2, <2>2, <2>3, <2>4
<1>8. ASSUME NEW t \in Thread, NEW k \in Handle, NEW r \in Writes, BeginWrite(t, k, r[1], r[2])
      PROVE  FALSE
  <2>1. call[t] = Idle /\ \E c : Begin(t, c)
    BY <1>8 DEF BeginWrite
  <2>2. \A u \in Thread : call[u] # Idle => call'[u] # Idle
    BY <2>1, BeginEndsNone
  <2>3. k # h => file'[h] = file[h]
    BY <1>8 DEF BeginWrite, FileInv
  <2>4. file[k].cache # <<>> => file'[k].cache # <<>>
    BY <1>1, <1>8, BeginWriteStep
  <2> QED BY <1>2, <2>2, <2>3, <2>4
<1>9. ASSUME NEW t \in Thread, EndRead(t) PROVE SameSeen(View(h), View(h)')
  <2>1. /\ \A k \in Handle : k # call[t].handle => file'[k] = file[k]
        /\ \A u \in Thread : call'[u] # call[u] => u = t
        /\ \A k \in Handle : k = call[t].handle => SameSeen(View(k), View(k)')
    BY <1>1, <1>9, EndReadStep
  <2>2. h = call[t].handle
    BY <1>2, <2>1
  <2> QED BY <2>1, <2>2
<1>10. ASSUME NEW t \in Thread, EndWrite(t) PROVE FALSE
  <2>1. /\ \A k \in Handle : file[k].cache # <<>> => file'[k].cache # <<>>
        /\ \A u \in Thread : call'[u] # call[u] => call[u].op = "write"
    BY <1>1, <1>10, EndWriteStep
  <2> QED BY <1>2, <2>1
<1> QED BY <1>1, <1>4, <1>5, <1>6, <1>7, <1>8, <1>9, <1>10 DEF Step

\* Whatever a read brings into a cache and drives out of it, and whatever a
\* flush writes, what the FatFile sees of the volume stays as it was: in every
\* sector of every cluster, for caches of every size.
THEOREM Transparent == Spec => CacheIsTransparent
<1> DEFINE Same == \A h \in Handle : IsOpen(h) /\ Serving(h) =>
                      \A c \in (1 .. Clusters) \cup {Dir}, s \in 1 .. Sectors :
                          Seen(View(h)', c, s) = Seen(View(h), c, s)
<1>1. IInv /\ [Next]_vars => [Same]_vars
  BY TransparentStep
<1>2. CacheIsTransparent <=> [][Same]_vars
  BY DEF CacheIsTransparent
<1> QED BY <1>1, <1>2, Invariant, PTL DEF Spec
=============================================================================
