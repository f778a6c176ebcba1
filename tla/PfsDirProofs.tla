---------------------------- MODULE PfsDirProofs ----------------------------
(***************************************************************************)
(* Invariants of PfsDir for any number of names, files, directories and    *)
(* entries of a block, when every directory is one cluster: what lookups,  *)
(* listings and searches for free entries compute, what each call makes of *)
(* the blocks, and that the tree is the name space of NameSpace.           *)
(***************************************************************************)
EXTENDS PfsDir, SequenceTheorems, WellFoundedInduction, TLAPS

\* Directories of one cluster, bytes on the stack that do not say "long", no
\* move into the root and no crash within a mkdir: what MCPfsDir checks.
OneBlock ==
    /\ \A c \in Cluster : FatNext[c] = None
    /\ Junk = {FALSE}
    /\ Root \notin Into
    /\ "mkdir" \notin CrashIn

\* At most one file without a long entry.  Its short name is nobody's long name,
\* and is what a name is shortened to.
OneShort ==
    Present # <<>> => /\ Len(Present) = 1
                      /\ Shorts \cap Name = {}
                      /\ \A n \in Name : ShortOf[n] \in Shorts

Slot == [ord : {"used", "free", "end"}, long : BOOLEAN,
         name : Used \cup {Dot, DotDot, NoName}, target : Object \cup {Root, None}]

GoodSlot(s) ==
    /\ s \in Slot
    /\ s.ord # "used" => ~s.long /\ s.name = NoName /\ s.target = None
    /\ s.ord = "used" =>
          /\ s.name # NoName
          /\ IF s.long THEN s.name \in Name /\ s.target = None
             ELSE s.target # None /\ (s.name \in Used => s.target \in Object)

EndsLast(b) == \A i \in Position : i + 1 \in Position /\ b[i].ord = "end" => b[i + 1].ord = "end"

InPairs(b) ==
    \A i \in Position : b[i].long =>
        /\ i + 1 \in Position
        /\ b[i + 1].ord = "used" /\ ~b[i + 1].long /\ b[i + 1].name \in Used

GoodBlock(b) ==
    /\ b \in [Position -> Slot]
    /\ \A i \in Position : GoodSlot(b[i])
    /\ EndsLast(b)
    /\ InPairs(b)

Good(blocks) ==
    /\ blocks \in [Cluster -> [Position -> Slot]]
    /\ \A c \in Cluster : GoodBlock(blocks[c])

\* Objects not made yet are nowhere, and the blocks of directories are blank.
Fresh(blocks, u) ==
    /\ \A c \in Cluster, i \in Position : blocks[c][i].target \notin u
    /\ \A x \in u \cap DirObject : blocks[x] = [i \in Position |-> Blank]

\* A directory begins with "." and "..", once it can be found.
Dotted(b) ==
    \A i \in {0, 1} : b[i].ord = "used" /\ ~b[i].long /\ b[i].name \in {Dot, DotDot}

WellMade(blocks) ==
    \A c \in Cluster, i \in Position :
        blocks[c][i].name \in Used /\ blocks[c][i].target \in DirObject
           => Dotted(blocks[blocks[c][i].target])

\* Short entries that stand alone are all of the one file that had one first.
Alone(blocks) ==
    \A d \in Directory : \A i \in Heads(blocks[d]) :
        ~blocks[d][i].long => /\ Present # <<>>
                              /\ blocks[d][i].name = Present[1][1]
                              /\ blocks[d][i].target = Present[1][2]

\* A step of the name space, or none, from one set of entries to another.
FreeIn(E, e) == \A x \in E : x.dir # e.dir \/ x.name # e.name

Stepped(E, F) ==
    \/ E = F
    \/ \E e : e \notin E /\ F = E \cup {e} /\ FreeIn(E, e)
    \/ \E e \in E :
          /\ F = E \ {e}
          /\ \/ e.object \notin Directory
             \/ \A x \in E : x.dir # e.object
             \/ \E other \in F : other.object = e.object
    \/ \E e \in E : \E new :
          /\ new \notin E /\ F = (E \ {e}) \cup {new}
          /\ e.dir = new.dir /\ e.object = new.object
          /\ FreeIn(E, new)

Stage(blocks, u) == Good(blocks) /\ Fresh(blocks, u) /\ (OneShort => Alone(blocks))

PutTo(blocks, p) == [blocks EXCEPT ![p.cluster] = p.slots]

Safe(blocks, p, u) ==
    /\ p.cluster \in Cluster
    /\ Stage(PutTo(blocks, p), u)
    /\ OneShort => Stepped(EntriesIn(blocks), EntriesIn(PutTo(blocks, p)))

\* What is still to be put keeps all this, block by block.
Pending(blocks, puts, u, up, whole) ==
    \/ puts = <<>> /\ (up => WellMade(blocks))
    \/ \E p :
          /\ puts = <<p>> /\ Safe(blocks, p, u)
          /\ up => WellMade(PutTo(blocks, p)) /\ (whole => WellMade(blocks))
    \/ \E p, q :
          /\ puts = <<p, q>> /\ Safe(blocks, p, u) /\ Safe(PutTo(blocks, p), q, u)
          /\ up => /\ WellMade(PutTo(PutTo(blocks, p), q))
                   /\ whole => WellMade(blocks) /\ WellMade(PutTo(blocks, p))

IInv ==
    /\ status \in {"up", "astray"}
    /\ unused \subseteq Object
    /\ op \in {"none", "mknod", "mkdir", "unlink", "rmdir", "rename", "move"}
    /\ Stage(block, unused)
    /\ Pending(block, todo, unused, status = "up", op # "mkdir")

-----------------------------------------------------------------------------
(* Induction, and walks: functions that go on to a later place, or end.    *)

\* Less than, on the naturals, is well founded.
LEMMA LessWellFounded == IsWellFoundedOn({p \in Nat \X Nat : p[1] < p[2]}, Nat)
BY NatLessThanWellFounded DEF OpToRel

\* A set of naturals that has 0, and what follows each of its members up to n.
LEMMA UpTo ==
  ASSUME NEW n \in Nat, NEW S \in SUBSET Nat,
         0 \in S, \A m \in S : m < n => m + 1 \in S
  PROVE  \A m \in 0 .. n : m \in S
<1> DEFINE R == {p \in Nat \X Nat : p[1] < p[2]}
           T == {m \in 0 .. n : m \notin S}
<1>1. SUFFICES ASSUME T # {} PROVE FALSE
  OBVIOUS
<1>2. PICK x \in T : \A y \in T : ~(<<y, x>> \in R)
  <2>1. T \subseteq Nat
    OBVIOUS
  <2> HIDE DEF R, T
  <2>2. IsWellFoundedOn(R, Nat)
    BY LessWellFounded DEF R
  <2> QED BY <1>1, <2>1, <2>2, WFMin
<1>3. x \in Nat /\ x # 0 /\ x <= n
  OBVIOUS
<1>4. x - 1 \in 0 .. n /\ <<x - 1, x>> \in R
  BY <1>3
<1>5. x - 1 \in S
  BY <1>2, <1>4
<1> QED BY <1>3, <1>5

\* A set that has each number up to n whenever it has all that follow it.
LEMMA Backwards ==
  ASSUME NEW n \in Nat, NEW S,
         \A i \in 0 .. n : (\A j \in 0 .. n : j > i => j \in S) => i \in S
  PROVE  \A i \in 0 .. n : i \in S
<1> DEFINE T == {m \in Nat : \A i \in 0 .. n : i > n - m => i \in S}
<1>1. T \in SUBSET Nat /\ 0 \in T
  OBVIOUS
<1>2. ASSUME NEW m \in T PROVE m + 1 \in T
  <2> SUFFICES ASSUME NEW i \in 0 .. n, i > n - (m + 1) PROVE i \in S
    OBVIOUS
  <2>1. m \in Nat /\ \A j \in 0 .. n : j > n - m => j \in S
    OBVIOUS
  <2>2. \A j \in 0 .. n : j > i => j > n - m
    BY <2>1
  <2>3. \A j \in 0 .. n : j > i => j \in S
    BY <2>1, <2>2
  <2> QED BY <2>3
<1>3. \A m \in 0 .. n + 1 : m \in T
  <2> HIDE DEF T
  <2>1. n + 1 \in Nat /\ \A m \in T : m < n + 1 => m + 1 \in T
    BY <1>2
  <2> QED BY <1>1, <2>1, UpTo
<1>4. n + 1 \in T
  BY <1>3
<1> QED BY <1>4

\* From the places of S a walk goes on, to one of a higher rank, from the others
\* it does not.
Climbs(D, N, rank, S, nxt) ==
    /\ N \in Nat /\ rank \in [D -> 0 .. N]
    /\ \A x \in D : x \in S => nxt[x] \in D /\ rank[nxt[x]] > rank[x]

Walks(w, D, S, nxt, out) == w = [x \in D |-> IF x \in S THEN w[nxt[x]] ELSE out[x]]

LEMMA WalkExists ==
  ASSUME NEW D, NEW N, NEW rank, NEW S, NEW nxt, NEW out, Climbs(D, N, rank, S, nxt)
  PROVE  \E w : Walks(w, D, S, nxt, out)
<1> USE DEF Climbs
<1> DEFINE Part(m) == {x \in D : rank[x] > N - m}
           Is(w, m) == w = [x \in Part(m) |-> IF x \in S THEN w[nxt[x]] ELSE out[x]]
           I == {m \in Nat : \E w : Is(w, m)}
<1>1. 0 \in I
  <2>1. Part(0) = {}
    OBVIOUS
  <2>2. Is([x \in Part(0) |-> out[x]], 0)
    BY <2>1
  <2> QED BY <2>2
<1>2. ASSUME NEW m \in I PROVE m + 1 \in I
  <2>1. PICK w : Is(w, m)
    OBVIOUS
  <2> DEFINE v == [x \in Part(m + 1) |->
                     IF x \in Part(m) THEN w[x] ELSE IF x \in S THEN w[nxt[x]] ELSE out[x]]
  <2>2. m \in Nat /\ Part(m) \subseteq Part(m + 1)
    OBVIOUS
  <2>3. ASSUME NEW x \in Part(m + 1), x \in S
        PROVE  nxt[x] \in Part(m)
    <3>1. rank[nxt[x]] \in 0 .. N /\ rank[x] \in 0 .. N
      BY <2>3
    <3>2. rank[x] > N - (m + 1) /\ rank[nxt[x]] > rank[x] /\ nxt[x] \in D
      BY <2>3
    <3> QED BY <2>2, <3>1, <3>2
  <2>4. \A x \in Part(m + 1) : v[x] = IF x \in S THEN v[nxt[x]] ELSE out[x]
    <3> SUFFICES ASSUME NEW x \in Part(m + 1)
                 PROVE  v[x] = IF x \in S THEN v[nxt[x]] ELSE out[x]
      OBVIOUS
    <3>1. \A y \in Part(m) : v[y] = w[y] /\ w[y] = IF y \in S THEN w[nxt[y]] ELSE out[y]
      <4> HIDE DEF Part
      <4> QED BY <2>1, <2>2
    <3>2. x \in S => nxt[x] \in Part(m)
      BY <2>3
    <3> HIDE DEF Part
    <3>3. v[x] = IF x \in Part(m) THEN w[x] ELSE IF x \in S THEN w[nxt[x]] ELSE out[x]
      OBVIOUS
    <3> HIDE DEF v
    <3> QED BY <3>1, <3>2, <3>3
  <2>5. Is(v, m + 1)
    <3> HIDE DEF Part
    <3>1. v = [x \in Part(m + 1) |-> v[x]]
      OBVIOUS
    <3> HIDE DEF v
    <3> QED BY <2>4, <3>1
  <2>6. \E u : Is(u, m + 1)
    <3> HIDE DEF v, Is
    <3> QED BY <2>5
  <2> HIDE DEF Is, v, Part
  <2> QED BY <2>2, <2>6
<1>3. N + 1 \in I
  <2>1. I \in SUBSET Nat
    OBVIOUS
  <2> HIDE DEF I
  <2>2. \A m \in 0 .. N + 1 : m \in I
    BY <1>1, <1>2, <2>1, UpTo
  <2> QED BY <2>2
<1>4. PICK w : Is(w, N + 1)
  BY <1>3
<1>5. Part(N + 1) = D
  <2>1. \A x \in D : rank[x] \in 0 .. N
    OBVIOUS
  <2> QED BY <2>1
<1>6. Walks(w, D, S, nxt, out)
  <2> HIDE DEF Part
  <2> QED BY <1>4, <1>5 DEF Walks
<1> QED BY <1>6
-----------------------------------------------------------------------------
(* What a good block says.                                                 *)

LEMMA Positions ==
  /\ BlockSlots \in Nat /\ BlockSlots >= 2 /\ SectorSlots \in Nat
  /\ SectorSlots >= 2 /\ SectorSlots <= BlockSlots
  /\ \A i : i \in Position <=> i \in Int /\ i >= 0 /\ i < BlockSlots
  /\ 0 \in Position /\ 1 \in Position
BY DirAssumption DEF Position

\* Behind the end there is only the end.
LEMMA EndsStay ==
  ASSUME NEW b, GoodBlock(b), NEW i \in Position, b[i].ord = "end", NEW j \in Position, i <= j
  PROVE  b[j].ord = "end"
<1> DEFINE S == {m \in Nat : i + m \in Position => b[i + m].ord = "end"}
<1>1. S \in SUBSET Nat /\ 0 \in S
  BY Positions
<1>2. ASSUME NEW m \in S PROVE m + 1 \in S
  <2> SUFFICES ASSUME i + (m + 1) \in Position PROVE b[i + (m + 1)].ord = "end"
    OBVIOUS
  <2>1. m \in Nat /\ i + m \in Position /\ (i + m) + 1 \in Position /\ i + (m + 1) = (i + m) + 1
    BY Positions
  <2> QED BY <2>1 DEF GoodBlock, EndsLast
<1>3. j - i \in Nat /\ i + (j - i) = j
  BY Positions
<1>4. j - i \in S
  <2> HIDE DEF S
  <2>1. \A m \in 0 .. j - i : m \in S
    BY <1>1, <1>2, <1>3, UpTo
  <2> QED BY <1>3, <2>1
<1> QED BY <1>3, <1>4

LEMMA VisibleAre ==
  ASSUME NEW b, GoodBlock(b), NEW i \in Position
  PROVE  i \in Visible(b) <=> b[i].ord # "end"
<1>1. \A j \in 0 .. i : j \in Position /\ j <= i
  BY Positions
<1>2. i \in 0 .. i
  BY Positions
<1> QED BY <1>1, <1>2, EndsStay DEF Visible

\* The names of entries are names that calls use, or "." and "..".
LEMMA SlotNames ==
  ASSUME NEW b, GoodBlock(b), NEW i \in Position
  PROVE  /\ b[i] \in Slot /\ GoodSlot(b[i]) /\ b[i].long \in BOOLEAN
         /\ b[i].ord \in {"used", "free", "end"}
         /\ b[i].name \in Used => b[i].ord = "used" /\ b[i].name \notin {Dot, DotDot}
         /\ b[i].ord = "used" => b[i].name \in Used \cup {Dot, DotDot}
         /\ b[i].long => b[i].ord = "used" /\ b[i].name \in Name /\ b[i].name \in Used
         /\ i + 1 \in Position /\ b[i].long => ~b[i + 1].long /\ b[i + 1].ord = "used"
<1>1. b[i] \in Slot /\ GoodSlot(b[i])
  BY DEF GoodBlock
<1>2. b[i].long \in BOOLEAN /\ b[i].ord \in {"used", "free", "end"}
      /\ b[i].name \in Used \cup {Dot, DotDot, NoName}
  BY <1>1 DEF Slot
<1>3. Name \subseteq Used
  BY DEF Used
<1> QED BY <1>1, <1>2, <1>3, DirAssumption DEF GoodSlot, GoodBlock, InPairs

LEMMA HeadsAre ==
  ASSUME NEW b, GoodBlock(b), NEW i \in Position
  PROVE  i \in Heads(b) <=> b[i].name \in Used /\ (i = 0 \/ ~b[i - 1].long)
<1>1. i = 0 \/ (i - 1 \in Position /\ (i - 1) + 1 = i)
  BY Positions
<1>2. i # 0 => (b[i - 1].long => b[i - 1].ord = "used" /\ ~b[i].long)
  <2> SUFFICES ASSUME i # 0 PROVE b[i - 1].long => b[i - 1].ord = "used" /\ ~b[i].long
    OBVIOUS
  <2> DEFINE k == i - 1
  <2>1. k \in Position /\ k + 1 = i
    BY <1>1
  <2> HIDE DEF k
  <2>2. b[k].long => b[k].ord = "used" /\ ~b[i].long
    BY <2>1, SlotNames
  <2> QED BY <2>2 DEF k
<1>3. i \in Visible(b) <=> b[i].ord # "end"
  BY VisibleAre
<1> QED BY <1>2, <1>3, SlotNames DEF Heads

LEMMA ChainIs ==
  ASSUME OneBlock, NEW c \in Cluster
  PROVE  ChainOf[c] = {c}
<1> DEFINE Is(f) == f = [x \in Cluster |-> {x} \cup (IF FatNext[x] = None THEN {} ELSE f[FatNext[x]])]
           one == [x \in Cluster |-> {x}]
<1>1. Is(one)
  BY DEF OneBlock
<1>2. \E f : Is(f)
  <2> HIDE DEF Is, one
  <2> QED BY <1>1
<1>3. ChainOf = CHOOSE f : Is(f)
  BY DEF ChainOf
<1>4. Is(ChainOf)
  <2> HIDE DEF Is
  <2> QED BY <1>2, <1>3
<1> QED BY <1>4 DEF OneBlock

LEMMA DirectoryType == Directory \subseteq Cluster /\ DirObject \subseteq Object
BY DEF Directory, Cluster, Object

\* The entries of a directory are those that begin in its block.
LEMMA EntriesAre ==
  ASSUME OneBlock, NEW blocks, NEW d \in Directory
  PROVE  EntriesOf(blocks, d) = {Entry(d, blocks[d], i) : i \in Heads(blocks[d])}
BY ChainIs, DirectoryType DEF EntriesOf

LEMMA AllEntriesAre ==
  ASSUME OneBlock, NEW blocks, NEW e
  PROVE  e \in EntriesIn(blocks) <=>
            \E d \in Directory : \E i \in Heads(blocks[d]) : e = Entry(d, blocks[d], i)
<1>1. e \in EntriesIn(blocks) <=> \E d \in Directory : e \in EntriesOf(blocks, d)
  BY DEF EntriesIn
<1>2. ASSUME NEW d \in Directory
      PROVE  e \in EntriesOf(blocks, d) <=> \E i \in Heads(blocks[d]) : e = Entry(d, blocks[d], i)
  <2>1. EntriesOf(blocks, d) = {Entry(d, blocks[d], i) : i \in Heads(blocks[d])}
    BY EntriesAre
  <2> QED BY <2>1
<1> QED BY <1>1, <1>2
-----------------------------------------------------------------------------
(* One entry of a block, from i to j, is written.                          *)

\* What is from i to j, one or two slots, is one entry or none.
Whole(b, i, j) ==
    /\ ~b[j].long
    /\ j # i => b[i].long \/ b[j].ord # "used"

\* The block b becomes c by an edit of the slots from i to j.
Edit(b, c, i, j) ==
    /\ c \in [Position -> Slot]
    /\ i \in Position /\ j \in Position /\ (j = i \/ j = i + 1)
    /\ i = 0 \/ ~b[i - 1].long
    /\ b[i].name \notin {Dot, DotDot}
    /\ Whole(b, i, j)
    /\ \A k \in Position : k # i /\ k # j => c[k] = b[k]
    /\ GoodSlot(c[i]) /\ GoodSlot(c[j]) /\ EndsLast(c)
    /\ Whole(c, i, j)
    /\ c[i].long => c[j].ord = "used" /\ c[j].name \in Used

LEMMA EditBlock ==
  ASSUME NEW b, GoodBlock(b), NEW c, NEW i, NEW j, Edit(b, c, i, j)
  PROVE  /\ GoodBlock(c)
         /\ \A k \in Position : k # i =>
               /\ k \in Heads(c) <=> k \in Heads(b)
               /\ k \in Heads(b) =>
                     /\ \A d : Entry(d, c, k) = Entry(d, b, k)
                     /\ c[k] = b[k] /\ (b[k].long => c[k + 1] = b[k + 1])
         /\ i \in Heads(c) <=> c[i].name \in Used
         /\ Dotted(b) => Dotted(c)
<1> USE DEF Edit
<1>1. \A k \in Position : GoodSlot(c[k])
  BY DEF GoodBlock
<1>2. ASSUME NEW k \in Position, k # i, k # j, b[k].long
      PROVE  k + 1 \in Position /\ k + 1 # i /\ k + 1 # j /\ c[k + 1] = b[k + 1]
  <2>1. k + 1 \in Position
    BY <1>2 DEF GoodBlock, InPairs
  <2>2. k + 1 # i
    BY <1>2, Positions
  <2>3. k + 1 # j
    BY <1>2, Positions
  <2> QED BY <2>1, <2>2, <2>3
<1>3. InPairs(c)
  <2> SUFFICES ASSUME NEW k \in Position, c[k].long
               PROVE  k + 1 \in Position /\ c[k + 1].ord = "used" /\ ~c[k + 1].long /\ c[k + 1].name \in Used
    BY DEF InPairs
  <2>1. CASE k = i
    BY <2>1, Positions DEF Whole
  <2>2. CASE k = j
    BY <2>2 DEF Whole
  <2>3. CASE k # i /\ k # j
    BY <1>2, <2>3 DEF GoodBlock, InPairs
  <2> QED BY <2>1, <2>2, <2>3
<1>4. GoodBlock(c)
  BY <1>1, <1>3 DEF GoodBlock
<1>5. ASSUME NEW k \in Position, k # i
      PROVE  k \in Heads(c) <=> k \in Heads(b)
  <2>1. CASE k = j
    <3>1. k = i + 1 /\ i = k - 1 /\ k # 0
      BY <1>5, <2>1, Positions
    <3>2. k \in Heads(c) => ~c[i].long /\ c[k].name \in Used
      BY <1>4, <3>1, HeadsAre
    <3>3. k \in Heads(b) => ~b[i].long /\ b[k].name \in Used
      BY <3>1, HeadsAre
    <3> QED BY <1>4, <1>5, <2>1, <3>2, <3>3, SlotNames DEF Whole
  <2>2. CASE k # j
    <3>1. c[k] = b[k]
      BY <1>5, <2>2
    <3>2. k = 0 \/ (c[k - 1].long <=> b[k - 1].long)
      <4> SUFFICES ASSUME k # 0 PROVE c[k - 1].long <=> b[k - 1].long
        OBVIOUS
      <4> DEFINE m == k - 1
      <4>1. m \in Position /\ k = m + 1
        BY Positions
      <4>2. CASE m = j
        BY <4>2 DEF Whole
      <4>3. CASE m = i /\ m # j
        BY <2>2, <4>1, <4>3
      <4>4. CASE m # i /\ m # j
        BY <4>1, <4>4
      <4> QED BY <4>2, <4>3, <4>4
    <3> QED BY <1>4, <3>1, <3>2, HeadsAre
  <2> QED BY <2>1, <2>2
<1>6. ASSUME NEW k \in Position, k # i, k \in Heads(b)
      PROVE  /\ \A d : Entry(d, c, k) = Entry(d, b, k)
             /\ c[k] = b[k] /\ (b[k].long => c[k + 1] = b[k + 1])
  <2>1. k # j
    <3> SUFFICES ASSUME k = j PROVE FALSE
      OBVIOUS
    <3>1. k = i + 1 /\ i = k - 1 /\ k # 0
      BY <1>6, Positions
    <3>2. ~b[i].long /\ b[k].name \in Used
      BY <1>6, <3>1, HeadsAre
    <3> QED BY <1>6, <3>2, SlotNames DEF Whole
  <2>2. c[k] = b[k] /\ (b[k].long => c[k + 1] = b[k + 1])
    BY <1>2, <1>6, <2>1
  <2>3. ASSUME NEW d PROVE Entry(d, c, k) = Entry(d, b, k)
    BY <2>2 DEF Entry
  <2> QED BY <2>2, <2>3
<1>7. i \in Heads(c) <=> c[i].name \in Used
  <2>1. i = 0 \/ (i - 1 \in Position /\ i - 1 # i /\ i - 1 # j)
    BY Positions
  <2>2. i = 0 \/ c[i - 1] = b[i - 1]
    BY <2>1
  <2> QED BY <1>4, <2>2, HeadsAre
<1>8. ASSUME Dotted(b) PROVE Dotted(c)
  <2>1. i # 0 /\ i # 1
    BY <1>8 DEF Dotted
  <2>2. 0 # i /\ 0 # j /\ 1 # i /\ 1 # j
    BY <2>1, Positions
  <2>3. c[0] = b[0] /\ c[1] = b[1]
    BY <2>2, Positions
  <2> QED BY <1>8, <2>3 DEF Dotted
<1> QED BY <1>4, <1>5, <1>6, <1>7, <1>8

LEMMA PutToIs ==
  ASSUME NEW blocks, Good(blocks), NEW d \in Cluster, NEW c
  PROVE  /\ Put(d, c).cluster = d
         /\ PutTo(blocks, Put(d, c)) = [blocks EXCEPT ![d] = c]
         /\ PutTo(blocks, Put(d, c))[d] = c
         /\ \A x \in Cluster : x # d => PutTo(blocks, Put(d, c))[x] = blocks[x]
BY DEF PutTo, Put, Good

LEMMA EditGood ==
  ASSUME NEW blocks, Good(blocks), NEW d \in Cluster, NEW c, NEW i, NEW j,
         Edit(blocks[d], c, i, j)
  PROVE  Good(PutTo(blocks, Put(d, c)))
<1> DEFINE after == PutTo(blocks, Put(d, c))
<1>1. GoodBlock(c)
  BY EditBlock DEF Good
<1>2. after = [blocks EXCEPT ![d] = c]
  BY PutToIs
<1>3. after \in [Cluster -> [Position -> Slot]]
  BY <1>2 DEF Good, Edit
<1>4. \A x \in Cluster : GoodBlock(after[x])
  BY <1>1, PutToIs DEF Good
<1> QED BY <1>3, <1>4 DEF Good

LEMMA EditFresh ==
  ASSUME NEW blocks, Good(blocks), NEW u, Fresh(blocks, u), NEW d \in Cluster, d \notin u,
         NEW c, NEW i, NEW j, Edit(blocks[d], c, i, j),
         c[i].target \notin u, c[j].target \notin u
  PROVE  Fresh(PutTo(blocks, Put(d, c)), u)
<1> DEFINE after == PutTo(blocks, Put(d, c))
<1>1. ASSUME NEW x \in Cluster, NEW k \in Position PROVE after[x][k].target \notin u
  <2>1. CASE x # d
    BY <2>1, PutToIs DEF Fresh
  <2>2. CASE x = d /\ k # i /\ k # j
    BY <2>2, PutToIs DEF Fresh, Edit
  <2>3. CASE x = d /\ (k = i \/ k = j)
    BY <2>3, PutToIs
  <2> QED BY <2>1, <2>2, <2>3
<1>2. ASSUME NEW x \in u \cap DirObject PROVE after[x] = [k \in Position |-> Blank]
  <2>1. x \in Cluster /\ x # d
    BY DEF Cluster
  <2> QED BY <2>1, PutToIs DEF Fresh
<1> QED BY <1>1, <1>2 DEF Fresh

\* The directories that entries lead to still begin with "." and "..".
LEMMA EditWellMade ==
  ASSUME NEW blocks, Good(blocks), WellMade(blocks), NEW d \in Cluster, NEW c, NEW i, NEW j,
         Edit(blocks[d], c, i, j),
         \A k \in {i, j} : c[k].name \in Used /\ c[k].target \in DirObject
                              => Dotted(blocks[c[k].target])
  PROVE  WellMade(PutTo(blocks, Put(d, c)))
<1> DEFINE after == PutTo(blocks, Put(d, c))
<1>1. ASSUME NEW x \in Cluster, Dotted(blocks[x]) PROVE Dotted(after[x])
  <2>1. CASE x # d
    BY <1>1, <2>1, PutToIs
  <2>2. CASE x = d
    BY <1>1, <2>2, PutToIs, EditBlock DEF Good
  <2> QED BY <2>1, <2>2
<1>2. ASSUME NEW x \in Cluster, NEW k \in Position,
             after[x][k].name \in Used, after[x][k].target \in DirObject
      PROVE  Dotted(blocks[after[x][k].target])
  <2>1. CASE x # d
    BY <1>2, <2>1, PutToIs DEF WellMade
  <2>2. CASE x = d /\ k # i /\ k # j
    <3>1. after[x][k] = blocks[x][k]
      BY <2>2, PutToIs DEF Edit
    <3> QED BY <1>2, <3>1 DEF WellMade
  <2>3. CASE x = d /\ (k = i \/ k = j)
    BY <1>2, <2>3, PutToIs
  <2> QED BY <2>1, <2>2, <2>3
<1> HIDE DEF after
<1>3. DirObject \subseteq Cluster
  BY DEF Cluster
<1> QED BY <1>1, <1>2, <1>3 DEF WellMade, after

LEMMA EditAlone ==
  ASSUME NEW blocks, Good(blocks), Alone(blocks), NEW d \in Cluster, NEW c, NEW i, NEW j,
         Edit(blocks[d], c, i, j),
         c[i].name \in Used /\ ~c[i].long =>
            Present # <<>> /\ c[i].name = Present[1][1] /\ c[i].target = Present[1][2]
  PROVE  Alone(PutTo(blocks, Put(d, c)))
<1> DEFINE after == PutTo(blocks, Put(d, c))
<1> SUFFICES ASSUME NEW x \in Directory, NEW k \in Heads(after[x]), ~after[x][k].long
             PROVE  /\ Present # <<>>
                    /\ after[x][k].name = Present[1][1]
                    /\ after[x][k].target = Present[1][2]
  BY DEF Alone
<1>1. x \in Cluster /\ k \in Position
  BY DirectoryType DEF Heads, Visible
<1>2. CASE x # d
  BY <1>1, <1>2, PutToIs DEF Alone
<1>3. CASE x = d /\ k # i
  <2>1. GoodBlock(blocks[d]) /\ after[x] = c
    BY <1>3, PutToIs DEF Good
  <2>2. k \in Heads(blocks[d]) /\ c[k] = blocks[d][k]
    BY <1>1, <1>3, <2>1, EditBlock
  <2> QED BY <1>3, <2>1, <2>2 DEF Alone
<1>4. CASE x = d /\ k = i
  <2>1. GoodBlock(c) /\ after[x] = c
    BY <1>4, PutToIs, EditBlock DEF Good
  <2>2. c[k].name \in Used
    BY <1>1, <2>1, HeadsAre
  <2> QED BY <1>4, <2>1, <2>2
<1> QED BY <1>2, <1>3, <1>4

\* The entry that begins at i, if any.
Begun(d, b, i) == IF b[i].name \in Used THEN {Entry(d, b, i)} ELSE {}

\* The entries that begin elsewhere than at i of d.
Others(blocks, d, i) ==
    {x \in EntriesIn(blocks) : \E y \in Directory : \E k \in Heads(blocks[y]) :
                                  (y # d \/ k # i) /\ x = Entry(y, blocks[y], k)}

OnlyThere(blocks, d, c, i) ==
    /\ EntriesIn(blocks) = Others(blocks, d, i) \cup Begun(d, blocks[d], i)
    /\ EntriesIn(PutTo(blocks, Put(d, c))) = Others(blocks, d, i) \cup Begun(d, c, i)

\* All entries but the one at i stay.
LEMMA EditEntries ==
  ASSUME OneBlock, NEW blocks, Good(blocks), NEW d \in Directory, NEW c, NEW i, NEW j,
         Edit(blocks[d], c, i, j)
  PROVE  OnlyThere(blocks, d, c, i)
<1> DEFINE b == blocks[d]
           after == PutTo(blocks, Put(d, c))
<1>1. d \in Cluster /\ Directory \subseteq Cluster
  BY DirectoryType
<1>2. GoodBlock(b) /\ GoodBlock(c) /\ i \in Position /\ after[d] = c
      /\ \A y \in Directory : y # d => after[y] = blocks[y]
  BY <1>1, PutToIs, EditBlock DEF Good, Edit
<1>3. /\ i \in Heads(b) <=> b[i].name \in Used
      /\ i \in Heads(c) <=> c[i].name \in Used
      /\ \A k \in Position : k # i =>
            /\ k \in Heads(c) <=> k \in Heads(b)
            /\ k \in Heads(b) => \A y : Entry(y, c, k) = Entry(y, b, k)
  BY <1>2, HeadsAre, EditBlock DEF Edit
<1>4. Others(blocks, d, i) = Others(after, d, i)
  <2>1. ASSUME NEW x, NEW y \in Directory, NEW k \in Position, y # d \/ k # i
        PROVE  k \in Heads(blocks[y]) /\ x = Entry(y, blocks[y], k)
               <=> k \in Heads(after[y]) /\ x = Entry(y, after[y], k)
    <3> HIDE DEF after
    <3>1. CASE y # d
      BY <1>2, <3>1
    <3>2. CASE y = d
      <4>1. k # i /\ after[y] = c /\ blocks[y] = b
        BY <1>2, <2>1, <3>2
      <4> HIDE DEF b
      <4>2. (k \in Heads(c) <=> k \in Heads(b)) /\ (k \in Heads(b) => Entry(y, c, k) = Entry(y, b, k))
        BY <1>3, <4>1
      <4> QED BY <4>1, <4>2
    <3> QED BY <3>1, <3>2
  <2>2. ASSUME NEW f, NEW x, f = blocks \/ f = after
        PROVE  x \in Others(f, d, i) <=>
                  \E y \in Directory : \E k \in Position :
                      (y # d \/ k # i) /\ k \in Heads(f[y]) /\ x = Entry(y, f[y], k)
    <3> HIDE DEF after
    <3>1. x \in EntriesIn(f) <=>
            \E y \in Directory : \E k \in Heads(f[y]) : x = Entry(y, f[y], k)
      BY AllEntriesAre
    <3>2. \A y \in Directory : \A k \in Heads(f[y]) : k \in Position
      BY DEF Heads, Visible
    <3>3. ASSUME x \in Others(f, d, i)
          PROVE  \E y \in Directory : \E k \in Position :
                    (y # d \/ k # i) /\ k \in Heads(f[y]) /\ x = Entry(y, f[y], k)
      <4>1. PICK y \in Directory : \E k \in Heads(f[y]) : (y # d \/ k # i) /\ x = Entry(y, f[y], k)
        BY <3>3 DEF Others
      <4> QED BY <3>2, <4>1
    <3>4. ASSUME NEW y \in Directory, NEW k \in Position,
                 y # d \/ k # i, k \in Heads(f[y]), x = Entry(y, f[y], k)
          PROVE  x \in Others(f, d, i)
      BY <3>1, <3>4 DEF Others
    <3>5. ASSUME \E y \in Directory : \E k \in Position :
                    (y # d \/ k # i) /\ k \in Heads(f[y]) /\ x = Entry(y, f[y], k)
          PROVE  x \in Others(f, d, i)
      <4>1. PICK y \in Directory : \E k \in Position :
               (y # d \/ k # i) /\ k \in Heads(f[y]) /\ x = Entry(y, f[y], k)
        BY <3>5
      <4>2. PICK k \in Position :
               (y # d \/ k # i) /\ k \in Heads(f[y]) /\ x = Entry(y, f[y], k)
        BY <4>1
      <4> QED BY <3>4, <4>2
    <3> QED BY ONLY <3>3, <3>5
  <2> HIDE DEF after
  <2>3. ASSUME NEW x PROVE x \in Others(blocks, d, i) <=> x \in Others(after, d, i)
    <3>1. x \in Others(blocks, d, i) <=>
            \E y \in Directory : \E k \in Position :
                (y # d \/ k # i) /\ k \in Heads(blocks[y]) /\ x = Entry(y, blocks[y], k)
      BY <2>2
    <3>2. x \in Others(after, d, i) <=>
            \E y \in Directory : \E k \in Position :
                (y # d \/ k # i) /\ k \in Heads(after[y]) /\ x = Entry(y, after[y], k)
      BY <2>2
    <3>3. \A y \in Directory : \A k \in Position : y # d \/ k # i =>
             (k \in Heads(blocks[y]) /\ x = Entry(y, blocks[y], k)
               <=> k \in Heads(after[y]) /\ x = Entry(y, after[y], k))
      BY <2>1
    <3> QED BY ONLY <3>1, <3>2, <3>3
  <2> QED BY <2>3
<1>5. ASSUME NEW f, f = blocks \/ f = after
      PROVE  EntriesIn(f) = Others(f, d, i) \cup Begun(d, f[d], i)
  <2>1. ASSUME NEW x
        PROVE  x \in EntriesIn(f) <=>
                 x \in Others(f, d, i) \/ (f[d][i].name \in Used /\ x = Entry(d, f[d], i))
    <3> HIDE DEF after
    <3>1. x \in EntriesIn(f) <=>
            \E y \in Directory : \E k \in Heads(f[y]) : x = Entry(y, f[y], k)
      BY AllEntriesAre
    <3>2. i \in Heads(f[d]) <=> f[d][i].name \in Used
      BY <1>2, <1>3, <1>5
    <3> QED BY <3>1, <3>2 DEF Others
  <2> HIDE DEF after
  <2> QED BY <2>1 DEF Begun
<1> HIDE DEF after
<1>6. /\ EntriesIn(blocks) = Others(blocks, d, i) \cup Begun(d, b, i)
      /\ EntriesIn(after) = Others(after, d, i) \cup Begun(d, c, i)
  BY <1>2, <1>5
<1> QED BY <1>4, <1>6 DEF OnlyThere, after

LEMMA AddSteps ==
  ASSUME OneBlock, NEW blocks, Good(blocks), NEW d \in Directory, NEW c, NEW i, NEW j,
         Edit(blocks[d], c, i, j), blocks[d][i].name \notin Used, c[i].name \in Used,
         FreeIn(EntriesIn(blocks), Entry(d, c, i)) \/ Entry(d, c, i) \in EntriesIn(blocks)
  PROVE  /\ EntriesIn(PutTo(blocks, Put(d, c))) = EntriesIn(blocks) \cup {Entry(d, c, i)}
         /\ Stepped(EntriesIn(blocks), EntriesIn(PutTo(blocks, Put(d, c))))
<1> DEFINE E == EntriesIn(blocks)
           F == EntriesIn(PutTo(blocks, Put(d, c)))
           R == Others(blocks, d, i)
           e == Entry(d, c, i)
<1>1. F = E \cup {e}
  <2>a. OnlyThere(blocks, d, c, i)
    BY EditEntries
  <2>1. E = R \cup Begun(d, blocks[d], i) /\ F = R \cup Begun(d, c, i)
    BY <2>a DEF OnlyThere
  <2> QED BY <2>1 DEF Begun
<1> HIDE DEF E, F, R, e
<1>2. CASE e \in E
  BY <1>1, <1>2 DEF Stepped, E, F, e
<1>3. CASE e \notin E
  BY <1>1, <1>3 DEF Stepped, E, F, e
<1> QED BY <1>1, <1>2, <1>3 DEF E, F, e

LEMMA RemoveSteps ==
  ASSUME OneBlock, NEW blocks, Good(blocks), NEW d \in Directory, NEW c, NEW i, NEW j,
         Edit(blocks[d], c, i, j), blocks[d][i].name \in Used, c[i].name \notin Used,
         LET e == Entry(d, blocks[d], i) IN
         \/ e.object \notin Directory
         \/ \A x \in EntriesIn(blocks) : x.dir # e.object
         \/ \E other \in EntriesIn(blocks) : other # e /\ other.object = e.object
  PROVE  Stepped(EntriesIn(blocks), EntriesIn(PutTo(blocks, Put(d, c))))
<1> DEFINE E == EntriesIn(blocks)
           F == EntriesIn(PutTo(blocks, Put(d, c)))
           R == Others(blocks, d, i)
           e == Entry(d, blocks[d], i)
<1>1. E = R \cup {e} /\ F = R
  <2>a. OnlyThere(blocks, d, c, i)
    BY EditEntries
  <2>1. E = R \cup Begun(d, blocks[d], i) /\ F = R \cup Begun(d, c, i)
    BY <2>a DEF OnlyThere
  <2>2. E = R \cup {e} /\ F = R
    BY <2>1 DEF Begun
  <2> QED BY <2>2
<1>2. \/ e.object \notin Directory
      \/ \A x \in E : x.dir # e.object
      \/ \E other \in E : other # e /\ other.object = e.object
  OBVIOUS
<1> HIDE DEF E, F, R, e
<1>3. CASE e \in R
  <2>1. E = F
    BY <1>1, <1>3
  <2> QED BY <2>1 DEF Stepped, E, F
<1>4. CASE e \notin R
  <2>1. e \in E /\ F = E \ {e}
    BY <1>1, <1>4
  <2>2. \/ e.object \notin Directory
        \/ \A x \in E : x.dir # e.object
        \/ \E other \in F : other.object = e.object
    BY <1>2, <2>1
  <2>3. Stepped(E, F)
    BY <2>1, <2>2 DEF Stepped
  <2> QED BY <2>3 DEF E, F
<1> QED BY <1>3, <1>4

LEMMA RenameSteps ==
  ASSUME OneBlock, NEW blocks, Good(blocks), NEW d \in Directory, NEW c, NEW i, NEW j,
         Edit(blocks[d], c, i, j), blocks[d][i].name \in Used, c[i].name \in Used,
         Entry(d, c, i).object = Entry(d, blocks[d], i).object,
         \/ Entry(d, c, i) = Entry(d, blocks[d], i)
         \/ FreeIn(EntriesIn(blocks), Entry(d, c, i))
  PROVE  Stepped(EntriesIn(blocks), EntriesIn(PutTo(blocks, Put(d, c))))
<1> DEFINE E == EntriesIn(blocks)
           F == EntriesIn(PutTo(blocks, Put(d, c)))
           R == Others(blocks, d, i)
           e == Entry(d, blocks[d], i)
           new == Entry(d, c, i)
<1>1. E = R \cup {e} /\ F = R \cup {new}
  <2>a. OnlyThere(blocks, d, c, i)
    BY EditEntries
  <2>1. E = R \cup Begun(d, blocks[d], i) /\ F = R \cup Begun(d, c, i)
    BY <2>a DEF OnlyThere
  <2>2. E = R \cup {e} /\ F = R \cup {new}
    BY <2>1 DEF Begun
  <2> QED BY <2>2
<1>2. e.dir = new.dir /\ e.object = new.object /\ (new = e \/ FreeIn(E, new))
  BY DEF Entry
<1> HIDE DEF E, F, R, e, new
<1>3. CASE new = e
  <2>1. E = F
    BY <1>1, <1>3
  <2> QED BY <2>1 DEF Stepped, E, F
<1>4. CASE FreeIn(E, new)
  <2>1. new \notin E
    BY <1>4 DEF FreeIn
  <2>2. Stepped(E, F)
    <3>1. CASE e \in R
      <4>1. F = E \cup {new}
        BY <1>1, <3>1
      <4> QED BY <1>4, <2>1, <4>1 DEF Stepped
    <3>2. CASE e \notin R
      <4>1. e \in E /\ F = (E \ {e}) \cup {new}
        BY <1>1, <2>1, <3>2
      <4> QED BY <1>2, <1>4, <2>1, <4>1 DEF Stepped
    <3> QED BY <3>1, <3>2
  <2> QED BY <2>2 DEF E, F
<1> QED BY <1>2, <1>3, <1>4
-----------------------------------------------------------------------------
(* Looking a name up.                                                      *)

LookupWalk(d, n) ==
    LET walk[p \in Cluster \X (0 .. BlockSlots + 1)] ==
            LET c == p[1]
                s == block[c][p[2]]
                j == p[2] + (IF s.long THEN 2 ELSE 1)
            IN
            IF p[2] >= BlockSlots
            THEN IF FatNext[c] = None THEN Astray ELSE walk[<<FatNext[c], 0>>]
            ELSE IF s.ord = "end" THEN Missing
            ELSE IF s.name = n THEN Match(d, c, j, s)
            ELSE walk[<<c, j>>]
    IN walk

\* The step of a lookup from one position of a block to the next.
LookupStep(d, n, c, i) ==
    LET s == block[c][i]
        j == i + (IF s.long THEN 2 ELSE 1)
    IN
    IF i >= BlockSlots THEN Astray
    ELSE IF s.ord = "end" THEN Missing
    ELSE IF s.name = n THEN Match(d, c, j, s)
    ELSE LookupWalk(d, n)[<<c, j>>]

LEMMA LookupSteps ==
  ASSUME OneBlock, Good(block), NEW d, NEW n
  PROVE  /\ Lookup(d, n) = LookupWalk(d, n)[<<d, 0>>]
         /\ \A c \in Cluster : \A i \in 0 .. BlockSlots + 1 :
               LookupWalk(d, n)[<<c, i>>] = LookupStep(d, n, c, i)
<1> DEFINE D == Cluster \X (0 .. BlockSlots + 1)
           At(p) == block[p[1]][p[2]]
           Then(p) == p[2] + (IF At(p).long THEN 2 ELSE 1)
           Body(w, p) ==
             IF p[2] >= BlockSlots
             THEN IF FatNext[p[1]] = None THEN Astray ELSE w[<<FatNext[p[1]], 0>>]
             ELSE IF At(p).ord = "end" THEN Missing
             ELSE IF At(p).name = n THEN Match(d, p[1], Then(p), At(p))
             ELSE w[<<p[1], Then(p)>>]
           Is(w) == w = [p \in D |-> Body(w, p)]
           S == {p \in D : p[2] < BlockSlots /\ At(p).ord # "end" /\ At(p).name # n}
           nxt == [p \in D |-> <<p[1], Then(p)>>]
           out == [p \in D |-> IF p[2] >= BlockSlots THEN Astray
                               ELSE IF At(p).ord = "end" THEN Missing
                               ELSE Match(d, p[1], Then(p), At(p))]
           rank == [p \in D |-> p[2]]
<1>1. BlockSlots \in Nat
  BY Positions
<1>2. rank \in [D -> 0 .. BlockSlots + 1]
  OBVIOUS
<1>3. ASSUME NEW p \in D, p \in S PROVE nxt[p] \in D /\ rank[nxt[p]] > rank[p]
  <2>1. p[1] \in Cluster /\ p[2] \in Nat /\ p[2] < BlockSlots
    BY <1>1, <1>3
  <2>2. Then(p) = p[2] + 1 \/ Then(p) = p[2] + 2
    OBVIOUS
  <2> HIDE DEF Then
  <2>3. nxt[p] = <<p[1], Then(p)>> /\ <<p[1], Then(p)>> \in D
    BY <1>1, <2>1, <2>2
  <2>4. rank[nxt[p]] = Then(p) /\ rank[p] = p[2]
    BY <2>3
  <2> HIDE DEF rank, nxt, D
  <2> QED BY <2>1, <2>2, <2>3, <2>4
<1>4. PICK w : Walks(w, D, S, nxt, out)
  <2> HIDE DEF D, S, nxt, out, rank
  <2>1. Climbs(D, BlockSlots + 1, rank, S, nxt)
    BY <1>1, <1>2, <1>3 DEF Climbs
  <2> QED BY <2>1, WalkExists
<1>5. Is(w)
  <2>1. ASSUME NEW p \in D PROVE (IF p \in S THEN w[nxt[p]] ELSE out[p]) = Body(w, p)
    <3>1. p[1] \in Cluster /\ p[2] \in Nat /\ FatNext[p[1]] = None
      BY <1>1 DEF OneBlock
    <3> QED BY <3>1, <1>1
  <2> HIDE DEF S, nxt, out, Body, D
  <2> QED BY <1>4, <2>1 DEF Walks
<1>6. \E v : Is(v)
  <2> HIDE DEF Is
  <2> QED BY <1>5
<1>7. LookupWalk(d, n) = CHOOSE v : Is(v)
  BY DEF LookupWalk
<1>8. Is(LookupWalk(d, n))
  <2> HIDE DEF Is
  <2> QED BY <1>6, <1>7
<1>9. Lookup(d, n) = LookupWalk(d, n)[<<d, 0>>]
  BY DEF Lookup, LookupWalk
<1> HIDE DEF LookupWalk
<1>10. ASSUME NEW c \in Cluster, NEW i \in 0 .. BlockSlots + 1
       PROVE  LookupWalk(d, n)[<<c, i>>] = Body(LookupWalk(d, n), <<c, i>>)
  <2> DEFINE W == LookupWalk(d, n)
  <2>1. <<c, i>> \in D
    OBVIOUS
  <2>2. W = [p \in D |-> Body(W, p)]
    BY <1>8
  <2> HIDE DEF W, D, Body
  <2>3. W[<<c, i>>] = Body(W, <<c, i>>)
    BY <2>1, <2>2
  <2> QED BY <2>3 DEF W
<1> QED BY <1>9, <1>10 DEF OneBlock, LookupStep

\* If the last entry is not the end, there is none.
LEMMA NoEnd ==
  ASSUME NEW b, GoodBlock(b), b[BlockSlots - 1].ord # "end"
  PROVE  Visible(b) = Position
<1>1. ASSUME NEW i \in Position PROVE i \in Visible(b)
  <2>1. BlockSlots - 1 \in Position /\ i <= BlockSlots - 1
    BY Positions
  <2> QED BY <2>1, EndsStay, VisibleAre
<1> QED BY <1>1 DEF Visible

\* f is what was found of the entry n of directory d.
FoundIn(d, n, f) ==
    LET b == block[d]
        i == f.sourceOffset
    IN
    /\ f.status = "found" /\ ~f.root /\ f.source = d
    /\ i \in Heads(b) /\ b[i].name = n /\ f.long = b[i].long
    /\ i + (IF f.long THEN 2 ELSE 1) \in Position
    /\ f.target = b[IF f.long THEN i + 1 ELSE i].target /\ f.first = f.target

LookedUp(d, n, f, from) ==
    \/ f.status = "missing" /\ \A i \in Heads(block[d]) : i >= from => block[d][i].name # n
    \/ FoundIn(d, n, f)
    \/ f.status = "astray" /\ Visible(block[d]) = Position

\* Position i of the block b is reached by steps over whole entries.
Reached(b, i) ==
    /\ i \in 0 .. BlockSlots
    /\ i = 0 \/ (~b[i - 1].long /\ b[i - 1].ord # "end")

\* From an entry that is not the end a step over it reaches the next one.
LEMMA StepOver ==
  ASSUME NEW b, GoodBlock(b), NEW i \in Position, Reached(b, i), b[i].ord # "end"
  PROVE  LET j == i + (IF b[i].long THEN 2 ELSE 1) IN
         /\ Reached(b, j) /\ j > i
         /\ \A k \in Heads(b) : k >= i => k = i \/ k >= j
         /\ j >= BlockSlots => Visible(b) = Position
<1>1. i \in Int /\ i >= 0 /\ i < BlockSlots /\ BlockSlots \in Nat
  BY Positions
<1>2. \A k \in Heads(b) : k \in Position /\ k \in Int
  BY Positions DEF Heads, Visible
<1>3. CASE ~b[i].long
  <2>1. Reached(b, i + 1)
    BY <1>1, <1>3 DEF Reached
  <2>2. i + 1 >= BlockSlots => i = BlockSlots - 1
    BY <1>1
  <2> QED BY <1>1, <1>2, <1>3, <2>1, <2>2, NoEnd
<1>4. CASE b[i].long
  <2> DEFINE k == i + 1
  <2>1. k \in Position /\ b[k].ord = "used" /\ ~b[k].long
    BY <1>4 DEF GoodBlock, InPairs
  <2>2. i + 2 \in 0 .. BlockSlots /\ (i + 2) - 1 = k /\ k - 1 = i
    BY <1>1, <2>1, Positions
  <2>3. Reached(b, i + 2)
    BY <2>1, <2>2 DEF Reached
  <2>4. k \notin Heads(b)
    BY <1>1, <1>4, <2>1, <2>2, HeadsAre
  <2>5. i + 2 >= BlockSlots => k = BlockSlots - 1
    BY <1>1, <2>1, Positions
  <2>6. \A m \in Heads(b) : m >= i => m = i \/ m >= i + 2
    <3> SUFFICES ASSUME NEW m \in Heads(b), m >= i, m # i PROVE m >= i + 2
      OBVIOUS
    <3>1. m # k /\ m \in Int
      BY <1>2, <2>4
    <3> QED BY <1>1, <3>1
  <2> QED BY <1>1, <1>4, <2>1, <2>3, <2>5, <2>6, NoEnd
<1> QED BY <1>3, <1>4

\* A lookup finds the first entry of the name, or comes to the end of the block.
LEMMA LookupFacts ==
  ASSUME OneBlock, Good(block), NEW d \in Cluster, NEW n \in Used
  PROVE  LookedUp(d, n, Lookup(d, n), 0)
<1> DEFINE b == block[d]
           W(i) == LookupWalk(d, n)[<<d, i>>]
           S == {m \in Nat : \A i \in 0 .. BlockSlots :
                    i >= BlockSlots - m /\ Reached(b, i) => LookedUp(d, n, W(i), i)}
<1>1. GoodBlock(b) /\ BlockSlots \in Nat
  BY Positions DEF Good
<1>2. \A i \in 0 .. BlockSlots + 1 :
         LET j == i + (IF b[i].long THEN 2 ELSE 1)
         IN W(i) = IF i >= BlockSlots THEN Astray
                   ELSE IF b[i].ord = "end" THEN Missing
                   ELSE IF b[i].name = n THEN Match(d, d, j, b[i])
                   ELSE W(j)
  <2>1. \A i \in 0 .. BlockSlots + 1 : W(i) = LookupStep(d, n, d, i)
    BY LookupSteps
  <2> QED BY <2>1 DEF LookupStep
<1>3. Lookup(d, n) = W(0)
  BY LookupSteps
<1> HIDE DEF W
<1>4. S \in SUBSET Nat
  OBVIOUS
<1>5. 0 \in S
  <2> SUFFICES ASSUME NEW i \in 0 .. BlockSlots, i >= BlockSlots, Reached(b, i)
               PROVE  LookedUp(d, n, W(i), i)
    BY <1>1
  <2>1. i = BlockSlots /\ i # 0
    BY <1>1, Positions
  <2>2. W(i) = Astray
    BY <1>1, <1>2, <2>1
  <2>3. Visible(b) = Position
    BY <1>1, <2>1, NoEnd DEF Reached
  <2> QED BY <2>2, <2>3 DEF LookedUp, Astray
<1>6. ASSUME NEW m \in S, m < BlockSlots PROVE m + 1 \in S
  <2> SUFFICES ASSUME NEW i \in 0 .. BlockSlots, i >= BlockSlots - (m + 1), Reached(b, i)
               PROVE  LookedUp(d, n, W(i), i)
    OBVIOUS
  <2>1. m \in Nat /\ \A k \in 0 .. BlockSlots :
                        k >= BlockSlots - m /\ Reached(b, k) => LookedUp(d, n, W(k), k)
    OBVIOUS
  <2> HIDE DEF S
  <2>2. CASE i >= BlockSlots - m
    BY <2>1, <2>2
  <2>3. CASE i < BlockSlots - m
    <3>1. i \in Position /\ i \in Nat /\ i < BlockSlots /\ i = BlockSlots - (m + 1)
      BY <1>1, <2>1, <2>3, Positions
    <3> DEFINE j == i + (IF b[i].long THEN 2 ELSE 1)
    <3>2. W(i) = IF b[i].ord = "end" THEN Missing
                 ELSE IF b[i].name = n THEN Match(d, d, j, b[i])
                 ELSE W(j)
      BY <1>1, <1>2, <3>1
    <3>3. CASE b[i].ord = "end"
      <4>1. \A k \in Heads(b) : k >= i => b[k].name # n
        <5> SUFFICES ASSUME NEW k \in Heads(b), k >= i PROVE b[k].name # n
          OBVIOUS
        <5>1. k \in Position
          BY DEF Heads, Visible
        <5>2. b[k].ord = "end"
          BY <1>1, <3>1, <3>3, <5>1, EndsStay
        <5> QED BY <1>1, <5>1, <5>2, SlotNames
      <4>2. W(i) = Missing
        BY <3>2, <3>3
      <4> QED BY <4>1, <4>2 DEF LookedUp, Missing
    <3>4. CASE b[i].ord # "end"
      <4> HIDE DEF b
      <4>1. /\ Reached(b, j) /\ j > i
            /\ \A k \in Heads(b) : k >= i => k = i \/ k >= j
            /\ j >= BlockSlots => Visible(b) = Position
        BY <1>1, <3>1, <3>4, StepOver
      <4>2. CASE b[i].name = n
        <5>1. W(i) = Match(d, d, j, b[i])
          BY <3>2, <3>4, <4>2
        <5>2. CASE j >= BlockSlots
          <6>1. W(i) = Astray
            BY <5>1, <5>2 DEF Match, OneBlock
          <6> QED BY <4>1, <5>2, <6>1 DEF LookedUp, Astray, b
        <5>3. CASE ~(j >= BlockSlots)
          <6>1. i \in Heads(b)
            BY <1>1, <2>3, <3>1, <4>2, HeadsAre DEF Reached
          <6>2. W(i) = [status |-> "found", root |-> FALSE, source |-> d, long |-> b[i].long,
                        sourceOffset |-> i,
                        target |-> b[IF b[i].long THEN i + 1 ELSE i].target,
                        first |-> b[IF b[i].long THEN i + 1 ELSE i].target]
            <7>1. CASE b[i].long
              <8>1. j - 1 = i + 1 /\ j - 2 = i
                BY <3>1, <7>1
              <8> QED BY <5>1, <5>3, <7>1, <8>1 DEF Match, b
            <7>2. CASE ~b[i].long
              <8>1. j - 1 = i
                BY <3>1, <7>2
              <8>2. b[i].long = FALSE
                BY <1>1, <3>1, <7>2, SlotNames
              <8> QED BY <5>1, <5>3, <7>2, <8>1, <8>2 DEF Match
            <7> QED BY <7>1, <7>2
          <6>3. j \in Position
            BY <1>1, <3>1, <5>3, Positions
          <6>4. FoundIn(d, n, W(i))
            BY <4>2, <6>1, <6>2, <6>3 DEF FoundIn, b
          <6> QED BY <6>4 DEF LookedUp
        <5> QED BY <5>2, <5>3
      <4>3. CASE b[i].name # n
        <5>1. W(i) = W(j)
          BY <3>2, <3>4, <4>3
        <5>2. j \in 0 .. BlockSlots /\ j >= BlockSlots - m
          <6> HIDE DEF j
          <6> QED BY <1>1, <2>1, <3>1, <4>1 DEF Reached
        <5>3. LookedUp(d, n, W(j), j)
          BY <2>1, <4>1, <5>2
        <5> QED BY <4>1, <4>3, <5>1, <5>3 DEF LookedUp, b
      <4> QED BY <4>2, <4>3
    <3> QED BY <3>3, <3>4
  <2> QED BY <1>1, <2>1, <2>2, <2>3
<1>7. \A m \in 0 .. BlockSlots : m \in S
  <2> HIDE DEF S
  <2> QED BY <1>1, <1>4, <1>5, <1>6, UpTo
<1>8. BlockSlots \in S
  BY <1>1, <1>7
<1>9. Reached(b, 0)
  BY <1>1 DEF Reached
<1>10. \A i \in 0 .. BlockSlots : i >= 0 /\ Reached(b, i) => LookedUp(d, n, W(i), i)
  BY <1>1, <1>8
<1> QED BY <1>1, <1>3, <1>9, <1>10
-----------------------------------------------------------------------------
(* Is a directory empty.                                                   *)

EmptinessWalk ==
    LET walk[p \in Cluster \X (0 .. BlockSlots + 1)] ==
            LET c == p[1]
                s == block[c][p[2]]
            IN
            IF p[2] >= BlockSlots
            THEN IF FatNext[c] = None THEN "astray" ELSE walk[<<FatNext[c], 0>>]
            ELSE IF s.ord = "free" THEN walk[<<c, p[2] + (IF s.long THEN 2 ELSE 1)>>]
            ELSE IF s.ord = "end" THEN "empty" ELSE "occupied"
    IN walk

\* The step of the search from one position of a block to the next.
EmptinessStep(c, i) ==
    LET s == block[c][i] IN
    IF i >= BlockSlots THEN "astray"
    ELSE IF s.ord = "free" THEN EmptinessWalk[<<c, i + (IF s.long THEN 2 ELSE 1)>>]
    ELSE IF s.ord = "end" THEN "empty" ELSE "occupied"

LEMMA EmptinessSteps ==
  ASSUME OneBlock, Good(block)
  PROVE  \A c \in Cluster : \A i \in 0 .. BlockSlots + 1 : EmptinessWalk[<<c, i>>] = EmptinessStep(c, i)
<1> DEFINE D == Cluster \X (0 .. BlockSlots + 1)
           At(p) == block[p[1]][p[2]]
           Then(p) == p[2] + (IF At(p).long THEN 2 ELSE 1)
           Body(w, p) ==
             IF p[2] >= BlockSlots
             THEN IF FatNext[p[1]] = None THEN "astray" ELSE w[<<FatNext[p[1]], 0>>]
             ELSE IF At(p).ord = "free" THEN w[<<p[1], Then(p)>>]
             ELSE IF At(p).ord = "end" THEN "empty" ELSE "occupied"
           Is(w) == w = [p \in D |-> Body(w, p)]
           S == {p \in D : p[2] < BlockSlots /\ At(p).ord = "free"}
           nxt == [p \in D |-> <<p[1], Then(p)>>]
           out == [p \in D |-> IF p[2] >= BlockSlots THEN "astray"
                               ELSE IF At(p).ord = "end" THEN "empty" ELSE "occupied"]
           rank == [p \in D |-> p[2]]
<1>1. BlockSlots \in Nat
  BY Positions
<1>2. rank \in [D -> 0 .. BlockSlots + 1]
  OBVIOUS
<1>3. ASSUME NEW p \in D, p \in S PROVE nxt[p] \in D /\ rank[nxt[p]] > rank[p]
  <2>1. p[1] \in Cluster /\ p[2] \in Nat /\ p[2] < BlockSlots
    BY <1>1, <1>3
  <2>2. Then(p) = p[2] + 1 \/ Then(p) = p[2] + 2
    OBVIOUS
  <2> HIDE DEF Then
  <2>3. nxt[p] = <<p[1], Then(p)>> /\ <<p[1], Then(p)>> \in D
    BY <1>1, <2>1, <2>2
  <2>4. rank[nxt[p]] = Then(p) /\ rank[p] = p[2]
    BY <2>3
  <2> HIDE DEF rank, nxt, D
  <2> QED BY <2>1, <2>2, <2>3, <2>4
<1>4. PICK w : Walks(w, D, S, nxt, out)
  <2> HIDE DEF D, S, nxt, out, rank
  <2>1. Climbs(D, BlockSlots + 1, rank, S, nxt)
    BY <1>1, <1>2, <1>3 DEF Climbs
  <2> QED BY <2>1, WalkExists
<1>5. Is(w)
  <2>1. ASSUME NEW p \in D PROVE (IF p \in S THEN w[nxt[p]] ELSE out[p]) = Body(w, p)
    <3>1. p[1] \in Cluster /\ p[2] \in Nat /\ FatNext[p[1]] = None
      BY <1>1 DEF OneBlock
    <3> QED BY <3>1, <1>1
  <2> HIDE DEF S, nxt, out, Body, D
  <2> QED BY <1>4, <2>1 DEF Walks
<1>6. \E v : Is(v)
  <2> HIDE DEF Is
  <2> QED BY <1>5
<1>7. EmptinessWalk = CHOOSE v : Is(v)
  BY DEF EmptinessWalk
<1>8. Is(EmptinessWalk)
  <2> HIDE DEF Is
  <2> QED BY <1>6, <1>7
<1> HIDE DEF EmptinessWalk
<1> SUFFICES ASSUME NEW c \in Cluster, NEW i \in 0 .. BlockSlots + 1
             PROVE  EmptinessWalk[<<c, i>>] = EmptinessStep(c, i)
  OBVIOUS
<1>9. EmptinessWalk[<<c, i>>] = Body(EmptinessWalk, <<c, i>>)
  <2> DEFINE W == EmptinessWalk
  <2>1. <<c, i>> \in D
    OBVIOUS
  <2>2. W = [p \in D |-> Body(W, p)]
    BY <1>8
  <2> HIDE DEF W, D, Body
  <2>3. W[<<c, i>>] = Body(W, <<c, i>>)
    BY <2>1, <2>2
  <2> QED BY <2>3 DEF W
<1> QED BY <1>9 DEF OneBlock, EmptinessStep

-----------------------------------------------------------------------------
(* Two free entries in a row.                                              *)

FreeWalk ==
    LET walk[p \in Cluster \X (0 .. BlockSlots + 1)] ==
            LET c == p[1]
                i == p[2]
            IN
            IF i >= BlockSlots THEN Astray
            ELSE IF ~IsFree(block[c][i])
                 THEN IF i + 1 < BlockSlots THEN walk[<<c, i + 1>>]
                      ELSE IF FatNext[c] = None THEN Astray ELSE walk[<<FatNext[c], 0>>]
            ELSE IF i + 1 >= BlockSlots THEN Astray
            ELSE IF IsFree(block[c][i + 1])
                 THEN [status |-> "found", cluster |-> c, at |-> i]
            ELSE walk[<<c, i + 2>>]
    IN walk

\* The step of the search from one position of a block to the next.
FreeStep(c, i) ==
    IF i + 1 >= BlockSlots THEN Astray
    ELSE IF ~IsFree(block[c][i]) THEN FreeWalk[<<c, i + 1>>]
    ELSE IF IsFree(block[c][i + 1]) THEN [status |-> "found", cluster |-> c, at |-> i]
    ELSE FreeWalk[<<c, i + 2>>]

LEMMA FreeSteps ==
  ASSUME OneBlock, Good(block)
  PROVE  \A c \in Cluster : \A i \in 0 .. BlockSlots + 1 : FreeWalk[<<c, i>>] = FreeStep(c, i)
<1> DEFINE D == Cluster \X (0 .. BlockSlots + 1)
           At(p) == block[p[1]][p[2]]
           Then(p) == p[2] + (IF IsFree(At(p)) THEN 2 ELSE 1)
           Body(w, p) ==
             IF p[2] >= BlockSlots THEN Astray
             ELSE IF ~IsFree(At(p))
                  THEN IF p[2] + 1 < BlockSlots THEN w[<<p[1], p[2] + 1>>]
                       ELSE IF FatNext[p[1]] = None THEN Astray ELSE w[<<FatNext[p[1]], 0>>]
             ELSE IF p[2] + 1 >= BlockSlots THEN Astray
             ELSE IF IsFree(block[p[1]][p[2] + 1])
                  THEN [status |-> "found", cluster |-> p[1], at |-> p[2]]
             ELSE w[<<p[1], p[2] + 2>>]
           Is(w) == w = [p \in D |-> Body(w, p)]
           S == {p \in D : /\ p[2] + 1 < BlockSlots
                           /\ (~IsFree(At(p)) \/ ~IsFree(block[p[1]][p[2] + 1]))}
           nxt == [p \in D |-> <<p[1], Then(p)>>]
           out == [p \in D |-> IF p[2] + 1 >= BlockSlots THEN Astray
                               ELSE [status |-> "found", cluster |-> p[1], at |-> p[2]]]
           rank == [p \in D |-> p[2]]
<1>1. BlockSlots \in Nat
  BY Positions
<1>2. rank \in [D -> 0 .. BlockSlots + 1]
  OBVIOUS
<1>3. ASSUME NEW p \in D, p \in S PROVE nxt[p] \in D /\ rank[nxt[p]] > rank[p]
  <2>1. p[1] \in Cluster /\ p[2] \in Nat /\ p[2] < BlockSlots
    BY <1>1, <1>3
  <2>2. Then(p) = p[2] + 1 \/ Then(p) = p[2] + 2
    OBVIOUS
  <2> HIDE DEF Then
  <2>3. nxt[p] = <<p[1], Then(p)>> /\ <<p[1], Then(p)>> \in D
    BY <1>1, <2>1, <2>2
  <2>4. rank[nxt[p]] = Then(p) /\ rank[p] = p[2]
    BY <2>3
  <2> HIDE DEF rank, nxt, D
  <2> QED BY <2>1, <2>2, <2>3, <2>4
<1>4. PICK w : Walks(w, D, S, nxt, out)
  <2> HIDE DEF D, S, nxt, out, rank
  <2>1. Climbs(D, BlockSlots + 1, rank, S, nxt)
    BY <1>1, <1>2, <1>3 DEF Climbs
  <2> QED BY <2>1, WalkExists
<1>5. Is(w)
  <2>1. ASSUME NEW p \in D PROVE (IF p \in S THEN w[nxt[p]] ELSE out[p]) = Body(w, p)
    <3>1. p[1] \in Cluster /\ p[2] \in Nat /\ FatNext[p[1]] = None
      BY <1>1 DEF OneBlock
    <3> QED BY <3>1, <1>1
  <2> HIDE DEF S, nxt, out, Body, D
  <2> QED BY <1>4, <2>1 DEF Walks
<1>6. \E v : Is(v)
  <2> HIDE DEF Is
  <2> QED BY <1>5
<1>7. FreeWalk = CHOOSE v : Is(v)
  BY DEF FreeWalk
<1>8. Is(FreeWalk)
  <2> HIDE DEF Is
  <2> QED BY <1>6, <1>7
<1> HIDE DEF FreeWalk
<1> SUFFICES ASSUME NEW c \in Cluster, NEW i \in 0 .. BlockSlots + 1
             PROVE  FreeWalk[<<c, i>>] = FreeStep(c, i)
  OBVIOUS
<1>9. FreeWalk[<<c, i>>] = Body(FreeWalk, <<c, i>>)
  <2> DEFINE W == FreeWalk
  <2>1. <<c, i>> \in D
    OBVIOUS
  <2>2. W = [p \in D |-> Body(W, p)]
    BY <1>8
  <2> HIDE DEF W, D, Body
  <2>3. W[<<c, i>>] = Body(W, <<c, i>>)
    BY <2>1, <2>2
  <2> QED BY <2>3 DEF W
<1>10. FatNext[c] = None
  BY DEF OneBlock
<1>11. FreeWalk[<<c, i>>] = IF i >= BlockSlots THEN Astray
                            ELSE IF ~IsFree(block[c][i])
                                 THEN IF i + 1 < BlockSlots THEN FreeWalk[<<c, i + 1>>] ELSE Astray
                            ELSE IF i + 1 >= BlockSlots THEN Astray
                            ELSE IF IsFree(block[c][i + 1])
                                 THEN [status |-> "found", cluster |-> c, at |-> i]
                            ELSE FreeWalk[<<c, i + 2>>]
  BY <1>9, <1>10
<1> HIDE DEF D, S, nxt, out, Body
<1> QED BY <1>1, <1>11 DEF FreeStep

\* A directory found empty has no entries but "." and "..".
LEMMA EmptinessFacts ==
  ASSUME OneBlock, Good(block), NEW f, f.first \in Cluster, Dotted(block[f.first]),
         Emptiness(f) = "empty"
  PROVE  Heads(block[f.first]) = {}
<1> DEFINE d == f.first
           b == block[d]
           W(i) == EmptinessWalk[<<d, i>>]
           S == {i \in 0 .. BlockSlots + 1 : W(i) = "empty" => \A k \in Heads(b) : k < i}
<1>1. GoodBlock(b) /\ BlockSlots \in Nat /\ BlockSlots >= 2
  BY Positions DEF Good
<1>2. \A i \in 0 .. BlockSlots + 1 : W(i) = EmptinessStep(d, i)
  BY EmptinessSteps
<1>3. \A k \in Heads(b) : k \in Position /\ b[k].name \in Used /\ k \in Int
  BY <1>1, HeadsAre, Positions DEF Heads, Visible
<1>4. W(2) = "empty"
  BY DEF Emptiness, EmptinessWalk
<1>5. ASSUME NEW i \in 0 .. BlockSlots + 1, \A j \in 0 .. BlockSlots + 1 : j > i => j \in S
      PROVE  i \in S
  <2> SUFFICES ASSUME W(i) = "empty", NEW k \in Heads(b) PROVE k < i
    OBVIOUS
  <2>1. W(i) = EmptinessStep(d, i)
    BY <1>2
  <2>2. i \in Position
    BY <1>1, <2>1, Positions DEF EmptinessStep
  <2>3. CASE b[i].ord = "free"
    <3>1. ~b[i].long /\ b[i].name \notin Used
      BY <1>1, <2>2, <2>3, SlotNames
    <3>2. W(i) = W(i + 1)
      BY <2>1, <2>2, <2>3, <3>1, Positions DEF EmptinessStep
    <3>3. i + 1 \in S
      BY <1>1, <1>5, <2>2, Positions
    <3> HIDE DEF W
    <3>4. k < i + 1
      BY <3>2, <3>3
    <3>5. k # i
      BY <1>3, <3>1
    <3> QED BY <1>3, <3>4, <3>5
  <2>4. CASE b[i].ord = "end"
    <3>1. b[k].ord # "end"
      BY <1>1, <1>3, SlotNames
    <3> QED BY <1>1, <1>3, <2>2, <2>4, <3>1, EndsStay, Positions
  <2>5. CASE b[i].ord \notin {"free", "end"}
    BY <2>1, <2>2, <2>5, Positions DEF EmptinessStep
  <2> QED BY <2>3, <2>4, <2>5
<1>6. 2 \in S
  <2> HIDE DEF S
  <2>1. \A i \in 0 .. BlockSlots + 1 : i \in S
    BY <1>1, <1>5, Backwards
  <2> QED BY <1>1, <2>1
<1>7. \A k \in Heads(b) : k = 0 \/ k = 1
  <2>1. \A k \in Heads(b) : k < 2
    BY <1>4, <1>6
  <2> QED BY <1>3, <2>1, Positions
<1> QED BY <1>3, <1>7, DirAssumption DEF Dotted

\* Two slots of b from i on, behind which nothing is, may become an entry.
FreeAt(b, i) ==
    /\ i \in Position /\ i + 1 \in Position
    /\ IsFree(b[i]) /\ IsFree(b[i + 1])
    /\ i = 0 \/ b[i - 1].ord # "end"

PairFrom(c, from, r) ==
    \/ r = Astray
    \/ /\ r.status = "found" /\ r.cluster = c
       /\ r.at >= from /\ FreeAt(block[c], r.at)

\* The pair that is found is where the entries may go on.
LEMMA FreePairFacts ==
  ASSUME OneBlock, Good(block), NEW c \in Cluster, NEW from \in 0 .. BlockSlots,
         from = 0 \/ block[c][from - 1].ord # "end"
  PROVE  PairFrom(c, from, FreePair(c, from))
<1> DEFINE b == block[c]
           W(i) == FreeWalk[<<c, i>>]
           S == {i \in 0 .. BlockSlots + 1 : i = 0 \/ b[i - 1].ord # "end" => PairFrom(c, i, W(i))}
<1>1. GoodBlock(b) /\ BlockSlots \in Nat /\ BlockSlots >= 2
  BY Positions DEF Good
<1>2. \A i \in 0 .. BlockSlots + 1 : W(i) = FreeStep(c, i)
  BY FreeSteps
<1>3. FreePair(c, from) = W(from)
  BY DEF FreePair, FreeWalk
<1>4. ASSUME NEW i \in 0 .. BlockSlots + 1, \A j \in 0 .. BlockSlots + 1 : j > i => j \in S
      PROVE  i \in S
  <2> SUFFICES ASSUME i = 0 \/ b[i - 1].ord # "end" PROVE PairFrom(c, i, W(i))
    OBVIOUS
  <2>1. W(i) = FreeStep(c, i)
    BY <1>2
  <2>2. CASE i + 1 >= BlockSlots
    BY <2>1, <2>2 DEF FreeStep, PairFrom
  <2>3. CASE i + 1 < BlockSlots
    <3>1. i \in Position /\ i + 1 \in Position /\ ~(i + 1 >= BlockSlots)
      BY <1>1, <2>3, Positions
    <3> HIDE DEF W
    <3>2. ASSUME NEW j \in {i + 1, i + 2}, b[j - 1].ord # "end", W(i) = W(j)
          PROVE  PairFrom(c, i, W(i))
      <4>1. j \in S /\ j > i
        BY <1>1, <1>4, <3>1, Positions
      <4>2. PairFrom(c, j, W(j))
        BY <3>2, <4>1
      <4>3. \A a \in Position : a \in Int
        BY Positions
      <4> QED BY <3>2, <4>1, <4>2, <4>3 DEF PairFrom, FreeAt
    <3>3. CASE ~IsFree(b[i])
      <4>1. W(i) = W(i + 1)
        BY <2>1, <3>1, <3>3 DEF FreeStep, W
      <4>2. (i + 1) - 1 = i /\ b[i].ord # "end"
        BY <3>1, <3>3, Positions DEF IsFree
      <4> QED BY <3>2, <4>1, <4>2
    <3>4. CASE IsFree(b[i]) /\ IsFree(b[i + 1])
      <4>1. W(i) = [status |-> "found", cluster |-> c, at |-> i]
        BY <2>1, <3>1, <3>4 DEF FreeStep
      <4> QED BY <3>1, <3>4, <4>1 DEF PairFrom, FreeAt
    <3>5. CASE IsFree(b[i]) /\ ~IsFree(b[i + 1])
      <4>1. W(i) = W(i + 2)
        BY <2>1, <3>1, <3>5 DEF FreeStep, W
      <4>2. (i + 2) - 1 = i + 1 /\ b[i + 1].ord # "end"
        BY <3>1, <3>5, Positions DEF IsFree
      <4> QED BY <3>2, <4>1, <4>2
    <3> QED BY <3>3, <3>4, <3>5
  <2> QED BY <1>1, <2>2, <2>3
<1>5. from \in S
  <2> HIDE DEF S
  <2>1. \A i \in 0 .. BlockSlots + 1 : i \in S
    BY <1>1, <1>4, Backwards
  <2> QED BY <1>1, <2>1
<1> QED BY <1>3, <1>5
-----------------------------------------------------------------------------
(* Listing.                                                                *)

ReadWalk(c) ==
    LET read[q \in (Cluster \cup {None}) \X Position] ==
            LET s == block[c][q[2]]
                wraps == q[2] + 1 >= BlockSlots
                n2 == IF wraps THEN FatNext[q[1]] ELSE q[1]
                j == IF wraps THEN 0 ELSE q[2] + 1
            IN
            IF wraps /\ q[1] = None THEN [status |-> "end"]
            ELSE IF s.ord = "free" THEN read[<<n2, j>>]
            ELSE IF s.long
                 THEN [status |-> "found", name |-> s.name, target |-> block[c][j].target,
                       next |-> n2, offset |-> j + 1]
            ELSE IF s.ord = "end" THEN [status |-> "end"]
            ELSE IF wraps THEN Astray
            ELSE [status |-> "found", name |-> s.name, target |-> s.target,
                  next |-> n2, offset |-> j]
    IN read

\* The step of a reading from one position of a block to the next.
ReadStep(c, n, i) ==
    LET s == block[c][i]
        wraps == i + 1 >= BlockSlots
        n2 == IF wraps THEN None ELSE n
        j == IF wraps THEN 0 ELSE i + 1
    IN
    IF wraps /\ n = None THEN [status |-> "end"]
    ELSE IF s.ord = "free" THEN ReadWalk(c)[<<n2, j>>]
    ELSE IF s.long
         THEN [status |-> "found", name |-> s.name, target |-> block[c][j].target,
               next |-> n2, offset |-> j + 1]
    ELSE IF s.ord = "end" THEN [status |-> "end"]
    ELSE IF wraps THEN Astray
    ELSE [status |-> "found", name |-> s.name, target |-> s.target,
          next |-> n2, offset |-> j]

LEMMA ReadSteps ==
  ASSUME OneBlock, Good(block), NEW c \in Cluster
  PROVE  \A n \in Cluster \cup {None} : \A i \in Position : ReadWalk(c)[<<n, i>>] = ReadStep(c, n, i)
<1> DEFINE D == (Cluster \cup {None}) \X Position
           At(q) == block[c][q[2]]
           Wraps(q) == q[2] + 1 >= BlockSlots
           Then(q) == IF Wraps(q) THEN 0 ELSE q[2] + 1
           After(q) == IF Wraps(q) THEN FatNext[q[1]] ELSE q[1]
           Next1(q) == IF Wraps(q) THEN None ELSE q[1]
           Body(w, q) ==
             IF Wraps(q) /\ q[1] = None THEN [status |-> "end"]
             ELSE IF At(q).ord = "free" THEN w[<<After(q), Then(q)>>]
             ELSE IF At(q).long
                  THEN [status |-> "found", name |-> At(q).name, target |-> block[c][Then(q)].target,
                        next |-> After(q), offset |-> Then(q) + 1]
             ELSE IF At(q).ord = "end" THEN [status |-> "end"]
             ELSE IF Wraps(q) THEN Astray
             ELSE [status |-> "found", name |-> At(q).name, target |-> At(q).target,
                   next |-> After(q), offset |-> Then(q)]
           Is(w) == w = [q \in D |-> Body(w, q)]
           S == {q \in D : ~(Wraps(q) /\ q[1] = None) /\ At(q).ord = "free"}
           nxt == [q \in D |-> <<Next1(q), Then(q)>>]
           out == [q \in D |->
             IF Wraps(q) /\ q[1] = None THEN [status |-> "end"]
             ELSE IF At(q).long
                  THEN [status |-> "found", name |-> At(q).name, target |-> block[c][Then(q)].target,
                        next |-> Next1(q), offset |-> Then(q) + 1]
             ELSE IF At(q).ord = "end" THEN [status |-> "end"]
             ELSE IF Wraps(q) THEN Astray
             ELSE [status |-> "found", name |-> At(q).name, target |-> At(q).target,
                   next |-> Next1(q), offset |-> Then(q)]]
           rank == [q \in D |-> IF q[1] = None THEN BlockSlots + q[2] ELSE q[2]]
<1>1. BlockSlots \in Nat /\ BlockSlots >= 2 /\ 0 \in Position
      /\ \A i \in Position : i \in Nat /\ i < BlockSlots /\ (i + 1 < BlockSlots => i + 1 \in Position)
  BY Positions
<1>2. rank \in [D -> 0 .. 2 * BlockSlots]
  <2>1. ASSUME NEW q \in D PROVE (IF q[1] = None THEN BlockSlots + q[2] ELSE q[2]) \in 0 .. 2 * BlockSlots
    <3>1. q[2] \in Position
      OBVIOUS
    <3> QED BY <1>1, <3>1
  <2> HIDE DEF D
  <2> QED BY <2>1
<1>3. ASSUME NEW q \in D, q \in S PROVE nxt[q] \in D /\ rank[nxt[q]] > rank[q]
  <2>1. q[1] \in Cluster \cup {None} /\ q[2] \in Position
    OBVIOUS
  <2>2. Next1(q) \in Cluster \cup {None} /\ Then(q) \in Position
    BY <1>1, <2>1
  <2>3. nxt[q] = <<Next1(q), Then(q)>> /\ nxt[q] \in D
    BY <2>2
  <2>4. rank[nxt[q]] = IF Next1(q) = None THEN BlockSlots + Then(q) ELSE Then(q)
    <3> HIDE DEF Next1, Then
    <3> QED BY <2>2, <2>3
  <2>5. rank[q] = IF q[1] = None THEN BlockSlots + q[2] ELSE q[2]
    OBVIOUS
  <2>6. ~(Wraps(q) /\ q[1] = None)
    BY <1>3
  <2> HIDE DEF rank, nxt, D, S
  <2>7. CASE Wraps(q)
    BY <1>1, <2>1, <2>3, <2>4, <2>5, <2>6, <2>7
  <2>8. CASE ~Wraps(q)
    BY <1>1, <2>1, <2>3, <2>4, <2>5, <2>8
  <2> QED BY <2>7, <2>8
<1>4. PICK w : Walks(w, D, S, nxt, out)
  <2> HIDE DEF D, S, nxt, out, rank
  <2>1. Climbs(D, 2 * BlockSlots, rank, S, nxt)
    BY <1>1, <1>2, <1>3 DEF Climbs
  <2> QED BY <2>1, WalkExists
<1>5. ASSUME NEW q \in D, ~(Wraps(q) /\ q[1] = None) PROVE After(q) = Next1(q)
  BY <1>5 DEF OneBlock
<1>6. Is(w)
  <2>1. ASSUME NEW q \in D PROVE (IF q \in S THEN w[nxt[q]] ELSE out[q]) = Body(w, q)
    <3>1. q \in S <=> ~(Wraps(q) /\ q[1] = None) /\ At(q).ord = "free"
      OBVIOUS
    <3>2. nxt[q] = <<Next1(q), Then(q)>>
      OBVIOUS
    <3>3. ~(Wraps(q) /\ q[1] = None) => After(q) = Next1(q)
      BY <1>5
    <3>4. out[q] =
             IF Wraps(q) /\ q[1] = None THEN [status |-> "end"]
             ELSE IF At(q).long
                  THEN [status |-> "found", name |-> At(q).name, target |-> block[c][Then(q)].target,
                        next |-> Next1(q), offset |-> Then(q) + 1]
             ELSE IF At(q).ord = "end" THEN [status |-> "end"]
             ELSE IF Wraps(q) THEN Astray
             ELSE [status |-> "found", name |-> At(q).name, target |-> At(q).target,
                   next |-> Next1(q), offset |-> Then(q)]
      OBVIOUS
    <3> HIDE DEF S, nxt, out, Wraps, After, Next1, Then, At
    <3> QED BY <3>1, <3>2, <3>3, <3>4
  <2> HIDE DEF S, nxt, out, Body, D
  <2> QED BY <1>4, <2>1 DEF Walks
<1>7. \E v : Is(v)
  <2> HIDE DEF Is
  <2> QED BY <1>6
<1>8. ReadWalk(c) = CHOOSE v : Is(v)
  BY DEF ReadWalk
<1>9. Is(ReadWalk(c))
  <2> HIDE DEF Is
  <2> QED BY <1>7, <1>8
<1> HIDE DEF ReadWalk
<1> SUFFICES ASSUME NEW n \in Cluster \cup {None}, NEW i \in Position
             PROVE  ReadWalk(c)[<<n, i>>] = ReadStep(c, n, i)
  OBVIOUS
<1>10. ReadWalk(c)[<<n, i>>] = Body(ReadWalk(c), <<n, i>>)
  <2> DEFINE W == ReadWalk(c)
  <2>1. <<n, i>> \in D
    OBVIOUS
  <2>2. W = [q \in D |-> Body(W, q)]
    BY <1>9
  <2> HIDE DEF W, D, Body
  <2>3. W[<<n, i>>] = Body(W, <<n, i>>)
    BY <2>1, <2>2
  <2> QED BY <2>3 DEF W
<1>11. ~(i + 1 >= BlockSlots /\ n = None) => (IF i + 1 >= BlockSlots THEN FatNext[n] ELSE n)
                                               = (IF i + 1 >= BlockSlots THEN None ELSE n)
  BY DEF OneBlock
<1> HIDE DEF D, S, nxt, out, rank, Is
<1> QED BY <1>10, <1>11 DEF ReadStep

\* ReadDirectory goes on in the one block, and not behind it.
LEMMA ReadIs ==
  ASSUME OneBlock, Good(block), NEW root, NEW source \in Cluster,
         NEW n \in Cluster \cup {None}, NEW o \in 0 .. BlockSlots
  PROVE  ReadDirectory(root, source, n, o) =
            IF o = BlockSlots \/ (~root /\ n = None) THEN Astray
            ELSE ReadWalk(IF root THEN source ELSE n)[<<n, o>>]
<1>1. BlockSlots \in Nat /\ (o >= BlockSlots <=> o = BlockSlots)
  BY Positions
<1>2. None \notin Cluster
  BY DirAssumption
<1>3. CASE o = BlockSlots
  <2>1. n = None \/ FatNext[n] = None
    BY DEF OneBlock
  <2> QED BY <1>1, <1>3, <2>1 DEF ReadDirectory
<1>4. CASE o # BlockSlots
  <2> DEFINE over == o >= BlockSlots
             c == IF over THEN FatNext[n] ELSE IF root THEN source ELSE n
             m == IF over THEN c ELSE n
             i == IF over THEN 0 ELSE o
  <2>1. ReadDirectory(root, source, n, o) =
           IF (over /\ n = None) \/ c = None THEN Astray ELSE ReadWalk(c)[<<m, i>>]
    BY DEF ReadDirectory, ReadWalk
  <2>2. ~over /\ c = (IF root THEN source ELSE n) /\ m = n /\ i = o
    BY <1>1, <1>4
  <2> HIDE DEF over, c, m, i
  <2> QED BY <1>2, <1>4, <2>1, <2>2
<1> QED BY <1>3, <1>4

\* What is read has a place behind it.
LEMMA ReadTypes ==
  ASSUME OneBlock, Good(block), NEW root, NEW source \in Cluster,
         NEW n \in Cluster \cup {None}, NEW o \in 0 .. BlockSlots
  PROVE  LET r == ReadDirectory(root, source, n, o) IN
         \/ r.status \in {"end", "astray"}
         \/ r.status = "found" /\ r.next \in Cluster \cup {None} /\ r.offset \in 0 .. BlockSlots
<1> DEFINE c == IF root THEN source ELSE n
           Right(r) == \/ r.status \in {"end", "astray"}
                       \/ /\ r.status = "found"
                          /\ r.next \in Cluster \cup {None} /\ r.offset \in 0 .. BlockSlots
           W(m, i) == ReadWalk(c)[<<m, i>>]
           S == {i \in 0 .. BlockSlots - 1 : Right(W(None, i))}
           T == {i \in 0 .. BlockSlots - 1 : Right(W(n, i))}
<1> SUFFICES Right(ReadDirectory(root, source, n, o))
  BY Zenon
<1>1. BlockSlots \in Nat /\ BlockSlots >= 2 /\ Position = 0 .. BlockSlots - 1 /\ BlockSlots - 1 \in Nat
  BY Positions DEF Position
<1>2. CASE o = BlockSlots \/ (~root /\ n = None)
  <2>1. ReadDirectory(root, source, n, o) = Astray
    BY <1>2, ReadIs
  <2> QED BY <2>1 DEF Astray
<1>3. CASE ~(o = BlockSlots \/ (~root /\ n = None))
  <2>1. c \in Cluster /\ o \in Position /\ GoodBlock(block[c])
    BY <1>1, <1>3 DEF Good
  <2>2. ReadDirectory(root, source, n, o) = W(n, o)
    BY <1>3, ReadIs
  <2>3. \A m \in Cluster \cup {None} : \A i \in Position : W(m, i) = ReadStep(c, m, i)
    BY <2>1, ReadSteps
  <2> HIDE DEF c, W
  <2>4. ASSUME NEW m \in Cluster \cup {None}, NEW i \in Position, ~block[c][i].ord = "free" \/ (i + 1 >= BlockSlots /\ m = None)
        PROVE  Right(W(m, i))
    <3>1. block[c][i].long => i + 1 \in Position
      BY <2>1 DEF GoodBlock, InPairs
    <3>2. i \in 0 .. BlockSlots - 1
      BY <1>1
    <3>3. W(m, i) = ReadStep(c, m, i)
      BY <2>3
    <3> HIDE DEF W
    <3> QED BY <1>1, <2>4, <3>1, <3>2, <3>3 DEF ReadStep, Astray
  <2>5. ASSUME NEW m \in Cluster \cup {None}, NEW i \in Position, block[c][i].ord = "free",
               i + 1 < BlockSlots
        PROVE  i + 1 \in 0 .. BlockSlots - 1 /\ W(m, i) = W(m, i + 1)
    <3>1. W(m, i) = ReadStep(c, m, i)
      BY <2>3
    <3> QED BY <1>1, <2>5, <3>1 DEF ReadStep, W
  <2>6. ASSUME NEW m \in Cluster, NEW i \in Position, block[c][i].ord = "free",
               ~(i + 1 < BlockSlots)
        PROVE  W(m, i) = W(None, 0)
    <3>1. W(m, i) = ReadStep(c, m, i)
      BY <2>3
    <3> QED BY <1>1, <2>6, <3>1, DirAssumption DEF ReadStep, W
  <2> HIDE DEF Right
  <2>7. \A i \in 0 .. BlockSlots - 1 : i \in S
    <3>1. ASSUME NEW i \in 0 .. BlockSlots - 1, \A j \in 0 .. BlockSlots - 1 : j > i => j \in S
          PROVE  i \in S
      <4>1. CASE block[c][i].ord = "free" /\ i + 1 < BlockSlots
        <5>1. i + 1 \in 0 .. BlockSlots - 1 /\ i + 1 > i /\ W(None, i) = W(None, i + 1)
          BY <1>1, <2>5, <4>1
        <5> QED BY <3>1, <5>1
      <4>2. CASE ~(block[c][i].ord = "free" /\ i + 1 < BlockSlots)
        <5>1. i \in Position /\ (~block[c][i].ord = "free" \/ i + 1 >= BlockSlots)
          BY <1>1, <4>2
        <5>2. Right(W(None, i))
          BY <2>4, <5>1
        <5> QED BY <5>2
      <4> QED BY <4>1, <4>2
    <3> HIDE DEF S
    <3> QED BY <1>1, <3>1, Backwards
  <2>8. \A i \in 0 .. BlockSlots - 1 : i \in T
    <3>1. ASSUME NEW i \in 0 .. BlockSlots - 1, \A j \in 0 .. BlockSlots - 1 : j > i => j \in T
          PROVE  i \in T
      <4>1. CASE block[c][i].ord = "free" /\ i + 1 < BlockSlots
        <5>1. i + 1 \in 0 .. BlockSlots - 1 /\ i + 1 > i /\ W(n, i) = W(n, i + 1)
          BY <1>1, <2>5, <4>1
        <5> QED BY <3>1, <5>1
      <4>2. CASE block[c][i].ord = "free" /\ ~(i + 1 < BlockSlots) /\ n \in Cluster
        <5>1. W(n, i) = W(None, 0) /\ 0 \in S
          BY <1>1, <2>6, <2>7, <4>2
        <5> QED BY <5>1
      <4>3. CASE block[c][i].ord # "free" \/ (~(i + 1 < BlockSlots) /\ n = None)
        BY <1>1, <2>4, <4>3
      <4> QED BY <4>1, <4>2, <4>3
    <3> HIDE DEF T
    <3> QED BY <1>1, <3>1, Backwards
  <2> QED BY <1>1, <2>1, <2>2, <2>8
<1> QED BY <1>2, <1>3

\* The entry k is what is read from place i of the block b, before place j.
ReadAt(b, i, k, r) ==
    /\ k \in Position /\ r.name = b[k].name
    /\ r.target = b[IF b[k].long THEN k + 1 ELSE k].target
    /\ r.offset \in Position /\ r.offset > i /\ Reached(b, r.offset)
    /\ k \in Heads(b) \/ r.name \in {Dot, DotDot}
    /\ \A m \in Heads(b) : m >= i => m = k \/ m >= r.offset

ReadFrom(b, n, i, r) ==
    \/ r.status = "end" /\ \A m \in Heads(b) : m < i
    \/ r.status = "found" /\ r.next = n /\ \E k \in Position : k >= i /\ ReadAt(b, i, k, r)

\* A block that has an end is read entry by entry.
LEMMA ReadFacts ==
  ASSUME OneBlock, Good(block), NEW c \in Cluster, Visible(block[c]) # Position,
         NEW n \in Cluster, NEW i \in Position, Reached(block[c], i)
  PROVE  ReadFrom(block[c], n, i, ReadWalk(c)[<<n, i>>])
<1> DEFINE b == block[c]
           W(m) == ReadWalk(c)[<<n, m>>]
           S == {m \in 0 .. BlockSlots - 1 : Reached(b, m) => ReadFrom(b, n, m, W(m))}
<1>1. GoodBlock(b) /\ BlockSlots - 1 \in Nat /\ Position = 0 .. BlockSlots - 1 /\ BlockSlots \in Nat
  BY Positions DEF Good, Position
<1>2. b[BlockSlots - 1].ord = "end"
  BY <1>1, NoEnd
<1>3. \A m \in Position : W(m) = ReadStep(c, n, m)
  BY ReadSteps
<1>4. n # None
  BY DirAssumption
<1> HIDE DEF W
<1>5. \A k \in Heads(b) : k \in Position
  BY DEF Heads, Visible
<1>6. ASSUME NEW m \in 0 .. BlockSlots - 1, \A j \in 0 .. BlockSlots - 1 : j > m => j \in S
      PROVE  m \in S
  <2> SUFFICES ASSUME Reached(b, m) PROVE ReadFrom(b, n, m, W(m))
    OBVIOUS
  <2>1. m \in Position /\ W(m) = ReadStep(c, n, m)
    BY <1>1, <1>3
  <2>2. CASE b[m].ord = "end"
    <3>1. ~b[m].long
      BY <1>1, <2>1, <2>2, SlotNames
    <3>2. W(m) = [status |-> "end"]
      BY <2>1, <2>2, <3>1 DEF ReadStep
    <3>3. \A k \in Heads(b) : k < m
      <4> SUFFICES ASSUME NEW k \in Heads(b), k >= m PROVE FALSE
        BY <1>1, <1>5, <2>1
      <4>1. k \in Position /\ b[k].ord = "end"
        BY <1>1, <1>5, <2>1, <2>2, EndsStay
      <4> QED BY <1>1, <4>1, HeadsAre, SlotNames
    <3> QED BY <3>2, <3>3 DEF ReadFrom
  <2>3. CASE b[m].ord # "end"
    <3> DEFINE j == m + (IF b[m].long THEN 2 ELSE 1)
    <3>1. m # BlockSlots - 1
      BY <1>2, <2>3
    <3>2. /\ Reached(b, j) /\ j > m
          /\ \A k \in Heads(b) : k >= m => k = m \/ k >= j
          /\ j >= BlockSlots => Visible(b) = Position
      BY <1>1, <2>1, <2>3, StepOver
    <3>3. ~(m + 1 >= BlockSlots) /\ m + 1 \in Position
      BY <1>1, <2>1, <3>1
    <3>4. j \in Position /\ j \in 0 .. BlockSlots - 1
      BY <1>1, <2>1, <3>2
    <3>5. b[m].long => j = (m + 1) + 1
      BY <1>1, <2>1
    <3>6. ~b[m].long => j = m + 1
      BY <1>1, <2>1
    <3> HIDE DEF j, b, S
    <3>7. CASE b[m].ord = "free"
      <4>1. ~b[m].long /\ b[m].name \notin Used
        BY <1>1, <2>1, <3>7, SlotNames
      <4>2. W(m) = W(j)
        BY <2>1, <3>3, <3>6, <3>7, <4>1 DEF ReadStep, W, b
      <4>3. ReadFrom(b, n, j, W(j))
        BY <1>6, <3>2, <3>4 DEF S
      <4>4. m \notin Heads(b)
        BY <1>1, <2>1, <4>1, HeadsAre
      <4>5. \A k \in Heads(b) : k >= m => k >= j
        BY <3>2, <4>4
      <4>6. CASE W(j).status = "end" /\ \A k \in Heads(b) : k < j
        <5>1. \A k \in Heads(b) : k < m
          BY <1>1, <1>5, <2>1, <3>4, <4>5, <4>6
        <5> QED BY <4>2, <4>6, <5>1 DEF ReadFrom
      <4>7. CASE W(j).status = "found" /\ W(j).next = n /\ \E k \in Position : k >= j /\ ReadAt(b, j, k, W(j))
        <5>1. PICK k \in Position : k >= j /\ ReadAt(b, j, k, W(j))
          BY <4>7
        <5>2. k >= m /\ W(j).offset > m
          BY <1>1, <2>1, <3>2, <3>4, <5>1 DEF ReadAt
        <5>3. \A x \in Heads(b) : x >= m => x = k \/ x >= W(j).offset
          BY <4>5, <5>1 DEF ReadAt
        <5>4. ReadAt(b, m, k, W(j))
          BY <5>1, <5>2, <5>3 DEF ReadAt
        <5> QED BY <4>2, <4>7, <5>2, <5>4 DEF ReadFrom
      <4> QED BY <4>3, <4>6, <4>7 DEF ReadFrom
    <3>8. CASE b[m].ord # "free"
      <4>1. b[m].ord = "used" /\ b[m].name \in Used \cup {Dot, DotDot}
        BY <1>1, <2>1, <2>3, <3>8, SlotNames
      <4>2. W(m) = [status |-> "found", name |-> b[m].name,
                    target |-> b[IF b[m].long THEN m + 1 ELSE m].target, next |-> n, offset |-> j]
        <5>1. CASE b[m].long
          BY <2>1, <3>3, <3>5, <3>8, <5>1 DEF ReadStep, b
        <5>2. CASE ~b[m].long
          BY <2>1, <2>3, <3>3, <3>6, <3>8, <5>2 DEF ReadStep, b
        <5> QED BY <5>1, <5>2
      <4>3. m \in Heads(b) \/ b[m].name \in {Dot, DotDot}
        BY <1>1, <2>1, <4>1, HeadsAre DEF Reached
      <4>4. ReadAt(b, m, m, W(m))
        BY <2>1, <3>2, <3>4, <4>2, <4>3 DEF ReadAt
      <4>5. m >= m
        BY <1>1, <2>1
      <4> QED BY <2>1, <4>2, <4>4, <4>5 DEF ReadFrom
    <3> QED BY <3>7, <3>8
  <2> QED BY <2>2, <2>3
<1>7. i \in S
  <2> HIDE DEF S
  <2>1. \A m \in 0 .. BlockSlots - 1 : m \in S
    BY <1>1, <1>6, Backwards
  <2> QED BY <1>1, <2>1
<1> QED BY <1>7 DEF W

ListWalk(f) ==
    LET list[q \in (Cluster \cup {None}) \X (0 .. BlockSlots) \X (0 .. 2 * BlockSlots)] ==
            LET r == ReadDirectory(f.root, f.source, q[1], q[2]) IN
            IF r.status = "end" \/ q[3] = 0 THEN [ends |-> TRUE, shows |-> {}]
            ELSE IF r.status = "astray" THEN [ends |-> FALSE, shows |-> {}]
            ELSE LET rest == list[<<r.next, r.offset, q[3] - 1>>] IN
                 [rest EXCEPT !.shows = @ \cup {<<r.name, r.target>>}]
    IN list

Extended(rest, r) == [rest EXCEPT !.shows = @ \cup {<<r.name, r.target>>}]

\* The step of a listing, when there are k entries to go at most.
ListStep(f, n, o, k) ==
    LET r == ReadDirectory(f.root, f.source, n, o) IN
    IF r.status = "end" \/ k = 0 THEN [ends |-> TRUE, shows |-> {}]
    ELSE IF r.status = "astray" THEN [ends |-> FALSE, shows |-> {}]
    ELSE Extended(ListWalk(f)[<<r.next, r.offset, k - 1>>], r)

LEMMA ListSteps ==
  ASSUME OneBlock, Good(block), NEW f, f.source \in Cluster
  PROVE  \A n \in Cluster \cup {None} : \A o \in 0 .. BlockSlots : \A k \in 0 .. 2 * BlockSlots :
            ListWalk(f)[<<n, o, k>>] = ListStep(f, n, o, k)
<1> DEFINE C == Cluster \cup {None}
           O == 0 .. BlockSlots
           N == 2 * BlockSlots
           R(n, o) == ReadDirectory(f.root, f.source, n, o)
           Body(w, q) ==
             IF R(q[1], q[2]).status = "end" \/ q[3] = 0 THEN [ends |-> TRUE, shows |-> {}]
             ELSE IF R(q[1], q[2]).status = "astray" THEN [ends |-> FALSE, shows |-> {}]
             ELSE [w[<<R(q[1], q[2]).next, R(q[1], q[2]).offset, q[3] - 1>>] EXCEPT
                      !.shows = @ \cup {<<R(q[1], q[2]).name, R(q[1], q[2]).target>>}]
           D(m) == C \X O \X (0 .. m)
           Is(w, m) == w = [q \in D(m) |-> Body(w, q)]
           I == {m \in Nat : \E w : Is(w, m)}
<1>1. N \in Nat
  BY Positions
<1>2. \A n \in C : \A o \in O :
         \/ R(n, o).status \in {"end", "astray"}
         \/ R(n, o).status = "found" /\ R(n, o).next \in C /\ R(n, o).offset \in O
  BY ReadTypes
<1> HIDE DEF R, C, O, N
<1>3. ASSUME NEW u, NEW v, NEW m \in Nat, NEW q \in D(m),
             q[3] # 0 => \A p \in D(q[3] - 1) : u[p] = v[p]
      PROVE  Body(u, q) = Body(v, q)
  <2>1. q[1] \in C /\ q[2] \in O /\ q[3] \in 0 .. m
    BY <1>3
  <2>2. CASE R(q[1], q[2]).status = "found" /\ q[3] # 0
    <3>1. <<R(q[1], q[2]).next, R(q[1], q[2]).offset, q[3] - 1>> \in D(q[3] - 1)
      BY <1>2, <2>1, <2>2
    <3>2. u[<<R(q[1], q[2]).next, R(q[1], q[2]).offset, q[3] - 1>>] =
          v[<<R(q[1], q[2]).next, R(q[1], q[2]).offset, q[3] - 1>>]
      <4> HIDE DEF D
      <4> QED BY <1>3, <2>2, <3>1
    <3> QED BY <3>2
  <2>3. CASE ~(R(q[1], q[2]).status = "found" /\ q[3] # 0)
    BY <1>2, <2>1, <2>3
  <2> QED BY <2>2, <2>3
<1>4. 0 \in I
  <2> DEFINE w == [q \in D(0) |-> [ends |-> TRUE, shows |-> {}]]
  <2>1. \A q \in D(0) : q[3] = 0
    OBVIOUS
  <2>2. Is(w, 0)
    <3> HIDE DEF D
    <3> QED BY <2>1
  <2>3. \E v : Is(v, 0)
    <3> HIDE DEF Is, w
    <3> QED BY <2>2
  <2> QED BY <2>3
<1>5. ASSUME NEW m \in I PROVE m + 1 \in I
  <2>1. m \in Nat /\ \E w : Is(w, m)
    OBVIOUS
  <2>2. PICK w : Is(w, m)
    BY <2>1
  <2> DEFINE v == [q \in D(m + 1) |-> IF q \in D(m) THEN w[q] ELSE Body(w, q)]
  <2>3. D(m) \subseteq D(m + 1) /\ \A k \in 0 .. m : D(k) \subseteq D(m)
    BY <2>1
  <2>4. \A q \in D(m) : v[q] = w[q]
    <3> HIDE DEF D, Body
    <3> QED BY <2>3
  <2>5. ASSUME NEW q \in D(m + 1) PROVE v[q] = Body(v, q)
    <3>1. q[3] \in 0 .. m + 1 /\ (q[3] # 0 => q[3] - 1 \in 0 .. m)
      BY <2>1
    <3>2. q[3] # 0 => \A p \in D(q[3] - 1) : w[p] = v[p]
      <4> HIDE DEF D, v
      <4> QED BY <2>3, <2>4, <3>1
    <3>3. Body(w, q) = Body(v, q)
      <4>1. m + 1 \in Nat
        BY <2>1
      <4> HIDE DEF Body, D, v
      <4> QED BY <1>3, <3>2, <4>1
    <3>4. q \in D(m) => w[q] = Body(w, q)
      <4> HIDE DEF D, Body, v
      <4> QED BY <2>2
    <3>5. v[q] = IF q \in D(m) THEN w[q] ELSE Body(w, q)
      <4> HIDE DEF D, Body
      <4> QED BY <2>5
    <3> HIDE DEF v, D, Body
    <3> QED BY <3>3, <3>4, <3>5
  <2>6. Is(v, m + 1)
    <3>1. v = [q \in D(m + 1) |-> v[q]]
      <4> HIDE DEF D, Body
      <4> QED OBVIOUS
    <3> HIDE DEF v, D, Body
    <3> QED BY <2>5, <3>1
  <2>7. \E u : Is(u, m + 1)
    <3> HIDE DEF v, Is
    <3> QED BY <2>6
  <2> HIDE DEF Is, v
  <2> QED BY <2>1, <2>7
<1>6. N \in I
  <2>1. I \in SUBSET Nat
    OBVIOUS
  <2> HIDE DEF I
  <2>2. \A m \in 0 .. N : m \in I
    BY <1>1, <1>4, <1>5, <2>1, UpTo
  <2> QED BY <1>1, <2>2
<1>7. \E v : Is(v, N)
  BY <1>6
<1>8. ListWalk(f) = CHOOSE v : Is(v, N)
  BY DEF ListWalk, R, C, O, N
<1>9. Is(ListWalk(f), N)
  <2> HIDE DEF Is
  <2> QED BY <1>7, <1>8
<1> HIDE DEF ListWalk
<1> SUFFICES ASSUME NEW n \in C, NEW o \in O, NEW k \in 0 .. N
             PROVE  ListWalk(f)[<<n, o, k>>] = ListStep(f, n, o, k)
  BY DEF C, O, N
<1>10. ListWalk(f)[<<n, o, k>>] = Body(ListWalk(f), <<n, o, k>>)
  <2> DEFINE W == ListWalk(f)
  <2>1. <<n, o, k>> \in D(N)
    OBVIOUS
  <2>2. W = [q \in D(N) |-> Body(W, q)]
    BY <1>9
  <2> HIDE DEF W, D, Body
  <2>3. W[<<n, o, k>>] = Body(W, <<n, o, k>>)
    BY <2>1, <2>2
  <2> QED BY <2>3 DEF W
<1> QED BY <1>10 DEF ListStep, Extended, R

\* The name and the object of the entry at i.
Pair(b, i) == <<b[i].name, b[IF b[i].long THEN i + 1 ELSE i].target>>
Pairs(b) == {Pair(b, i) : i \in Heads(b)}

Shown(listing) == {x \in listing.shows : x[1] \notin {Dot, DotDot}}

\* What is listed are the entries from i on, and maybe "." and "..".
ShownFrom(b, i, w) ==
    /\ w = [ends |-> TRUE, shows |-> w.shows]
    /\ \A x : x \in w.shows /\ x[1] \notin {Dot, DotDot} <=> \E m \in Heads(b) : m >= i /\ x = Pair(b, m)

LEMMA Extends ==
  ASSUME NEW T, NEW r
  PROVE  Extended([ends |-> TRUE, shows |-> T], r) = [ends |-> TRUE, shows |-> T \cup {<<r.name, r.target>>}]
<1> DEFINE u == Extended([ends |-> TRUE, shows |-> T], r)
           U == T \cup {<<r.name, r.target>>}
<1>1. u = [[ends |-> TRUE, shows |-> T] EXCEPT !.shows = U]
  BY DEF Extended
<1> HIDE DEF u, U
<1>2. u = [ends |-> TRUE, shows |-> U]
  BY <1>1
<1> QED BY <1>2 DEF u, U

\* A listing of a block that has an end shows its entries, each and no others.
LEMMA ListFacts ==
  ASSUME OneBlock, Good(block), NEW f, f.source \in Cluster, f.first \in Cluster, NEW c,
         c = (IF f.root THEN f.source ELSE f.first), Visible(block[c]) # Position
  PROVE  Shown(Listing(f)) = Pairs(block[c])
<1> DEFINE b == block[c]
           n == f.first
           W(i, k) == ListWalk(f)[<<n, i, k>>]
           R(i) == ReadDirectory(f.root, f.source, n, i)
           S == {i \in 0 .. BlockSlots - 1 : Reached(b, i) =>
                    \A k \in 0 .. 2 * BlockSlots : k >= BlockSlots - i => ShownFrom(b, i, W(i, k))}
<1>1. /\ GoodBlock(b) /\ BlockSlots - 1 \in Nat /\ Position = 0 .. BlockSlots - 1 /\ BlockSlots \in Nat
      /\ c \in Cluster /\ n \in Cluster /\ n # None
  BY Positions, DirAssumption DEF Good, Position
<1>2. \A i \in Position : Reached(b, i) => ReadFrom(b, n, i, R(i))
  <2> SUFFICES ASSUME NEW i \in Position, Reached(b, i) PROVE ReadFrom(b, n, i, R(i))
    OBVIOUS
  <2>1. i \in 0 .. BlockSlots /\ i # BlockSlots
    BY <1>1
  <2>2. R(i) = ReadWalk(c)[<<n, i>>]
    BY <1>1, <2>1, ReadIs
  <2> QED BY <1>1, <2>2, ReadFacts
<1>3. \A i \in Position : \A k \in 0 .. 2 * BlockSlots :
         W(i, k) = IF R(i).status = "end" \/ k = 0 THEN [ends |-> TRUE, shows |-> {}]
                   ELSE IF R(i).status = "astray" THEN [ends |-> FALSE, shows |-> {}]
                   ELSE Extended(ListWalk(f)[<<R(i).next, R(i).offset, k - 1>>], R(i))
  <2>1. \A i \in Position : \A k \in 0 .. 2 * BlockSlots : W(i, k) = ListStep(f, n, i, k)
    BY <1>1, ListSteps
  <2> QED BY <2>1 DEF ListStep
<1> HIDE DEF R
<1>4. \A m \in Heads(b) : m \in Position /\ b[m].name \notin {Dot, DotDot}
  <2>1. \A m \in Heads(b) : m \in Position
    BY DEF Heads, Visible
  <2> QED BY <1>1, <2>1, HeadsAre, SlotNames
<1>5. ASSUME NEW i \in 0 .. BlockSlots - 1, \A j \in 0 .. BlockSlots - 1 : j > i => j \in S
      PROVE  i \in S
  <2> SUFFICES ASSUME Reached(b, i), NEW k \in 0 .. 2 * BlockSlots, k >= BlockSlots - i
               PROVE  ShownFrom(b, i, W(i, k))
    OBVIOUS
  <2>1. i \in Position /\ k # 0 /\ k - 1 \in 0 .. 2 * BlockSlots
    BY <1>1
  <2>2. ReadFrom(b, n, i, R(i))
    BY <1>2, <2>1
  <2> HIDE DEF b, n
  <2>3. CASE R(i).status = "end" /\ \A m \in Heads(b) : m < i
    <3>1. W(i, k) = [ends |-> TRUE, shows |-> {}]
      BY <1>3, <2>1, <2>3
    <3>2. \A m \in Heads(b) : ~(m >= i)
      BY <1>1, <1>4, <2>1, <2>3
    <3> QED BY <3>1, <3>2 DEF ShownFrom
  <2>4. CASE R(i).status = "found" /\ R(i).next = n /\ \E m \in Position : m >= i /\ ReadAt(b, i, m, R(i))
    <3>1. PICK m \in Position : m >= i /\ ReadAt(b, i, m, R(i))
      BY <2>4
    <3> DEFINE o == R(i).offset
               rest == W(o, k - 1)
               x0 == <<R(i).name, R(i).target>>
    <3>2. o \in 0 .. BlockSlots - 1 /\ o > i /\ Reached(b, o) /\ o \in Int
      BY <1>1, <3>1 DEF ReadAt
    <3>3. ShownFrom(b, o, rest)
      <4>1. o \in S
        BY <1>5, <3>2
      <4>2. k - 1 >= BlockSlots - o
        BY <1>1, <2>1, <3>2
      <4> HIDE DEF W, o
      <4> QED BY <2>1, <3>2, <4>1, <4>2
    <3>4. W(i, k) = Extended(rest, R(i))
      BY <1>3, <2>1, <2>4
    <3> HIDE DEF W, rest
    <3>5. W(i, k) = [ends |-> TRUE, shows |-> rest.shows \cup {x0}]
      <4>1. rest = [ends |-> TRUE, shows |-> rest.shows]
        BY <3>3 DEF ShownFrom
      <4> DEFINE T == rest.shows
      <4> HIDE DEF T
      <4>2. rest = [ends |-> TRUE, shows |-> T]
        BY <4>1 DEF T
      <4>3. Extended([ends |-> TRUE, shows |-> T], R(i)) = [ends |-> TRUE, shows |-> T \cup {x0}]
        BY Extends
      <4> QED BY <3>4, <4>2, <4>3 DEF T
    <3>6. m \in Heads(b) => x0 = Pair(b, m)
      BY <3>1 DEF ReadAt, Pair
    <3>7. m \notin Heads(b) => x0[1] \in {Dot, DotDot}
      BY <3>1 DEF ReadAt
    <3>8. \A y \in Heads(b) : y >= i <=> y = m \/ y >= o
      <4>1. \A y \in Heads(b) : y \in Int
        BY <1>1, <1>4
      <4> QED BY <1>1, <2>1, <3>1, <3>2, <4>1 DEF ReadAt
    <3>9. \A x : x \in rest.shows /\ x[1] \notin {Dot, DotDot}
                    <=> \E y \in Heads(b) : y >= o /\ x = Pair(b, y)
      BY <3>3 DEF ShownFrom
    <3>10. \A y \in Heads(b) : Pair(b, y)[1] \notin {Dot, DotDot}
      BY <1>4 DEF Pair
    <3> HIDE DEF o, x0
    <3>11. ASSUME NEW x
           PROVE  x \in rest.shows \cup {x0} /\ x[1] \notin {Dot, DotDot}
                     <=> \E y \in Heads(b) : y >= i /\ x = Pair(b, y)
      <4>1. CASE x = x0
        BY <3>6, <3>7, <3>8, <3>9, <3>10, <4>1
      <4>2. CASE x # x0
        BY <3>6, <3>8, <3>9, <4>2
      <4> QED BY <4>1, <4>2
    <3> QED BY <3>5, <3>11 DEF ShownFrom
  <2> QED BY <2>2, <2>3, <2>4 DEF ReadFrom
<1>6. 0 \in S
  <2> HIDE DEF S
  <2>1. \A m \in 0 .. BlockSlots - 1 : m \in S
    BY <1>1, <1>5, Backwards
  <2> QED BY <1>1, <2>1
<1>7. ShownFrom(b, 0, W(0, 2 * BlockSlots))
  <2>1. Reached(b, 0)
    BY <1>1 DEF Reached
  <2>2. 2 * BlockSlots \in 0 .. 2 * BlockSlots /\ 2 * BlockSlots >= BlockSlots - 0
    BY <1>1
  <2> HIDE DEF W, b
  <2> QED BY <1>6, <2>1, <2>2
<1>8. Listing(f) = W(0, 2 * BlockSlots)
  BY DEF Listing, ListWalk
<1> HIDE DEF W, b
<1>9. \A m \in Heads(b) : m >= 0
  BY <1>1, <1>4
<1>10. \A x : x \in Listing(f).shows /\ x[1] \notin {Dot, DotDot} <=> \E m \in Heads(b) : x = Pair(b, m)
  BY <1>7, <1>8, <1>9 DEF ShownFrom
<1> QED BY <1>10 DEF b, Shown, Pairs
-----------------------------------------------------------------------------
(* Paths.                                                                  *)

Under(f, n) == IF f.status = "found" THEN Lookup(Contents(f), n) ELSE f

OpenWalk(path) ==
    LET file[k \in 0 .. Len(path)] ==
            IF k = 0 THEN RootFile
            ELSE LET f == file[k - 1] IN
                 IF f.status = "found" THEN Lookup(Contents(f), path[k]) ELSE f
    IN file

\* The paths of the calls have two names at most.
LEMMA OpenSteps ==
  ASSUME NEW path, Len(path) \in 0 .. 2
  PROVE  Open(path) = IF Len(path) = 0 THEN RootFile
                      ELSE IF Len(path) = 1 THEN Under(RootFile, path[1])
                      ELSE Under(Under(RootFile, path[1]), path[2])
<1> DEFINE L == Len(path)
           one == Under(RootFile, path[1])
           two == Under(one, path[2])
           Body(w, k) == IF k = 0 THEN RootFile ELSE Under(w[k - 1], path[k])
           Is(w) == w = [k \in 0 .. L |-> Body(w, k)]
           file == [k \in 0 .. L |-> IF k = 0 THEN RootFile ELSE IF k = 1 THEN one ELSE two]
<1>1. L \in 0 .. 2 /\ L \in Nat
  OBVIOUS
<1>2. Is(file)
  <2>1. ASSUME NEW k \in 0 .. L PROVE file[k] = Body(file, k)
    <3>1. k = 0 \/ k = 1 \/ k = 2
      <4> HIDE DEF L, file
      <4> QED BY <1>1, <2>1
    <3>2. k = 1 => file[0] = RootFile
      BY <1>1
    <3>3. k = 2 => file[1] = one
      BY <1>1
    <3>4. file[k] = IF k = 0 THEN RootFile ELSE IF k = 1 THEN one ELSE two
      OBVIOUS
    <3> HIDE DEF file, L
    <3> QED BY <3>1, <3>2, <3>3, <3>4
  <2>2. file = [k \in 0 .. L |-> file[k]]
    OBVIOUS
  <2> HIDE DEF file, Body, L
  <2> QED BY <2>1, <2>2
<1>3. \E w : Is(w)
  <2> HIDE DEF Is, file
  <2> QED BY <1>2
<1>4. OpenWalk(path) = CHOOSE w : Is(w)
  BY DEF OpenWalk, Under
<1>5. Is(OpenWalk(path))
  <2> HIDE DEF Is
  <2> QED BY <1>3, <1>4
<1>6. Open(path) = OpenWalk(path)[L]
  BY DEF Open, OpenWalk
<1> DEFINE W == OpenWalk(path)
<1> HIDE DEF one, two, file, W
<1>7. \A k \in 0 .. L : W[k] = IF k = 0 THEN RootFile ELSE Under(W[k - 1], path[k])
  BY <1>5 DEF W
<1> HIDE DEF L
<1>8. W[0] = RootFile
  BY <1>1, <1>7
<1>9. CASE L = 0
  BY <1>6, <1>8, <1>9 DEF L, W
<1>10. CASE L = 1
  <2>1. W[1] = Under(W[1 - 1], path[1])
    BY <1>7, <1>10
  <2>2. W[1] = one
    BY <1>8, <2>1 DEF one
  <2> QED BY <1>6, <1>10, <2>2 DEF L, W, one
<1>11. CASE L = 2
  <2>1. W[1] = Under(W[1 - 1], path[1]) /\ W[2] = Under(W[2 - 1], path[2])
    BY <1>7, <1>11
  <2>2. W[2] = two
    BY <1>8, <2>1 DEF one, two
  <2> QED BY <1>6, <1>11, <2>2 DEF L, W, one, two
<1> QED BY <1>1, <1>9, <1>10, <1>11

LEMMA OpenIs ==
  /\ Open(<<>>) = RootFile
  /\ \A n : Open(<<n>>) = Lookup(Root, n)
  /\ \A p \in DirPath : \A n : Open(Append(p, n)) = Under(Open(p), n)
<1>1. RootFile.status = "found" /\ Contents(RootFile) = Root
  BY DEF RootFile, Contents
<1>2. Open(<<>>) = RootFile
  <2>1. Len(<<>>) = 0 /\ Len(<<>>) \in 0 .. 2
    OBVIOUS
  <2> QED BY <2>1, OpenSteps
<1>3. ASSUME NEW n PROVE Open(<<n>>) = Under(RootFile, n)
  <2>1. Len(<<n>>) = 1 /\ Len(<<n>>) \in 0 .. 2 /\ <<n>>[1] = n
    OBVIOUS
  <2> QED BY <2>1, OpenSteps
<1>4. ASSUME NEW m, NEW n PROVE Open(<<m, n>>) = Under(Under(RootFile, m), n)
  <2>1. Len(<<m, n>>) = 2 /\ Len(<<m, n>>) \in 0 .. 2 /\ <<m, n>>[1] = m /\ <<m, n>>[2] = n
    OBVIOUS
  <2> QED BY <2>1, OpenSteps
<1>5. ASSUME NEW n PROVE Append(<<>>, n) = <<n>> /\ \A m : Append(<<m>>, n) = <<m, n>>
  <2>1. Append(<<>>, n) = <<n>>
    OBVIOUS
  <2>2. ASSUME NEW m PROVE Append(<<m>>, n) = <<m, n>>
    <3>1. <<m>> \in Seq({m, n}) /\ n \in {m, n}
      OBVIOUS
    <3> DEFINE s == Append(<<m>>, n)
               t == <<m, n>>
    <3>2. s \in Seq({m, n}) /\ Len(s) = 2 /\ s[1] = m /\ s[2] = n
      BY <3>1
    <3>3. t \in Seq({m, n}) /\ Len(t) = 2 /\ t[1] = m /\ t[2] = n
      OBVIOUS
    <3> HIDE DEF s, t
    <3>4. \A i \in 1 .. Len(s) : i = 1 \/ i = 2
      BY <3>2
    <3>5. \A i \in 1 .. Len(s) : s[i] = t[i]
      BY <3>2, <3>3, <3>4
    <3>6. s = t
      BY <3>2, <3>3, <3>5, SeqEqual
    <3> QED BY <3>6 DEF s, t
  <2> QED BY <2>1, <2>2
<1>6. \A n : Open(<<n>>) = Lookup(Root, n)
  BY <1>1, <1>3 DEF Under
<1>7. ASSUME NEW p \in DirPath, NEW n PROVE Open(Append(p, n)) = Under(Open(p), n)
  <2>1. CASE p = <<>>
    BY <1>2, <1>3, <1>5, <2>1
  <2>2. CASE \E m \in Name : p = <<m>>
    <3>1. PICK m \in Name : p = <<m>>
      BY <2>2
    <3>2. Append(p, n) = <<m, n>> /\ Open(p) = Under(RootFile, m)
      BY <1>3, <1>5, <3>1
    <3>3. Open(<<m, n>>) = Under(Under(RootFile, m), n)
      BY <1>4
    <3> QED BY <3>2, <3>3
  <2> QED BY <2>1, <2>2 DEF DirPath
<1> QED BY <1>2, <1>6, <1>7

\* The object that an entry leads to.
LEMMA FoundIs ==
  ASSUME OneBlock, NEW blocks, Good(blocks), NEW d \in Directory, NEW i \in Heads(blocks[d]), NEW k,
         k = (IF blocks[d][i].long THEN i + 1 ELSE i)
  PROVE  /\ i \in Position /\ k \in Position
         /\ blocks[d][k].name \in Used /\ blocks[d][k].target \in Object
         /\ ~blocks[d][k].long /\ blocks[d][k].ord = "used"
         /\ Entry(d, blocks[d], i) \in EntriesIn(blocks)
         /\ Entry(d, blocks[d], i).object = blocks[d][k].target
<1> DEFINE b == blocks[d]
<1>1. GoodBlock(b) /\ i \in Position /\ b[i].name \in Used
  <2>1. GoodBlock(b) /\ i \in Position
    BY DirectoryType DEF Good, Heads, Visible
  <2> QED BY <2>1, HeadsAre
<1>2. Entry(d, b, i) \in EntriesIn(blocks)
  BY AllEntriesAre
<1> HIDE DEF b
<1>3. k \in Position /\ b[k].name \in Used /\ ~b[k].long /\ b[k].ord = "used"
  <2>1. CASE b[i].long
    BY <1>1, <2>1 DEF GoodBlock, InPairs, b
  <2>2. CASE ~b[i].long
    BY <1>1, <2>2, SlotNames DEF b
  <2> QED BY <2>1, <2>2
<1>4. b[k].target \in Object
  BY <1>1, <1>3 DEF GoodBlock, GoodSlot
<1>5. Entry(d, b, i).object = b[k].target
  BY DEF Entry, b
<1> QED BY <1>1, <1>2, <1>3, <1>4, <1>5 DEF b

\* The directory f, with its names in the block of d.
ParentIn(f, d, u) ==
    /\ d \in Directory /\ d \in Cluster /\ d \notin u
    /\ Contents(f) = d /\ f.target = d
    /\ f.source \in Cluster /\ f.first \in Cluster
    /\ d = (IF f.root THEN f.source ELSE f.first)
    /\ \/ f.root /\ d = Root
       \/ ~f.root /\ f.first = d /\ d \in DirObject /\ Dotted(block[d])

\* A directory that a path leads to is in use, and begins with "." and ".."
\* unless it is the root.
LEMMA ParentIs ==
  ASSUME OneBlock, NEW u, u \subseteq Object, Good(block), Fresh(block, u), WellMade(block),
         NEW p \in DirPath, IsDirectory(Open(p))
  PROVE  ParentIn(Open(p), Contents(Open(p)), u)
<1>1. Root \in Cluster /\ Root \in Directory /\ Zero \in Cluster /\ Root \notin u
  BY DirAssumption DEF Cluster, Directory
<1>2. CASE p = <<>>
  <2>1. Open(p) = [status |-> "found", root |-> TRUE, source |-> Root, long |-> FALSE,
                   sourceOffset |-> 0, target |-> Root, first |-> Zero]
    BY <1>1, <1>2, OpenIs DEF RootFile, OneBlock
  <2> QED BY <1>1, <2>1 DEF ParentIn, Contents
<1>3. CASE \E n \in Name : p = <<n>>
  <2>1. PICK n \in Name : p = <<n>>
    BY <1>3
  <2> DEFINE f == Lookup(Root, n)
             b == block[Root]
             i == f.sourceOffset
             k == IF b[i].long THEN i + 1 ELSE i
  <2>2. Open(p) = f /\ n \in Used
    BY <2>1, OpenIs DEF Used
  <2>3. FoundIn(Root, n, f)
    BY <1>1, <2>2, LookupFacts DEF IsDirectory, LookedUp
  <2>4. i \in Heads(b) /\ f.source = Root /\ ~f.root /\ f.first = f.target /\ f.target = b[k].target
    BY <2>3 DEF FoundIn
  <2> HIDE DEF f
  <2>5. k \in Position /\ b[k].name \in Used /\ b[k].target \in Object
    BY <1>1, <2>4, FoundIs
  <2>6. f.target \in DirObject /\ f.target \notin u
    BY <1>1, <2>2, <2>4, <2>5, DirAssumption DEF IsDirectory, Fresh
  <2>7. Dotted(block[f.target])
    BY <1>1, <2>4, <2>5, <2>6 DEF WellMade
  <2>8. f.target \in Directory /\ f.target \in Cluster /\ Contents(f) = f.target
    BY <2>4, <2>6 DEF Directory, Cluster, Contents
  <2> QED BY <1>1, <2>2, <2>4, <2>6, <2>7, <2>8 DEF ParentIn
<1> QED BY <1>2, <1>3 DEF DirPath
-----------------------------------------------------------------------------
(* Calls.                                                                  *)

LEMMA Tuples ==
  ASSUME NEW a, NEW b
  PROVE  /\ <<a>> \o <<b>> = <<a, b>>
         /\ RemoveAt(<<a>>, 1) = <<>>
         /\ RemoveAt(<<a, b>>, 1) = <<b>>
         /\ RemoveAt(<<a, b>>, 2) = <<a>>
<1> DEFINE T == {a, b}
           two == <<a, b>>
<1>1. <<a>> \in Seq(T) /\ <<b>> \in Seq(T) /\ two \in Seq(T) /\ <<>> \in Seq(T)
  OBVIOUS
<1>2. Len(<<a>>) = 1 /\ <<a>>[1] = a /\ Len(<<b>>) = 1 /\ <<b>>[1] = b
      /\ Len(two) = 2 /\ two[1] = a /\ two[2] = b /\ Len(<<>>) = 0
  OBVIOUS
<1>3. <<a>> \o <<b>> = two
  <2> DEFINE s == <<a>> \o <<b>>
  <2>1. s \in Seq(T) /\ Len(s) = 2 /\ s[1] = a /\ s[2] = b
    BY <1>1, <1>2, ConcatProperties
  <2> HIDE DEF s, two, T
  <2>2. \A i \in 1 .. Len(s) : i = 1 \/ i = 2
    BY <2>1
  <2>3. \A i \in 1 .. Len(s) : s[i] = two[i]
    BY <1>2, <2>1, <2>2
  <2>4. s = two
    BY <1>1, <1>2, <2>1, <2>3, SeqEqual
  <2> QED BY <2>4 DEF s
<1>4. \A s \in Seq(T) : SubSeq(s, 1, 0) = <<>> /\ SubSeq(s, 3, 2) = <<>> /\ SubSeq(s, 2, 1) = <<>>
  OBVIOUS
<1>5. ASSUME NEW x \in T, NEW m \in 1 .. 2, two[m] = x PROVE SubSeq(two, m, m) = <<x>>
  <2> DEFINE s == SubSeq(two, m, m)
             t == <<x>>
  <2>1. \A i \in m .. m : two[i] \in T
    BY <1>5
  <2> HIDE DEF T
  <2>2. s \in Seq(T) /\ Len(s) = 1 /\ s[1] = x
    <3> HIDE DEF two
    <3>1. /\ s \in Seq(T) /\ Len(s) = (IF m <= m THEN m - m + 1 ELSE 0)
          /\ \A i \in 1 .. m - m + 1 : s[i] = two[m + i - 1]
      BY <2>1, SubSeqProperties
    <3> QED BY <1>5, <3>1
  <2>3. t \in Seq(T) /\ Len(t) = 1 /\ t[1] = x
    OBVIOUS
  <2> HIDE DEF s, t
  <2>4. \A i \in 1 .. Len(s) : s[i] = t[i]
    BY <2>2, <2>3
  <2>5. s = t
    BY <2>2, <2>3, <2>4, SeqEqual
  <2> QED BY <2>5 DEF s, t
<1>6. \A s \in Seq(T) : s \o <<>> = s /\ <<>> \o s = s
  BY ConcatEmptySeq
<1> HIDE DEF two, T
<1>7. RemoveAt(<<a>>, 1) = <<>>
  <2>1. RemoveAt(<<a>>, 1) = SubSeq(<<a>>, 1, 0) \o SubSeq(<<a>>, 2, 1)
    BY <1>2 DEF RemoveAt
  <2> QED BY <1>1, <1>4, <1>6, <2>1
<1>8. RemoveAt(two, 1) = <<b>> /\ RemoveAt(two, 2) = <<a>>
  <2>1. RemoveAt(two, 1) = SubSeq(two, 1, 0) \o SubSeq(two, 2, 2)
    BY <1>2 DEF RemoveAt
  <2>2. RemoveAt(two, 2) = SubSeq(two, 1, 1) \o SubSeq(two, 3, 2)
    BY <1>2 DEF RemoveAt
  <2>3. SubSeq(two, 2, 2) = <<b>> /\ SubSeq(two, 1, 1) = <<a>>
    BY <1>2, <1>5 DEF T
  <2> QED BY <1>1, <1>4, <1>6, <2>1, <2>2, <2>3
<1> QED BY <1>3, <1>7, <1>8 DEF two

LEMMA PutIsNot ==
  ASSUME NEW c, NEW slots
  PROVE  Put(c, slots) # Astray
<1>1. DOMAIN Put(c, slots) = {"cluster", "slots"} /\ DOMAIN Astray = {"status"}
  BY DEF Put, Astray
<1> QED BY <1>1

\* A call that puts one block, or loses its way.
LEMMA ServeOne ==
  ASSUME NEW kind, NEW p, Serve(kind, <<p>>)
  PROVE  /\ op' = kind /\ block' = block
         /\ \/ p # Astray /\ todo' = <<p>> /\ status' = status
            \/ p = Astray /\ todo' = <<>> /\ status' = "astray"
<1>1. DOMAIN <<p>> = {1} /\ <<p>>[1] = p
  OBVIOUS
<1>2. RemoveAt(<<p>>, 1) = <<>>
  BY Tuples
<1> DEFINE s == <<p>>
<1>3. Serve(kind, s) /\ DOMAIN s = {1} /\ s[1] = p /\ RemoveAt(s, 1) = <<>>
  BY <1>1, <1>2
<1>4. SUFFICES op' = kind /\ block' = block /\
               (\/ p # Astray /\ todo' = s /\ status' = status
                \/ p = Astray /\ todo' = <<>> /\ status' = "astray")
  OBVIOUS
<1> HIDE DEF s
<1> QED BY <1>3 DEF Serve

\* A call that puts two blocks, or loses its way at one of them.
LEMMA ServeTwo ==
  ASSUME NEW kind, NEW p, NEW q, Serve(kind, <<p, q>>)
  PROVE  /\ op' = kind /\ block' = block
         /\ \/ p # Astray /\ q # Astray /\ todo' = <<p, q>> /\ status' = status
            \/ p = Astray /\ todo' = <<q>> /\ status' = "astray"
            \/ q = Astray /\ todo' = <<p>> /\ status' = "astray"
<1>1. DOMAIN <<p, q>> = {1, 2} /\ <<p, q>>[1] = p /\ <<p, q>>[2] = q
  OBVIOUS
<1>2. RemoveAt(<<p, q>>, 1) = <<q>> /\ RemoveAt(<<p, q>>, 2) = <<p>>
  BY Tuples
<1> DEFINE s == <<p, q>>
<1>3. Serve(kind, s) /\ DOMAIN s = {1, 2} /\ s[1] = p /\ s[2] = q
      /\ RemoveAt(s, 1) = <<q>> /\ RemoveAt(s, 2) = <<p>>
  BY <1>1, <1>2
<1>4. SUFFICES op' = kind /\ block' = block /\
               (\/ p # Astray /\ q # Astray /\ todo' = s /\ status' = status
                \/ p = Astray /\ todo' = <<q>> /\ status' = "astray"
                \/ q = Astray /\ todo' = <<p>> /\ status' = "astray")
  OBVIOUS
<1> HIDE DEF s
<1> QED BY <1>3 DEF Serve
-----------------------------------------------------------------------------
(* The edits that calls make of a block.                                   *)

LEMMA GoodSlots ==
  /\ \A n \in Name : GoodSlot(Long(n))
  /\ \A n \in Used : \A x \in Object : GoodSlot(Short(n, x))
  /\ \A n \in {Dot, DotDot} : \A x \in Object \cup {Root} : GoodSlot(Short(n, x))
  /\ \A ord \in {"free", "end"} : GoodSlot(Wiped(ord, FALSE))
  /\ GoodSlot(Blank)
<1>1. Name \subseteq Used /\ NoName \notin Used /\ NoName \notin {Dot, DotDot}
      /\ Dot \notin Used /\ DotDot \notin Used
  BY DirAssumption DEF Used
<1>2. None \notin Object /\ Root # None /\ Root \in Cluster
  BY DirAssumption DEF Cluster
<1>3. \A n \in Name : GoodSlot(Long(n))
  BY <1>1 DEF GoodSlot, Long, Slot
<1>4. \A n \in Used : \A x \in Object : GoodSlot(Short(n, x))
  BY <1>1, <1>2 DEF GoodSlot, Short, Slot
<1>5. \A n \in {Dot, DotDot} : \A x \in Object \cup {Root} : GoodSlot(Short(n, x))
  BY <1>1, <1>2 DEF GoodSlot, Short, Slot
<1>6. \A ord \in {"free", "end"} : GoodSlot(Wiped(ord, FALSE))
  BY <1>1 DEF GoodSlot, Wiped, Slot
<1>7. GoodSlot(Blank)
  BY <1>1 DEF GoodSlot, Blank, Slot
<1> QED BY <1>3, <1>4, <1>5, <1>6, <1>7

\* The slots from i to j of b become those of c.
Changed(b, c, i, j) ==
    /\ c \in [Position -> Slot]
    /\ \A k \in Position : k # i /\ k # j => c[k] = b[k]

LEMMA UsedEnds ==
  ASSUME NEW b, GoodBlock(b), NEW c, NEW i \in Position, NEW j \in Position,
         j = i \/ j = i + 1, Changed(b, c, i, j),
         c[i].ord # "end", c[j].ord # "end", i = 0 \/ b[i - 1].ord # "end"
  PROVE  EndsLast(c)
<1> SUFFICES ASSUME NEW k \in Position, k + 1 \in Position, c[k].ord = "end"
             PROVE  c[k + 1].ord = "end"
  BY DEF EndsLast
<1>1. k # i /\ k # j /\ c[k] = b[k]
  BY DEF Changed
<1>2. b[k + 1].ord = "end"
  BY <1>1 DEF GoodBlock, EndsLast
<1>3. k + 1 # i
  <2>1. k + 1 = i => i - 1 = k /\ i # 0
    BY Positions
  <2> QED BY <1>1, <2>1
<1>4. k + 1 # j
  BY <1>1, <1>3, Positions
<1> QED BY <1>2, <1>3, <1>4 DEF Changed

LEMMA WipedEnds ==
  ASSUME NEW b, GoodBlock(b), NEW c, NEW i \in Position, NEW j \in Position,
         j = i \/ j = i + 1, Changed(b, c, i, j), b[i].ord # "end", c[i].ord = c[j].ord,
         j + 1 \in Position /\ c[j].ord = "end" => b[j + 1].ord = "end"
  PROVE  EndsLast(c)
<1> SUFFICES ASSUME NEW k \in Position, k + 1 \in Position, c[k].ord = "end"
             PROVE  c[k + 1].ord = "end"
  BY DEF EndsLast
<1>1. CASE k = j
  <2>1. k + 1 # i /\ k + 1 # j
    BY <1>1, Positions
  <2> QED BY <1>1, <2>1 DEF Changed
<1>2. CASE k = i /\ k # j
  BY <1>2
<1>3. CASE k # i /\ k # j
  <2>1. b[k].ord = "end" /\ b[k + 1].ord = "end"
    BY <1>3 DEF Changed, GoodBlock, EndsLast
  <2>2. k + 1 # i
    BY <2>1
  <2>3. k + 1 # j
    BY <1>3, <2>2, Positions
  <2> QED BY <2>1, <2>2, <2>3 DEF Changed
<1> QED BY <1>1, <1>2, <1>3

Written(b, i, s) == [b EXCEPT ![i] = s]
WrittenTwo(b, i, s, t) == [b EXCEPT ![i] = s, ![i + 1] = t]

LEMMA PairChanged ==
  ASSUME NEW b, GoodBlock(b), NEW i \in Position, i + 1 \in Position, NEW s \in Slot, NEW t \in Slot
  PROVE  LET c == WrittenTwo(b, i, s, t) IN Changed(b, c, i, i + 1) /\ c[i] = s /\ c[i + 1] = t
<1>1. b \in [Position -> Slot] /\ i # i + 1
  BY Positions DEF GoodBlock
<1> QED BY <1>1 DEF Changed, WrittenTwo

LEMMA OneChanged ==
  ASSUME NEW b, GoodBlock(b), NEW i \in Position, NEW s \in Slot
  PROVE  LET c == Written(b, i, s) IN Changed(b, c, i, i) /\ c[i] = s
BY DEF Changed, GoodBlock, Written

\* A free place, or the place of an entry, for one slot or a pair of them.
PlaceIn(b, i, j) ==
    /\ i \in Position /\ j \in Position /\ (j = i \/ j = i + 1)
    /\ i = 0 \/ (~b[i - 1].long /\ b[i - 1].ord # "end")
    /\ b[i].name \notin {Dot, DotDot}
    /\ Whole(b, i, j)

LEMMA FreePlace ==
  ASSUME NEW b, GoodBlock(b), NEW i, FreeAt(b, i), NEW j \in {i, i + 1}
  PROVE  PlaceIn(b, i, j) /\ b[i].name \notin Used /\ b[j].name \notin Used
<1>1. i \in Position /\ i + 1 \in Position /\ i \in Int
  BY Positions DEF FreeAt
<1>2. b[i].ord # "used" /\ b[i + 1].ord # "used"
  BY DEF FreeAt, IsFree
<1>3. b[i].name = NoName /\ ~b[i].long /\ ~b[i + 1].long /\ b[i + 1].name = NoName
  BY <1>1, <1>2 DEF GoodBlock, GoodSlot
<1>4. i = 0 \/ ~b[i - 1].long
  <2> SUFFICES ASSUME i # 0, b[i - 1].long PROVE FALSE
    OBVIOUS
  <2> DEFINE k == i - 1
  <2>1. k \in Position /\ k + 1 = i
    BY <1>1, Positions
  <2> HIDE DEF k
  <2>2. b[k].long
    BY DEF k
  <2> QED BY <1>2, <2>1, <2>2 DEF GoodBlock, InPairs
<1> QED BY <1>1, <1>2, <1>3, <1>4, DirAssumption DEF PlaceIn, Whole, FreeAt

LEMMA HeadPlace ==
  ASSUME NEW b, GoodBlock(b), NEW i \in Heads(b), NEW j, j = (IF b[i].long THEN i + 1 ELSE i)
  PROVE  PlaceIn(b, i, j)
<1>1. i \in Position /\ i \in Visible(b)
  BY DEF Heads, Visible
<1>2. b[i].name \in Used /\ (i = 0 \/ ~b[i - 1].long)
  BY <1>1, HeadsAre
<1>3. j \in Position /\ ~b[j].long
  BY <1>1 DEF GoodBlock, InPairs
<1>4. i = 0 \/ b[i - 1].ord # "end"
  <2>1. i = 0 \/ i - 1 \in 0 .. i
    BY <1>1, Positions
  <2> QED BY <1>1, <2>1 DEF Visible
<1>5. b[i].name \notin {Dot, DotDot}
  BY <1>1, <1>2, SlotNames
<1> QED BY <1>1, <1>2, <1>3, <1>4, <1>5 DEF PlaceIn, Whole

\* A long entry and the short one behind it are written at a place for two.
NewPair(b, i, n, x) == WrittenTwo(b, i, Long(n), Short(ShortOf[n], x))

LEMMA PairEdit ==
  ASSUME NEW b, GoodBlock(b), NEW i, PlaceIn(b, i, i + 1), NEW n \in Name, NEW x \in Object
  PROVE  LET c == NewPair(b, i, n, x) IN
         Edit(b, c, i, i + 1) /\ c[i] = Long(n) /\ c[i + 1] = Short(ShortOf[n], x)
<1> DEFINE c == NewPair(b, i, n, x)
<1>1. ShortOf[n] \in Used
  BY DirAssumption
<1>2. GoodSlot(Long(n)) /\ GoodSlot(Short(ShortOf[n], x))
  BY <1>1, GoodSlots
<1>3. i \in Position /\ i + 1 \in Position
  BY DEF PlaceIn
<1>4. Long(n) \in Slot /\ Short(ShortOf[n], x) \in Slot
  BY <1>2 DEF GoodSlot
<1>5. Changed(b, c, i, i + 1) /\ c[i] = Long(n) /\ c[i + 1] = Short(ShortOf[n], x)
  BY <1>3, <1>4, PairChanged DEF NewPair
<1> HIDE DEF c
<1>6. c[i].ord = "used" /\ c[i].long /\ c[i + 1].ord = "used" /\ ~c[i + 1].long /\ c[i + 1].name \in Used
  BY <1>1, <1>5 DEF Long, Short
<1>7. EndsLast(c)
  BY <1>3, <1>5, <1>6, UsedEnds DEF PlaceIn
<1>8. Whole(c, i, i + 1)
  BY <1>6 DEF Whole
<1>9. Edit(b, c, i, i + 1)
  BY <1>2, <1>3, <1>5, <1>6, <1>7, <1>8 DEF Edit, PlaceIn, Changed
<1> QED BY <1>5, <1>9 DEF c

\* A short entry is written at a place for one.
LEMMA ShortEdit ==
  ASSUME NEW b, GoodBlock(b), NEW i, PlaceIn(b, i, i), NEW n, NEW x, GoodSlot(Short(n, x))
  PROVE  LET c == Written(b, i, Short(n, x)) IN Edit(b, c, i, i) /\ c[i] = Short(n, x)
<1> DEFINE c == Written(b, i, Short(n, x))
<1>1. i \in Position /\ Short(n, x) \in Slot
  BY DEF PlaceIn, GoodSlot
<1>2. Changed(b, c, i, i) /\ c[i] = Short(n, x)
  BY <1>1, OneChanged
<1> HIDE DEF c
<1>3. c[i].ord = "used" /\ ~c[i].long
  BY <1>2 DEF Short
<1>4. EndsLast(c)
  BY <1>1, <1>2, <1>3, UsedEnds DEF PlaceIn
<1>5. Edit(b, c, i, i)
  BY <1>1, <1>2, <1>3, <1>4 DEF Edit, PlaceIn, Changed, Whole
<1> QED BY <1>2, <1>5 DEF c

\* An entry is wiped, with 0x00 when nothing is behind it and 0xE5 otherwise.
Clean(ord) == Wiped(ord, FALSE)

WipedBlock(b, i, j, ord) == [k \in Position |-> IF k = i \/ k = j THEN Clean(ord) ELSE b[k]]

LEMMA WipeEdit ==
  ASSUME NEW b, GoodBlock(b), NEW i, NEW j, PlaceIn(b, i, j), b[i].ord # "end",
         NEW ord \in {"free", "end"},
         ord = "end" => j + 1 \in Position /\ b[j + 1].ord = "end"
  PROVE  LET c == WipedBlock(b, i, j, ord) IN
         Edit(b, c, i, j) /\ c[i] = Clean(ord) /\ c[j] = Clean(ord)
<1> DEFINE c == WipedBlock(b, i, j, ord)
<1>1. i \in Position /\ j \in Position /\ (j = i \/ j = i + 1)
  BY DEF PlaceIn
<1>2. GoodSlot(Clean(ord)) /\ Clean(ord) \in Slot
  BY GoodSlots DEF GoodSlot, Clean
<1>3. Changed(b, c, i, j) /\ c[i] = Clean(ord) /\ c[j] = Clean(ord)
  BY <1>1, <1>2 DEF Changed, GoodBlock, WipedBlock
<1> HIDE DEF c
<1>4. c[i].ord = ord /\ c[j].ord = ord /\ ~c[i].long /\ ~c[j].long
  BY <1>3 DEF Clean, Wiped
<1>5. EndsLast(c)
  BY <1>1, <1>3, <1>4, WipedEnds
<1>6. Whole(c, i, j)
  BY <1>4 DEF Whole
<1>7. Edit(b, c, i, j)
  BY <1>1, <1>2, <1>3, <1>4, <1>5, <1>6 DEF Edit, PlaceIn, Changed
<1> QED BY <1>3, <1>7 DEF c

\* What the edits do to the tree.

LEMMA FreeName ==
  ASSUME OneBlock, NEW blocks, Good(blocks), NEW d \in Directory, NEW n,
         \A k \in Heads(blocks[d]) : blocks[d][k].name # n, NEW e, e.dir = d, e.name = n
  PROVE  FreeIn(EntriesIn(blocks), e)
<1> SUFFICES ASSUME NEW y \in EntriesIn(blocks) PROVE y.dir # d \/ y.name # n
  BY DEF FreeIn
<1>1. PICK f \in Directory : \E k \in Heads(blocks[f]) : y = Entry(f, blocks[f], k)
  BY AllEntriesAre
<1>2. PICK k \in Heads(blocks[f]) : y = Entry(f, blocks[f], k)
  BY <1>1
<1>3. y.dir = f /\ y.name = blocks[f][k].name
  BY <1>2 DEF Entry
<1> QED BY <1>3

\* The edit c of directory d is put.
EditSafe(blocks, d, c, u) ==
    /\ Safe(blocks, Put(d, c), u)
    /\ WellMade(blocks) => WellMade(PutTo(blocks, Put(d, c)))

Usable(blocks, d, u) == Stage(blocks, u) /\ u \subseteq Object /\ d \in Directory /\ d \in Cluster /\ d \notin u

LEMMA UsableGood ==
  ASSUME NEW blocks, NEW d, NEW u, Usable(blocks, d, u)
  PROVE  Good(blocks) /\ Fresh(blocks, u) /\ GoodBlock(blocks[d])
BY DEF Usable, Stage, Good

LEMMA AddSafe ==
  ASSUME OneBlock, NEW blocks, NEW u, NEW d, Usable(blocks, d, u), NEW a, FreeAt(blocks[d], a),
         NEW n \in Name, \A k \in Heads(blocks[d]) : blocks[d][k].name # n,
         NEW x \in Object, x \notin u
  PROVE  LET c == NewPair(blocks[d], a, n, x) IN
         /\ Safe(blocks, Put(d, c), u)
         /\ WellMade(blocks) /\ (x \in DirObject => Dotted(blocks[x])) => WellMade(PutTo(blocks, Put(d, c)))
         /\ Edit(blocks[d], c, a, a + 1)
         /\ [dir |-> d, name |-> n, object |-> x] \in EntriesIn(PutTo(blocks, Put(d, c)))
<1> DEFINE b == blocks[d]
           c == NewPair(b, a, n, x)
<1>1. Good(blocks) /\ Fresh(blocks, u) /\ GoodBlock(b) /\ d \in Cluster /\ d \in Directory /\ d \notin u
      /\ (OneShort => Alone(blocks))
  BY UsableGood DEF Usable, Stage
<1>2. PlaceIn(b, a, a + 1) /\ b[a].name \notin Used /\ a \in Position /\ a + 1 \in Position
  BY <1>1, FreePlace DEF FreeAt
<1>3. Edit(b, c, a, a + 1) /\ c[a] = Long(n) /\ c[a + 1] = Short(ShortOf[n], x)
  BY <1>1, <1>2, PairEdit
<1>4. n \in Used /\ None \notin Object
  BY DirAssumption DEF Used
<1> HIDE DEF c
<1>5. c[a].long /\ c[a].name = n /\ c[a].target = None /\ c[a + 1].target = x
  BY <1>3 DEF Long, Short
<1>6. Entry(d, c, a) = [dir |-> d, name |-> n, object |-> x]
  BY <1>5 DEF Entry
<1>7. None \notin u
  <2>1. \A s \in Slot : s.target \in Object \cup {Root, None}
    BY DEF Slot
  <2>2. b[a].target = None
    BY <1>1, <1>2 DEF GoodBlock, GoodSlot, FreeAt, IsFree
  <2> QED BY <1>1, <1>2, <2>2 DEF Fresh
<1>8. Good(PutTo(blocks, Put(d, c))) /\ Fresh(PutTo(blocks, Put(d, c)), u)
  BY <1>1, <1>3, <1>5, <1>7, EditGood, EditFresh
<1>9. OneShort => Alone(PutTo(blocks, Put(d, c)))
  BY <1>1, <1>3, <1>5, EditAlone
<1>10. FreeIn(EntriesIn(blocks), Entry(d, c, a))
  <2>1. Entry(d, c, a).dir = d /\ Entry(d, c, a).name = n
    BY <1>6
  <2> QED BY <1>1, <2>1, FreeName
<1>11. /\ EntriesIn(PutTo(blocks, Put(d, c))) = EntriesIn(blocks) \cup {Entry(d, c, a)}
       /\ Stepped(EntriesIn(blocks), EntriesIn(PutTo(blocks, Put(d, c))))
  BY <1>1, <1>2, <1>3, <1>4, <1>5, <1>10, AddSteps
<1>12. ASSUME WellMade(blocks), x \in DirObject => Dotted(blocks[x])
       PROVE  WellMade(PutTo(blocks, Put(d, c)))
  <2>1. \A k \in {a, a + 1} : c[k].name \in Used /\ c[k].target \in DirObject => Dotted(blocks[c[k].target])
    BY <1>4, <1>5, <1>12 DEF Object
  <2> QED BY <1>1, <1>3, <1>12, <2>1, EditWellMade
<1>13. Safe(blocks, Put(d, c), u)
  <2>1. Put(d, c).cluster = d
    BY DEF Put
  <2> QED BY <1>1, <1>8, <1>9, <1>11, <2>1 DEF Safe, Stage
<1> QED BY <1>3, <1>6, <1>11, <1>12, <1>13 DEF c

\* A short entry that stands alone is of the one file that had one first.
TheShort(m, x) == Present # <<>> /\ m = Present[1][1] /\ x = Present[1][2]

LEMMA PutShortSafe ==
  ASSUME OneBlock, NEW blocks, NEW u, NEW d, Usable(blocks, d, u), NEW a, PlaceIn(blocks[d], a, a),
         NEW m \in Used, NEW x \in Object, x \notin u, OneShort => TheShort(m, x),
         \/ blocks[d][a].name \notin Used
         \/ blocks[d][a].name \in Used /\ ~blocks[d][a].long /\ blocks[d][a].target = x
  PROVE  LET c == Written(blocks[d], a, Short(m, x)) IN
         /\ Safe(blocks, Put(d, c), u)
         /\ WellMade(blocks) /\ (x \in DirObject => Dotted(blocks[x])) => WellMade(PutTo(blocks, Put(d, c)))
         /\ Edit(blocks[d], c, a, a)
         /\ [dir |-> d, name |-> m, object |-> x] \in EntriesIn(PutTo(blocks, Put(d, c)))
<1> DEFINE b == blocks[d]
           c == Written(b, a, Short(m, x))
           after == PutTo(blocks, Put(d, c))
<1>1. Good(blocks) /\ Fresh(blocks, u) /\ GoodBlock(b) /\ d \in Cluster /\ d \in Directory /\ d \notin u
      /\ (OneShort => Alone(blocks))
  BY UsableGood DEF Usable, Stage
<1>2. GoodSlot(Short(m, x)) /\ a \in Position
  BY GoodSlots DEF PlaceIn
<1>3. Edit(b, c, a, a) /\ c[a] = Short(m, x)
  BY <1>1, <1>2, ShortEdit
<1> HIDE DEF c
<1>4. ~c[a].long /\ c[a].name = m /\ c[a].target = x
  BY <1>3 DEF Short
<1>5. Entry(d, c, a) = [dir |-> d, name |-> m, object |-> x]
  BY <1>4 DEF Entry
<1>6. Good(after) /\ Fresh(after, u)
  BY <1>1, <1>3, <1>4, EditGood, EditFresh
<1>7. OneShort => Alone(after)
  BY <1>1, <1>3, <1>4, EditAlone DEF TheShort
<1>8. ASSUME OneShort
      PROVE  FreeIn(EntriesIn(blocks), Entry(d, c, a)) \/ Entry(d, c, a) \in EntriesIn(blocks)
  <2>1. CASE \A k \in Heads(b) : b[k].name # m
    <3>1. Entry(d, c, a).dir = d /\ Entry(d, c, a).name = m
      BY <1>5
    <3> QED BY <1>1, <2>1, <3>1, FreeName
  <2>2. CASE \E k \in Heads(b) : b[k].name = m
    <3>1. PICK k \in Heads(b) : b[k].name = m
      BY <2>2
    <3>2. k \in Position
      BY DEF Heads, Visible
    <3>3. m \in Shorts /\ m \notin Name
      <4>1. Present # <<>> /\ m = Present[1][1] /\ Len(Present) = 1
        BY <1>8 DEF TheShort, OneShort
      <4>2. 1 \in DOMAIN Present
        BY <4>1, DirAssumption
      <4>3. m \in Shorts
        BY <4>1, <4>2 DEF Shorts
      <4> QED BY <1>8, <4>1, <4>3 DEF OneShort
    <3>4. ~b[k].long
      BY <1>1, <3>1, <3>2, <3>3, SlotNames
    <3>5. b[k].target = x
      BY <1>1, <1>8, <3>4 DEF Alone, TheShort
    <3>6. Entry(d, b, k) = Entry(d, c, a)
      BY <1>5, <3>1, <3>4, <3>5 DEF Entry
    <3>7. Entry(d, b, k) \in EntriesIn(blocks)
      BY <1>1, AllEntriesAre
    <3> QED BY <3>6, <3>7
  <2> QED BY <2>1, <2>2
<1>9. Entry(d, c, a) \in EntriesIn(after)
  <2>1. OnlyThere(blocks, d, c, a)
    BY <1>1, <1>3, EditEntries
  <2> QED BY <1>4, <2>1 DEF OnlyThere, Begun
<1>10. OneShort => Stepped(EntriesIn(blocks), EntriesIn(after))
  <2> SUFFICES ASSUME OneShort PROVE Stepped(EntriesIn(blocks), EntriesIn(after))
    OBVIOUS
  <2>1. CASE b[a].name \notin Used
    BY <1>1, <1>3, <1>4, <1>8, <2>1, AddSteps
  <2>2. CASE b[a].name \in Used /\ ~b[a].long /\ b[a].target = x
    <3>1. a \in Heads(b)
      BY <1>1, <1>2, <2>2, HeadsAre DEF PlaceIn
    <3>2. b[a].name = m
      BY <1>1, <2>2, <3>1 DEF Alone, TheShort
    <3>3. Entry(d, c, a) = Entry(d, b, a)
      BY <1>5, <2>2, <3>2 DEF Entry
    <3> QED BY <1>1, <1>3, <1>4, <2>2, <3>3, RenameSteps
  <2> QED BY <2>1, <2>2
<1>11. ASSUME WellMade(blocks), x \in DirObject => Dotted(blocks[x])
       PROVE  WellMade(after)
  <2>1. \A k \in {a, a} : c[k].name \in Used /\ c[k].target \in DirObject => Dotted(blocks[c[k].target])
    BY <1>4, <1>11
  <2> QED BY <1>1, <1>3, <1>11, <2>1, EditWellMade
<1>12. Safe(blocks, Put(d, c), u)
  <2>1. Put(d, c).cluster = d
    BY DEF Put
  <2> QED BY <1>1, <1>6, <1>7, <1>10, <2>1 DEF Safe, Stage
<1> QED BY <1>3, <1>5, <1>9, <1>11, <1>12 DEF c

LEMMA RenamePairSafe ==
  ASSUME OneBlock, NEW blocks, NEW u, NEW d, Usable(blocks, d, u), NEW i \in Heads(blocks[d]),
         blocks[d][i].long, NEW n \in Name, \A k \in Heads(blocks[d]) : blocks[d][k].name # n
  PROVE  LET c == NewPair(blocks[d], i, n, blocks[d][i + 1].target) IN
         /\ Safe(blocks, Put(d, c), u)
         /\ WellMade(blocks) => WellMade(PutTo(blocks, Put(d, c)))
<1> DEFINE b == blocks[d]
           x == b[i + 1].target
           c == NewPair(b, i, n, x)
           after == PutTo(blocks, Put(d, c))
<1>1. Good(blocks) /\ Fresh(blocks, u) /\ GoodBlock(b) /\ d \in Cluster /\ d \in Directory /\ d \notin u
      /\ (OneShort => Alone(blocks))
  BY UsableGood DEF Usable, Stage
<1>2. /\ i \in Position /\ i + 1 \in Position /\ b[i + 1].name \in Used /\ x \in Object
      /\ Entry(d, b, i).object = x /\ x \notin u
  <2>1. /\ i \in Position /\ i + 1 \in Position /\ b[i + 1].name \in Used /\ x \in Object
        /\ Entry(d, b, i).object = x
    BY <1>1, FoundIs
  <2> QED BY <1>1, <2>1 DEF Fresh
<1>3. PlaceIn(b, i, i + 1) /\ b[i].name \in Used
  BY <1>1, <1>2, HeadPlace, HeadsAre
<1> HIDE DEF x
<1>4. Edit(b, c, i, i + 1) /\ c[i] = Long(n) /\ c[i + 1] = Short(ShortOf[n], x)
  BY <1>1, <1>2, <1>3, PairEdit
<1> HIDE DEF c
<1>5. c[i].long /\ c[i].name = n /\ c[i].target = None /\ c[i + 1].target = x
  BY <1>4 DEF Long, Short
<1>6. n \in Used /\ None \notin Object
  BY DirAssumption DEF Used
<1>7. b[i].target = None /\ None \notin u
  <2>1. b[i].target = None
    BY <1>1, <1>2, SlotNames DEF GoodSlot
  <2> QED BY <1>1, <1>2, <2>1 DEF Fresh
<1>8. Good(after) /\ Fresh(after, u)
  BY <1>1, <1>2, <1>4, <1>5, <1>7, EditGood, EditFresh
<1>9. OneShort => Alone(after)
  BY <1>1, <1>4, <1>5, EditAlone
<1>10. Stepped(EntriesIn(blocks), EntriesIn(after))
  <2>1. Entry(d, c, i) = [dir |-> d, name |-> n, object |-> x]
    BY <1>5 DEF Entry
  <2>2. Entry(d, c, i).object = Entry(d, b, i).object /\ Entry(d, c, i).dir = d /\ Entry(d, c, i).name = n
    BY <1>2, <2>1
  <2>3. FreeIn(EntriesIn(blocks), Entry(d, c, i))
    BY <1>1, <2>2, FreeName
  <2> QED BY <1>1, <1>3, <1>4, <1>5, <1>6, <2>2, <2>3, RenameSteps
<1>11. ASSUME WellMade(blocks) PROVE WellMade(after)
  <2>1. x \in DirObject => Dotted(blocks[x])
    BY <1>1, <1>2, <1>11 DEF WellMade, x
  <2>2. \A k \in {i, i + 1} : c[k].name \in Used /\ c[k].target \in DirObject => Dotted(blocks[c[k].target])
    BY <1>5, <1>6, <2>1 DEF Object
  <2> QED BY <1>1, <1>4, <1>11, <2>2, EditWellMade
<1>12. Safe(blocks, Put(d, c), u)
  <2>1. Put(d, c).cluster = d
    BY DEF Put
  <2> QED BY <1>1, <1>8, <1>9, <1>10, <2>1 DEF Safe, Stage
<1> QED BY <1>11, <1>12 DEF c, x

LEMMA RemoveSafe ==
  ASSUME OneBlock, NEW blocks, NEW u, NEW d, Usable(blocks, d, u), NEW i \in Heads(blocks[d]),
         NEW j, j = (IF blocks[d][i].long THEN i + 1 ELSE i), NEW ord \in {"free", "end"},
         ord = "end" => j + 1 \in Position /\ blocks[d][j + 1].ord = "end",
         OneShort => LET e == Entry(d, blocks[d], i) IN
            \/ e.object \notin Directory
            \/ \A x \in EntriesIn(blocks) : x.dir # e.object
            \/ \E other \in EntriesIn(blocks) : other # e /\ other.object = e.object
  PROVE  LET c == WipedBlock(blocks[d], i, j, ord) IN
         /\ Safe(blocks, Put(d, c), u)
         /\ WellMade(blocks) => WellMade(PutTo(blocks, Put(d, c)))
<1> DEFINE b == blocks[d]
           c == WipedBlock(b, i, j, ord)
           after == PutTo(blocks, Put(d, c))
<1>1. Good(blocks) /\ Fresh(blocks, u) /\ GoodBlock(b) /\ d \in Cluster /\ d \in Directory /\ d \notin u
      /\ (OneShort => Alone(blocks)) /\ i \in Position
  BY UsableGood DEF Usable, Stage, Heads, Visible
<1>2. PlaceIn(b, i, j) /\ b[i].name \in Used /\ b[i].ord # "end"
  BY <1>1, HeadPlace, HeadsAre, SlotNames
<1>3. Edit(b, c, i, j) /\ c[i] = Clean(ord) /\ c[j] = Clean(ord)
  <2>1. ord = "end" => j + 1 \in Position /\ b[j + 1].ord = "end"
    OBVIOUS
  <2> HIDE DEF b
  <2>2. GoodBlock(b) /\ PlaceIn(b, i, j) /\ b[i].ord # "end"
    BY <1>1, <1>2
  <2> QED BY <2>1, <2>2, WipeEdit
<1> HIDE DEF c
<1>4. c[i].name \notin Used /\ c[j].name \notin Used /\ c[i].target = None /\ c[j].target = None
  BY <1>3, DirAssumption DEF Clean, Wiped
<1>5. ASSUME Fresh(after, u) /\ (OneShort => Alone(after)) /\ Good(after) /\ WellMade(blocks)
      PROVE  WellMade(after)
  <2>1. \A k \in {i, j} : c[k].name \in Used /\ c[k].target \in DirObject => Dotted(blocks[c[k].target])
    BY <1>4
  <2> QED BY <1>1, <1>3, <1>5, <2>1, EditWellMade
<1>6. None \notin u
  BY DirAssumption DEF Usable
<1>7. Good(after) /\ Fresh(after, u)
  BY <1>1, <1>3, <1>4, <1>6, EditGood, EditFresh
<1>8. OneShort => Alone(after)
  BY <1>1, <1>3, <1>4, EditAlone
<1>9. OneShort => Stepped(EntriesIn(blocks), EntriesIn(after))
  BY <1>1, <1>2, <1>3, <1>4, RemoveSteps
<1>10. Safe(blocks, Put(d, c), u)
  <2>1. Put(d, c).cluster = d
    BY DEF Put
  <2> QED BY <1>1, <1>7, <1>8, <1>9, <2>1 DEF Safe, Stage
<1> QED BY <1>5, <1>7, <1>8, <1>10 DEF c

\* An edit where no entry is, that makes none.
LEMMA NoEntryEdit ==
  ASSUME OneBlock, NEW blocks, NEW u, NEW d, Usable(blocks, d, u), NEW c, NEW i,
         Edit(blocks[d], c, i, i), blocks[d][i].name \notin Used, c[i].name \notin Used,
         c[i].target \notin u
  PROVE  LET after == PutTo(blocks, Put(d, c)) IN
         /\ Stage(after, u) /\ EntriesIn(after) = EntriesIn(blocks)
         /\ WellMade(blocks) => WellMade(after)
<1> DEFINE after == PutTo(blocks, Put(d, c))
<1>1. Good(blocks) /\ Fresh(blocks, u) /\ d \in Cluster /\ d \in Directory /\ d \notin u
      /\ (OneShort => Alone(blocks))
  BY UsableGood DEF Usable, Stage
<1>2. Good(after) /\ Fresh(after, u)
  BY <1>1, EditGood, EditFresh
<1>3. OneShort => Alone(after)
  BY <1>1, EditAlone
<1>4. EntriesIn(after) = EntriesIn(blocks)
  <2>1. OnlyThere(blocks, d, c, i)
    BY <1>1, EditEntries
  <2> QED BY <2>1 DEF OnlyThere, Begun
<1>5. ASSUME WellMade(blocks) PROVE WellMade(after)
  <2>1. \A k \in {i, i} : c[k].name \in Used /\ c[k].target \in DirObject => Dotted(blocks[c[k].target])
    OBVIOUS
  <2> QED BY <1>1, <1>5, <2>1, EditWellMade
<1> QED BY <1>2, <1>3, <1>4, <1>5 DEF Stage

\* "." and ".." are put in the blank block of a new directory.
DotsBlock(b, x, y) == WrittenTwo(b, 0, Short(Dot, x), Short(DotDot, y))

LEMMA DotsSafe ==
  ASSUME OneBlock, NEW blocks, NEW u, NEW x \in DirObject, Usable(blocks, x, u),
         blocks[x] = [i \in Position |-> Blank], NEW y \in Directory, y \notin u
  PROVE  LET c == DotsBlock(blocks[x], x, y) IN
         /\ Safe(blocks, Put(x, c), u) /\ Dotted(PutTo(blocks, Put(x, c))[x])
         /\ EntriesIn(PutTo(blocks, Put(x, c))) = EntriesIn(blocks)
         /\ WellMade(blocks) => WellMade(PutTo(blocks, Put(x, c)))
<1> DEFINE b == blocks[x]
           s == Short(Dot, x)
           t == Short(DotDot, y)
           first == Written(b, 0, s)
           c == Written(first, 1, t)
           between == PutTo(blocks, Put(x, first))
           after == PutTo(between, Put(x, c))
<1>1. Good(blocks) /\ GoodBlock(b) /\ x \in Cluster /\ x \in Directory /\ x \notin u /\ u \subseteq Object
  BY UsableGood DEF Usable
<1>2. 0 \in Position /\ 1 \in Position /\ 1 - 1 = 0 /\ 0 # 1
  BY Positions
<1>3. x \in Object \cup {Root} /\ y \in Object \cup {Root} /\ NoName \notin Used \cup {Dot, DotDot}
      /\ Dot \notin Used /\ DotDot \notin Used
  BY DirAssumption DEF Directory, Object
<1>4. GoodSlot(s) /\ GoodSlot(t)
  BY <1>3, GoodSlots
<1>5. b[0] = Blank /\ b[1] = Blank
  BY <1>2
<1>6. /\ s.ord = "used" /\ ~s.long /\ s.name = Dot /\ s.target = x
      /\ t.ord = "used" /\ ~t.long /\ t.name = DotDot /\ t.target = y
  BY DEF Short
<1>7. Blank.name = NoName /\ ~Blank.long /\ Blank.ord = "end"
  BY DEF Blank
<1>8. Edit(b, first, 0, 0) /\ first[0] = s
  <2>1. PlaceIn(b, 0, 0)
    BY <1>2, <1>3, <1>5, <1>7 DEF PlaceIn, Whole
  <2> QED BY <1>1, <1>4, <2>1, ShortEdit
<1>9. /\ Stage(between, u) /\ EntriesIn(between) = EntriesIn(blocks)
      /\ WellMade(blocks) => WellMade(between)
  BY <1>1, <1>3, <1>5, <1>6, <1>7, <1>8, NoEntryEdit
<1>10. between[x] = first /\ Usable(between, x, u)
  <2>1. between[x] = first
    BY <1>1, PutToIs
  <2> QED BY <1>1, <1>9, <2>1 DEF Usable
<1>11. GoodBlock(first) /\ first[1] = Blank
  <2>1. GoodBlock(first)
    BY <1>1, <1>8, EditBlock
  <2> QED BY <1>2, <1>5, <1>8, <2>1 DEF Edit
<1> HIDE DEF s, t, first, between
<1>12. Edit(first, c, 1, 1) /\ c[1] = t
  <2>1. PlaceIn(first, 1, 1)
    BY <1>2, <1>3, <1>6, <1>7, <1>8, <1>11 DEF PlaceIn, Whole
  <2> QED BY <1>4, <1>11, <2>1, ShortEdit DEF t
<1>13. c[0] = s
  BY <1>2, <1>8, <1>12 DEF Edit
<1>14. /\ Stage(after, u) /\ EntriesIn(after) = EntriesIn(between)
       /\ WellMade(between) => WellMade(after)
  BY <1>3, <1>6, <1>7, <1>10, <1>11, <1>12, NoEntryEdit
<1>15. after = PutTo(blocks, Put(x, c))
  BY <1>1 DEF PutTo, Put, Good, between
<1>16. Dotted(c) /\ PutTo(blocks, Put(x, c))[x] = c
  BY <1>1, <1>6, <1>12, <1>13, PutToIs DEF Dotted
<1>17. c = DotsBlock(b, x, y)
  BY <1>1, <1>2 DEF DotsBlock, WrittenTwo, Written, first, s, t, GoodBlock
<1> HIDE DEF c, after
<1>18. Safe(blocks, Put(x, c), u)
  <2>1. Put(x, c).cluster = x
    BY DEF Put
  <2> QED BY <1>1, <1>9, <1>14, <1>15, <2>1 DEF Safe, Stepped
<1> QED BY <1>9, <1>14, <1>15, <1>16, <1>17, <1>18
-----------------------------------------------------------------------------
(* What each call still has to put keeps the tree.                         *)

\* No call is being served, and nothing was lost.
Resting ==
    /\ Idle
    /\ unused \subseteq Object
    /\ Stage(block, unused) /\ Good(block) /\ Fresh(block, unused) /\ WellMade(block)

LEMMA IdleRests == ASSUME IInv, Idle PROVE Resting
<1>1. ASSUME NEW p, NEW q PROVE <<p>> # <<>> /\ <<p, q>> # <<>>
  OBVIOUS
<1>2. Pending(block, todo, unused, status = "up", op # "mkdir")
  BY DEF IInv
<1>3. WellMade(block)
  BY <1>1, <1>2 DEF Idle, Pending
<1> QED BY <1>3 DEF IInv, Resting, Stage

\* Fewer objects are unused.
LEMMA FreshLess ==
  ASSUME NEW blocks, NEW u, NEW v, v \subseteq u, Stage(blocks, u)
  PROVE  Stage(blocks, v)
BY DEF Stage, Fresh

\* A name in the directory of a path.
LEMMA NameIs ==
  ASSUME OneBlock, Resting, NEW p \in DirPath, Parent(p), NEW n \in Used,
         NEW d, d = Contents(Open(p))
  PROVE  /\ ParentIn(Open(p), d, unused) /\ Usable(block, d, unused)
         /\ Open(Append(p, n)).status = "missing" => \A i \in Heads(block[d]) : block[d][i].name # n
         /\ Open(Append(p, n)).status = "found" => FoundIn(d, n, Open(Append(p, n)))
         /\ Open(Append(p, n)).status = "astray" => Visible(block[d]) = Position
<1>1. ParentIn(Open(p), d, unused)
  BY ParentIs DEF Resting, Parent
<1>2. Usable(block, d, unused)
  BY <1>1 DEF Usable, ParentIn, Resting
<1>3. Open(Append(p, n)) = Lookup(d, n)
  BY OpenIs DEF Under, Parent, IsDirectory
<1>4. LookedUp(d, n, Lookup(d, n), 0)
  BY <1>2, LookupFacts DEF Resting, Usable
<1>5. \A i \in Heads(block[d]) : i >= 0
  BY Positions DEF Heads, Visible
<1> QED BY <1>1, <1>2, <1>3, <1>4, <1>5 DEF LookedUp, FoundIn

\* Nothing, or one block, is still to be put.
LEMMA PendOne ==
  ASSUME NEW blocks, NEW p, NEW u, NEW up, NEW whole, Safe(blocks, p, u),
         WellMade(blocks), WellMade(PutTo(blocks, p))
  PROVE  Pending(blocks, <<p>>, u, up, whole)
BY DEF Pending

LEMMA PendNone ==
  ASSUME NEW blocks, NEW u, NEW whole
  PROVE  Pending(blocks, <<>>, u, FALSE, whole)
BY DEF Pending

Kinds == {"none", "mknod", "mkdir", "unlink", "rmdir", "rename", "move"}

LEMMA IInvNext ==
  ASSUME unused' \subseteq Object, op' \in Kinds, status' \in {"up", "astray"},
         block' = block, Stage(block, unused'),
         Pending(block, todo', unused', status' = "up", op' # "mkdir")
  PROVE  IInv'
BY DEF IInv, Kinds

\* A call that puts one block, and keeps what can be found.
LEMMA OneBlockPut ==
  ASSUME Resting, NEW kind \in Kinds, NEW p, Serve(kind, <<p>>), unused' \subseteq unused,
         p = Astray \/ (Safe(block, p, unused') /\ WellMade(PutTo(block, p)))
  PROVE  IInv'
<1>1. /\ op' = kind /\ block' = block
      /\ \/ p # Astray /\ todo' = <<p>> /\ status' = status
         \/ p = Astray /\ todo' = <<>> /\ status' = "astray"
  BY ServeOne
<1>2. Stage(block, unused') /\ unused' \subseteq Object /\ status' \in {"up", "astray"}
  BY <1>1, FreshLess DEF Resting, Idle
<1>3. CASE p # Astray
  <2>1. Safe(block, p, unused') /\ WellMade(PutTo(block, p)) /\ WellMade(block) /\ todo' = <<p>>
    BY <1>1, <1>3 DEF Resting
  <2>2. \A up, whole : Pending(block, <<p>>, unused', up, whole)
    BY <2>1, PendOne
  <2>3. Pending(block, todo', unused', status' = "up", op' # "mkdir")
    BY <2>1, <2>2
  <2> QED BY <1>1, <1>2, <2>3, IInvNext
<1>4. CASE p = Astray
  <2>1. todo' = <<>> /\ status' # "up"
    BY <1>1, <1>4
  <2>2. Pending(block, todo', unused', status' = "up", op' # "mkdir")
    BY <2>1 DEF Pending
  <2> QED BY <1>1, <1>2, <2>2, IInvNext
<1> QED BY <1>3, <1>4

LEMMA EnteredIs ==
  ASSUME OneBlock, Good(block), NEW dir, NEW d \in Cluster, d = Contents(dir), NEW n, NEW x
  PROVE  \/ Entered(dir, n, x) = <<Astray>>
         \/ \E a : FreeAt(block[d], a) /\ Entered(dir, n, x) = <<Put(d, NewPair(block[d], a, n, x))>>
<1> DEFINE p == FreePair(d, 0)
<1>1. PairFrom(d, 0, p)
  BY Positions, FreePairFacts
<1>2. Entered(dir, n, x) =
         IF p.status = "astray" THEN <<Astray>>
         ELSE <<Put(p.cluster, NewPair(block[p.cluster], p.at, n, x))>>
  BY DEF Entered, NewPair, WrittenTwo
<1> HIDE DEF p
<1>3. CASE p = Astray
  BY <1>2, <1>3 DEF Astray
<1>4. CASE p.status = "found" /\ p.cluster = d /\ FreeAt(block[d], p.at)
  BY <1>2, <1>4
<1> QED BY <1>1, <1>3, <1>4 DEF PairFrom

LEMMA MknodKeeps ==
  ASSUME OneBlock, Resting, NEW p \in DirPath, NEW n \in Name, Mknod(p, n)
  PROVE  IInv'
<1> DEFINE d == Contents(Open(p))
           x == CHOOSE x \in unused \cap FileObject : TRUE
<1>1. x \in unused /\ x \in FileObject /\ unused' = unused \ {x} /\ Serve("mknod", Entered(Open(p), n, x))
      /\ Parent(p) /\ Open(Append(p, n)).status = "missing"
  BY DEF Mknod
<1> HIDE DEF x
<1>2. n \in Used /\ x \in Object /\ x \notin DirObject /\ x \notin unused' /\ unused' \subseteq unused
  BY <1>1, DirAssumption DEF Used, Object
<1>3. Usable(block, d, unused) /\ \A i \in Heads(block[d]) : block[d][i].name # n
  BY <1>1, <1>2, NameIs
<1>4. Usable(block, d, unused')
  BY <1>2, <1>3, FreshLess DEF Usable
<1> HIDE DEF d
<1>5. d = Contents(Open(p)) /\ d \in Cluster /\ Good(block) /\ WellMade(block)
  BY <1>3 DEF d, Usable, Resting
<1>6. CASE Entered(Open(p), n, x) = <<Astray>>
  BY <1>1, <1>2, <1>6, OneBlockPut DEF Kinds
<1>7. ASSUME NEW a, FreeAt(block[d], a),
             Entered(Open(p), n, x) = <<Put(d, NewPair(block[d], a, n, x))>>
      PROVE  IInv'
  <2> DEFINE q == Put(d, NewPair(block[d], a, n, x))
  <2>1. Safe(block, q, unused') /\ WellMade(PutTo(block, q))
    BY <1>2, <1>3, <1>4, <1>5, <1>7, AddSafe
  <2>2. Serve("mknod", <<q>>)
    BY <1>1, <1>7
  <2> HIDE DEF q
  <2> QED BY <1>2, <2>1, <2>2, OneBlockPut DEF Kinds
<1> QED BY <1>5, <1>6, <1>7, EnteredIs

LEMMA PutsCommute ==
  ASSUME NEW blocks, Good(blocks), NEW d \in Cluster, NEW x \in Cluster, d # x, NEW b, NEW c
  PROVE  PutTo(PutTo(blocks, Put(d, b)), Put(x, c)) = PutTo(PutTo(blocks, Put(x, c)), Put(d, b))
BY DEF PutTo, Put, Good

\* The entry of a new directory and its own block, in this order.
LEMMA MkdirBlocks ==
  ASSUME OneBlock, NEW u, NEW d, Usable(block, d, u), WellMade(block),
         NEW x \in DirObject, x # d, Usable(block, x, u), block[x] = [i \in Position |-> Blank],
         NEW a, FreeAt(block[d], a), NEW n \in Name, \A i \in Heads(block[d]) : block[d][i].name # n
  PROVE  LET p == Put(d, NewPair(block[d], a, n, x))
             q == Put(x, DotsBlock(block[x], x, d))
         IN
         /\ Safe(block, p, u) /\ Safe(PutTo(block, p), q, u)
         /\ WellMade(PutTo(PutTo(block, p), q))
<1> DEFINE c == NewPair(block[d], a, n, x)
           m == DotsBlock(block[x], x, d)
           p == Put(d, c)
           q == Put(x, m)
           dots == PutTo(block, q)
           named == PutTo(block, p)
<1>1. Good(block) /\ d \in Cluster /\ x \in Cluster /\ d \in Directory /\ x \in Directory
      /\ x \in Object /\ x \notin u /\ d \notin u
  BY UsableGood DEF Usable, Object
<1>2. Safe(block, p, u)
  BY <1>1, AddSafe
<1>3. Safe(block, q, u) /\ Dotted(dots[x]) /\ WellMade(dots)
  BY <1>1, DotsSafe
<1> HIDE DEF c, m
<1>4. dots[d] = block[d] /\ named[x] = block[x]
  BY <1>1, PutToIs
<1>5. Usable(dots, d, u) /\ Usable(named, x, u)
  BY <1>2, <1>3 DEF Usable, Safe
<1>6. Safe(named, q, u)
  <2> HIDE DEF named
  <2>1. named[x] = [i \in Position |-> Blank]
    BY <1>4
  <2>2. Safe(named, Put(x, DotsBlock(named[x], x, d)), u)
    BY <1>1, <1>5, <2>1, DotsSafe
  <2> QED BY <1>4, <2>2 DEF m
<1>7. WellMade(PutTo(dots, p))
  <2> HIDE DEF dots
  <2>1. WellMade(PutTo(dots, Put(d, NewPair(dots[d], a, n, x))))
    BY <1>1, <1>3, <1>4, <1>5, AddSafe
  <2> QED BY <1>4, <2>1 DEF c
<1>8. PutTo(named, q) = PutTo(dots, p)
  BY <1>1, PutsCommute
<1> QED BY <1>2, <1>6, <1>7, <1>8 DEF c, m

LEMMA MkdirKeeps ==
  ASSUME OneBlock, Resting, NEW p \in DirPath, NEW n \in Name, Mkdir(p, n)
  PROVE  IInv'
<1> DEFINE d == Contents(Open(p))
           x == CHOOSE x \in unused \cap DirObject : TRUE
           q == Put(x, [block[x] EXCEPT ![0] = Short(Dot, x), ![1] = Short(DotDot, Open(p).target)])
<1>1. x \in unused /\ x \in DirObject /\ unused' = unused \ {x}
      /\ Serve("mkdir", Entered(Open(p), n, x) \o <<q>>)
      /\ Parent(p) /\ Open(Append(p, n)).status = "missing"
  BY DEF Mkdir
<1> HIDE DEF x
<1>2. n \in Used /\ x \in Object /\ x \notin unused' /\ unused' \subseteq unused /\ unused' \subseteq Object
  BY <1>1 DEF Used, Object, Resting
<1>3. /\ Usable(block, d, unused) /\ \A i \in Heads(block[d]) : block[d][i].name # n
      /\ ParentIn(Open(p), d, unused)
  BY <1>1, <1>2, NameIs
<1> HIDE DEF d
<1>4. Usable(block, d, unused') /\ Open(p).target = d /\ x # d
  BY <1>1, <1>2, <1>3, FreshLess DEF Usable, ParentIn
<1>5. d = Contents(Open(p)) /\ d \in Cluster /\ d \in Directory /\ d \notin unused' /\ Good(block)
      /\ WellMade(block) /\ Stage(block, unused')
  BY <1>3, <1>4 DEF d, Usable, Resting
<1>6. block[x] = [i \in Position |-> Blank] /\ Usable(block, x, unused')
  BY <1>1, <1>2, <1>5, DirectoryType DEF Resting, Fresh, Usable, Directory, Cluster
<1>7. q = Put(x, DotsBlock(block[x], x, d)) /\ q # Astray
  BY <1>4, PutIsNot DEF DotsBlock, WrittenTwo
<1> HIDE DEF q
<1>8. CASE Entered(Open(p), n, x) = <<Astray>>
  <2>1. Serve("mkdir", <<Astray, q>>)
    BY <1>1, <1>8, Tuples
  <2>2. op' = "mkdir" /\ block' = block /\ todo' = <<q>> /\ status' = "astray"
    BY <1>7, <2>1, ServeTwo
  <2>3. Safe(block, q, unused')
    BY <1>1, <1>5, <1>6, <1>7, DotsSafe
  <2>4. Pending(block, todo', unused', status' = "up", op' # "mkdir")
    BY <2>2, <2>3 DEF Pending
  <2> QED BY <1>2, <1>5, <2>2, <2>4, IInvNext DEF Kinds
<1>9. ASSUME NEW a, FreeAt(block[d], a),
             Entered(Open(p), n, x) = <<Put(d, NewPair(block[d], a, n, x))>>
      PROVE  IInv'
  <2> DEFINE r == Put(d, NewPair(block[d], a, n, x))
  <2>1. Safe(block, r, unused') /\ Safe(PutTo(block, r), q, unused') /\ WellMade(PutTo(PutTo(block, r), q))
    BY <1>1, <1>3, <1>4, <1>5, <1>6, <1>7, <1>9, MkdirBlocks
  <2>2. r # Astray
    BY PutIsNot
  <2>3. Serve("mkdir", <<r, q>>)
    BY <1>1, <1>9, Tuples
  <2> HIDE DEF r
  <2>4. op' = "mkdir" /\ block' = block /\ todo' = <<r, q>> /\ status' = status
    BY <1>7, <2>2, <2>3, ServeTwo
  <2>5. Pending(block, todo', unused', status' = "up", op' # "mkdir")
    BY <2>1, <2>4 DEF Pending
  <2>6. status' \in {"up", "astray"}
    BY <2>4 DEF Resting, Idle
  <2> QED BY <1>2, <1>5, <2>4, <2>5, <2>6, IInvNext DEF Kinds
<1> QED BY <1>5, <1>8, <1>9, EnteredIs

\* Where a block says that f is.
FoundAt(blocks, d, f) ==
    LET b == blocks[d]
        i == f.sourceOffset
    IN
    /\ f.source = d /\ i \in Heads(b) /\ f.long = b[i].long
    /\ f.target = b[IF b[i].long THEN i + 1 ELSE i].target

\* The last slot of the entry of f.
LastOf(blocks, d, f) == IF blocks[d][f.sourceOffset].long THEN f.sourceOffset + 1 ELSE f.sourceOffset

LEMMA FoundFacts ==
  ASSUME OneBlock, NEW blocks, NEW d, NEW u, Usable(blocks, d, u), NEW f, FoundAt(blocks, d, f)
  PROVE  /\ f.sourceOffset \in Position /\ LastOf(blocks, d, f) \in Position
         /\ f.target \in Object /\ f.target \notin u
         /\ Entry(d, blocks[d], f.sourceOffset) \in EntriesIn(blocks)
         /\ Entry(d, blocks[d], f.sourceOffset).object = f.target
         /\ WellMade(blocks) /\ f.target \in DirObject => Dotted(blocks[f.target])
         /\ OneShort /\ ~f.long => Present # <<>> /\ f.target = Present[1][2] /\ f.target \notin Directory
<1> DEFINE i == f.sourceOffset
           b == blocks[d]
           k == LastOf(blocks, d, f)
<1>1. Good(blocks) /\ Fresh(blocks, u) /\ d \in Directory /\ d \in Cluster
      /\ (OneShort => Alone(blocks)) /\ i \in Heads(b) /\ f.target = b[k].target
      /\ k = (IF b[i].long THEN i + 1 ELSE i)
  BY UsableGood DEF Usable, Stage, FoundAt, LastOf
<1> HIDE DEF k
<1>2. /\ i \in Position /\ k \in Position
      /\ b[k].name \in Used /\ b[k].target \in Object
      /\ Entry(d, b, i) \in EntriesIn(blocks) /\ Entry(d, b, i).object = b[k].target
  BY <1>1, FoundIs
<1>3. f.target \notin u
  BY <1>1, <1>2 DEF Fresh
<1>4. WellMade(blocks) /\ f.target \in DirObject => Dotted(blocks[f.target])
  BY <1>1, <1>2 DEF WellMade
<1>5. ASSUME OneShort, ~f.long
      PROVE  Present # <<>> /\ f.target = Present[1][2] /\ f.target \notin Directory
  <2>1. ~b[i].long
    BY <1>5 DEF FoundAt
  <2>2. Present # <<>> /\ b[i].target = Present[1][2] /\ k = i
    BY <1>1, <1>5, <2>1 DEF Alone
  <2>3. Present[1] \in Shorts \X FileObject
    BY <1>5, <2>2, DirAssumption DEF OneShort
  <2>4. Present[1][2] \in FileObject
    BY <2>3
  <2> QED BY <1>1, <2>2, <2>4, DirAssumption DEF Directory, Object
<1> QED BY <1>1, <1>2, <1>3, <1>4, <1>5 DEF k

LEMMA FoundAtIs ==
  ASSUME NEW d, NEW n, NEW f, FoundIn(d, n, f)
  PROVE  FoundAt(block, d, f) /\ block[d][f.sourceOffset].name = n
BY DEF FoundIn, FoundAt

LEMMA UnlinkedIs ==
  ASSUME OneBlock, NEW blocks, NEW d, NEW u, Usable(blocks, d, u), NEW f, FoundAt(blocks, d, f),
         NEW junk \in Junks
  PROVE  LET i == f.sourceOffset
             k == LastOf(blocks, d, f)
         IN
         \/ Unlinked(blocks, f, junk) = <<Astray>>
         \/ \E ord \in {"free", "end"} :
               /\ ord = "end" => k + 1 \in Position /\ blocks[d][k + 1].ord = "end"
               /\ Unlinked(blocks, f, junk) = <<Put(d, WipedBlock(blocks[d], i, k, ord))>>
<1> DEFINE i == f.sourceOffset
           k == LastOf(blocks, d, f)
           b == blocks[d]
           j == IF b[i].long THEN i + 2 ELSE i + 1
           over == j >= (IF b[i].long THEN BlockSlots ELSE SectorSlots)
           split == b[i].long /\ i + 1 >= BlockSlots
           ord == IF b[j].ord = "end" THEN "end" ELSE "free"
<1>1. f.source = d /\ d \in Cluster /\ FatNext[d] = None
  BY DEF FoundAt, Usable, OneBlock
<1>2. i \in Position /\ k \in Position /\ k = (IF b[i].long THEN i + 1 ELSE i)
  <2>1. i \in Position /\ k \in Position
    BY FoundFacts
  <2>2. k = (IF b[i].long THEN i + 1 ELSE i)
    BY DEF LastOf
  <2> HIDE DEF i, k, b
  <2> QED BY <2>1, <2>2
<1>3. junk[1] = FALSE /\ junk[2] = FALSE
  <2>1. junk \in [{1, 2} -> Junk]
    <3>1. 1 .. 2 = {1, 2}
      OBVIOUS
    <3> QED BY <3>1 DEF Junks
  <2>2. \A y \in Junk : y = FALSE
    BY Zenon DEF OneBlock
  <2>3. junk[1] \in Junk /\ junk[2] \in Junk
    BY <2>1, Zenon
  <2> QED BY <2>2, <2>3, Zenon
<1>4. ~split
  BY <1>2, Positions
<1> HIDE DEF split
<1>5. CASE over
  BY <1>1, <1>5 DEF Unlinked
<1>6. CASE ~over
  <2>1. j = k + 1 /\ j \in Position
    BY <1>2, <1>6, Positions
  <2>2. Unlinked(blocks, f, junk) =
           <<Put(d, [m \in Position |-> IF m = i THEN Wiped(ord, FALSE)
                                        ELSE IF m = i + 1 /\ b[i].long THEN Wiped(ord, FALSE) ELSE b[m]])>>
    BY <1>1, <1>3, <1>4, <1>6 DEF Unlinked, split
  <2> HIDE DEF ord
  <2>3. \A m \in Position : (IF m = i THEN Wiped(ord, FALSE)
                              ELSE IF m = i + 1 /\ b[i].long THEN Wiped(ord, FALSE) ELSE b[m])
                             = IF m = i \/ m = k THEN Clean(ord) ELSE b[m]
    BY <1>2 DEF Clean
  <2>4. [m \in Position |-> IF m = i THEN Wiped(ord, FALSE)
                            ELSE IF m = i + 1 /\ b[i].long THEN Wiped(ord, FALSE) ELSE b[m]]
        = WipedBlock(b, i, k, ord)
    BY <2>3 DEF WipedBlock
  <2>5. Unlinked(blocks, f, junk) = <<Put(d, WipedBlock(b, i, k, ord))>>
    BY <2>2, <2>4
  <2>6. ord \in {"free", "end"} /\ (ord = "end" => k + 1 \in Position /\ b[k + 1].ord = "end")
    BY <2>1 DEF ord
  <2> QED BY <2>5, <2>6
<1> QED BY <1>5, <1>6

\* The entry of f may go.
MayGo(blocks, d, f) ==
    LET e == Entry(d, blocks[d], f.sourceOffset) IN
    \/ e.object \notin Directory
    \/ \A x \in EntriesIn(blocks) : x.dir # e.object
    \/ \E other \in EntriesIn(blocks) : other # e /\ other.object = e.object

LEMMA UnlinkedSafe ==
  ASSUME OneBlock, NEW blocks, NEW d, NEW u, Usable(blocks, d, u), WellMade(blocks),
         NEW f, FoundAt(blocks, d, f), OneShort => MayGo(blocks, d, f), NEW junk \in Junks
  PROVE  \/ Unlinked(blocks, f, junk) = <<Astray>>
         \/ \E p : /\ Unlinked(blocks, f, junk) = <<p>> /\ Safe(blocks, p, u)
                   /\ WellMade(PutTo(blocks, p))
<1> DEFINE i == f.sourceOffset
           k == LastOf(blocks, d, f)
<1>1. CASE Unlinked(blocks, f, junk) = <<Astray>>
  BY <1>1
<1>2. ASSUME NEW ord \in {"free", "end"},
             ord = "end" => k + 1 \in Position /\ blocks[d][k + 1].ord = "end",
             Unlinked(blocks, f, junk) = <<Put(d, WipedBlock(blocks[d], i, k, ord))>>
      PROVE  \E p : /\ Unlinked(blocks, f, junk) = <<p>> /\ Safe(blocks, p, u)
                    /\ WellMade(PutTo(blocks, p))
  <2> DEFINE p == Put(d, WipedBlock(blocks[d], i, k, ord))
  <2>1. i \in Heads(blocks[d]) /\ k = (IF blocks[d][i].long THEN i + 1 ELSE i)
    BY DEF FoundAt, LastOf
  <2>2. OneShort => LET e == Entry(d, blocks[d], i) IN
            \/ e.object \notin Directory
            \/ \A x \in EntriesIn(blocks) : x.dir # e.object
            \/ \E other \in EntriesIn(blocks) : other # e /\ other.object = e.object
    BY DEF MayGo
  <2> HIDE DEF i, k
  <2>3. Safe(blocks, p, u) /\ WellMade(PutTo(blocks, p))
    BY <1>2, <2>1, <2>2, RemoveSafe
  <2> QED BY <1>2, <2>3
<1>3. \/ Unlinked(blocks, f, junk) = <<Astray>>
      \/ \E ord \in {"free", "end"} :
            /\ ord = "end" => k + 1 \in Position /\ blocks[d][k + 1].ord = "end"
            /\ Unlinked(blocks, f, junk) = <<Put(d, WipedBlock(blocks[d], i, k, ord))>>
  BY UnlinkedIs
<1> HIDE DEF i, k
<1> QED BY <1>2, <1>3

LEMMA UnlinkKeeps ==
  ASSUME OneBlock, Resting, NEW p \in DirPath, NEW n \in Used, Unlink(p, n)
  PROVE  IInv'
<1> DEFINE d == Contents(Open(p))
           f == Open(Append(p, n))
<1>1. Parent(p) /\ f.status = "found" /\ ~IsDirectory(f) /\ unused' = unused
      /\ \E junk \in Junks : Serve("unlink", Unlinked(block, f, junk))
  BY DEF Unlink
<1>2. PICK junk \in Junks : Serve("unlink", Unlinked(block, f, junk))
  BY <1>1
<1>3. Usable(block, d, unused) /\ FoundIn(d, n, f)
  BY <1>1, NameIs
<1> HIDE DEF d, f
<1>4. FoundAt(block, d, f)
  BY <1>3, FoundAtIs
<1>5. MayGo(block, d, f)
  <2>1. Entry(d, block[d], f.sourceOffset).object = f.target
    BY <1>3, <1>4, FoundFacts
  <2>2. f.target \notin Directory
    BY <1>1 DEF IsDirectory, Directory
  <2> QED BY <2>1, <2>2 DEF MayGo
<1>6. WellMade(block) /\ unused' \subseteq unused
  BY <1>1 DEF Resting
<1>7. CASE Unlinked(block, f, junk) = <<Astray>>
  BY <1>2, <1>6, <1>7, OneBlockPut DEF Kinds
<1>8. ASSUME NEW q, Unlinked(block, f, junk) = <<q>>, Safe(block, q, unused), WellMade(PutTo(block, q))
      PROVE  IInv'
  <2>1. Serve("unlink", <<q>>) /\ Safe(block, q, unused')
    BY <1>1, <1>2, <1>8
  <2> QED BY <1>6, <1>8, <2>1, OneBlockPut DEF Kinds
<1> QED BY <1>3, <1>4, <1>5, <1>6, <1>7, <1>8, UnlinkedSafe

LEMMA RmdirKeeps ==
  ASSUME OneBlock, Resting, NEW p \in DirPath, NEW n \in Used, Rmdir(p, n)
  PROVE  IInv'
<1> DEFINE d == Contents(Open(p))
           f == Open(Append(p, n))
           puts(junk) == IF Emptiness(f) = "empty" THEN Unlinked(block, f, junk) ELSE <<Astray>>
<1>1. Parent(p) /\ IsDirectory(f) /\ unused' = unused
      /\ \E junk \in Junks : Serve("rmdir", puts(junk))
  BY DEF Rmdir
<1>2. PICK junk \in Junks : Serve("rmdir", puts(junk))
  BY <1>1
<1>3. Usable(block, d, unused) /\ FoundIn(d, n, f)
  BY <1>1, NameIs DEF IsDirectory
<1> HIDE DEF d, f
<1>4. FoundAt(block, d, f)
  BY <1>3, FoundAtIs
<1>5. WellMade(block) /\ unused' \subseteq unused /\ Good(block)
  BY <1>1 DEF Resting
<1>6. CASE Emptiness(f) # "empty"
  BY <1>2, <1>5, <1>6, OneBlockPut DEF Kinds
<1>7. CASE Emptiness(f) = "empty"
  <2>1. /\ Entry(d, block[d], f.sourceOffset).object = f.target /\ f.target \in Object
        /\ (f.target \in DirObject => Dotted(block[f.target]))
    BY <1>3, <1>4, <1>5, FoundFacts
  <2>2. f.target \in DirObject /\ f.first = f.target
    BY <1>1, <1>3, <2>1, DirAssumption DEF IsDirectory, FoundIn
  <2>3. Heads(block[f.target]) = {}
    BY <1>5, <1>7, <2>1, <2>2, EmptinessFacts DEF Cluster
  <2>4. MayGo(block, d, f)
    <3>1. \A x \in EntriesIn(block) : x.dir # f.target
      <4> SUFFICES ASSUME NEW x \in EntriesIn(block), x.dir = f.target PROVE FALSE
        OBVIOUS
      <4>1. PICK y \in Directory : \E k \in Heads(block[y]) : x = Entry(y, block[y], k)
        BY AllEntriesAre
      <4>2. x.dir = y
        BY <4>1 DEF Entry
      <4> QED BY <2>3, <4>1, <4>2
    <3> QED BY <2>1, <3>1 DEF MayGo
  <2>5. Serve("rmdir", Unlinked(block, f, junk))
    BY <1>2, <1>7
  <2>6. CASE Unlinked(block, f, junk) = <<Astray>>
    BY <1>5, <2>5, <2>6, OneBlockPut DEF Kinds
  <2>7. ASSUME NEW q, Unlinked(block, f, junk) = <<q>>, Safe(block, q, unused), WellMade(PutTo(block, q))
        PROVE  IInv'
    <3>1. Serve("rmdir", <<q>>) /\ Safe(block, q, unused')
      BY <1>1, <2>5, <2>7
    <3> QED BY <1>5, <2>7, <3>1, OneBlockPut DEF Kinds
  <2> QED BY <1>3, <1>4, <1>5, <2>4, <2>6, <2>7, UnlinkedSafe
<1> QED BY <1>6, <1>7

LEMMA RenamedIs ==
  ASSUME OneBlock, NEW d, NEW u, Usable(block, d, u), NEW f, FoundAt(block, d, f), NEW n
  PROVE  LET i == f.sourceOffset IN
         Renamed(f, n) = IF ~f.long THEN <<Put(d, Written(block[d], i, Short(ShortOf[n], f.target)))>>
                         ELSE <<Put(d, NewPair(block[d], i, n, f.target))>>
<1>1. f.sourceOffset \in Position /\ LastOf(block, d, f) \in Position /\ f.source = d
  BY FoundFacts DEF FoundAt
<1>2. f.long => f.sourceOffset + 1 < BlockSlots
  BY <1>1, Positions DEF LastOf, FoundAt
<1> QED BY <1>1, <1>2 DEF Renamed, Written, NewPair, WrittenTwo

\* With one short entry that stands alone, all short names are its own.
LEMMA ShortNames ==
  ASSUME OneShort, Present # <<>>, NEW n \in Name
  PROVE  ShortOf[n] = Present[1][1]
<1>1. Len(Present) = 1 /\ DOMAIN Present = {1}
  BY DirAssumption DEF OneShort
<1>2. Shorts = {Present[1][1]}
  BY <1>1 DEF Shorts
<1> QED BY <1>2 DEF OneShort

LEMMA RenameKeeps ==
  ASSUME OneBlock, Resting, NEW p \in DirPath, NEW n \in Used, NEW new \in Name, Rename(p, n, new)
  PROVE  IInv'
<1> DEFINE d == Contents(Open(p))
           f == Open(Append(p, n))
           i == f.sourceOffset
<1>1. Parent(p) /\ f.status = "found" /\ Open(Append(p, new)).status = "missing"
      /\ Serve("rename", Renamed(f, new)) /\ unused' = unused
  BY DEF Rename
<1>2. new \in Used /\ ShortOf[new] \in Used
  BY DirAssumption DEF Used
<1>3. Usable(block, d, unused) /\ FoundIn(d, n, f) /\ \A k \in Heads(block[d]) : block[d][k].name # new
  BY <1>1, <1>2, NameIs
<1> HIDE DEF d, f
<1>4. FoundAt(block, d, f)
  BY <1>3, FoundAtIs
<1>5. WellMade(block) /\ unused' \subseteq unused /\ GoodBlock(block[d]) /\ i \in Heads(block[d])
  BY <1>1, <1>3, <1>4, UsableGood DEF Resting, FoundAt
<1>6. /\ f.target \in Object /\ f.target \notin unused
      /\ f.target \in DirObject => Dotted(block[f.target])
      /\ OneShort /\ ~f.long => Present # <<>> /\ f.target = Present[1][2]
  BY <1>3, <1>4, <1>5, FoundFacts
<1> HIDE DEF i
<1>7. CASE f.long
  <2> DEFINE q == Put(d, NewPair(block[d], i, new, f.target))
  <2>1. block[d][i].long /\ f.target = block[d][i + 1].target
    BY <1>4, <1>7 DEF FoundAt, i
  <2>2. Safe(block, q, unused') /\ WellMade(PutTo(block, q))
    BY <1>1, <1>3, <1>5, <2>1, RenamePairSafe
  <2>3. Serve("rename", <<q>>)
    BY <1>1, <1>3, <1>4, <1>7, RenamedIs DEF i
  <2> HIDE DEF q
  <2> QED BY <1>5, <2>2, <2>3, OneBlockPut DEF Kinds
<1>8. CASE ~f.long
  <2> DEFINE q == Put(d, Written(block[d], i, Short(ShortOf[new], f.target)))
  <2>1. ~block[d][i].long /\ f.target = block[d][i].target
    BY <1>4, <1>8 DEF FoundAt, i
  <2>2. PlaceIn(block[d], i, i) /\ block[d][i].name \in Used
    <3>1. i \in Position
      BY <1>5 DEF Heads, Visible
    <3> QED BY <1>5, <2>1, <3>1, HeadPlace, HeadsAre
  <2>3. OneShort => TheShort(ShortOf[new], f.target)
    BY <1>6, <1>8, ShortNames DEF TheShort
  <2>4. Safe(block, q, unused') /\ WellMade(PutTo(block, q))
    BY <1>1, <1>2, <1>3, <1>5, <1>6, <2>1, <2>2, <2>3, PutShortSafe
  <2>5. Serve("rename", <<q>>)
    BY <1>1, <1>3, <1>4, <1>8, RenamedIs DEF i
  <2> HIDE DEF q
  <2> QED BY <1>5, <2>4, <2>5, OneBlockPut DEF Kinds
<1> QED BY <1>7, <1>8

\* A call that puts two blocks, and keeps what can be found from one to the next.
LEMMA TwoBlocksPut ==
  ASSUME Resting, NEW kind \in Kinds, NEW p, NEW q, Serve(kind, <<p, q>>), unused' \subseteq unused,
         p # Astray, Safe(block, p, unused'), WellMade(PutTo(block, p)),
         q = Astray \/ (/\ Safe(PutTo(block, p), q, unused')
                        /\ WellMade(PutTo(PutTo(block, p), q)))
  PROVE  IInv'
<1>1. /\ op' = kind /\ block' = block
      /\ \/ p # Astray /\ q # Astray /\ todo' = <<p, q>> /\ status' = status
         \/ p = Astray /\ todo' = <<q>> /\ status' = "astray"
         \/ q = Astray /\ todo' = <<p>> /\ status' = "astray"
  BY ServeTwo
<1>2. Stage(block, unused') /\ unused' \subseteq Object /\ status' \in {"up", "astray"} /\ WellMade(block)
  BY <1>1, FreshLess DEF Resting, Idle
<1>3. CASE q # Astray
  <2>1. todo' = <<p, q>> /\ Safe(PutTo(block, p), q, unused') /\ WellMade(PutTo(PutTo(block, p), q))
    BY <1>1, <1>3
  <2>2. Pending(block, todo', unused', status' = "up", op' # "mkdir")
    BY <1>2, <2>1 DEF Pending
  <2> QED BY <1>1, <1>2, <2>2, IInvNext
<1>4. CASE q = Astray
  <2>1. todo' = <<p>>
    BY <1>1, <1>4
  <2>2. Pending(block, todo', unused', status' = "up", op' # "mkdir")
    BY <1>2, <2>1 DEF Pending
  <2> QED BY <1>1, <1>2, <2>2, IInvNext
<1> QED BY <1>3, <1>4

\* What f becomes at a, in the directory that it is moved into.
MovedBlock(b, a, f, n) ==
    IF f.long THEN NewPair(b, a, n, f.target) ELSE Written(b, a, Short(ShortOf[n], f.target))

LEMMA MovedIs ==
  ASSUME OneBlock, Good(block), NEW f, f.source \in Cluster, NEW dir, dir.first \in Cluster,
         Dotted(block[dir.first]), NEW n, NEW junk
  PROVE  \/ Moved(f, dir, n, junk) = <<Astray>>
         \/ \E a : LET p == Put(dir.first, MovedBlock(block[dir.first], a, f, n)) IN
               /\ FreeAt(block[dir.first], a)
               /\ Moved(f, dir, n, junk) = <<p>> \o Unlinked(PutTo(block, p), f, junk)
<1> DEFINE p == FreePair(dir.first, 2)
           d == dir.first
           new == IF ~f.long THEN Put(d, [block[d] EXCEPT ![p.at] = Short(ShortOf[n], f.target)])
                  ELSE Put(d, [block[d] EXCEPT ![p.at] = Long(n),
                                               ![p.at + 1] = Short(ShortOf[n], f.target)])
<1>1. PairFrom(d, 2, p)
  <2>1. 2 \in 0 .. BlockSlots /\ 2 - 1 = 1
    BY Positions
  <2>2. block[d][1].ord # "end"
    BY DEF Dotted
  <2> QED BY <2>1, <2>2, FreePairFacts
<1>2. FatNext[f.source] = None
  BY DEF OneBlock
<1>3. CASE p = Astray
  <2>1. p.status = "astray"
    BY <1>3 DEF Astray
  <2> QED BY <2>1 DEF Moved
<1>4. CASE f.long /\ p.at + 1 >= SectorSlots
  BY <1>2, <1>4 DEF Moved
<1>5. CASE p # Astray /\ ~(f.long /\ p.at + 1 >= SectorSlots)
  <2>1. p.status # "astray" /\ p.cluster = d /\ FreeAt(block[d], p.at)
    BY <1>1, <1>5 DEF PairFrom
  <2>2. f.long => p.at + 1 < SectorSlots
    BY <1>5, <2>1, Positions DEF FreeAt
  <2>3. Moved(f, dir, n, junk) = <<new>> \o Unlinked([block EXCEPT ![new.cluster] = new.slots], f, junk)
    <3>1. CASE f.long
      BY <1>5, <2>1, <2>2, <3>1 DEF Moved
    <3>2. CASE ~f.long
      BY <1>5, <2>1, <3>2 DEF Moved
    <3> QED BY <3>1, <3>2
  <2>4. new = Put(d, MovedBlock(block[d], p.at, f, n))
    BY DEF MovedBlock, NewPair, WrittenTwo, Written
  <2> HIDE DEF new
  <2>5. Moved(f, dir, n, junk) = <<new>> \o Unlinked(PutTo(block, new), f, junk)
    BY <2>3 DEF PutTo
  <2> QED BY <2>1, <2>4, <2>5
<1> QED BY <1>3, <1>4, <1>5

\* What a block says of f stays when something is written at a free place.
LEMMA FoundStays ==
  ASSUME NEW blocks, Good(blocks), NEW d \in Cluster, NEW f, FoundAt(blocks, d, f),
         NEW x \in Cluster, NEW c, NEW a, NEW j, Edit(blocks[x], c, a, j), blocks[x][a].name \notin Used
  PROVE  LET after == PutTo(blocks, Put(x, c)) IN
         FoundAt(after, d, f) /\ after[d][f.sourceOffset] = blocks[d][f.sourceOffset]
<1> DEFINE i == f.sourceOffset
           after == PutTo(blocks, Put(x, c))
<1>1. CASE d # x
  <2>1. after[d] = blocks[d]
    BY <1>1, PutToIs
  <2> QED BY <2>1 DEF FoundAt
<1>2. CASE d = x
  <2>1. GoodBlock(blocks[d]) /\ after[d] = c
    BY <1>2, PutToIs DEF Good
  <2>2. i \in Heads(blocks[d]) /\ i \in Position
    BY DEF FoundAt, Heads, Visible
  <2>3. i # a
    BY <1>2, <2>1, <2>2, HeadsAre
  <2>4. i \in Heads(c) /\ c[i] = blocks[d][i] /\ (blocks[d][i].long => c[i + 1] = blocks[d][i + 1])
    BY <1>2, <2>1, <2>2, <2>3, EditBlock
  <2> QED BY <2>1, <2>4 DEF FoundAt
<1> QED BY <1>1, <1>2

\* The new entry of f in directory e, and then the old one may go.
LEMMA MovedSafe ==
  ASSUME OneBlock, NEW u, NEW d, Usable(block, d, u), NEW e, Usable(block, e, u), WellMade(block),
         NEW n, NEW f, FoundAt(block, d, f), block[d][f.sourceOffset].name = n,
         NEW m \in Name, \A k \in Heads(block[e]) : block[e][k].name # m,
         NEW a, FreeAt(block[e], a)
  PROVE  LET p == Put(e, MovedBlock(block[e], a, f, m))
             after == PutTo(block, p)
         IN
         /\ Safe(block, p, u) /\ WellMade(after)
         /\ Usable(after, d, u) /\ FoundAt(after, d, f) /\ (OneShort => MayGo(after, d, f))
<1> DEFINE c == MovedBlock(block[e], a, f, m)
           p == Put(e, c)
           after == PutTo(block, p)
           s == IF f.long THEN m ELSE ShortOf[m]
<1>1. /\ f.target \in Object /\ f.target \notin u
      /\ f.target \in DirObject => Dotted(block[f.target])
      /\ OneShort /\ ~f.long => Present # <<>> /\ f.target = Present[1][2] /\ f.target \notin Directory
  BY FoundFacts
<1>2. Good(block) /\ GoodBlock(block[e]) /\ d \in Cluster /\ e \in Cluster
  BY UsableGood DEF Usable
<1>3. /\ Safe(block, p, u) /\ WellMade(after)
      /\ [dir |-> e, name |-> s, object |-> f.target] \in EntriesIn(after)
      /\ \E j : Edit(block[e], c, a, j) /\ block[e][a].name \notin Used
  <2>1. CASE f.long
    <3>1. c = NewPair(block[e], a, m, f.target) /\ s = m
      BY <2>1 DEF MovedBlock
    <3>2. block[e][a].name \notin Used
      BY <1>2, FreePlace
    <3> HIDE DEF c, s
    <3> QED BY <1>1, <3>1, <3>2, AddSafe
  <2>2. CASE ~f.long
    <3>1. c = Written(block[e], a, Short(ShortOf[m], f.target)) /\ s = ShortOf[m] /\ s \in Used
      BY <2>2, DirAssumption DEF MovedBlock
    <3>2. PlaceIn(block[e], a, a) /\ block[e][a].name \notin Used
      BY <1>2, FreePlace
    <3>3. OneShort => TheShort(ShortOf[m], f.target)
      BY <1>1, <2>2, ShortNames DEF TheShort
    <3> HIDE DEF c, s
    <3> QED BY <1>1, <3>1, <3>2, <3>3, PutShortSafe
  <2> QED BY <2>1, <2>2
<1> HIDE DEF c, s
<1>4. Usable(after, d, u)
  BY <1>3 DEF Usable, Safe
<1>5. FoundAt(after, d, f) /\ after[d][f.sourceOffset] = block[d][f.sourceOffset]
  BY <1>2, <1>3, FoundStays
<1> HIDE DEF p, after
<1>6. ASSUME OneShort PROVE MayGo(after, d, f)
  <2> DEFINE old == Entry(d, after[d], f.sourceOffset)
             new == [dir |-> e, name |-> s, object |-> f.target]
  <2>1. old.object = f.target /\ old.dir = d /\ old.name = n
    <3>1. old.object = f.target
      BY <1>4, <1>5, FoundFacts
    <3>2. old.dir = d /\ old.name = after[d][f.sourceOffset].name
      BY DEF Entry
    <3> QED BY <1>5, <3>1, <3>2
  <2>2. CASE ~f.long
    BY <1>1, <1>6, <2>1, <2>2 DEF MayGo
  <2>3. CASE f.long
    <3>1. s = m /\ new \in EntriesIn(after)
      BY <1>3, <2>3 DEF s
    <3>2. f.sourceOffset \in Heads(block[d])
      BY DEF FoundAt
    <3>3. d # e \/ n # m
      BY <3>2
    <3>4. new # old
      <4>1. new.dir = e /\ new.name = m
        BY <3>1
      <4> QED BY <2>1, <3>3, <4>1
    <3>5. new.object = old.object
      BY <2>1
    <3> QED BY <3>1, <3>4, <3>5 DEF MayGo
  <2> QED BY <2>2, <2>3
<1> QED BY <1>3, <1>4, <1>5, <1>6 DEF c, p, after

LEMMA MoveKeeps ==
  ASSUME OneBlock, Resting, NEW p \in DirPath, NEW n \in Used, NEW q \in DirPath, NEW new \in Name,
         Move(p, n, q, new)
  PROVE  IInv'
<1> DEFINE d == Contents(Open(p))
           e == Contents(Open(q))
           f == Open(Append(p, n))
           dir == Open(q)
<1>1. Parent(p) /\ Parent(q) /\ dir.target \in Into /\ f.status = "found"
      /\ Open(Append(q, new)).status = "missing" /\ unused' = unused
      /\ \E junk \in Junks : Serve("move", Moved(f, dir, new, junk))
  BY DEF Move
<1>2. PICK junk \in Junks : Serve("move", Moved(f, dir, new, junk))
  BY <1>1
<1>3. new \in Used
  BY DEF Used
<1>4. Usable(block, d, unused) /\ FoundIn(d, n, f)
  BY <1>1, NameIs
<1>5. Usable(block, e, unused) /\ ParentIn(dir, e, unused) /\ \A k \in Heads(block[e]) : block[e][k].name # new
  BY <1>1, <1>3, NameIs
<1> HIDE DEF d, f, e, dir
<1>6. dir.first = e /\ Dotted(block[e]) /\ e \in Cluster
  BY <1>1, <1>5 DEF ParentIn, OneBlock
<1>7. FoundAt(block, d, f) /\ block[d][f.sourceOffset].name = n
  BY <1>4, FoundAtIs
<1>8. WellMade(block) /\ unused' \subseteq unused /\ Good(block) /\ f.source \in Cluster
  BY <1>1, <1>4, <1>7 DEF Resting, FoundAt, Usable
<1>9. CASE Moved(f, dir, new, junk) = <<Astray>>
  BY <1>2, <1>8, <1>9, OneBlockPut DEF Kinds
<1>10. ASSUME NEW a, FreeAt(block[e], a),
              Moved(f, dir, new, junk) = <<Put(e, MovedBlock(block[e], a, f, new))>> \o
                 Unlinked(PutTo(block, Put(e, MovedBlock(block[e], a, f, new))), f, junk)
       PROVE  IInv'
  <2> DEFINE put == Put(e, MovedBlock(block[e], a, f, new))
             after == PutTo(block, put)
  <2>1. put # Astray
    BY PutIsNot
  <2>2. /\ Safe(block, put, unused') /\ WellMade(after)
        /\ Usable(after, d, unused') /\ FoundAt(after, d, f) /\ (OneShort => MayGo(after, d, f))
    BY <1>1, <1>4, <1>5, <1>7, <1>8, <1>10, MovedSafe
  <2>3. Serve("move", <<put>> \o Unlinked(after, f, junk))
    BY <1>2, <1>10
  <2> HIDE DEF put
  <2>4. CASE Unlinked(after, f, junk) = <<Astray>>
    <3>1. Serve("move", <<put, Astray>>)
      BY <2>3, <2>4, Tuples
    <3> QED BY <1>8, <2>1, <2>2, <3>1, TwoBlocksPut DEF Kinds
  <2>5. ASSUME NEW r, Unlinked(after, f, junk) = <<r>>, Safe(after, r, unused'), WellMade(PutTo(after, r))
        PROVE  IInv'
    <3>1. Serve("move", <<put, r>>)
      BY <2>3, <2>5, Tuples
    <3> QED BY <1>8, <2>1, <2>2, <2>5, <3>1, TwoBlocksPut DEF Kinds
  <2> HIDE DEF after
  <2> QED BY <2>2, <2>4, <2>5, UnlinkedSafe
<1>11. \/ Moved(f, dir, new, junk) = <<Astray>>
       \/ \E a : LET r == Put(dir.first, MovedBlock(block[dir.first], a, f, new)) IN
             /\ FreeAt(block[dir.first], a)
             /\ Moved(f, dir, new, junk) = <<r>> \o Unlinked(PutTo(block, r), f, junk)
  BY <1>6, <1>8, MovedIs
<1> QED BY <1>6, <1>9, <1>10, <1>11
-----------------------------------------------------------------------------
(* The invariant holds at first and after every step.                      *)

\* A slot of the first blocks: a file of the root, or blank.
LEMMA FirstSlots ==
  ASSUME Init, NEW c \in Cluster, NEW i \in Position
  PROVE  \/ /\ c = Root /\ i + 1 \in 1 .. Len(Present)
            /\ block[c][i] = Short(Present[i + 1][1], Present[i + 1][2])
            /\ Present[i + 1][1] \in Shorts /\ Present[i + 1][2] \in FileObject
            /\ Present[i + 1][2] \notin unused
         \/ ~(c = Root /\ i + 1 \in 1 .. Len(Present)) /\ block[c][i] = Blank
<1>1. DOMAIN Present = 1 .. Len(Present) /\ \A k \in DOMAIN Present : Present[k] \in Shorts \X FileObject
  BY DirAssumption
<1>2. block[c][i] = IF c = Root /\ i + 1 \in DOMAIN Present
                    THEN Short(Present[i + 1][1], Present[i + 1][2]) ELSE Blank
  BY DEF Init
<1>3. unused = Object \ {Present[k][2] : k \in DOMAIN Present}
  BY DEF Init
<1> QED BY <1>1, <1>2, <1>3

LEMMA InitHolds ==
  ASSUME OneBlock, Init
  PROVE  IInv
<1>1. block \in [Cluster -> [Position -> Slot]]
      /\ \A c \in Cluster, i \in Position : GoodSlot(block[c][i]) /\ ~block[c][i].long
  <2>1. ASSUME NEW c \in Cluster, NEW i \in Position
        PROVE  block[c][i] \in Slot /\ GoodSlot(block[c][i]) /\ ~block[c][i].long
    <3>1. CASE block[c][i] = Blank
      BY <3>1 DEF Blank, Slot, GoodSlot
    <3>2. ASSUME NEW n \in Shorts, NEW x \in FileObject, block[c][i] = Short(n, x)
          PROVE  block[c][i] \in Slot /\ GoodSlot(block[c][i]) /\ ~block[c][i].long
      <4>1. n \in Used /\ n # NoName /\ x \in Object /\ x # None
        BY DirAssumption DEF Used, Object
      <4> QED BY <3>2, <4>1 DEF Short, Slot, GoodSlot
    <3> QED BY <3>1, <3>2, FirstSlots
  <2>2. block = [c \in Cluster |-> [i \in Position |-> block[c][i]]]
    BY DEF Init
  <2> QED BY <2>1, <2>2
<1>2. ASSUME NEW c \in Cluster PROVE GoodBlock(block[c])
  <2>1. ASSUME NEW i \in Position, i + 1 \in Position, block[c][i].ord = "end"
        PROVE  block[c][i + 1].ord = "end"
    <3> DEFINE j == i + 1
    <3>1. j \in Position /\ i \in Int /\ i >= 0 /\ Len(Present) \in Nat
      BY <2>1, Positions, DirAssumption
    <3>2. ~(c = Root /\ i + 1 \in 1 .. Len(Present))
      <4>1. \A n, x : block[c][i] # Short(n, x)
        BY <2>1 DEF Short
      <4> QED BY <4>1, FirstSlots
    <3>3. ~(c = Root /\ j + 1 \in 1 .. Len(Present))
      BY <3>1, <3>2
    <3> HIDE DEF j
    <3>4. block[c][j] = Blank
      BY <3>1, <3>3, FirstSlots
    <3> QED BY <3>4 DEF Blank, j
  <2> QED BY <1>1, <2>1 DEF GoodBlock, EndsLast, InPairs
<1>3. Fresh(block, unused)
  <2>1. ASSUME NEW c \in Cluster, NEW i \in Position PROVE block[c][i].target \notin unused
    <3>1. Blank.target \notin unused
      BY DirAssumption DEF Init, Blank
    <3>2. \A n, x : Short(n, x).target = x
      BY DEF Short
    <3> QED BY <3>1, <3>2, FirstSlots
  <2>2. ASSUME NEW x \in unused \cap DirObject PROVE block[x] = [i \in Position |-> Blank]
    <3>1. x \in Cluster /\ x # Root
      BY DirAssumption DEF Cluster, Object
    <3> QED BY <3>1 DEF Init
  <2> QED BY <2>1, <2>2 DEF Fresh
<1>4. ASSUME OneShort PROVE Alone(block)
  <2> SUFFICES ASSUME NEW d \in Directory, NEW i \in Heads(block[d])
               PROVE  /\ Present # <<>>
                      /\ block[d][i].name = Present[1][1]
                      /\ block[d][i].target = Present[1][2]
    BY DEF Alone
  <2>1. d \in Cluster /\ i \in Position /\ block[d][i].ord = "used"
    BY DirectoryType DEF Heads, Visible
  <2>2. i + 1 \in 1 .. Len(Present) /\ block[d][i] = Short(Present[i + 1][1], Present[i + 1][2])
    <3>1. block[d][i] # Blank
      BY <2>1 DEF Blank
    <3> QED BY <2>1, <3>1, FirstSlots
  <2>3. Present # <<>>
    <3>1. Len(<<>>) = 0
      OBVIOUS
    <3> QED BY <2>1, <2>2, <3>1, Positions
  <2>4. i = 0
    <3>1. Len(Present) = 1
      BY <1>4, <2>3 DEF OneShort
    <3> QED BY <2>1, <2>2, <3>1, Positions
  <2> QED BY <2>2, <2>3, <2>4 DEF Short
<1>5. WellMade(block)
  <2> SUFFICES ASSUME NEW c \in Cluster, NEW i \in Position,
                      block[c][i].name \in Used, block[c][i].target \in DirObject
               PROVE  FALSE
    BY DEF WellMade
  <2>1. Blank.target \notin DirObject /\ FileObject \cap DirObject = {}
    BY DirAssumption DEF Object, Blank
  <2>2. \A n, x : Short(n, x).target = x
    BY DEF Short
  <2> QED BY <2>1, <2>2, FirstSlots
<1>6. status = "up" /\ unused \subseteq Object /\ op = "none" /\ todo = <<>>
  BY DEF Init
<1> QED BY <1>1, <1>2, <1>3, <1>4, <1>5, <1>6 DEF IInv, Stage, Good, Pending

\* The block that is put next is the first one of those that are pending.
LEMMA PutKeeps ==
  ASSUME IInv, PutBlock
  PROVE  IInv' /\ (OneShort => Stepped(entries, entries'))
<1> DEFINE up == status = "up"
           whole == op # "mkdir"
<1>1. todo # <<>> /\ block' = PutTo(block, Head(todo)) /\ todo' = Tail(todo)
      /\ op' = (IF Tail(todo) = <<>> THEN "none" ELSE op) /\ status' = status /\ unused' = unused
  BY DEF PutBlock, PutTo
<1>2. ASSUME NEW p, NEW q
      PROVE  Head(<<p>>) = p /\ Tail(<<p>>) = <<>> /\ Head(<<p, q>>) = p /\ Tail(<<p, q>>) = <<q>> /\ <<q>> # <<>>
  OBVIOUS
<1>3. Pending(block, todo, unused, up, whole)
  BY DEF IInv
<1> HIDE DEF up, whole
<1>4. /\ Safe(block, Head(todo), unused)
      /\ Pending(PutTo(block, Head(todo)), todo', unused, up, whole)
  <2>1. ASSUME NEW p, todo = <<p>>, Safe(block, p, unused), up => WellMade(PutTo(block, p))
        PROVE  /\ Safe(block, Head(todo), unused)
               /\ Pending(PutTo(block, Head(todo)), todo', unused, up, whole)
    <3>1. Head(todo) = p /\ todo' = <<>>
      BY <1>1, <1>2, <2>1
    <3> QED BY <2>1, <3>1 DEF Pending
  <2>2. ASSUME NEW p, NEW q, todo = <<p, q>>, Safe(block, p, unused),
               Safe(PutTo(block, p), q, unused),
               up => /\ WellMade(PutTo(PutTo(block, p), q))
                     /\ whole => WellMade(PutTo(block, p))
        PROVE  /\ Safe(block, Head(todo), unused)
               /\ Pending(PutTo(block, Head(todo)), todo', unused, up, whole)
    <3>1. Head(todo) = p /\ todo' = <<q>>
      BY <1>1, <1>2, <2>2
    <3> QED BY <2>2, <3>1 DEF Pending
  <2> QED BY <1>1, <1>3, <2>1, <2>2 DEF Pending
<1>5. Pending(block', todo', unused', status' = "up", op' # "mkdir")
  <2>1. Tail(todo) # <<>> => op' = op
    BY <1>1
  <2>2. CASE Tail(todo) # <<>>
    BY <1>1, <1>4, <2>1, <2>2 DEF up, whole
  <2>3. CASE Tail(todo) = <<>>
    <3>1. \A p, q : <<p>> # <<>> /\ <<p, q>> # <<>>
      BY <1>2
    <3>2. up => WellMade(block')
      BY <1>1, <1>4, <2>3, <3>1 DEF Pending
    <3> QED BY <1>1, <2>3, <3>2 DEF Pending, up
  <2> QED BY <2>2, <2>3
<1>6. Stage(block', unused')
  BY <1>1, <1>4 DEF Safe
<1>7. IInv'
  <2>1. op' \in Kinds /\ status' \in {"up", "astray"} /\ unused' \subseteq Object
    BY <1>1 DEF IInv, Kinds
  <2> QED BY <1>5, <1>6, <2>1 DEF IInv, Kinds
<1>8. entries' = EntriesIn(block')
  BY DEF entries, EntriesIn, EntriesOf
<1> QED BY <1>1, <1>4, <1>7, <1>8 DEF Safe, entries

LEMMA CrashKeeps ==
  ASSUME OneBlock, IInv, Crash
  PROVE  IInv'
<1>1. /\ status = "up" /\ todo # <<>> /\ op # "mkdir" /\ block' = block /\ unused' = unused
      /\ todo' = <<>> /\ op' = "none" /\ status' = status
  BY DEF Crash, OneBlock
<1>2. Pending(block, todo, unused, status = "up", op # "mkdir")
  BY DEF IInv
<1>3. WellMade(block)
  BY <1>1, <1>2 DEF Pending
<1> QED BY <1>1, <1>3 DEF IInv, Pending

LEMMA LookKeeps ==
  ASSUME IInv, NEW p \in DirPath, NEW n \in Used, Look(p, n)
  PROVE  IInv'
<1>1. todo' = <<>> /\ status' = "astray" /\ block' = block /\ unused' = unused /\ op' = op
  BY DEF Look, Parent, Idle
<1>2. Pending(block', todo', unused', status' = "up", op' # "mkdir")
  BY <1>1 DEF Pending
<1> QED BY <1>1, <1>2 DEF IInv

\* Nothing is put by a call itself, nor by a crash.
LEMMA CallPutsNothing ==
  ASSUME Call \/ Crash
  PROVE  block' = block
<1>1. ASSUME NEW kind, NEW puts, Serve(kind, puts) PROVE block' = block
  BY <1>1 DEF Serve
<1>2. ASSUME NEW p, NEW n, Mknod(p, n) \/ Mkdir(p, n) PROVE block' = block
  BY <1>1, <1>2 DEF Mknod, Mkdir
<1>3. ASSUME NEW p, NEW n, Look(p, n) \/ Unlink(p, n) \/ Rmdir(p, n) PROVE block' = block
  BY <1>1, <1>3 DEF Look, Unlink, Rmdir
<1>4. ASSUME NEW p, NEW n, NEW q, NEW new, Rename(p, n, new) \/ Move(p, n, q, new) PROVE block' = block
  BY <1>1, <1>4 DEF Rename, Move
<1> QED BY <1>2, <1>3, <1>4 DEF Call, Crash

LEMMA NextHolds ==
  ASSUME OneBlock, IInv, [Next]_vars
  PROVE  IInv'
<1>1. CASE Call
  <2>1. PICK p \in DirPath :
           \/ \E n \in Name : Mknod(p, n) \/ Mkdir(p, n)
           \/ \E n \in Used : Look(p, n) \/ Unlink(p, n) \/ Rmdir(p, n)
           \/ \E n \in Used, new \in Name : Rename(p, n, new)
           \/ \E n \in Used, q \in DirPath, new \in Name : Move(p, n, q, new)
    BY <1>1 DEF Call
  <2>2. Idle
    BY <2>1 DEF Mknod, Mkdir, Look, Unlink, Rmdir, Rename, Move, Parent
  <2>3. Resting
    BY <2>2, IdleRests
  <2>4. CASE \E n \in Name : Mknod(p, n) \/ Mkdir(p, n)
    BY <2>3, <2>4, MknodKeeps, MkdirKeeps
  <2>5. CASE \E n \in Used : Look(p, n) \/ Unlink(p, n) \/ Rmdir(p, n)
    BY <2>3, <2>5, LookKeeps, UnlinkKeeps, RmdirKeeps
  <2>6. CASE \E n \in Used, new \in Name : Rename(p, n, new)
    BY <2>3, <2>6, RenameKeeps
  <2>7. CASE \E n \in Used, q \in DirPath, new \in Name : Move(p, n, q, new)
    BY <2>3, <2>7, MoveKeeps
  <2> QED BY <2>1, <2>4, <2>5, <2>6, <2>7
<1>2. CASE PutBlock
  BY <1>2, PutKeeps
<1>3. CASE Crash
  BY <1>3, CrashKeeps
<1>4. CASE UNCHANGED vars
  <2>1. status' = status /\ block' = block /\ unused' = unused /\ op' = op /\ todo' = todo
    BY <1>4 DEF vars
  <2> QED BY <2>1 DEF IInv
<1> QED BY <1>1, <1>2, <1>3, <1>4 DEF Next
-----------------------------------------------------------------------------
(* The properties.                                                         *)

LEMMA Tree ==
  ASSUME OneBlock, IInv, Idle, NEW d \in Directory, NEW n \in Used
  PROVE  LET here == EntriesOf(block, d)
             f == Lookup(d, n)
         IN
         /\ f.status = "missing" => \A e \in here : e.name # n
         /\ f.status = "found" =>
               /\ [dir |-> d, name |-> n, object |-> f.target] \in here
               /\ block[f.source][f.sourceOffset].name = n
         /\ f.status = "astray" => Full(d)
<1> DEFINE f == Lookup(d, n)
           b == block[d]
           i == f.sourceOffset
<1>1. d \in Cluster /\ Good(block) /\ GoodBlock(b)
  BY IdleRests, DirectoryType DEF Resting, Good
<1>2. LookedUp(d, n, f, 0)
  BY <1>1, LookupFacts
<1>3. EntriesOf(block, d) = {Entry(d, b, k) : k \in Heads(b)} /\ ChainOf[d] = {d}
  BY <1>1, EntriesAre, ChainIs
<1> HIDE DEF f, b
<1>4. CASE f.status = "missing" /\ \A k \in Heads(b) : k >= 0 => b[k].name # n
  <2>1. ASSUME NEW k \in Heads(b) PROVE Entry(d, b, k).name # n
    <3>1. k >= 0
      BY Positions DEF Heads, Visible
    <3> QED BY <1>4, <3>1 DEF Entry
  <2> QED BY <1>3, <1>4, <2>1 DEF f
<1>5. CASE FoundIn(d, n, f)
  <2>1. f.status = "found" /\ f.source = d /\ i \in Heads(b) /\ b[i].name = n
        /\ f.target = b[IF b[i].long THEN i + 1 ELSE i].target
    BY <1>5 DEF FoundIn, b
  <2>2. Entry(d, b, i) = [dir |-> d, name |-> n, object |-> f.target]
    BY <2>1 DEF Entry
  <2> QED BY <1>3, <2>1, <2>2 DEF f, b
<1>6. CASE f.status = "astray" /\ Visible(b) = Position
  <2>1. Full(d)
    BY <1>3, <1>6 DEF Full, b
  <2> QED BY <1>6, <2>1 DEF f
<1> QED BY <1>2, <1>4, <1>5, <1>6 DEF LookedUp, b

LEMMA InvTypeOK ==
  ASSUME IInv
  PROVE  TypeOK
<1>1. ASSUME NEW c \in Cluster, NEW i \in Position
      PROVE  LET s == block[c][i] IN
             /\ DOMAIN s = {"ord", "long", "name", "target"}
             /\ s.ord = "used" =>
                   /\ s.name \in Used \cup {Dot, DotDot}
                   /\ s.target \in (IF s.long THEN {None} ELSE Object \cup {Root})
             /\ s.ord # "used" => s.ord \in {"free", "end"} /\ s.long \in BOOLEAN
  <2> DEFINE s == block[c][i]
  <2>1. s \in Slot /\ GoodSlot(s)
    BY DEF IInv, Stage, Good, GoodBlock
  <2> HIDE DEF s
  <2>2. DOMAIN s = {"ord", "long", "name", "target"}
    BY <2>1 DEF Slot
  <2>3. s.ord = "used" => /\ s.name \in Used \cup {Dot, DotDot}
                          /\ s.target \in (IF s.long THEN {None} ELSE Object \cup {Root})
    BY <2>1 DEF Slot, GoodSlot
  <2>4. s.ord # "used" => s.ord \in {"free", "end"} /\ s.long \in BOOLEAN
    BY <2>1 DEF Slot
  <2> QED BY <2>2, <2>3, <2>4 DEF s
<1>2. \A k \in 1 .. Len(todo) : todo[k].cluster \in Cluster
  <2>1. Pending(block, todo, unused, status = "up", op # "mkdir")
    BY DEF IInv
  <2>2. CASE todo = <<>>
    BY <2>2
  <2>3. ASSUME NEW p, todo = <<p>>, p.cluster \in Cluster
        PROVE  \A k \in 1 .. Len(todo) : todo[k].cluster \in Cluster
    BY <2>3
  <2>4. ASSUME NEW p, NEW q, todo = <<p, q>>, p.cluster \in Cluster, q.cluster \in Cluster
        PROVE  \A k \in 1 .. Len(todo) : todo[k].cluster \in Cluster
    <3>1. Len(todo) = 2 /\ todo[1] = p /\ todo[2] = q
      BY <2>4
    <3> QED BY <2>4, <3>1
  <2> QED BY <2>1, <2>2, <2>3, <2>4 DEF Pending, Safe
<1> QED BY <1>1, <1>2 DEF TypeOK, IInv

LEMMA InvLookups ==
  ASSUME OneBlock, IInv
  PROVE  LookupsRight
<1> SUFFICES ASSUME Idle, NEW d \in InTree
             PROVE  LET here == EntriesOf(block, d) IN
                    \A n \in Used :
                        LET f == Lookup(d, n) IN
                        /\ f.status = "missing" => \A e \in here : e.name # n
                        /\ f.status = "found" =>
                              /\ [dir |-> d, name |-> n, object |-> f.target] \in here
                              /\ block[f.source][f.sourceOffset].name = n
                        /\ f.status = "astray" => Full(d)
  BY DEF LookupsRight
<1>1. d \in Directory
  BY DEF InTree, Directory
<1> QED BY <1>1, Tree

LEMMA InvListings ==
  ASSUME OneBlock, IInv
  PROVE  ListsWhatIsFound
<1> SUFFICES ASSUME Idle, NEW p \in DirPath, IsDirectory(Open(p)), ~Full(Contents(Open(p)))
             PROVE  {x \in Listing(Open(p)).shows : x[1] \notin {Dot, DotDot}} =
                       {<<e.name, e.object>> : e \in EntriesOf(block, Contents(Open(p)))}
  BY DEF ListsWhatIsFound
<1> DEFINE f == Open(p)
           d == Contents(f)
           b == block[d]
<1>1. Good(block) /\ ParentIn(f, d, unused)
  BY IdleRests, ParentIs DEF Resting
<1>2. d \in Directory /\ d \in Cluster /\ f.source \in Cluster /\ f.first \in Cluster
      /\ d = IF f.root THEN f.source ELSE f.first
  BY <1>1 DEF ParentIn
<1>3. Visible(b) # Position
  BY <1>2, ChainIs DEF Full
<1> HIDE DEF f, d
<1>4. Shown(Listing(f)) = Pairs(b)
  <2>1. Visible(block[d]) # Position /\ Good(block)
    BY <1>1, <1>3 DEF b
  <2>2. d = (IF f.root THEN f.source ELSE f.first)
    BY <1>2
  <2>3. Shown(Listing(f)) = Pairs(block[d])
    BY <1>2, <2>1, <2>2, ListFacts
  <2> QED BY <2>3 DEF b
<1>5. EntriesOf(block, d) = {Entry(d, b, m) : m \in Heads(b)}
  BY <1>2, ChainIs DEF EntriesOf
<1>6. \A m : <<Entry(d, b, m).name, Entry(d, b, m).object>> = Pair(b, m)
  BY DEF Entry, Pair
<1>7. Pairs(b) = {<<e.name, e.object>> : e \in EntriesOf(block, d)}
  BY <1>5, <1>6 DEF Pairs
<1> QED BY <1>4, <1>7 DEF f, d, Shown

\* A step from one set of entries to another is one of the name space.
LEMMA SteppedIs ==
  ASSUME Stepped(entries, entries')
  PROVE  [Names!Next]_entries
<1> DEFINE E == entries
           F == entries'
<1>1. CASE E = F
  BY <1>1
<1>2. ASSUME NEW e, e \notin E, F = E \cup {e}, FreeIn(E, e) PROVE Names!Next
  <2>1. E \ F = {} /\ F \ E = {e} /\ e \in F \ E
    BY <1>2
  <2>2. Names!Add(e)
    BY <1>2 DEF Names!Add, Names!Free, FreeIn
  <2> QED BY <2>1, <2>2 DEF Names!Next
<1>3. ASSUME NEW e \in E, F = E \ {e},
             \/ e.object \notin Directory
             \/ \A x \in E : x.dir # e.object
             \/ \E other \in F : other.object = e.object
      PROVE  Names!Next
  <2>1. F \ E = {} /\ E \ F = {e} /\ e \in E \ F
    BY <1>3
  <2>2. Names!Remove(e)
    BY <1>3 DEF Names!Remove, Names!Empty
  <2> QED BY <2>1, <2>2 DEF Names!Next
<1>4. ASSUME NEW e \in E, NEW new, new \notin E, F = (E \ {e}) \cup {new},
             e.dir = new.dir, e.object = new.object, FreeIn(E, new)
      PROVE  Names!Next
  <2>1. E \ F = {e} /\ F \ E = {new} /\ e \in E \ F /\ new \in F \ E
    BY <1>4
  <2>2. Names!Rename(e, new)
    BY <1>4 DEF Names!Rename, Names!Free, FreeIn
  <2> QED BY <2>1, <2>2 DEF Names!Next
<1> QED BY <1>1, <1>2, <1>3, <1>4 DEF Stepped

LEMMA InitNames ==
  ASSUME OneBlock, Init
  PROVE  Names!Init
<1> SUFFICES ASSUME NEW e \in entries PROVE e.dir = Root
  BY DEF Names!Init
<1>1. PICK d \in Directory : \E i \in Heads(block[d]) : e = Entry(d, block[d], i)
  BY AllEntriesAre DEF entries
<1>2. PICK i \in Heads(block[d]) : e = Entry(d, block[d], i)
  BY <1>1
<1>3. d \in Cluster /\ i \in Position /\ block[d][i].ord = "used"
  BY DirectoryType DEF Heads, Visible
<1>4. block[d][i] # Blank
  BY <1>3 DEF Blank
<1>5. d = Root
  BY <1>3, <1>4, FirstSlots
<1> QED BY <1>2, <1>5 DEF Entry

LEMMA NextNames ==
  ASSUME OneBlock, OneShort, IInv, [Next]_vars
  PROVE  [Names!Next]_entries
<1>1. CASE PutBlock
  BY <1>1, PutKeeps, SteppedIs
<1>2. CASE block' = block
  <2>1. entries' = entries
    BY <1>2 DEF entries, EntriesIn, EntriesOf
  <2> QED BY <2>1
<1> QED BY <1>1, <1>2, CallPutsNothing DEF Next, vars

LEMMA Invariant == ASSUME OneBlock PROVE Spec => []IInv
<1>1. Init => IInv
  BY InitHolds
<1>2. IInv /\ [Next]_vars => IInv'
  BY NextHolds
<1> QED BY <1>1, <1>2, PTL DEF Spec

\* While every directory is one cluster, no byte left on the stack says
\* "long", nothing is moved into the root and no crash comes within a mkdir, a
\* block holds entries of 32 bytes that are whole, whatever calls, in any
\* directory, come in whatever order and wherever between two blocks the
\* process dies: a long name, then what it stands for, or a place that is free.
THEOREM TypeCorrect == ASSUME OneBlock PROVE Spec => []TypeOK
<1>1. IInv => TypeOK
  BY InvTypeOK
<1> QED BY <1>1, Invariant, PTL

\* Under the same assumptions, pfs_fat32_open answers with what the blocks of
\* the directory say: a name that is missing is nowhere in it, one that is
\* found leads to the object of its entry, whose place the FatFile keeps, and
\* the walk reads past the cluster only if the cluster has no end entry.
THEOREM LookupsCorrect == ASSUME OneBlock PROVE Spec => []LookupsRight
<1>1. IInv => LookupsRight
  BY InvLookups
<1> QED BY <1>1, Invariant, PTL

\* Under the same assumptions, readdir shows each name of a directory with its
\* object and no others, but for "." and "..", unless the directory is full.
THEOREM ListingsCorrect == ASSUME OneBlock PROVE Spec => []ListsWhatIsFound
<1>1. IInv => ListsWhatIsFound
  BY InvListings
<1> QED BY <1>1, Invariant, PTL

\* Under the same assumptions, and if every file has a long entry, or all but
\* one whose short name each name is shortened to, what the blocks say goes
\* through steps of the name space only: no block that a call puts makes a
\* name lead to two objects, loses a name that was not asked to go, or loses a
\* directory that is not empty, whether or not the call comes to its end.
THEOREM NamesKept == ASSUME OneBlock, OneShort PROVE Spec => KeepsNames
<1>1. Init => Names!Init
  BY InitNames
<1>2. IInv /\ [Next]_vars => [Names!Next]_entries
  BY NextNames
<1> QED BY <1>1, <1>2, Invariant, PTL DEF Spec, KeepsNames, Names!Spec
=============================================================================
