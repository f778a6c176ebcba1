------------------------------ MODULE MCPraid ------------------------------
(* Values for the constants of Praid.                                      *)
EXTENDS Praid, TLC

CONSTANTS d1, d2, d3, c1, c2

Req(op, sector) == [op |-> op, sector |-> sector]
OneSector == {Req("get", 0), Req("put", 0)}
TwoSectors == OneSector \cup {Req("get", 1), Req("put", 1)}

NoDisk == <<>>
TwoDisks == <<d1, d2>>

OneEach == [c \in Pfs |-> 1]
TwoAndOne == [c \in Pfs |-> IF c = c1 THEN 2 ELSE 1]
ThreeEach == [c \in Pfs |-> 3]

\* Used where InitialPpd names no disk: then the disks are alike.
PpdSymmetry == Permutations(Ppd)
=============================================================================
