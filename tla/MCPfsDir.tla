------------------------------ MODULE MCPfsDir ------------------------------
(* Values of the constants of PfsDir for the runs.                         *)
EXTENDS PfsDir, TLC

CONSTANTS name1, name2, name3, shared, d1, d2, root, r2, zero

OneCluster == [x \in Cluster |-> None]
TwoClusters == [x \in Cluster |-> IF x = root THEN r2 ELSE None]
Symmetry == Permutations(Name)
OneShort == <<<<shared, 1>>>>
NoShort == <<>>
OwnShort == [n \in Name |-> n]
SameShort == [n \in Name |-> shared]
=============================================================================
