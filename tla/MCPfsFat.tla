------------------------------ MODULE MCPfsFat ------------------------------
(* Values of the constants of PfsFat for the runs.                         *)
EXTENDS PfsFat

CONSTANTS t1, t2, a, b

\* Clusters of two bytes: half a cluster, a whole one, the second half of the
\* first and the first half of the second.
AllExtents == {[offset |-> 0, size |-> 2], [offset |-> 2, size |-> 1], [offset |-> 3, size |-> 1]}
=============================================================================
