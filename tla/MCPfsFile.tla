----------------------------- MODULE MCPfsFile -----------------------------
(* Values of the constants of PfsFile for the runs.                        *)
EXTENDS PfsFile, TLC

CONSTANTS h1, h2, t1, t2

\* Reads of a sector, of a cluster's length and to the end, from anywhere;
\* writes of up to a cluster.
SomeReads ==
    {<<o, n>> \in (0 .. Units - 1) \X (1 .. Units) :
        n = 1 \/ o + n = Units \/ (n = Sectors /\ o + n <= Units)}
AnyWrites == {<<o, n>> \in (0 .. Units - 1) \X (1 .. Sectors) : o + n <= Units}

\* Without a cache three calls, with one two.
ThreeOrTwo == [n \in CacheSizes |-> IF n = 0 THEN 3 ELSE 2]

Symmetry == Permutations(Thread)
=============================================================================
