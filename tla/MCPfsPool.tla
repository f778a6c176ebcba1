----------------------------- MODULE MCPfsPool -----------------------------
(* Values of the constants of PfsPool for the runs.                        *)
EXTENDS PfsPool, TLC

CONSTANTS t1, t2

\* A read of one sector, a write of one, a read of the block from sector 4.
AllOperations ==
    {[op |-> "get", sector |-> 1], [op |-> "put", sector |-> 1], [op |-> "block", sector |-> 4]}

=============================================================================
