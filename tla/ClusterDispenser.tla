-------------------------- MODULE ClusterDispenser --------------------------
(***************************************************************************)
(* What the file system asks of the allocation of clusters: every request  *)
(* is given a cluster that nobody was given before, for as long as the     *)
(* volume lives.  out is the order in which they were given.               *)
(***************************************************************************)
EXTENDS Naturals, Sequences

VARIABLE out

Given == {out[i] : i \in 1 .. Len(out)}

Init == out = <<>>

Give(c) == c \notin Given /\ out' = Append(out, c)

Next == out' # <<>> /\ Give(out'[Len(out')])

Spec == Init /\ [][Next]_out
=============================================================================
