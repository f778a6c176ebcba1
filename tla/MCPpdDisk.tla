------------------------------- MODULE MCPpdDisk -------------------------------
(* Instances of PpdDisk for TLC. *)
EXTENDS PpdDisk

\* One trace of the first sector, or of one of another track and then of one
\* that is not on the disk.
TwoLists == {<<0>>, <<3, 9>>}
=============================================================================
