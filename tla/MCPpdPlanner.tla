---------------------------- MODULE MCPpdPlanner ----------------------------
(* Values for the constants of PpdPlanner.                                 *)
EXTENDS PpdPlanner

CONSTANTS c1, c2

Writes == [op : {"put"}, sector : Sector]
OneRead == Writes \cup [op : {"get"}, sector : {1}]

Few == [c \in Conn |-> IF c = c1 THEN 3 ELSE 2]
Four == [c \in Conn |-> 4]
=============================================================================
