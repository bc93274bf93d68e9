------------------------------- MODULE MCLab3 -------------------------------
(* Instances of Lab3Transfer for TLC: clients with different files.  The  *)
(* last packet of t1's file is short, t2's file is a multiple of mss, and  *)
(* t3's is empty.                                                          *)
EXTENDS Lab3Transfer

CONSTANTS t1, t2, t3, N1, N2

Sizes == [t \in Threads |-> CASE t = t1 -> N1 [] t = t2 -> N2 [] t = t3 -> 0]
Short == [t \in Threads |-> t = t1]
=============================================================================
