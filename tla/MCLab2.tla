------------------------------- MODULE MCLab2 -------------------------------
(* Instances of Lab2Echo for TLC: two clients whose last packets are short *)
(* and full.                                                               *)
EXTENDS Lab2Echo

CONSTANTS c1, c2, S1, S2

Sizes == [c \in Threads |-> IF c = c1 THEN S1 ELSE S2]
=============================================================================
