------------------------------- MODULE MCLab4 -------------------------------
(* Instances of Lab4Transfer for TLC. *)
EXTENDS Lab4Invariant

CONSTANTS t1, t2, p1, p2, s1

OneProcess == [t \in Threads |-> p1]
OneServer == [t \in Threads |-> s1]

(* Each thread is a process of its own. *)
TwoProcesses == [t \in Threads |-> IF t = t1 THEN p1 ELSE p2]
=============================================================================
