---------------------------- MODULE MCLab4Files ----------------------------
(* Instances of Lab4Files for TLC: p1 replicates a file to s1 and s2, p2   *)
(* sends another one to s2 under the same name.                            *)
EXTENDS Lab4Files

CONSTANTS t1, t2, t3, p1, p2, s1, s2

FleetProcOf == [t \in Threads |-> IF t = t3 THEN p2 ELSE p1]
FleetServerOf == [t \in Threads |-> IF t = t1 THEN s1 ELSE s2]
FleetPathOf == FleetServerOf
=============================================================================
