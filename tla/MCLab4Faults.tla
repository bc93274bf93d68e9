---------------------------- MODULE MCLab4Faults ----------------------------
(* An instance of Lab4Faults for TLC. *)
EXTENDS MCLab4, Lab4Faults
=============================================================================
