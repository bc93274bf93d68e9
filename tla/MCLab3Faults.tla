---------------------------- MODULE MCLab3Faults ----------------------------
(* An instance of Lab3Faults for TLC. *)
EXTENDS MCLab3, Lab3Faults
=============================================================================
