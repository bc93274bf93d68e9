------------------------------- MODULE MCLab1 -------------------------------
(* The instance of Lab1Client for TLC. *)
EXTENDS Lab1Client
=============================================================================
