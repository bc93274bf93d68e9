------------------------------ MODULE MCProxy ------------------------------
(* Instances of Proxy for TLC.  Site 2 is in both files, 3 is added by the *)
(* reload and 4 is never listed.  The reloaded file is not in order, so    *)
(* that its sites move when it is sorted.                                  *)
EXTENDS Proxy

CONSTANTS r1, r2, l1

File1 == <<2>>
File2 == <<3, 2>>
=============================================================================
