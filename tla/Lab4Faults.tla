----------------------------- MODULE Lab4Faults -----------------------------
(***************************************************************************)
(* lab4 on a path that reorders and duplicates, with servers that are      *)
(* killed: which of the transfers may fail.  Only two events take packets  *)
(* away that a server has: a kill before the file is whole, and a late     *)
(* copy of the filename packet, for which fopen with "wb" empties the      *)
(* file.  A history variable collects the threads they met; it limits      *)
(* nothing, so that FaultSpec has the behaviours of SpecHostile.           *)
(***************************************************************************)
EXTENDS Lab4Invariant

VARIABLE disturbed  \* history: the threads that met one of the two events

faultVars == <<vars, disturbed>>

Disturb(S) == disturbed' = disturbed \cup S

(* fopen(filename, "wb") of a file that has blocks. *)
Reopens(t) == HeadSeq(t) = 0 /\ file_open'[t] /\ disk[t] # <<>>

(* The table entry that a kill takes away has packets still to be written, *)
(* or stands for a file that is not whole.                                 *)
Interrupted(t) ==
    /\ ~WholeFile(t)
    /\ \E n \in 1..NumPackets : Stored(t, n)

FaultInit == Init /\ disturbed = {}
FaultNext ==
    \/ \E t \in Threads :
        \/ (Thread(t) \/ Loss(t)) /\ UNCHANGED disturbed
        \/ Server(t) /\ Disturb(IF Reopens(t) THEN {t} ELSE {})
    \/ DisorderStep /\ UNCHANGED disturbed
    \/ \E s \in Servers :
        /\ Restart(s) /\ UNCHANGED clientVars
        /\ Disturb({t \in Threads : ServerOf[t] = s /\ Interrupted(t)})

FaultSpec == FaultInit /\ [][FaultNext]_faultVars

-----------------------------------------------------------------------------
(* AckedIsStored without an assumption on the path or the servers: as long *)
(* as a thread was not disturbed, its server has each packet the window    *)
(* has passed or that is marked as acked, or its file is whole already.    *)
AckedIsKept ==
    \A t \in Threads \ disturbed : \A n \in 1..NumPackets :
        Delivers(t, n) => Stored(t, n) \/ WholeFile(t)

(* Delivered, the same way: whatever was lost, overtaken or restarted, a   *)
(* thread that sent EOF undisturbed has left its whole file, and what is   *)
(* left of its datagrams does no harm to it.                               *)
DeliveredUndisturbed ==
    \A t \in Threads \ disturbed : pc[t] = "exit" => WholeFile(t)
-----------------------------------------------------------------------------
(* Why: an undisturbed thread's file and entry are either what its packets *)
(* made of them, or the file is whole and no stream can write to it.       *)
Intact(t) ==
    /\ disk[t] = Blocks(1, expected_seq[t] - 1)
    /\ expected_seq[t] <= NumPackets + 1
    /\ received[t] \subseteq 0..NumPackets
    /\ AcksKept(t)
    /\ ClientSound(t)
Finished(t) == WholeFile(t) /\ ~file_open[t]

FaultInv == \A t \in Threads \ disturbed : Intact(t) \/ Finished(t)
=============================================================================
