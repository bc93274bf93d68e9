----------------------------- MODULE Lab3Faults -----------------------------
(***************************************************************************)
(* lab3 on a path that reorders and duplicates datagrams: which transfers  *)
(* may fail, and what takes the server down.                               *)
(*                                                                         *)
(* What the client counts as delivered is received all the same.  What can *)
(* be lost is the file: fopen with "wb" on a late copy of the filename     *)
(* packet empties it, or opens it again after EOF, and expected_seq is not *)
(* set back, so that nothing is written twice.  And a second copy of an    *)
(* EOF packet calls fclose on a file that is closed.  Two history          *)
(* variables collect the clients that met these events; they limit         *)
(* nothing.                                                                *)
(***************************************************************************)
EXTENDS Lab3Invariant

VARIABLES
    disturbed,  \* history: the clients whose file was opened anew
    doubled     \* history: the clients whose EOF packet the path doubled

faultVars == <<vars, disturbed, doubled>>

(* fopen(filename, "wb") of a file that has blocks or was closed. *)
Reopens(t) ==
    /\ HeadSeq(t) = 0 /\ server' = "up"
    /\ disk[t] # <<>> \/ file[t] = "closed"

DuplicateStep(t) ==
    \/ \E i \in 1..Len(toServer[t]) :
        /\ DuplicatePacket(t, i)
        /\ doubled' = doubled \cup {u \in {t} : toServer[t][i].empty}
    \/ \E i \in 1..Len(toClient[t]) : DuplicateAck(t, i) /\ UNCHANGED doubled

FaultInit == Init /\ disturbed = {} /\ doubled = {}
FaultNext == \E t \in Threads :
    \/ (Client(t) \/ Loss(t)) /\ UNCHANGED <<disturbed, doubled>>
    \/ /\ Server(t)
       /\ disturbed' = disturbed \cup {u \in {t} : Reopens(u)}
       /\ UNCHANGED doubled
    \/ Reorder(t) /\ UNCHANGED <<clientVars, serverVars, disturbed, doubled>>
    \/ DuplicateStep(t) /\ UNCHANGED <<clientVars, serverVars, disturbed>>

FaultSpec == FaultInit /\ [][FaultNext]_faultVars

-----------------------------------------------------------------------------
(* "File transfer complete.": whatever was lost, overtaken or doubled, a   *)
(* client that exits with status 0 has left its whole file, closed, unless *)
(* a late copy of its filename packet opened the file anew.                *)
DoneUndisturbed ==
    \A t \in Threads \ disturbed :
        pc[t] = "done" => WholeFile(t) /\ file[t] = "closed"

(* receive_packets uses client->file without a test.  The one thing that   *)
(* makes it use a file that is not open is an EOF packet that the path     *)
(* delivers twice: no order of arrival, late name, repeated block or exit  *)
(* of a client does.                                                       *)
CrashNeedsDoubledEof == server = "crashed" => doubled # {}

-----------------------------------------------------------------------------
(* The inductive invariant of FaultSpec. *)
FaultInv ==
    /\ TypeOK
    /\ CrashNeedsDoubledEof
    /\ \A t \in Threads :
        /\ PathInv(t)
        /\ t \notin doubled => EofOnce(t)
        /\ t \notin disturbed => Intact(t)
=============================================================================
