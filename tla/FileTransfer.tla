---------------------------- MODULE FileTransfer ----------------------------
(***************************************************************************)
(* What a reliable file transfer promises: the receiver's copy is always a *)
(* prefix of the file and only grows, and the sender reports completion    *)
(* only when the copy is the whole file.  A transfer may stop without      *)
(* completing, several at once when they share a process; what was already *)
(* on its way may then still reach the copy.                               *)
(***************************************************************************)
EXTENDS Integers, Sequences

CONSTANTS
    Transfers,
    File        \* File[t]: the sequence of blocks transfer t sends

VARIABLES
    copy,       \* copy[t]: the blocks the receiver has in its file
    status      \* status[t]: "running", "complete" or "stopped"

Init ==
    /\ copy = [t \in Transfers |-> <<>>]
    /\ status = [t \in Transfers |-> "running"]

Prefix(t, n) == [i \in 1..n |-> File[t][i]]

Write(t) ==
    /\ \E n \in (Len(copy[t]) + 1)..Len(File[t]) :
          copy' = [copy EXCEPT ![t] = Prefix(t, n)]
    /\ UNCHANGED status

Complete(t) ==
    /\ status[t] = "running"
    /\ copy[t] = Prefix(t, Len(File[t]))
    /\ status' = [status EXCEPT ![t] = "complete"]
    /\ UNCHANGED copy

Stop(S) ==
    /\ \A t \in S : status[t] = "running"
    /\ status' = [t \in Transfers |-> IF t \in S THEN "stopped" ELSE status[t]]
    /\ UNCHANGED copy

Next ==
    \/ \E t \in Transfers : Write(t) \/ Complete(t)
    \/ \E S \in SUBSET Transfers : Stop(S)

Spec == Init /\ [][Next]_<<copy, status>>
=============================================================================
