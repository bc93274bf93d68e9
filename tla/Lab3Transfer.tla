---------------------------- MODULE Lab3Transfer ----------------------------
(***************************************************************************)
(* lab3 end to end: the clients of Lab3Client, the server of Lab3Server    *)
(* and the datagrams of Udp between them, on a path that may lose          *)
(* datagrams and keeps the order of those it delivers.                     *)
(***************************************************************************)
EXTENDS Lab3Client, Lab3Server

vars == <<clientVars, serverVars, netVars>>

Init == ClientInit /\ ServerInit /\ UdpInit

Client(t) == ClientStep(t) /\ UNCHANGED serverVars
Server(t) == ServerReceive(t) /\ UNCHANGED clientVars
Loss(t) == (DropData(t) \/ DropAck(t)) /\ UNCHANGED clientVars

Next == \E t \in Threads : Client(t) \/ Server(t) \/ Loss(t)

Spec == Init /\ [][Next]_vars

(* A client that can take a step takes one, the server's loop goes on, and *)
(* a datagram that is not lost arrives.                                    *)
Fairness == \A t \in Threads : WF_vars(Client(t)) /\ WF_vars(Server(t))

FairSpec == Spec /\ Fairness

-----------------------------------------------------------------------------
TypeOK ==
    /\ ClientTypeOK
    /\ ServerTypeOK
    /\ UdpTypeOK([seq : Nat, empty : BOOLEAN], Nat)

Blocks(n) == [i \in 1..n |-> i]
WholeFile(t) == disk[t] = Blocks(NumPackets[t])

(* The output file holds the first blocks of the file, exactly those below *)
(* expected_seq: a filename packet that comes again opens the file anew    *)
(* without setting expected_seq back, which is harmless only as long as    *)
(* nothing was written (receive_packets, seq_num 0).                       *)
InOrder == \A t \in Threads : disk[t] = Blocks(expected_seq[t] - 1)

(* A packet the client's window has passed, or that is marked in acked,    *)
(* was received: acked is shared by packet numbers that differ by win_size *)
(* and its marks are only cleared when a slot is used again.               *)
Delivers(t, n) ==
    \/ n \in 1..(base[t] - 1)
    \/ n \in base[t]..(next_seq_num[t] - 1) /\ acked[t][Slot(n)]
AckedIsStored == \A t \in Threads : \A n \in 1..NumPackets[t] :
    Delivers(t, n) => n \in received[t]

(* "File transfer complete.": the client exits with status 0 only when the *)
(* server has written the whole file and closed it, so that nothing is     *)
(* left in the stream's buffer.                                            *)
DoneMeansWhole ==
    \A t \in Threads : pc[t] = "done" => WholeFile(t) /\ file[t] = "closed"

Ended(t) == pc[t] \in {"done", "failed"}

(* Without a loss every client ends, be its file empty or of any length,   *)
(* unless the server exits on a file it cannot create.                     *)
EndsWithoutLoss == \A t \in Threads : <>(Ended(t) \/ losses > 0 \/ server = "exited")

(* README: "project reliable file transfer": every client ends. *)
Terminates == \A t \in Threads : <>Ended(t)

TransferStatus == [t \in Threads |->
    CASE pc[t] = "done" -> "complete"
      [] pc[t] = "failed" -> "stopped"
      [] OTHER -> "running"]
Promise == INSTANCE FileTransfer WITH
    Transfers <- Threads,
    File <- [t \in Threads |-> Blocks(NumPackets[t])],
    copy <- disk,
    status <- TransferStatus
(* On a path that keeps order lab3, too, implements a reliable transfer,   *)
(* as far as what it never gets wrong is concerned.                        *)
ImplementsPromise == Promise!Spec
=============================================================================
