---------------------------- MODULE Lab4Transfer ----------------------------
(***************************************************************************)
(* lab4 end to end: the client threads of Lab4Client, the servers of       *)
(* Lab4Server and the datagrams of Udp between them.                       *)
(*                                                                         *)
(* Spec         a path that may lose datagrams, keeps the order of those   *)
(*              it delivers and delivers each of them once (the loopback   *)
(*              interface of the documented tests)                         *)
(* SpecDisorder a path that also reorders and duplicates                   *)
(* SpecRestart  servers that are killed and started again                  *)
(* SpecHostile  both                                                       *)
(* SpecReuse    processes that run again from the ports of earlier ones    *)
(* SpecAll      all of these                                               *)
(***************************************************************************)
EXTENDS Lab4Client, Lab4Server

vars == <<clientVars, serverVars, netVars>>

Init == ClientInit /\ ServerInit /\ UdpInit

Thread(t) == ClientStep(t) /\ UNCHANGED serverVars
Server(t) == ServerReceive(t) /\ UNCHANGED clientVars
Loss(t) ==
    \/ DropData(t) /\ UNCHANGED clientVars
    \/ LoseAck(t) /\ UNCHANGED <<clientVars, serverVars>>

Next == \E t \in Threads : Thread(t) \/ Server(t) \/ Loss(t)

DisorderStep ==
    \E t \in Threads : (Reorder(t) \/ Duplicate(t)) /\ UNCHANGED <<clientVars, serverVars>>
RestartStep == \E s \in Servers : Restart(s) /\ UNCHANGED clientVars
RunAgainStep == \E p \in Processes : RunAgain(p) /\ UNCHANGED serverVars

Spec == Init /\ [][Next]_vars
SpecDisorder == Init /\ [][Next \/ DisorderStep]_vars
SpecRestart == Init /\ [][Next \/ RestartStep]_vars
SpecHostile == Init /\ [][Next \/ DisorderStep \/ RestartStep]_vars
SpecReuse == Init /\ [][Next \/ RunAgainStep]_vars
SpecAll == Init /\ [][Next \/ DisorderStep \/ RestartStep \/ RunAgainStep]_vars

(* A thread that can take a step is eventually scheduled; select and       *)
(* recvfrom time out when nothing arrives; a datagram that is not lost     *)
(* arrives, and select reports it rather than time out from then on, which *)
(* is why taking an ack is strongly fair; the server's loop goes on.       *)
Fairness ==
    \A t \in Threads :
        /\ WF_vars(Thread(t))
        /\ SF_vars(RecvAck(t) /\ UNCHANGED serverVars)
        /\ WF_vars(Server(t))

FairSpec == Spec /\ Fairness

-----------------------------------------------------------------------------
TypeOK ==
    /\ ClientTypeOK
    /\ ServerTypeOK
    /\ UdpTypeOK([seq : -1..NumPackets, run : 1..MaxRuns], 0..NumPackets)

Outstanding(t) == base_sn[t]..(next_sn[t] - 1)

(* The numbers in flight fit in the window and have a slot each: a slot    *)
(* keeps the packet of the number it belongs to, so that a retransmission  *)
(* sends that packet again, and a slot no number in flight owns is not     *)
(* marked as acked, so that a new packet never inherits an older ack       *)
(* (send_file_to_server keeps everything under next_sn % win_size).        *)
WindowSound ==
    \A t \in Threads :
        /\ base_sn[t] <= next_sn[t]
        /\ next_sn[t] <= base_sn[t] + WinSize
        /\ \A n \in Outstanding(t) : window[t][Slot(n)] = n
        /\ \A i \in Slots : acked[t][i] => \E n \in Outstanding(t) : i = Slot(n)

(* Whatever happens to the datagrams and however often a server restarts,  *)
(* an open output file holds an initial part of one run's file: blocks are *)
(* never missing in the middle, repeated, swapped or taken from another    *)
(* run (the writing loop of receive_packets).                              *)
Blocks(r, n) == [i \in 1..n |-> <<r, i>>]
InOrder ==
    \A t \in Threads : file_open[t] =>
        \E r \in 1..MaxRuns : disk[t] = Blocks(r, expected_seq[t] - 1)

(* What the client treats as delivered, the server has: a packet the       *)
(* window has passed, or one marked as acked, is in the output file or     *)
(* waits in the buffer of received packets behind a missing one.           *)
Stored(t, n) ==
    \/ n < expected_seq[t]
    \/ n \in received[t] /\ n # expected_seq[t]
Delivers(t, n) ==
    \/ n \in 1..(base_sn[t] - 1)
    \/ n \in Outstanding(t) /\ acked[t][Slot(n)]
AckedIsStored ==
    \A t \in Threads : \A n \in 1..NumPackets : Delivers(t, n) => Stored(t, n)

(* README: "project reliable file transfer".  A thread that has sent the   *)
(* EOF packet, the last thing before exit(0), leaves the complete file on  *)
(* its server.                                                             *)
WholeFile(t) == disk[t] = Blocks(run[ProcOf[t]], NumPackets)
Delivered == \A t \in Threads : pc[t] = "exit" => WholeFile(t)

(* No step takes blocks that were written out of an output file: a         *)
(* repeated filename packet, which opens the file with "wb" again, only    *)
(* ever meets an empty file.                                               *)
NeverTruncated ==
    [][\A t \in Threads :
         /\ Len(disk[t]) <= Len(disk'[t])
         /\ \A i \in 1..Len(disk[t]) : disk'[t][i] = disk[t][i]]_disk

(* exit(0) of a process with several replicas: at least one replica has    *)
(* the complete file.                                                      *)
ExitZeroMeansOneReplica ==
    \A p \in Processes : exit_status[p] = 0 =>
        \E t \in Threads : ProcOf[t] = p /\ WholeFile(t)

(* "File pointer is NULL. Skipping write.": a server comes back to         *)
(* recvfrom after every packet.                                            *)
ServerResponsive == \A s \in Servers : ~spinning[s]

(* A packet whose resends are used up is not sent again, but the sending   *)
(* loop goes on without it (myclient.c:136).                               *)
Starved(t) ==
    \E n \in Outstanding(t) :
        /\ ~acked[t][Slot(n)] /\ retries[t][Slot(n)] = MaxRetries
        /\ losses > MaxRetries \/ n >= MaxSeqNum \/ spinning[ServerOf[t]]

(* Every client process ends, unless its threads wait for ever for a       *)
(* packet that has no resends left; and that takes more losses than a      *)
(* packet has resends, a number past MAX_SEQ_NUM, or a server that does    *)
(* not answer any more.                                                    *)
EndsOrStarves ==
    \A t \in Threads : <>(exit_status[ProcOf[t]] # Running) \/ <>[]Starved(t)

(* The EOF packet is sent once.  Unless the path loses it, the server      *)
(* closes the output file, whatever was lost and repeated before.          *)
EofUnderWay(t) == \E k \in 1..Len(toServer[t]) : toServer[t][k].seq = EofSeq
FileClosed ==
    \A t \in Threads :
        (EofUnderWay(t) /\ losses = MaxLosses) ~> (pc[t] = "exit" /\ ~file_open[t])

TransferStatus == [t \in Threads |->
    IF pc[t] = "exit" THEN "complete"
    ELSE IF exit_status[ProcOf[t]] # Running THEN "stopped" ELSE "running"]
Promise == INSTANCE FileTransfer WITH
    Transfers <- Threads,
    File <- [t \in Threads |-> Blocks(1, NumPackets)],
    copy <- disk,
    status <- TransferStatus
(* The protocol on a path that keeps order implements a reliable transfer. *)
ImplementsPromise == Promise!Spec
=============================================================================
