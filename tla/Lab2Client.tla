----------------------------- MODULE Lab2Client -----------------------------
(***************************************************************************)
(* lab2/src/myclient.c: clients that each send a whole file to the echo    *)
(* server, one numbered packet after the other, then an EOF marker, and    *)
(* only then collect the echoes and write each at the offset its number    *)
(* stands for.                                                             *)
(*                                                                         *)
(* A client is a thread of Udp: its socket.  A byte of a file is named by  *)
(* its owner and its position.  A file has at most 100000 packets, the     *)
(* size of received_seq, which the code does not check.                    *)
(***************************************************************************)
EXTENDS Udp, Stdio

CONSTANTS
    Size,       \* Size[c]: bytes of c's file
    Mtu         \* mtu

IntSize == 4
ASSUME ClientAssumption ==
    /\ Size \in [Threads -> Nat]
    /\ Mtu \in Nat /\ Mtu > IntSize
    /\ \A c \in Threads : Size[c] <= 100000 * (Mtu - IntSize)

VARIABLES
    pc,             \* where client c is; "complete" after the success message
    seq_num,        \* seq_num of send_file: packets sent
    received_seq,   \* the numbers marked in received_seq
    total_packets,
    output,         \* the output file, which is flushed after every write
    ended           \* history: what ended the loop of receive_file

clientVars == <<pc, seq_num, received_seq, total_packets, output, ended>>

Payload == Mtu - IntSize
File(c) == [i \in 1..Size[c] |-> <<c, i>>]
Bytes == UNION {{<<c, i>> : i \in 1..Size[c]} : c \in Threads}

EofMarker == -1
Packet(seq, data) == [seq |-> seq, data |-> data]
IsPacket(p) == p.seq \in Nat \cup {EofMarker} /\ p.data \in Seq(Bytes)

ClientInit ==
    /\ pc = [c \in Threads |-> "new"]
    /\ seq_num = [c \in Threads |-> 0]
    /\ received_seq = [c \in Threads |-> {}]
    /\ total_packets = [c \in Threads |-> 0]
    /\ output = [c \in Threads |-> <<>>]
    /\ ended = [c \in Threads |-> "not"]

ClientTypeOK ==
    /\ pc \in [Threads -> {"new", "send", "receive", "validate", "complete", "missing", "aborted"}]
    /\ seq_num \in [Threads -> Nat]
    /\ received_seq \in [Threads -> SUBSET Nat]
    /\ total_packets \in [Threads -> Nat]
    /\ output \in [Threads -> Seq(Bytes \cup {Hole})]
    /\ ended \in [Threads -> {"not", "eof", "timeout"}]
    /\ \A c \in Threads : received_seq[c] \subseteq 0..(seq_num[c] - 1)

Goto(c, label) == pc' = [pc EXCEPT ![c] = label]

-----------------------------------------------------------------------------
(* main opens both files; the output file becomes empty. *)
Start(c) ==
    /\ pc[c] = "new"
    /\ Goto(c, "send") \/ Goto(c, "aborted")
    /\ UNCHANGED <<seq_num, received_seq, total_packets, output, ended, netVars>>

(* sendto or recvfrom fails, with another error than a timeout. *)
SocketError(c) ==
    /\ pc[c] \in {"send", "receive"}
    /\ Goto(c, "aborted")
    /\ UNCHANGED <<seq_num, received_seq, total_packets, output, ended, netVars>>

(* fread returns the next bytes, fewer at the end of the file. *)
Sent(c) == seq_num[c] * Payload
Chunk(c) == SubSeq(File(c), Sent(c) + 1,
                   IF Sent(c) + Payload < Size[c] THEN Sent(c) + Payload ELSE Size[c])

SendPacketOfFile(c) ==
    /\ pc[c] = "send"
    /\ Sent(c) < Size[c]
    /\ SendPacket(c, Packet(seq_num[c], Chunk(c)))
    /\ seq_num' = [seq_num EXCEPT ![c] = @ + 1]
    /\ UNCHANGED <<pc, received_seq, total_packets, output, ended>>

SendEof(c) ==
    /\ pc[c] = "send"
    /\ Sent(c) >= Size[c]
    /\ SendPacket(c, Packet(EofMarker, <<>>))
    /\ Goto(c, "receive")
    /\ UNCHANGED <<seq_num, received_seq, total_packets, output, ended>>

-----------------------------------------------------------------------------
(* fseek to where the packet's bytes belong. *)
Offset(seq) == seq * Payload

ReceiveEcho(c) ==
    /\ pc[c] = "receive"
    /\ toClient[c] # <<>>
    /\ LET p == Head(toClient[c]) IN
         /\ p.seq # EofMarker
         /\ received_seq' = [received_seq EXCEPT ![c] = @ \cup {p.seq}]
         /\ output' = IF p.data # <<>>
                        THEN [output EXCEPT ![c] = WriteAt(@, Offset(p.seq), p.data)]
                        ELSE output
    /\ total_packets' = [total_packets EXCEPT ![c] = @ + 1]
    /\ TakeAck(c)
    /\ UNCHANGED <<pc, seq_num, ended>>

ReceiveEof(c) ==
    /\ pc[c] = "receive"
    /\ toClient[c] # <<>>
    /\ Head(toClient[c]).seq = EofMarker
    /\ Goto(c, "validate")
    /\ ended' = [ended EXCEPT ![c] = "eof"]
    /\ TakeAck(c)
    /\ UNCHANGED <<seq_num, received_seq, total_packets, output>>

ReceiveTimeoutAgain(c) ==
    /\ pc[c] = "receive"
    /\ toClient[c] = <<>>
    /\ UNCHANGED <<clientVars, netVars>>
(* Nothing arrived for 30 seconds. *)
ReceiveTimeout(c) ==
    /\ pc[c] = "receive"
    /\ toClient[c] = <<>>
    /\ Goto(c, "validate")
    /\ ended' = [ended EXCEPT ![c] = "timeout"]
    /\ UNCHANGED <<seq_num, received_seq, total_packets, output, netVars>>

(* The loop after reception; exit(EXIT_FAILURE) for a missing number. *)
NoGapButLast(c) == \A i \in 0..(total_packets[c] - 2) : i \in received_seq[c]
NoGapOneMore(c) == \A i \in 0..total_packets[c] : i \in received_seq[c]
NoGap(c) == \A i \in 0..(total_packets[c] - 1) : i \in received_seq[c]

Validate(c) ==
    /\ pc[c] = "validate"
    /\ Goto(c, IF NoGap(c) THEN "complete" ELSE "missing")
    /\ UNCHANGED <<seq_num, received_seq, total_packets, output, ended, netVars>>

ClientStep(c) ==
    \/ Start(c)
    \/ SendPacketOfFile(c)
    \/ SendEof(c)
    \/ ReceiveEcho(c)
    \/ ReceiveEof(c)
    \/ ReceiveTimeout(c)
    \/ Validate(c)
=============================================================================
