--------------------------- MODULE Lab2Invariant ---------------------------
(***************************************************************************)
(* Why the echo client of lab2 announces no broken file, and why only a    *)
(* fault of its own path makes it complain: the inductive invariant of     *)
(* Lab2Echo's Spec.  Whatever the path does, the output holds the packets  *)
(* marked in received_seq and ends with one of them (OutputInv), of which  *)
(* there are no more than total_packets (CountInv).  On an undisturbed     *)
(* path the two queues are one run of consecutive numbers (OrderInv).      *)
(***************************************************************************)
EXTENDS Lab2Echo, FiniteSets

(* The bytes of c's file that packet n carries. *)
End(c, n) == IF Offset(n) + Payload < Size[c] THEN Offset(n) + Payload ELSE Size[c]
Piece(c, n) == SubSeq(File(c), Offset(n) + 1, End(c, n))

(* What c has sent, or may have: every datagram of c is one of these. *)
Sendable(c) ==
    {Packet(EofMarker, <<>>)} \cup {Packet(n, Piece(c, n)) : n \in 0..(seq_num[c] - 1)}
PacketsInv(c) == toServer[c] \in Seq(Sendable(c)) /\ toClient[c] \in Seq(Sendable(c))

(* No packet is empty, and EOF is only sent behind the last one. *)
SentInv(c) ==
    /\ seq_num[c] > 0 => Offset(seq_num[c] - 1) < Size[c]
    /\ pc[c] \notin {"new", "send", "aborted"} => Sent(c) >= Size[c]
    /\ ended[c] = "eof" => Sent(c) >= Size[c]
    /\ pc[c] \in {"new", "send", "receive"} => ended[c] = "not"

CountInv(c) ==
    /\ received_seq[c] \subseteq 0..(seq_num[c] - 1)
    /\ Cardinality(received_seq[c]) <= total_packets[c]
    /\ pc[c] = "complete" => NoGap(c)
    /\ pc[c] = "missing" => ~NoGap(c)

OutputInv(c) ==
    /\ \A n \in received_seq[c] :
          /\ End(c, n) <= Len(output[c])
          /\ \A i \in (Offset(n) + 1)..End(c, n) : output[c][i] = <<c, i>>
    /\ Len(output[c]) = 0 \/ \E n \in received_seq[c] : Len(output[c]) = End(c, n)

(* What comes to c next is number total_packets, in the order of sending;  *)
(* behind the last number is the EOF marker.                               *)
NumberAt(c, n) == IF n < seq_num[c] THEN n ELSE EofMarker
OrderInv(c) ==
    /\ received_seq[c] = 0..(total_packets[c] - 1)
    /\ \A k \in 1..Len(toClient[c]) :
          toClient[c][k].seq = NumberAt(c, total_packets[c] + k - 1)
    /\ \A k \in 1..Len(toServer[c]) :
          toServer[c][k].seq = NumberAt(c, total_packets[c] + Len(toClient[c]) + k - 1)
    /\ LET all == total_packets[c] + Len(toClient[c]) + Len(toServer[c]) IN
         /\ all <= seq_num[c] + 1
         /\ pc[c] \in {"new", "send"} => all = seq_num[c]
         /\ ended[c] = "eof" => total_packets[c] = seq_num[c]

ClientInv(c) ==
    /\ PacketsInv(c)
    /\ SentInv(c)
    /\ CountInv(c)
    /\ OutputInv(c)
    /\ c \notin disturbed => OrderInv(c)

IInv ==
    /\ TypeOK
    /\ \A c \in Threads : ClientInv(c)
=============================================================================
