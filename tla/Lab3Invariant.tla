--------------------------- MODULE Lab3Invariant ---------------------------
(***************************************************************************)
(* Why lab3 never reports a file it did not deliver: the parts of the      *)
(* inductive invariants, one conjunct per idea and one instance of each    *)
(* per thread.  PathInv needs nothing of the path, EofOnce is what a       *)
(* doubled EOF packet and Intact what a late filename packet can destroy,  *)
(* and NamesFirst says that there is neither.                              *)
(***************************************************************************)
EXTENDS Lab3Transfer

(* The name was acknowledged: the client is past its first loop. *)
Started(t) == pc[t] \in {"window", "select", "eofWait", "done"}

(* The client has sent its EOF packet. *)
AtEof(t) == pc[t] \in {"eofWait", "done"}

InFlight(t) == 1..Len(toServer[t])
SeqAt(t, k) == toServer[t][k].seq

(* A client that goes on has filename attempts left. *)
RetriesLeft(t) == pc[t] # "failed" => retries[t] < MaxRetries

(* Where the window stands at each place of the code; EOF is sent when all *)
(* packets were read and the window has passed them.                       *)
WindowInv(t) ==
    /\ base[t] <= next_seq_num[t]
    /\ next_seq_num[t] <= base[t] + WinSize
    /\ ~Started(t) => next_seq_num[t] = 1 /\ ~feof[t]
    /\ feof[t] => next_seq_num[t] = NumPackets[t] + 1
    /\ AtEof(t) => feof[t] /\ base[t] = next_seq_num[t]

(* What is under way was sent: nothing but a name before the name was      *)
(* acknowledged, and an EOF packet behind everything else.                 *)
Flight(t) ==
    \A k \in InFlight(t) :
        /\ SeqAt(t, k) # 0 => Started(t)
        /\ IF toServer[t][k].empty
             THEN AtEof(t) /\ SeqAt(t, k) = next_seq_num[t]
             ELSE SeqAt(t, k) < next_seq_num[t]

(* No more than one EOF packet is under way, which will find the file      *)
(* open.                                                                   *)
EofOnce(t) ==
    /\ \A k \in InFlight(t) : toServer[t][k].empty => file[t] = "open"
    /\ \A j, k \in InFlight(t) : toServer[t][j].empty /\ toServer[t][k].empty => j = k

(* expected_seq is the first number that was not received. *)
ServerInv(t) ==
    /\ received[t] \subseteq 1..(next_seq_num[t] - 1)
    /\ \A n \in 1..(expected_seq[t] - 1) : n \in received[t]
    /\ expected_seq[t] \notin received[t]

(* There is a file from the first name on, and only EOF closes it. *)
FileInv(t) ==
    /\ Started(t) => file[t] # "null"
    /\ file[t] = "closed" => AtEof(t)

(* What an ack on its way may say: the name was received, a packet was, or *)
(* the EOF packet was.                                                     *)
Acks(t) ==
    received[t] \cup {n \in {0} : file[t] # "null"}
                \cup {n \in {next_seq_num[t]} : AtEof(t)}
AcksSound(t) == toClient[t] \in Seq(Acks(t))

ClientSound(t) == \A n \in 1..NumPackets[t] : Delivers(t, n) => n \in received[t]

PathInv(t) ==
    /\ RetriesLeft(t)
    /\ WindowInv(t)
    /\ Flight(t)
    /\ ServerInv(t)
    /\ FileInv(t)
    /\ AcksSound(t)
    /\ ClientSound(t)

(* The server has acknowledged the EOF packet. *)
EofAcked(t) ==
    \/ pc[t] = "done"
    \/ \E k \in 1..Len(toClient[t]) : toClient[t][k] = next_seq_num[t]

(* The file holds what was received without a gap, and an EOF packet that  *)
(* was acknowledged has closed it for good.                                *)
Intact(t) ==
    /\ disk[t] = Blocks(expected_seq[t] - 1)
    /\ EofAcked(t) => file[t] = "closed"

(* The packets that carry the name come first and the EOF packet comes     *)
(* last; while a name is under way the server has no packet.               *)
NamesFirst(t) ==
    /\ \A k \in InFlight(t) :
          /\ SeqAt(t, k) = 0 => received[t] = {}
          /\ toServer[t][k].empty => k = Len(toServer[t])
    /\ \A j, k \in InFlight(t) : j < k /\ SeqAt(t, k) = 0 => SeqAt(t, j) = 0
    /\ file[t] = "closed" => toServer[t] = <<>>

ThreadInv(t) == PathInv(t) /\ Intact(t) /\ NamesFirst(t)

(* The inductive invariant of Lab3Transfer's Spec: every property of the   *)
(* fifo run follows.                                                       *)
IInv ==
    /\ TypeOK
    /\ server # "crashed"
    /\ \A t \in Threads : ThreadInv(t)
=============================================================================
