--------------------------- MODULE Lab4Invariant ---------------------------
(***************************************************************************)
(* Why a transfer on a path that keeps order delivers the whole file: the  *)
(* inductive invariant of Lab4Transfer's Spec, one conjunct per idea and   *)
(* one instance of each per thread.                                        *)
(***************************************************************************)
EXTENDS Lab4Transfer

Naming(t) == pc[t] \in {"new", "name", "nameWait"}
InFlight(t) == 1..Len(toServer[t])
SeqAt(t, k) == toServer[t][k].seq

(* WindowSound for one thread, with what each place of the code knows of   *)
(* the window.  It needs nothing of the server or the path.                *)
WindowInv(t) ==
    /\ base_sn[t] <= next_sn[t]
    /\ next_sn[t] <= base_sn[t] + WinSize
    /\ \A n \in Outstanding(t) : window[t][Slot(n)] = n
    /\ \A i \in Slots : acked[t][i] => \E n \in Outstanding(t) : i = Slot(n)
    /\ pc[t] = "resend" => cursor[t] \in base_sn[t]..next_sn[t]
    /\ Naming(t) => base_sn[t] = 1 /\ next_sn[t] = 1
    /\ pc[t] = "exit" => base_sn[t] = NumPackets + 1

(* The packets that carry the name come before all others, and as long as  *)
(* one is under way the server has nothing but the name: opening the file  *)
(* with "wb" once more loses nothing.                                      *)
NamesFirst(t) ==
    /\ \A k \in InFlight(t) : SeqAt(t, k) < next_sn[t]
    /\ Naming(t) => \A k \in InFlight(t) : SeqAt(t, k) = 0
    /\ \A j, k \in InFlight(t) : j < k /\ SeqAt(t, k) = 0 => SeqAt(t, j) = 0
    /\ (\E k \in InFlight(t) : SeqAt(t, k) = 0) => expected_seq[t] = 1 /\ received[t] \subseteq {0}

(* The server has no number that was not sent, and the output file ends    *)
(* where expected_seq says; all blocks are of the only run there is.       *)
ServerInv(t) ==
    /\ expected_seq[t] <= next_sn[t]
    /\ \A n \in received[t] : n < next_sn[t] /\ buffer[t][n] = 1
    /\ \A k \in InFlight(t) : toServer[t][k].run = 1
    /\ disk[t] = Blocks(1, expected_seq[t] - 1)

(* An ack under way is the name's or that of a stored packet. *)
AckSound(t, ack) == ack < next_sn[t] /\ (ack # 0 => Stored(t, ack))
AcksSound(t) == \A k \in 1..Len(toClient[t]) : AckSound(t, toClient[t][k])

(* The part of it that needs no order of the path. *)
AcksKept(t) ==
    \A k \in 1..Len(toClient[t]) : toClient[t][k] # 0 => Stored(t, toClient[t][k])

ClientSound(t) == \A n \in 1..NumPackets : Delivers(t, n) => Stored(t, n)

ThreadInv(t) ==
    /\ WindowInv(t)
    /\ NamesFirst(t)
    /\ ServerInv(t)
    /\ AcksSound(t)
    /\ ClientSound(t)

(* The inductive invariant: AckedIsStored and Delivered follow from it, and *)
(* every step of the threads, the servers and the path keeps it.           *)
IInv ==
    /\ TypeOK
    /\ \A p \in Processes : run[p] = 1
    /\ \A t \in Threads : ThreadInv(t)

-----------------------------------------------------------------------------
(* What is left on a path that also reorders, with servers that restart:   *)
(* every number stands for a block of the only run there is, and an open   *)
(* file ends where expected_seq says.                                      *)
HostileInv(t) ==
    /\ \A k \in InFlight(t) : toServer[t][k].run = 1
    /\ \A n \in received[t] : buffer[t][n] = 1
    /\ file_open[t] => disk[t] = Blocks(1, expected_seq[t] - 1)

HostileIInv ==
    /\ \A p \in Processes : run[p] = 1
    /\ \A t \in Threads : HostileInv(t)

(* If no fopen fails: when the server has no file for a thread, the thread *)
(* was not acknowledged its name yet, or the EOF packet has come, which is *)
(* the last one under way.                                                 *)
Served(t) ==
    \/ file_open[t]
    \/ Naming(t) /\ toClient[t] = <<>>
    \/ pc[t] = "exit" /\ toServer[t] = <<>>
EofLast(t) ==
    \A k \in InFlight(t) :
        SeqAt(t, k) = EofSeq => k = Len(toServer[t]) /\ pc[t] = "exit"
ServedInv == \A t \in Threads : Served(t) /\ EofLast(t)
=============================================================================
