----------------------------- MODULE Lab4Server -----------------------------
(***************************************************************************)
(* lab4/src/myserver.c: servers that each serve up to MAX_CLIENTS client   *)
(* addresses.  receive_packets handles one datagram per iteration: it may  *)
(* drop it, finds or creates the entry of its sender in clients[], opens,  *)
(* fills or closes that client's output file, and acknowledges.            *)
(*                                                                         *)
(* A client address is a thread of Lab4Client, and it talks to one server, *)
(* so an entry of clients[] is indexed by the thread.  Its buffer[seq]     *)
(* holds the packet stored under seq, of which only the run can differ.    *)
(***************************************************************************)
EXTENDS Udp, FiniteSets

CONSTANTS
    Servers,
    ServerOf,       \* ServerOf[t]: the server thread t sends to
    MaxClients,     \* MAX_CLIENTS
    MaxSeqNum,      \* MAX_SEQ_NUM
    FopenResults,   \* whether fopen of an output file succeeds: {TRUE} or BOOLEAN
    MaxRestarts     \* bound: restarts of all servers together

ASSUME ServerAssumption ==
    /\ IsFiniteSet(Threads)
    /\ ServerOf \in [Threads -> Servers]
    /\ MaxClients \in Nat \ {0}
    /\ MaxSeqNum \in Nat \ {0}
    /\ FopenResults \in (SUBSET BOOLEAN) \ {{}}
    /\ MaxRestarts \in Nat

VARIABLES
    known,          \* known[t]: clients[] has an entry for t
    active,         \* client->active
    file_open,      \* client->file is not NULL
    expected_seq,
    received,       \* received[t]: the seq with client->received[seq] set
    buffer,         \* buffer[t][seq]: run of the packet in client->buffer[seq]
    disk,           \* disk[t]: blocks <<run, n>> of t's output file, in order
    spinning,       \* spinning[s]: s never leaves the writing loop again
    restarts        \* server restarts so far

serverVars == <<known, active, file_open, expected_seq, received, buffer,
                disk, spinning, restarts>>

SeqNums == 0..(MaxSeqNum - 1)

ServerInit ==
    /\ known = [t \in Threads |-> FALSE]
    /\ active = [t \in Threads |-> FALSE]
    /\ file_open = [t \in Threads |-> FALSE]
    /\ expected_seq = [t \in Threads |-> 1]
    /\ received = [t \in Threads |-> {}]
    /\ buffer = [t \in Threads |-> [n \in SeqNums |-> 0]]
    /\ disk = [t \in Threads |-> <<>>]
    /\ spinning = [s \in Servers |-> FALSE]
    /\ restarts = 0

ServerTypeOK ==
    /\ known \in [Threads -> BOOLEAN]
    /\ active \in [Threads -> BOOLEAN]
    /\ file_open \in [Threads -> BOOLEAN]
    /\ expected_seq \in [Threads -> 1..MaxSeqNum]
    /\ received \in [Threads -> SUBSET SeqNums]
    /\ buffer \in [Threads -> [SeqNums -> Nat]]
    /\ disk \in [Threads -> Seq(Nat \X SeqNums)]
    /\ spinning \in [Servers -> BOOLEAN]
    /\ restarts \in Nat

-----------------------------------------------------------------------------
(* get_client: an entry is found, or created while the table has room.     *)
(* Entries are never given back, so a fresh one still has initial values.  *)
ClientCount(s) == Cardinality({t \in Threads : known[t] /\ ServerOf[t] = s})
Admitted(t) == known[t] \/ ClientCount(ServerOf[t]) < MaxClients
GetClient(t) ==
    /\ known' = [known EXCEPT ![t] = TRUE]
    /\ active' = [active EXCEPT ![t] = active[t] \/ ~known[t]]

Arrives(t) == toServer[t] # <<>> /\ ~spinning[ServerOf[t]]
HeadSeq(t) == Head(toServer[t]).seq

(* The packet is dropped on purpose (droppc); a loss on the way to the     *)
(* server looks the same.                                                  *)
DropData(t) ==
    /\ Arrives(t)
    /\ losses < MaxLosses
    /\ toServer' = [toServer EXCEPT ![t] = Tail(@)]
    /\ losses' = losses + 1
    /\ UNCHANGED <<toClient, serverVars>>

(* get_client returns NULL: the table is full. *)
RefuseClientButAck(t) ==
    /\ Arrives(t)
    /\ ~Admitted(t)
    /\ TakePacket(t, <<HeadSeq(t)>>)
    /\ UNCHANGED serverVars
RefuseClient(t) ==
    /\ Arrives(t)
    /\ ~Admitted(t)
    /\ TakePacket(t, <<>>)
    /\ UNCHANGED serverVars

ReceiveEofKeepingFile(t) ==
    /\ Arrives(t) /\ Admitted(t)
    /\ HeadSeq(t) = -1
    /\ known' = [known EXCEPT ![t] = TRUE]
    /\ active' = [active EXCEPT ![t] = FALSE]
    /\ TakePacket(t, <<>>)
    /\ UNCHANGED <<file_open, expected_seq, received, buffer, disk, spinning, restarts>>
ReceiveEof(t) ==
    /\ Arrives(t) /\ Admitted(t)
    /\ HeadSeq(t) = -1
    /\ known' = [known EXCEPT ![t] = TRUE]
    /\ active' = [active EXCEPT ![t] = FALSE]
    /\ file_open' = [file_open EXCEPT ![t] = FALSE]
    /\ TakePacket(t, <<>>)
    /\ UNCHANGED <<expected_seq, received, buffer, disk, spinning, restarts>>

ReceiveOutOfRangeButAck(t) ==
    /\ Arrives(t) /\ Admitted(t)
    /\ HeadSeq(t) >= MaxSeqNum
    /\ GetClient(t)
    /\ TakePacket(t, <<HeadSeq(t)>>)
    /\ UNCHANGED <<file_open, expected_seq, received, buffer, disk, spinning, restarts>>
ReceiveOutOfRange(t) ==
    /\ Arrives(t) /\ Admitted(t)
    /\ HeadSeq(t) >= MaxSeqNum
    /\ GetClient(t)
    /\ TakePacket(t, <<>>)
    /\ UNCHANGED <<file_open, expected_seq, received, buffer, disk, spinning, restarts>>

(* The writing loop stops at e: it wrote every number before e and has no  *)
(* packet for e.                                                           *)
StopsAtSkippingGaps(e, expected, rec) ==
    /\ e = expected \/ e - 1 \in rec
    /\ \A m \in rec : m < e
StopsAt(e, expected, rec) ==
    /\ \A m \in expected..(e - 1) : m \in rec
    /\ e \notin rec

(* What is left of an iteration once the packet passed the checks: store   *)
(* it unless its number is marked as received, write the run of buffered   *)
(* packets that starts at expected_seq, acknowledge.  With client->file    *)
(* NULL the writing loop continues without advancing and never ends.       *)
StoreWriteAck(t, expected, content, isOpen, firstAcks) ==
    LET n == HeadSeq(t)
        rec == received[t] \cup {n}
        buf == IF n \in received[t] THEN buffer[t]
               ELSE [buffer[t] EXCEPT ![n] = Head(toServer[t]).run]
    IN  /\ buffer' = [buffer EXCEPT ![t] = buf]
        /\ \/ /\ expected \in rec /\ ~isOpen
              /\ spinning' = [spinning EXCEPT ![ServerOf[t]] = TRUE]
              /\ received' = [received EXCEPT ![t] = rec]
              /\ TakePacket(t, firstAcks)
              /\ UNCHANGED <<expected_seq, disk>>
           \/ /\ expected \notin rec \/ isOpen
              /\ \E e \in expected..MaxSeqNum :
                    /\ StopsAt(e, expected, rec)
                    /\ expected_seq' = [expected_seq EXCEPT ![t] = e]
                    /\ received' = [received EXCEPT ![t] = rec \ (expected..(e - 1))]
                    /\ disk' = [disk EXCEPT ![t] = content \o
                          [i \in 1..(e - expected) |->
                              <<buf[expected + i - 1], expected + i - 1>>]]
              /\ TakePacket(t, Append(firstAcks, n))
              /\ UNCHANGED spinning

ReceiveFilenameKeepingExpected(t) ==
    /\ Arrives(t) /\ Admitted(t)
    /\ HeadSeq(t) = 0
    /\ GetClient(t)
    /\ file_open' = [file_open EXCEPT ![t] = TRUE]
    /\ StoreWriteAck(t, expected_seq[t], <<>>, TRUE, <<0>>)
    /\ UNCHANGED restarts
(* seq 0 creates the output file anew and falls through to the common part. *)
ReceiveFilename(t) ==
    /\ Arrives(t) /\ Admitted(t)
    /\ HeadSeq(t) = 0
    /\ GetClient(t)
    /\ \E opened \in FopenResults :
        /\ file_open' = [file_open EXCEPT ![t] = opened]
        /\ \/ /\ opened
              /\ StoreWriteAck(t, 1, <<>>, TRUE, <<0>>)
           \/ /\ ~opened
              /\ TakePacket(t, <<>>)
              /\ UNCHANGED <<expected_seq, received, buffer, disk, spinning>>
    /\ UNCHANGED restarts

ReceiveDataReopening(t) ==
    /\ Arrives(t) /\ Admitted(t)
    /\ HeadSeq(t) \in 1..(MaxSeqNum - 1)
    /\ GetClient(t)
    /\ StoreWriteAck(t, expected_seq[t], <<>>, file_open[t], <<>>)
    /\ UNCHANGED <<file_open, restarts>>
ReceiveDataOnce(t) ==
    /\ Arrives(t) /\ Admitted(t)
    /\ HeadSeq(t) \in 1..(MaxSeqNum - 1)
    /\ GetClient(t)
    /\ IF HeadSeq(t) < expected_seq[t]
         THEN TakePacket(t, <<>>) /\ UNCHANGED <<expected_seq, received, buffer, disk, spinning>>
         ELSE StoreWriteAck(t, expected_seq[t], disk[t], file_open[t], <<>>)
    /\ UNCHANGED <<file_open, restarts>>
ReceiveData(t) ==
    /\ Arrives(t) /\ Admitted(t)
    /\ HeadSeq(t) \in 1..(MaxSeqNum - 1)
    /\ GetClient(t)
    /\ StoreWriteAck(t, expected_seq[t], disk[t], file_open[t], <<>>)
    /\ UNCHANGED <<file_open, restarts>>

ServerReceive(t) ==
    \/ RefuseClient(t)
    \/ ReceiveEof(t)
    \/ ReceiveOutOfRange(t)
    \/ ReceiveFilename(t)
    \/ ReceiveData(t)

(* The server is killed and started again: its table is lost, the output   *)
(* files stay as they were flushed.  A datagram that waits in its socket   *)
(* buffer at that moment is lost with it: DropData, taken just before.     *)
Restart(s) ==
    /\ restarts < MaxRestarts
    /\ restarts' = restarts + 1
    /\ LET Fresh(f, v) == [t \in Threads |-> IF ServerOf[t] = s THEN v ELSE f[t]] IN
         /\ known' = Fresh(known, FALSE)
         /\ active' = Fresh(active, FALSE)
         /\ file_open' = Fresh(file_open, FALSE)
         /\ expected_seq' = Fresh(expected_seq, 1)
         /\ received' = Fresh(received, {})
         /\ buffer' = Fresh(buffer, [n \in SeqNums |-> 0])
    /\ spinning' = [spinning EXCEPT ![s] = FALSE]
    /\ UNCHANGED <<disk, netVars>>
=============================================================================
