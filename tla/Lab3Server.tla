----------------------------- MODULE Lab3Server -----------------------------
(***************************************************************************)
(* lab3/src/myserver.c: one server for up to MAX_CLIENTS client addresses. *)
(* receive_packets handles one datagram per iteration.  Unlike lab4's      *)
(* server it never forgets that a number was received, acknowledges only   *)
(* what is new or what it writes, and acknowledges the EOF packet.         *)
(*                                                                         *)
(* An address is a client of Lab3Client, and every client names an output  *)
(* file of its own: two that send one name would share the file (fopen,    *)
(* myserver.c:169), as those of lab4 do in Lab4Files, and are outside the  *)
(* model.  A block of t's file is named by the number of the packet that   *)
(* carries it.  A number of MAX_PACKETS or more indexes past received[]    *)
(* and is outside the model.                                               *)
(***************************************************************************)
EXTENDS Udp, FiniteSets

CONSTANTS
    MaxClients,     \* MAX_CLIENTS
    FopenResults    \* whether creating an output file succeeds

ASSUME ServerAssumption ==
    /\ MaxClients \in Nat \ {0}
    /\ FopenResults \in (SUBSET BOOLEAN) \ {{}}

VARIABLES
    server,         \* "up", "exited" (exit(1)) or "crashed"
    known,          \* known[t]: clients[] has an entry for t
    file,           \* client->file: "null", "open" or "closed" (but not NULL)
    expected_seq,
    received,       \* received[t]: the seq with client->received[seq] set
    disk            \* disk[t]: the blocks written to t's output file, in order

serverVars == <<server, known, file, expected_seq, received, disk>>

ServerInit ==
    /\ server = "up"
    /\ known = [t \in Threads |-> FALSE]
    /\ file = [t \in Threads |-> "null"]
    /\ expected_seq = [t \in Threads |-> 1]
    /\ received = [t \in Threads |-> {}]
    /\ disk = [t \in Threads |-> <<>>]

ServerTypeOK ==
    /\ server \in {"up", "exited", "crashed"}
    /\ known \in [Threads -> BOOLEAN]
    /\ file \in [Threads -> {"null", "open", "closed"}]
    /\ expected_seq \in [Threads -> Nat \ {0}]
    /\ received \in [Threads -> SUBSET (Nat \ {0})]
    /\ disk \in [Threads -> Seq(Nat \ {0})]

-----------------------------------------------------------------------------
Arrives(t) == toServer[t] # <<>> /\ server = "up"
HeadSeq(t) == Head(toServer[t]).seq

(* get_client *)
Admitted(t) == known[t] \/ Cardinality({u \in Threads : known[u]}) < MaxClients
GetClient(t) == Admitted(t) /\ known' = [known EXCEPT ![t] = TRUE]

(* drop_rate takes the packet. *)
DropData(t) ==
    /\ Arrives(t)
    /\ losses < MaxLosses
    /\ toServer' = [toServer EXCEPT ![t] = Tail(@)]
    /\ losses' = losses + 1
    /\ UNCHANGED <<toClient, serverVars>>

(* send_ack: drop_rate takes the ack; to the client it looks the same when *)
(* the path loses it later.                                                *)
DropAck(t) == LoseAck(t) /\ UNCHANGED serverVars

RefuseClient(t) ==
    /\ Arrives(t)
    /\ ~Admitted(t)
    /\ TakePacket(t, <<>>)
    /\ UNCHANGED serverVars

(* fopen with "wb" empties the file; neither expected_seq nor received is  *)
(* set back.  When it fails, the whole server exits.                       *)
ReceiveFilename(t) ==
    /\ Arrives(t)
    /\ HeadSeq(t) = 0
    /\ GetClient(t)
    /\ \E created \in FopenResults :
         IF created
           THEN /\ file' = [file EXCEPT ![t] = "open"]
                /\ disk' = [disk EXCEPT ![t] = <<>>]
                /\ TakePacket(t, <<0>>)
                /\ UNCHANGED server
           ELSE /\ server' = "exited"
                /\ TakePacket(t, <<>>)
                /\ UNCHANGED <<file, disk>>
    /\ UNCHANGED <<expected_seq, received>>

(* fclose leaves client->file as it is; closing it again, or a NULL one,   *)
(* has no defined behaviour and takes the server down.                     *)
ReceiveEof(t) ==
    /\ Arrives(t)
    /\ Head(toServer[t]).empty
    /\ GetClient(t)
    /\ IF file[t] = "open"
         THEN /\ file' = [file EXCEPT ![t] = "closed"]
              /\ TakePacket(t, <<HeadSeq(t)>>)
              /\ UNCHANGED server
         ELSE /\ server' = "crashed"
              /\ TakePacket(t, <<>>)
              /\ UNCHANGED file
    /\ UNCHANGED <<expected_seq, received, disk>>

(* The writing loop stops at e. *)
StopsAt(e, expected, rec) ==
    /\ \A m \in expected..(e - 1) : m \in rec
    /\ e \notin rec

ReceiveDataUnordered(t) ==
    /\ Arrives(t)
    /\ HeadSeq(t) # 0 /\ ~Head(toServer[t]).empty
    /\ GetClient(t)
    /\ IF HeadSeq(t) \in received[t]
         THEN TakePacket(t, <<>>) /\ UNCHANGED <<received, expected_seq, disk>>
         ELSE /\ received' = [received EXCEPT ![t] = @ \cup {HeadSeq(t)}]
              /\ expected_seq' = [expected_seq EXCEPT ![t] = @ + 1]
              /\ disk' = [disk EXCEPT ![t] = Append(@, HeadSeq(t))]
              /\ TakePacket(t, <<HeadSeq(t)>>)
    /\ UNCHANGED <<server, file>>
(* A new packet is stored and acknowledged; then every packet that can be  *)
(* written is written and acknowledged (again).                            *)
ReceiveData(t) ==
    /\ Arrives(t)
    /\ HeadSeq(t) # 0 /\ ~Head(toServer[t]).empty
    /\ GetClient(t)
    /\ LET n == HeadSeq(t)
           rec == received[t] \cup {n}
           acks == IF n \in received[t] THEN <<>> ELSE <<n>>
           first == expected_seq[t]
       IN /\ received' = [received EXCEPT ![t] = rec]
          /\ \/ /\ first \in rec /\ file[t] # "open"
                /\ server' = "crashed"
                /\ TakePacket(t, acks)
                /\ UNCHANGED <<expected_seq, disk>>
             \/ /\ first \notin rec \/ file[t] = "open"
                /\ \E e \in first..(first + Cardinality(rec)) :
                     LET written == [i \in 1..(e - first) |-> first + i - 1] IN
                       /\ StopsAt(e, first, rec)
                       /\ expected_seq' = [expected_seq EXCEPT ![t] = e]
                       /\ disk' = [disk EXCEPT ![t] = @ \o written]
                       /\ TakePacket(t, acks \o written)
                /\ UNCHANGED server
    /\ UNCHANGED file

ServerReceive(t) ==
    \/ RefuseClient(t)
    \/ ReceiveFilename(t)
    \/ ReceiveEof(t)
    \/ ReceiveData(t)
=============================================================================
