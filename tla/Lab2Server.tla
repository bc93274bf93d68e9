----------------------------- MODULE Lab2Server -----------------------------
(***************************************************************************)
(* lab2/src/myserver.c: sends every datagram back to where it came from,   *)
(* until an EOF marker arrives from any client, or nothing does for 30     *)
(* seconds; then the program ends.  The datagrams that wait in its socket  *)
(* buffer, and those that arrive later, are gone.                          *)
(*                                                                         *)
(* One socket serves all clients: which client's datagram comes first is   *)
(* left open.  A datagram whose sendto fails is one the path lost.         *)
(***************************************************************************)
EXTENDS Udp

VARIABLE server     \* "listening" or "closed"

ServerInit == server = "listening"

ServerTypeOK == server \in {"listening", "closed"}

HeadPacket(c) == Head(toServer[c])
IsEof(packet) == packet.seq = -1
Arrives(c) == server = "listening" /\ toServer[c] # <<>>

EchoToOther(c) ==
    /\ Arrives(c)
    /\ ~IsEof(HeadPacket(c))
    /\ toServer' = [toServer EXCEPT ![c] = Tail(@)]
    /\ \E d \in Threads : toClient' = [toClient EXCEPT ![d] = Append(@, HeadPacket(c))]
    /\ UNCHANGED <<losses, server>>

Echo(c) ==
    /\ Arrives(c)
    /\ ~IsEof(HeadPacket(c))
    /\ TakePacket(c, <<HeadPacket(c)>>)
    /\ UNCHANGED server

(* close(sock) *)
Close == server' = "closed"

(* The marker goes back to the client it came from, and to no other. *)
EchoEofToAll(c) ==
    /\ Arrives(c)
    /\ IsEof(HeadPacket(c))
    /\ toServer' = [toServer EXCEPT ![c] = Tail(@)]
    /\ toClient' = [d \in Threads |-> Append(toClient[d], HeadPacket(c))]
    /\ Close
    /\ UNCHANGED losses
EchoEof(c) ==
    /\ Arrives(c)
    /\ IsEof(HeadPacket(c))
    /\ TakePacket(c, <<HeadPacket(c)>>)
    /\ Close

ServerTimeout ==
    /\ server = "listening"
    /\ \A c \in Threads : toServer[c] = <<>>
    /\ Close
    /\ UNCHANGED netVars

ServerStep == ServerTimeout \/ \E c \in Threads : Echo(c) \/ EchoEof(c)
=============================================================================
