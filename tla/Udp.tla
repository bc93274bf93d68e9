-------------------------------- MODULE Udp --------------------------------
(***************************************************************************)
(* The UDP service between the sockets of the clients and the servers of   *)
(* lab3 and lab4, as the code uses it through sendto and recvfrom.  Every  *)
(* sending thread has a socket of its own and talks to one server, so a    *)
(* thread names the address the server sees, and there is one queue per    *)
(* direction.                                                              *)
(*                                                                         *)
(* A queue holds what is in flight and what waits in a socket buffer.      *)
(* Losing a datagram anywhere on its way looks, to both ends, like losing  *)
(* it when it reaches the head of its queue.  Reordering and duplication   *)
(* are actions of their own, so that a specification may assume a path     *)
(* that keeps order and delivers each datagram at most once.               *)
(***************************************************************************)
EXTENDS Integers, Sequences

CONSTANTS
    Threads,    \* sender threads, that is, client socket addresses
    MaxLosses   \* bound: datagrams lost, dropped or doubled in a behaviour

ASSUME MaxLossesAssumption == MaxLosses \in Nat

VARIABLES
    toServer,   \* toServer[t]: packets from t to its server
    toClient,   \* toClient[t]: ack numbers from the server to t
    losses      \* datagrams lost or doubled so far

netVars == <<toServer, toClient, losses>>

UdpInit ==
    /\ toServer = [t \in Threads |-> <<>>]
    /\ toClient = [t \in Threads |-> <<>>]
    /\ losses = 0

(* The queues hold packets of Packets and acks of Acks. *)
UdpTypeOK(Packets, Acks) ==
    /\ toServer \in [Threads -> Seq(Packets)]
    /\ toClient \in [Threads -> Seq(Acks)]
    /\ losses \in Nat

(* sendto by thread t, recvfrom of t's next packet at the server. *)
SendPacket(t, packet) ==
    /\ toServer' = [toServer EXCEPT ![t] = Append(@, packet)]
    /\ UNCHANGED <<toClient, losses>>

(* The server's recvfrom takes t's next packet; acks are its sendto's. *)
TakePacket(t, acks) ==
    /\ toServer' = [toServer EXCEPT ![t] = Tail(@)]
    /\ toClient' = [toClient EXCEPT ![t] = @ \o acks]
    /\ UNCHANGED losses

TakeAck(t) ==
    /\ toClient' = [toClient EXCEPT ![t] = Tail(@)]
    /\ UNCHANGED <<toServer, losses>>

LoseAck(t) ==
    /\ toClient[t] # <<>>
    /\ losses < MaxLosses
    /\ toClient' = [toClient EXCEPT ![t] = Tail(@)]
    /\ losses' = losses + 1
    /\ UNCHANGED toServer

SwapAt(q, i) == [q EXCEPT ![i] = q[i + 1], ![i + 1] = q[i]]

(* The network delivers two datagrams of one direction in the other order. *)
Reorder(t) ==
    /\ \/ /\ \E i \in 1..(Len(toServer[t]) - 1) :
                toServer' = [toServer EXCEPT ![t] = SwapAt(@, i)]
          /\ UNCHANGED toClient
       \/ /\ \E i \in 1..(Len(toClient[t]) - 1) :
                toClient' = [toClient EXCEPT ![t] = SwapAt(@, i)]
          /\ UNCHANGED toServer
    /\ UNCHANGED losses

(* The network delivers a datagram once more, after all that are under     *)
(* way; Reorder brings the copy forward.                                   *)
DuplicatePacket(t, i) ==
    /\ losses < MaxLosses
    /\ toServer' = [toServer EXCEPT ![t] = Append(@, @[i])]
    /\ losses' = losses + 1
    /\ UNCHANGED toClient

DuplicateAck(t, i) ==
    /\ losses < MaxLosses
    /\ toClient' = [toClient EXCEPT ![t] = Append(@, @[i])]
    /\ losses' = losses + 1
    /\ UNCHANGED toServer

Duplicate(t) ==
    \/ \E i \in 1..Len(toServer[t]) : DuplicatePacket(t, i)
    \/ \E i \in 1..Len(toClient[t]) : DuplicateAck(t, i)
=============================================================================
