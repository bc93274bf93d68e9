------------------------------ MODULE Lab2Echo ------------------------------
(***************************************************************************)
(* lab2 end to end: the clients of Lab2Client, the one server of           *)
(* Lab2Server, and a path that loses, doubles and reorders datagrams.      *)
(***************************************************************************)
EXTENDS Lab2Client, Lab2Server

CONSTANT MaxDisorder    \* bound: datagrams doubled or overtaken in a behaviour

ASSUME MaxDisorderAssumption == MaxDisorder \in Nat

VARIABLES
    disorder,   \* datagrams doubled or overtaken so far
    disturbed   \* history: the clients whose datagrams were not delivered
                \* once each and in order

pathVars == <<disorder, disturbed>>
vars == <<clientVars, server, netVars, pathVars>>

Init ==
    /\ ClientInit
    /\ ServerInit
    /\ UdpInit
    /\ disorder = 0
    /\ disturbed = {}

Client(c) == ClientStep(c) /\ UNCHANGED <<server, pathVars>>
Error(c) == SocketError(c) /\ UNCHANGED <<server, pathVars>>
Server == ServerStep /\ UNCHANGED <<clientVars, pathVars>>

LosePacket(c) ==
    /\ toServer[c] # <<>>
    /\ losses < MaxLosses
    /\ toServer' = [toServer EXCEPT ![c] = Tail(@)]
    /\ losses' = losses + 1
    /\ UNCHANGED toClient

Doubled(q) == <<Head(q)>> \o q
Repeat(c) ==
    /\ \/ /\ toServer[c] # <<>>
          /\ toServer' = [toServer EXCEPT ![c] = Doubled(@)]
          /\ UNCHANGED toClient
       \/ /\ toClient[c] # <<>>
          /\ toClient' = [toClient EXCEPT ![c] = Doubled(@)]
          /\ UNCHANGED toServer
    /\ UNCHANGED losses

Loss(c) ==
    /\ LosePacket(c) \/ LoseAck(c)
    /\ UNCHANGED disorder
Disorder(c) ==
    /\ disorder < MaxDisorder
    /\ Repeat(c) \/ Reorder(c)
    /\ disorder' = disorder + 1
Fault(c) ==
    /\ Loss(c) \/ Disorder(c)
    /\ disturbed' = disturbed \cup {c}
    /\ UNCHANGED <<clientVars, server>>

Next ==
    \/ \E c \in Threads : Client(c) \/ Error(c) \/ Fault(c)
    \/ Server

(* Programs go on, and both ends have a receive timeout. *)
Fairness == WF_vars(Server) /\ \A c \in Threads : WF_vars(Client(c))

Spec == Init /\ [][Next]_vars
FairSpec == Spec /\ Fairness

-----------------------------------------------------------------------------
TypeOK ==
    /\ ClientTypeOK
    /\ ServerTypeOK
    /\ UdpTypeOK({p \in [seq : Int, data : Seq(Bytes)] : IsPacket(p)},
                 {p \in [seq : Int, data : Seq(Bytes)] : IsPacket(p)})
    /\ disorder \in 0..MaxDisorder
    /\ disturbed \subseteq Threads

(* "File successfully reconstructed.": the output file is an initial part  *)
(* of this client's file, without a hole and without bytes of another's,   *)
(* whatever was lost, doubled or overtaken.  (It need not be all of it:    *)
(* the loop of receive_file only looks below the number of packets that    *)
(* came.)                                                                  *)
PrefixOnSuccess ==
    \A c \in Threads : pc[c] = "complete" =>
        output[c] = SubSeq(File(c), 1, Len(output[c]))

(* The message about a missing packet is never caused by other clients:    *)
(* a client whose own datagrams were delivered once each and in order gets *)
(* an initial part of its file when another client's EOF marker ends the   *)
(* server, but never a gap.                                                *)
AlarmNeedsFault == \A c \in Threads : pc[c] = "missing" => c \in disturbed

(* The client that gets its EOF marker back has its whole file back, on a  *)
(* path that leaves its datagrams alone: nothing it sent is behind the     *)
(* marker, in either direction.                                            *)
EofMeansWhole ==
    \A c \in Threads :
        ended[c] = "eof" /\ c \notin disturbed =>
            /\ output[c] = File(c)
            /\ pc[c] # "missing"

(* The timeouts of both ends: whatever was lost, nobody waits for ever.    *)
Finished(c) == pc[c] \in {"complete", "missing", "aborted"}
EchoEnds == <>(server = "closed" /\ \A c \in Threads : Finished(c))
=============================================================================
