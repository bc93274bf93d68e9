--------------------------- MODULE ProxyInvariant ---------------------------
(***************************************************************************)
(* Why a thread of WebProxy settles what it opened, decides by the list it *)
(* searched and contacts nobody but admitted sites: the inductive          *)
(* invariant of Proxy's Spec.                                              *)
(*                                                                         *)
(* IInv holds for any number of loaders, because it never says how long    *)
(* the list is.  ListInv is what it takes to know that the rows hold whole *)
(* files, and needs OneLoader: no SIGINT is handled while another one is.  *)
(***************************************************************************)
EXTENDS Proxy

Places ==
    {"accept", "recv", "test", "compare", "refuse", "resolve", "socket", "connect",
     "handshake", "method", "forward", "finish", "done"}
Statuses == {400, 403, 501, 502, 200}
TlsStates == {"none", "context", "session"}
LoaderStates == {"idle", "open", "line", "copy", "count", "sort"}
Types ==
    /\ pc \in [Requests -> Places]
    /\ host \in [Requests -> Hosts \cup {0}]
    /\ idx \in [Requests -> Nat]
    /\ calm \in [Requests -> -1..MaxSignals]
    /\ hostent \in Hosts \cup {0}
    /\ addr \in [Requests -> Hosts \cup {0}]
    /\ client_fd \in [Requests -> BOOLEAN]
    /\ server_fd \in [Requests -> BOOLEAN]
    /\ tls \in [Requests -> TlsStates]
    /\ replies \in [Requests -> Seq(Statuses)]
    /\ logged \in [Requests -> SUBSET {200, 403}]
    /\ torn \in [Requests -> BOOLEAN]
    /\ num_forbidden_sites \in Nat
    /\ loader \in [Loaders -> LoaderStates]
    /\ signals \in 0..MaxSignals

(* What a thread has opened, answered and logged at each place of the code. *)
Connected == {"connect", "handshake", "method", "forward", "finish"}
InSession == {"method", "forward", "finish"}
Released(r) ==
    \/ ~server_fd[r] /\ tls[r] = "none"
    \/ server_fd[r] /\ replies[r] = <<501>> /\ tls[r] = "session"
    \/ server_fd[r] /\ replies[r] = <<502>> /\ tls[r] = "context"
Settled(r) ==
    /\ pc[r] = "accept" => ~client_fd[r]
    /\ pc[r] \notin {"finish", "done"} => replies[r] = <<>>
    /\ pc[r] = "finish" => replies[r] \in {<<>>, <<200>>}
    /\ pc[r] # "done" => logged[r] = {}
    /\ pc[r] = "done" =>
         /\ ~client_fd[r]
         /\ \/ replies[r] = <<403>> /\ logged[r] \subseteq {403}
            \/ replies[r] \in {<<>>, <<200>>} /\ logged[r] \subseteq {200}
            \/ replies[r] \in {<<400>>, <<501>>, <<502>>} /\ logged[r] = {}
    /\ pc[r] # "done" => /\ server_fd[r] <=> pc[r] \in Connected
                         /\ tls[r] = IF pc[r] \in InSession THEN "session" ELSE "none"
    /\ pc[r] = "done" => Released(r)

(* A check that no signal has disturbed knows the rows it has passed. *)
Differs(r, n) == \A i \in 0..(n - 1) : forbidden_sites[i] # host[r]
Searched(r) ==
    /\ pc[r] \in {"accept", "recv"} => idx[r] = 0 /\ calm[r] = -1
    /\ calm[r] <= signals
    /\ Undisturbed(r) =>
         /\ NoLoad
         /\ pc[r] \in {"test", "compare"} => Differs(r, idx[r])
         /\ pc[r] = "compare" => idx[r] < num_forbidden_sites /\ ~torn[r]
         /\ Refused(r) => ~Differs(r, num_forbidden_sites)
         /\ Admitted(r) => Differs(r, num_forbidden_sites)

(* Every name that was resolved is that of a request that was let through. *)
LetThrough(r) ==
    /\ pc[r] \in {"socket", "connect", "handshake", "method", "forward", "finish", "done"}
    /\ ~Refused(r)
Resolved(h) == h # 0 => \E u \in Requests : LetThrough(u) /\ host[u] = h

IInv ==
    /\ Types
    /\ \A r \in Requests : Settled(r) /\ Searched(r) /\ Resolved(addr[r])
    /\ Resolved(hostent)

-----------------------------------------------------------------------------
OneLoader == \A l, m \in Loaders : l = m

(* What the one loader has read so far is in the rows below the count. *)
Sites == ToSet(StartFile) \cup ToSet(ReloadFile)
FilledBelow(l) ==
    /\ num_forbidden_sites = line[l] - 1
    /\ \A i \in 1..num_forbidden_sites : forbidden_sites[i - 1] = ReloadFile[i]
LoadInv(l) ==
    /\ loader[l] \in {"line", "copy", "count", "sort"} => FilledBelow(l)
    /\ loader[l] \in {"copy", "sort"} => row[l] = num_forbidden_sites
    /\ loader[l] \in {"copy", "count"} => line[l] <= Len(ReloadFile)
    /\ loader[l] = "count" => forbidden_sites[line[l] - 1] = ReloadFile[line[l]]
    /\ loader[l] = "sort" => line[l] = Len(ReloadFile) + 1

RowsInv ==
    /\ FilterTypeOK
    /\ clash = {}
    /\ \A i \in Rows : forbidden_sites[i] \in Sites \cup {0}
    /\ \A l \in Loaders : LoadInv(l)
    /\ (\A l \in Loaders : loader[l] \in {"idle", "open"}) => Listed = Sorted(loaded)

(* A thread that compares may look at a row the list has lost meanwhile,   *)
(* but never past the array, and no row ever holds another site once it is *)
(* written.                                                                *)
ReaderInv(r) ==
    /\ idx[r] <= MaxSites
    /\ pc[r] = "compare" => idx[r] < MaxSites
    /\ pc[r] \in {"test", "compare"} => host[r] # 0
    /\ Refused(r) /\ ~torn[r] => host[r] \in Sites

ListInv == RowsInv /\ \A r \in Requests : ReaderInv(r)
=============================================================================
