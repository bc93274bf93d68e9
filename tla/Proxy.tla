------------------------------- MODULE Proxy -------------------------------
(***************************************************************************)
(* WebProxy as a whole: the accept loop, the handler threads of            *)
(* ProxyHandler and the reloads of ProxyFilter, interleaved at every       *)
(* access to what they share.                                              *)
(***************************************************************************)
EXTENDS ProxyHandler

vars == <<filterVars, handlerVars, torn>>

Init == FilterInit /\ HandlerInit

Main(r) == Accept(r) /\ UNCHANGED filterVars
Handler(r) == HandlerStep(r) /\ UNCHANGED filterVars
Signal(l) == Sigint(l) /\ UNCHANGED <<handlerVars, torn>>
Reload(l) ==
    /\ LoaderStep(l)
    /\ torn' = [r \in Requests |->
                   torn[r] \/ (pc[r] = "compare" /\ idx[r] \in WritingRows')]
    /\ UNCHANGED handlerVars

Next ==
    \/ \E r \in Requests : Main(r) \/ Handler(r)
    \/ \E l \in Loaders : Signal(l) \/ Reload(l)

(* Every thread runs; clients and servers answer or close in the end (the  *)
(* proxy sets no timeout, so that a silent peer would hold a thread for    *)
(* ever).  Nothing makes a signal arrive.                                  *)
Fairness ==
    /\ \A r \in Requests : WF_vars(Main(r)) /\ WF_vars(Handler(r))
    /\ \A l \in Loaders : WF_vars(Reload(l))

Spec == Init /\ [][Next]_vars
FairSpec == Spec /\ Fairness

-----------------------------------------------------------------------------
TypeOK == FilterTypeOK /\ HandlerTypeOK

(* Between reloads the list is the last loaded file, in order: a reload    *)
(* leaves nothing of the list before it.                                   *)
ListIsFile == NoLoad => Listed = Sorted(loaded)

(* A request whose check meets no reload gets what the list says: it is    *)
(* refused exactly when its site is listed.                                *)
Refused(r) == pc[r] = "refuse" \/ \E k \in 1..Len(replies[r]) : replies[r][k] = 403
Admitted(r) == pc[r] \in {"resolve", "socket", "connect", "handshake", "method",
                          "forward", "finish"}
Undisturbed(r) == calm[r] = signals
CheckIsRight == \A r \in Requests : Undisturbed(r) =>
    /\ Refused(r) => host[r] \in ToSet(Listed)
    /\ Admitted(r) => host[r] \notin ToSet(Listed)

(* Even when a reload disturbs it, a search that compared whole rows only  *)
(* refuses sites of one of the files, however the rows and the count moved *)
(* under its index.  A comparison during which strncpy or qsort wrote to   *)
(* its row decides nothing: such a request may be refused although neither *)
(* file names its site.                                                    *)
RefusedWasListed == \A r \in Requests :
    Refused(r) /\ ~torn[r] => host[r] \in ToSet(StartFile) \cup ToSet(ReloadFile)

(* The proxy only contacts sites whose own request was admitted: the       *)
(* shared result of gethostbyname can lead a request to the wrong server,  *)
(* but not to one nobody may reach.                                        *)
ContactsOnlyAdmitted == \A r \in Requests : addr[r] # 0 =>
    \E u \in Requests : host[u] = addr[r] /\ ~Refused(u)

(* Every way out of handle_client closes the client's connection, after at *)
(* most one reply; the log has 403 for refused requests only, and nothing  *)
(* else for those.                                                         *)
ClientSettled == \A r \in Requests : pc[r] = "done" =>
    /\ ~client_fd[r]
    /\ Len(replies[r]) <= 1
    /\ logged[r] # {} => (Refused(r) <=> logged[r] = {403})

(* "Cleanup": the connection to the server and its TLS session are         *)
(* released together on every way out but two: after the 501 reply both    *)
(* stay, and after the 502 reply for want of CA certificates the           *)
(* connection and the context stay.  No other 502 leaves anything.         *)
ServerSettled == \A r \in Requests : pc[r] = "done" =>
    \/ ~server_fd[r] /\ tls[r] = "none"
    \/ server_fd[r] /\ <<replies[r], tls[r]>> \in {<<<<501>>, "session">>, <<<<502>>, "context">>}

(* A thread whose client was accepted ends, however often the list changes *)
(* under its search.                                                       *)
AcceptedEnds == \A r \in Requests : pc[r] = "recv" ~> pc[r] = "done"

(* "Check if site is blocked": a site that every version of the list names *)
(* is never contacted.                                                     *)
ListedIsRefused == \A r \in Requests :
    host[r] \in ToSet(StartFile) \cap ToSet(ReloadFile) => addr[r] = 0
=============================================================================
