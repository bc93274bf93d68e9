------------------------------ MODULE ProxyProofs ------------------------------
(***************************************************************************)
(* WebProxy, for any number of requests, sites and descriptors: what a     *)
(* thread leaves open and logs when it ends, what an undisturbed check     *)
(* decides and whom the proxy contacts; and, when no two SIGINTs are       *)
(* handled at the same time, that the list between reloads is the file     *)
(* and that no search of whole rows refuses what is in neither file.       *)
(*                                                                         *)
(* The first part is IInv of ProxyInvariant: a step of a thread changes    *)
(* nothing of another (OtherRequests), and the reloads touch a thread only *)
(* through the list (FilterStep).  The second part is ListInv.             *)
(***************************************************************************)
EXTENDS ProxyInvariant, FiniteSetTheorems, WellFoundedInduction, TLAPS

HandlerVarsAt(r) ==
    <<pc[r], host[r], idx[r], calm[r], addr[r], client_fd[r], server_fd[r], tls[r], replies[r],
      logged[r], torn[r]>>

(* A step of one thread changes nothing of another's variables.            *)
LEMMA OtherRequests ==
  ASSUME Types, NEW r \in Requests, Accept(r) \/ HandlerStep(r), NEW u \in Requests, u # r
  PROVE  UNCHANGED HandlerVarsAt(u)
<1> USE DEF Types, HandlerVarsAt, Goto, Fail, Reply, CloseClient, CloseServer, SetTls, Log
<1>1. CASE Accept(r)
  BY <1>1 DEF Accept
<1>2. CASE Receive(r)
  BY <1>2 DEF Receive
<1>3. CASE CheckTest(r)
  BY <1>3 DEF CheckTest, StartCompare
<1>4. CASE CheckCompare(r)
  BY <1>4 DEF CheckCompare
<1>5. CASE Refuse(r)
  BY <1>5 DEF Refuse
<1>6. CASE Resolve(r)
  BY <1>6 DEF Resolve
<1>7. CASE OpenSocket(r)
  BY <1>7 DEF OpenSocket
<1>8. CASE Connect(r)
  BY <1>8 DEF Connect
<1>9. CASE Handshake(r)
  BY <1>9 DEF Handshake
<1>10. CASE CheckMethod(r)
  BY <1>10 DEF CheckMethod
<1>11. CASE Forward(r)
  BY <1>11 DEF Forward
<1>12. CASE Finish(r)
  BY <1>12 DEF Finish
<1> QED BY <1>1, <1>2, <1>3, <1>4, <1>5, <1>6, <1>7, <1>8, <1>9, <1>10, <1>11, <1>12
        DEF HandlerStep

(* The places and the statuses of the code.                                *)
LEMMA Constants ==
  /\ "recv" \in Places /\ "test" \in Places /\ "compare" \in Places /\ "refuse" \in Places
  /\ "resolve" \in Places /\ "socket" \in Places /\ "connect" \in Places
  /\ "handshake" \in Places /\ "method" \in Places /\ "forward" \in Places
  /\ "finish" \in Places /\ "done" \in Places /\ "accept" \in Places
  /\ 400 \in Statuses /\ 403 \in Statuses /\ 501 \in Statuses /\ 502 \in Statuses
  /\ 200 \in Statuses
  BY DEF Places, Statuses

(* A step of a thread keeps the types.                                     *)
LEMMA HandlerTypes ==
  ASSUME Types, NEW r \in Requests, Accept(r) \/ HandlerStep(r), UNCHANGED filterVars
  PROVE  Types'
<1>1. pc' \in [Requests -> Places]
  <2>1. \E p \in Places : pc' = [pc EXCEPT ![r] = p]
    BY Constants DEF Goto, HandlerStep, Accept, Receive, CheckTest, CheckCompare, Refuse, Resolve, OpenSocket,
           Connect, Handshake, CheckMethod, Forward, Finish, Fail, StartCompare
  <2>9. pc \in [Requests -> Places]
    BY DEF Types
  <2> QED BY <2>1, <2>9
<1>2. replies' \in [Requests -> Seq(Statuses)]
  <2>1. replies' = replies \/ \E s \in Statuses : Reply(r, s)
    BY Constants DEF Goto, HandlerStep, Accept, Receive, CheckTest, CheckCompare, Refuse, Resolve, OpenSocket,
           Connect, Handshake, CheckMethod, Forward, Finish, Fail
  <2>9. replies \in [Requests -> Seq(Statuses)]
    BY DEF Types
  <2>2. \A s \in Statuses : Append(replies[r], s) \in Seq(Statuses)
    BY <2>9
  <2> QED BY <2>1, <2>2, <2>9 DEF Reply
<1>3. client_fd' \in [Requests -> BOOLEAN]
  <2>1. \/ client_fd' = client_fd
        \/ client_fd' = [client_fd EXCEPT ![r] = TRUE]
        \/ client_fd' = [client_fd EXCEPT ![r] = FALSE]
    BY DEF HandlerStep, Accept, Receive, CheckTest, CheckCompare, Refuse, Resolve, OpenSocket,
           Connect, Handshake, CheckMethod, Forward, Finish, Fail, CloseClient
  <2>9. client_fd \in [Requests -> BOOLEAN]
    BY DEF Types
  <2> QED BY <2>1, <2>9
<1>4. server_fd' \in [Requests -> BOOLEAN]
  <2>1. \/ server_fd' = server_fd
        \/ server_fd' = [server_fd EXCEPT ![r] = TRUE]
        \/ server_fd' = [server_fd EXCEPT ![r] = FALSE]
    BY DEF HandlerStep, Accept, Receive, CheckTest, CheckCompare, Refuse, Resolve, OpenSocket,
           Connect, Handshake, CheckMethod, Forward, Finish, CloseServer
  <2>9. server_fd \in [Requests -> BOOLEAN]
    BY DEF Types
  <2> QED BY <2>1, <2>9
<1>5. host' \in [Requests -> Hosts \cup {0}]
  <2>1. host' = host \/ \E h \in Hosts : host' = [host EXCEPT ![r] = h]
    BY DEF HandlerStep, Accept, Receive, CheckTest, CheckCompare, Refuse, Resolve, OpenSocket,
           Connect, Handshake, CheckMethod, Forward, Finish
  <2>9. host \in [Requests -> Hosts \cup {0}]
    BY DEF Types
  <2> QED BY <2>1, <2>9
<1>6. idx' \in [Requests -> Nat]
  <2>1. idx' = idx \/ idx' = [idx EXCEPT ![r] = @ + 1]
    BY DEF HandlerStep, Accept, Receive, CheckTest, CheckCompare, Refuse, Resolve, OpenSocket,
           Connect, Handshake, CheckMethod, Forward, Finish
  <2>9. idx \in [Requests -> Nat]
    BY DEF Types
  <2> QED BY <2>1, <2>9
<1>7. calm' \in [Requests -> -1..MaxSignals]
  <2>1. calm' = calm \/ calm' = [calm EXCEPT ![r] = IF NoLoad THEN signals ELSE -1]
    BY DEF HandlerStep, Accept, Receive, CheckTest, CheckCompare, Refuse, Resolve, OpenSocket,
           Connect, Handshake, CheckMethod, Forward, Finish
  <2>2. (IF NoLoad THEN signals ELSE -1) \in -1..MaxSignals
    BY FilterAssumption DEF Types
  <2>9. calm \in [Requests -> -1..MaxSignals]
    BY DEF Types
  <2> QED BY <2>1, <2>2, <2>9
<1>8. hostent' \in Hosts \cup {0}
  <2>1. hostent' = hostent \/ hostent' = host[r]
    BY DEF HandlerStep, Accept, Receive, CheckTest, CheckCompare, Refuse, Resolve, OpenSocket,
           Connect, Handshake, CheckMethod, Forward, Finish
  <2>9. hostent \in Hosts \cup {0} /\ host[r] \in Hosts \cup {0}
    BY DEF Types
  <2> QED BY <2>1, <2>9
<1>9. addr' \in [Requests -> Hosts \cup {0}]
  <2>1. addr' = addr \/ addr' = [addr EXCEPT ![r] = hostent]
    BY DEF HandlerStep, Accept, Receive, CheckTest, CheckCompare, Refuse, Resolve, OpenSocket,
           Connect, Handshake, CheckMethod, Forward, Finish
  <2>9. addr \in [Requests -> Hosts \cup {0}] /\ hostent \in Hosts \cup {0}
    BY DEF Types
  <2> QED BY <2>1, <2>9
<1>10. logged' \in [Requests -> SUBSET {200, 403}]
  <2>1. logged' = logged \/ Log(r, 200) \/ Log(r, 403)
    BY DEF HandlerStep, Accept, Receive, CheckTest, CheckCompare, Refuse, Resolve, OpenSocket,
           Connect, Handshake, CheckMethod, Forward, Finish
  <2>2. \A s \in {200, 403} : logged[r] \cup {s} \in SUBSET {200, 403}
    BY DEF Types
  <2>9. logged \in [Requests -> SUBSET {200, 403}]
    BY DEF Types
  <2> QED BY <2>1, <2>2, <2>9 DEF Log
<1>11. tls' \in [Requests -> TlsStates]
  <2>1. tls' = tls \/ \E t \in TlsStates : tls' = [tls EXCEPT ![r] = t]
    BY DEF HandlerStep, Accept, Receive, CheckTest, CheckCompare, Refuse, Resolve, OpenSocket,
           Connect, Handshake, CheckMethod, Forward, Finish, SetTls, TlsStates
  <2>9. tls \in [Requests -> TlsStates]
    BY DEF Types
  <2> QED BY <2>1, <2>9
<1>12. torn' \in [Requests -> BOOLEAN]
  <2>1. \/ torn' = torn
        \/ torn' = [torn EXCEPT ![r] = idx[r] \in WritingRows]
        \/ torn' = [torn EXCEPT ![r] = FALSE]
    BY DEF HandlerStep, Accept, Receive, CheckTest, CheckCompare, Refuse, Resolve, OpenSocket,
           Connect, Handshake, CheckMethod, Forward, Finish, StartCompare
  <2>2. (idx[r] \in WritingRows) \in BOOLEAN
    OBVIOUS
  <2>3. PICK b \in BOOLEAN : torn' = torn \/ torn' = [torn EXCEPT ![r] = b]
    BY <2>1, <2>2, Zenon
  <2>9. torn \in [Requests -> BOOLEAN]
    BY DEF Types
  <2> QED BY <2>3, <2>9
<1> QED BY <1>1, <1>2, <1>3, <1>4, <1>5, <1>6, <1>7, <1>8, <1>9, <1>10, <1>11, <1>12
        DEF Types, filterVars

(* What a thread that fails leaves behind.                                 *)
LEMMA FailEffect ==
  ASSUME Types, NEW r \in Requests, replies[r] = <<>>
  PROVE  \A s \in Statuses : Fail(r, s) =>
            pc'[r] = "done" /\ replies'[r] = <<s>> /\ ~client_fd'[r]
<1> SUFFICES ASSUME NEW s \in Statuses, Fail(r, s)
             PROVE  pc'[r] = "done" /\ replies'[r] = <<s>> /\ ~client_fd'[r]
  OBVIOUS
<1>1. pc'[r] = "done" /\ ~client_fd'[r] /\ replies'[r] = Append(<<>>, s)
  BY DEF Types, Fail, Reply, CloseClient, Goto
<1> QED BY <1>1

(* A thread that fails before it has a connection to keep is settled.      *)
LEMMA FailSettles ==
  ASSUME Types, NEW r \in Requests, replies[r] = <<>>, logged'[r] = {},
         NEW s \in {400, 501, 502}, Fail(r, s),
         \/ ~server_fd'[r] /\ tls'[r] = "none"
         \/ server_fd'[r] /\ s = 501 /\ tls'[r] = "session"
         \/ server_fd'[r] /\ s = 502 /\ tls'[r] = "context"
  PROVE  Settled(r)'
<1>1. s \in Statuses
  BY DEF Statuses
<1>2. pc'[r] = "done" /\ replies'[r] = <<s>> /\ ~client_fd'[r]
  BY <1>1, FailEffect
<1>3. <<s>> \in {<<400>>, <<501>>, <<502>>}
  OBVIOUS
<1>4. Released(r)'
  BY <1>2 DEF Released
<1> QED BY <1>2, <1>3, <1>4 DEF Settled

(* Every way out of handle_client settles what the thread has opened.      *)
LEMMA SettledStep ==
  ASSUME Types, NEW r \in Requests, Settled(r), Accept(r) \/ HandlerStep(r)
  PROVE  Settled(r)'
<1> USE DEF Goto
<1>1. pc \in [Requests -> Places] /\ replies \in [Requests -> Seq(Statuses)]
  BY DEF Types
<1>2. /\ logged \in [Requests -> SUBSET {200, 403}]
      /\ client_fd \in [Requests -> BOOLEAN] /\ server_fd \in [Requests -> BOOLEAN]
      /\ tls \in [Requests -> TlsStates]
  BY DEF Types
<1>3. /\ pc[r] \notin {"finish", "done"} => replies[r] = <<>> /\ logged[r] = {}
      /\ pc[r] \notin Connected \cup {"done"} => ~server_fd[r]
      /\ pc[r] \in Connected => server_fd[r]
      /\ pc[r] \notin InSession \cup {"done"} => tls[r] = "none"
      /\ pc[r] \in InSession => tls[r] = "session"
  BY DEF Settled, Connected, InSession
<1>4. ASSUME pc[r] \notin {"accept", "finish", "done"}, UNCHANGED <<replies[r], logged[r]>>,
             pc'[r] \notin {"accept", "finish", "done"},
             server_fd'[r] <=> pc'[r] \in Connected,
             tls'[r] = IF pc'[r] \in InSession THEN "session" ELSE "none"
      PROVE  Settled(r)'
  BY <1>3, <1>4 DEF Settled
<1>5. CASE Accept(r)
  <2>1. /\ pc[r] = "accept" /\ UNCHANGED <<server_fd, tls, replies, logged>>
        /\ ~client_fd[r] /\ ~server_fd[r] /\ tls[r] = "none"
    BY <1>3, <1>5 DEF Accept, Settled, Connected, InSession
  <2>2. pc'[r] = "recv" \/ (pc'[r] = "done" /\ ~client_fd'[r])
    BY <1>1, <1>5, <2>1 DEF Accept
  <2> QED BY <1>3, <2>1, <2>2 DEF Settled, Released, Connected, InSession
<1>6. CASE Receive(r)
  <2>1. /\ pc[r] = "recv" /\ replies[r] = <<>> /\ logged'[r] = {}
        /\ ~server_fd'[r] /\ ~server_fd[r] /\ tls'[r] = "none"
    BY <1>3, <1>6 DEF Receive, Connected, InSession
  <2>2. CASE Fail(r, 400)
    BY <2>1, <2>2, FailSettles
  <2>3. CASE CloseClient(r) /\ Goto(r, "done") /\ UNCHANGED replies
    <3>1. pc'[r] = "done" /\ ~client_fd'[r] /\ replies'[r] = <<>>
      BY <1>1, <1>2, <2>1, <2>3 DEF CloseClient
    <3> QED BY <2>1, <3>1 DEF Settled, Released
  <2>4. CASE Goto(r, "test") /\ UNCHANGED replies
    <3>1. pc'[r] = "test"
      BY <1>1, <2>4
    <3> QED BY <1>3, <1>4, <2>1, <2>4, <3>1 DEF Connected, InSession
  <2> QED BY <1>6, <2>2, <2>3, <2>4 DEF Receive
<1>7. CASE CheckTest(r) \/ CheckCompare(r)
  <2>1. /\ pc[r] \in {"test", "compare"} /\ UNCHANGED <<replies, logged, server_fd, tls>>
        /\ pc'[r] \in {"test", "compare", "refuse", "resolve"}
    BY <1>1, <1>7 DEF CheckTest, CheckCompare, StartCompare
  <2>2. ~server_fd[r] /\ tls[r] = "none"
    BY <1>3, <2>1 DEF Connected, InSession
  <2> QED BY <1>4, <2>1, <2>2 DEF Connected, InSession
<1>8. CASE Refuse(r)
  <2>1. /\ pc[r] = "refuse" /\ replies[r] = <<>> /\ logged[r] = {} /\ ~server_fd'[r]
        /\ tls'[r] = "none" /\ Fail(r, 403) /\ Log(r, 403)
    BY <1>3, <1>8 DEF Refuse, Connected, InSession
  <2>2. logged'[r] \subseteq {403}
    BY <1>2, <2>1 DEF Log
  <2>3. pc'[r] = "done" /\ replies'[r] = <<403>> /\ ~client_fd'[r]
    BY <2>1, FailEffect, Constants
  <2> QED BY <2>1, <2>2, <2>3 DEF Settled, Released
<1>9. CASE Resolve(r)
  <2>1. /\ pc[r] = "resolve" /\ replies[r] = <<>> /\ logged'[r] = {} /\ logged[r] = {}
        /\ ~server_fd'[r] /\ tls'[r] = "none"
    BY <1>3, <1>9 DEF Resolve, Connected, InSession
  <2>2. CASE Fail(r, 502)
    BY <2>1, <2>2, FailSettles
  <2>3. CASE Goto(r, "socket") /\ UNCHANGED replies
    <3>1. pc'[r] = "socket"
      BY <1>1, <2>3
    <3> QED BY <1>4, <2>1, <2>3, <3>1 DEF Connected, InSession
  <2> QED BY <1>9, <2>2, <2>3 DEF Resolve
<1>10. CASE OpenSocket(r)
  <2>1. /\ pc[r] = "socket" /\ replies[r] = <<>> /\ logged'[r] = {} /\ logged[r] = {}
        /\ ~server_fd[r] /\ tls'[r] = "none"
    BY <1>3, <1>10 DEF OpenSocket, Connected, InSession
  <2>2. CASE Fail(r, 502) /\ UNCHANGED server_fd
    BY <2>1, <2>2, FailSettles
  <2>3. CASE Goto(r, "connect") /\ UNCHANGED replies /\ server_fd' = [server_fd EXCEPT ![r] = TRUE]
    <3>1. pc'[r] = "connect" /\ server_fd'[r]
      BY <1>1, <1>2, <2>3
    <3> QED BY <1>4, <2>1, <2>3, <3>1 DEF Connected, InSession
  <2> QED BY <1>10, <2>2, <2>3 DEF OpenSocket
<1>11. CASE Connect(r)
  <2>1. /\ pc[r] = "connect" /\ replies[r] = <<>> /\ logged'[r] = {} /\ logged[r] = {}
        /\ server_fd[r] /\ tls'[r] = "none"
    BY <1>3, <1>11 DEF Connect, Connected, InSession
  <2>2. CASE Fail(r, 502) /\ CloseServer(r)
    <3>1. ~server_fd'[r]
      BY <1>2, <2>2 DEF CloseServer
    <3> QED BY <2>1, <2>2, <3>1, FailSettles
  <2>3. CASE Goto(r, "handshake") /\ UNCHANGED <<replies, server_fd>>
    <3>1. pc'[r] = "handshake"
      BY <1>1, <2>3
    <3> QED BY <1>4, <2>1, <2>3, <3>1 DEF Connected, InSession
  <2> QED BY <1>11, <2>2, <2>3 DEF Connect
<1>12. CASE Handshake(r)
  <2>1. /\ pc[r] = "handshake" /\ replies[r] = <<>> /\ logged'[r] = {} /\ logged[r] = {}
        /\ server_fd[r] /\ tls[r] = "none"
    BY <1>3, <1>12 DEF Handshake, Connected, InSession
  <2>2. CASE Fail(r, 502) /\ CloseServer(r) /\ UNCHANGED tls
    <3>1. ~server_fd'[r] /\ tls'[r] = "none"
      BY <1>2, <2>1, <2>2 DEF CloseServer
    <3> QED BY <2>1, <2>2, <3>1, FailSettles
  <2>3. CASE Fail(r, 502) /\ SetTls(r, "context") /\ UNCHANGED server_fd
    <3>1. server_fd'[r] /\ tls'[r] = "context"
      BY <1>2, <2>1, <2>3 DEF SetTls
    <3> QED BY <2>1, <2>3, <3>1, FailSettles
  <2>4. CASE Goto(r, "method") /\ SetTls(r, "session") /\ UNCHANGED <<replies, server_fd>>
    <3>1. pc'[r] = "method" /\ tls'[r] = "session"
      BY <1>1, <1>2, <2>4 DEF SetTls
    <3> QED BY <1>4, <2>1, <2>4, <3>1 DEF Connected, InSession
  <2> QED BY <1>12, <2>2, <2>3, <2>4 DEF Handshake
<1>13. CASE CheckMethod(r)
  <2>1. /\ pc[r] = "method" /\ replies[r] = <<>> /\ logged'[r] = {} /\ logged[r] = {}
        /\ server_fd'[r] /\ tls'[r] = "session"
    BY <1>3, <1>13 DEF CheckMethod, Connected, InSession
  <2>2. CASE Fail(r, 501)
    BY <2>1, <2>2, FailSettles
  <2>3. CASE Goto(r, "forward") /\ UNCHANGED replies
    <3>1. pc'[r] = "forward"
      BY <1>1, <2>3
    <3> QED BY <1>4, <2>1, <2>3, <3>1 DEF Connected, InSession
  <2> QED BY <1>13, <2>2, <2>3 DEF CheckMethod
<1>14. CASE Forward(r)
  <2>1. /\ pc[r] = "forward" /\ replies[r] = <<>> /\ logged'[r] = {} /\ pc'[r] = "finish"
        /\ server_fd'[r] /\ tls'[r] = "session"
    BY <1>1, <1>3, <1>14 DEF Forward, Connected, InSession
  <2>2. replies'[r] \in {<<>>, <<200>>}
    BY <1>1, <1>14, <2>1 DEF Forward, Reply
  <2> QED BY <2>1, <2>2 DEF Settled, Connected, InSession
<1>15. CASE Finish(r)
  <2>1. /\ pc[r] = "finish" /\ replies'[r] \in {<<>>, <<200>>} /\ logged[r] = {}
        /\ pc'[r] = "done" /\ ~client_fd'[r] /\ ~server_fd'[r] /\ tls'[r] = "none"
    BY <1>1, <1>2, <1>15 DEF Finish, CloseClient, CloseServer, SetTls, Settled
  <2>2. logged'[r] \subseteq {200}
    BY <1>2, <1>15, <2>1 DEF Finish, Log
  <2> QED BY <2>1, <2>2 DEF Settled, Released
<1> QED BY <1>5, <1>6, <1>7, <1>8, <1>9, <1>10, <1>11, <1>12, <1>13, <1>14, <1>15
        DEF HandlerStep

(* How handle_client goes on from each place, and what it decides there.   *)
AfterCheck == {"resolve", "socket", "connect", "handshake", "method", "forward", "finish"}
LEMMA Flow ==
  ASSUME Types, NEW r \in Requests, Settled(r), Accept(r) \/ HandlerStep(r)
  PROVE  /\ pc[r] # "done" /\ pc'[r] \notin {"accept"}
         /\ pc[r] = "accept" => pc'[r] \in {"recv", "done"}
         /\ pc[r] = "recv" => pc'[r] \in {"test", "done"}
         /\ pc'[r] = "test" /\ pc[r] = "recv" =>
               host'[r] \in Hosts /\ calm'[r] = (IF NoLoad THEN signals ELSE -1)
         /\ ~(pc'[r] = "test" /\ pc[r] = "recv") => UNCHANGED <<host[r], calm[r]>>
         /\ pc[r] = "test" =>
               \/ /\ idx[r] < num_forbidden_sites /\ pc'[r] = "compare"
                  /\ torn'[r] = (idx[r] \in WritingRows)
               \/ idx[r] >= num_forbidden_sites /\ pc'[r] = "resolve"
         /\ pc[r] = "compare" =>
               \/ pc'[r] = "refuse" /\ idx'[r] = idx[r] /\ torn'[r] = torn[r] /\ Matches(r)
               \/ pc'[r] = "test" /\ idx'[r] = idx[r] + 1 /\ Mismatches(r)
         /\ pc[r] # "compare" => idx'[r] = idx[r] /\ pc'[r] # "refuse"
         /\ pc[r] = "refuse" => pc'[r] = "done" /\ replies'[r] = <<403>> /\ torn'[r] = torn[r]
         /\ pc[r] # "refuse" => replies'[r] # <<403>>
         /\ pc[r] \in AfterCheck => pc'[r] \in (AfterCheck \ {"resolve"}) \cup {"done"}
         /\ \/ hostent' = hostent
            \/ pc[r] = "resolve" /\ pc'[r] = "socket" /\ hostent' = host[r]
         /\ addr'[r] = addr[r] \/ addr'[r] = hostent
<1> USE DEF Goto
<1>1. pc \in [Requests -> Places] /\ replies \in [Requests -> Seq(Statuses)]
  BY DEF Types
<1>2. /\ host \in [Requests -> Hosts \cup {0}] /\ idx \in [Requests -> Nat]
      /\ calm \in [Requests -> -1..MaxSignals] /\ addr \in [Requests -> Hosts \cup {0}]
  BY DEF Types
<1>3. /\ pc[r] # "done" /\ pc'[r] \notin {"accept"}
      /\ pc[r] = "accept" => pc'[r] \in {"recv", "done"}
      /\ pc[r] = "recv" => pc'[r] \in {"test", "done"}
      /\ pc[r] = "refuse" => pc'[r] = "done" /\ torn'[r] = torn[r]
      /\ pc[r] \in AfterCheck => pc'[r] \in (AfterCheck \ {"resolve"}) \cup {"done"}
      /\ pc[r] # "compare" => pc'[r] # "refuse"
  BY <1>1 DEF HandlerStep, Accept, Receive, CheckTest, CheckCompare, Refuse, Resolve, OpenSocket,
         Connect, Handshake, CheckMethod, Forward, Finish, Fail, AfterCheck, StartCompare
<1>8. pc[r] = "test" =>
         \/ /\ idx[r] < num_forbidden_sites /\ pc'[r] = "compare"
            /\ torn'[r] = (idx[r] \in WritingRows)
         \/ idx[r] >= num_forbidden_sites /\ pc'[r] = "resolve"
  <2> SUFFICES ASSUME pc[r] = "test"
               PROVE  \/ /\ idx[r] < num_forbidden_sites /\ pc'[r] = "compare"
                         /\ torn'[r] = (idx[r] \in WritingRows)
                      \/ idx[r] >= num_forbidden_sites /\ pc'[r] = "resolve"
    OBVIOUS
  <2>1. CheckTest(r)
    BY DEF HandlerStep, Accept, Receive, CheckTest, CheckCompare, Refuse, Resolve, OpenSocket,
         Connect, Handshake, CheckMethod, Forward, Finish
  <2>2. /\ torn \in [Requests -> BOOLEAN] /\ idx[r] \in Nat /\ num_forbidden_sites \in Nat
    BY DEF Types
  <2>3. CASE idx[r] < num_forbidden_sites
    <3>1. StartCompare(r)
      BY <2>1, <2>3 DEF CheckTest
    <3> QED BY <1>1, <2>2, <2>3, <3>1 DEF StartCompare
  <2>4. CASE ~(idx[r] < num_forbidden_sites)
    BY <1>1, <2>1, <2>2, <2>4 DEF CheckTest
  <2> QED BY <2>3, <2>4
<1>4. /\ pc'[r] = "test" /\ pc[r] = "recv" =>
            host'[r] \in Hosts /\ calm'[r] = (IF NoLoad THEN signals ELSE -1)
      /\ ~(pc'[r] = "test" /\ pc[r] = "recv") => UNCHANGED <<host[r], calm[r]>>
  BY <1>1, <1>2 DEF HandlerStep, Accept, Receive, CheckTest, CheckCompare, Refuse, Resolve, OpenSocket,
         Connect, Handshake, CheckMethod, Forward, Finish, Fail, StartCompare
<1>5. /\ pc[r] = "compare" =>
               \/ pc'[r] = "refuse" /\ idx'[r] = idx[r] /\ torn'[r] = torn[r] /\ Matches(r)
               \/ pc'[r] = "test" /\ idx'[r] = idx[r] + 1 /\ Mismatches(r)
      /\ pc[r] # "compare" => idx'[r] = idx[r]
  BY <1>1, <1>2 DEF HandlerStep, Accept, Receive, CheckTest, CheckCompare, Refuse, Resolve, OpenSocket,
         Connect, Handshake, CheckMethod, Forward, Finish, Fail, StartCompare
<1>6. /\ \/ hostent' = hostent
         \/ pc[r] = "resolve" /\ pc'[r] = "socket" /\ hostent' = host[r]
      /\ addr'[r] = addr[r] \/ addr'[r] = hostent
  BY <1>1, <1>2 DEF HandlerStep, Accept, Receive, CheckTest, CheckCompare, Refuse, Resolve, OpenSocket,
         Connect, Handshake, CheckMethod, Forward, Finish, Fail
<1>7. /\ pc[r] = "refuse" => replies'[r] = <<403>>
      /\ pc[r] # "refuse" => replies'[r] # <<403>>
  <2>1. pc[r] = "refuse" => Fail(r, 403)
    BY DEF HandlerStep, Accept, Receive, CheckTest, CheckCompare, Refuse, Resolve, OpenSocket,
         Connect, Handshake, CheckMethod, Forward, Finish
  <2>2. pc[r] = "refuse" => replies'[r] = <<403>>
    BY <2>1, FailEffect, Constants DEF Settled
  <2>3. pc[r] # "refuse" =>
          \/ UNCHANGED replies
          \/ pc[r] \notin {"done", "finish"} /\ \E s \in {400, 501, 502, 200} : Reply(r, s)
    BY DEF HandlerStep, Accept, Receive, CheckTest, CheckCompare, Refuse, Resolve, OpenSocket,
         Connect, Handshake, CheckMethod, Forward, Finish, Fail
  <2>4. ASSUME NEW s \in {400, 501, 502, 200}, Reply(r, s), replies[r] = <<>>
        PROVE  replies'[r] # <<403>>
    <3>1. replies'[r] = Append(<<>>, s) /\ s # 403
      BY <1>1, <2>4 DEF Reply
    <3> QED BY <3>1
  <2>5. pc[r] # "done" => replies[r] # <<403>>
    BY DEF Settled
  <2> QED BY <1>3, <2>2, <2>3, <2>4, <2>5 DEF Settled
<1> QED BY <1>3, <1>4, <1>5, <1>6, <1>7, <1>8

(* No answer, or a single one.                                             *)
OneAnswer(q) ==
    \/ q = <<403>>
    \/ q \in {<<>>, <<200>>}
    \/ q \in {<<400>>, <<501>>, <<502>>}

(* A thread that answers once says 403 only if that is its answer.         *)
LEMMA OneForbidden ==
  ASSUME NEW q, OneAnswer(q)
  PROVE  (\E k \in 1..Len(q) : q[k] = 403) <=> q = <<403>>
<1>1. CASE q = <<>>
  BY <1>1
<1>2. CASE q # <<>>
  <2>1. PICK s \in {200, 400, 501, 502, 403} : q = <<s>>
    BY <1>2 DEF OneAnswer
  <2>2. Len(q) = 1 /\ q[1] = s
    BY <2>1
  <2> QED BY <2>1, <2>2
<1> QED BY <1>1, <1>2

(* A settled thread has refused its request in one way only.               *)
LEMMA RefusedShape ==
  ASSUME NEW r \in Requests
  PROVE  /\ Settled(r) => (Refused(r) <=> pc[r] = "refuse" \/ (pc[r] = "done" /\ replies[r] = <<403>>))
         /\ Settled(r)' =>
              (Refused(r)' <=> pc'[r] = "refuse" \/ (pc'[r] = "done" /\ replies'[r] = <<403>>))
<1>1. OneAnswer(<<>>) /\ OneAnswer(<<200>>)
  BY DEF OneAnswer
<1>2. <<>> # <<403>> /\ <<200>> # <<403>>
  OBVIOUS
<1>3. ASSUME Settled(r)
      PROVE  Refused(r) <=> pc[r] = "refuse" \/ (pc[r] = "done" /\ replies[r] = <<403>>)
  <2>1. pc[r] \notin {"finish", "done"} => replies[r] = <<>>
    BY <1>3 DEF Settled
  <2>2. pc[r] = "finish" => replies[r] = <<>> \/ replies[r] = <<200>>
    BY <1>3 DEF Settled
  <2>3. pc[r] = "done" => OneAnswer(replies[r])
    <3> HAVE pc[r] = "done"
    <3>1. \/ replies[r] = <<403>>
          \/ replies[r] \in {<<>>, <<200>>}
          \/ replies[r] \in {<<400>>, <<501>>, <<502>>}
      BY <1>3 DEF Settled
    <3> QED BY <3>1 DEF OneAnswer
  <2>4. OneAnswer(replies[r])
    BY <1>1, <2>1, <2>2, <2>3
  <2>5. (\E k \in 1..Len(replies[r]) : replies[r][k] = 403) <=> replies[r] = <<403>>
    BY <2>4, OneForbidden
  <2>6. replies[r] = <<403>> => pc[r] = "done"
    BY <1>2, <2>1, <2>2
  <2> QED BY <2>5, <2>6 DEF Refused
<1>4. ASSUME Settled(r)'
      PROVE  Refused(r)' <=> pc'[r] = "refuse" \/ (pc'[r] = "done" /\ replies'[r] = <<403>>)
  <2>1. pc'[r] \notin {"finish", "done"} => replies'[r] = <<>>
    BY <1>4 DEF Settled
  <2>2. pc'[r] = "finish" => replies'[r] = <<>> \/ replies'[r] = <<200>>
    BY <1>4 DEF Settled
  <2>3. pc'[r] = "done" => OneAnswer(replies'[r])
    BY <1>4, Zenon DEF Settled, OneAnswer
  <2>4. OneAnswer(replies'[r])
    BY <1>1, <2>1, <2>2, <2>3
  <2>5. (\E k \in 1..Len(replies'[r]) : replies'[r][k] = 403) <=> replies'[r] = <<403>>
    BY <2>4, OneForbidden
  <2>6. replies'[r] = <<403>> => pc'[r] = "done"
    BY <1>2, <2>1, <2>2
  <2> QED BY <2>5, <2>6 DEF Refused
<1> QED BY <1>3, <1>4

(* A request that was let through stays so.                                *)
LEMMA LetThroughStays ==
  ASSUME Types, NEW r \in Requests, Settled(r), Accept(r) \/ HandlerStep(r),
         NEW u \in Requests, LetThrough(u)
  PROVE  LetThrough(u)' /\ host'[u] = host[u]
<1>1. CASE u # r
  <2>1. UNCHANGED <<pc[u], host[u], replies[u]>>
    BY <1>1, OtherRequests DEF HandlerVarsAt
  <2> QED BY <2>1 DEF LetThrough, Refused
<1>2. CASE u = r
  <2>1. pc[r] \in {"socket", "connect", "handshake", "method", "forward", "finish", "done"}
    BY <1>2 DEF LetThrough
  <2>2. /\ pc[r] \in AfterCheck /\ pc[r] # "refuse" /\ pc[r] # "recv"
        /\ pc'[r] \in (AfterCheck \ {"resolve"}) \cup {"done"}
        /\ host'[r] = host[r] /\ replies'[r] # <<403>>
    BY <2>1, Flow DEF AfterCheck
  <2>3. ~Refused(r)'
    BY <2>2, SettledStep, RefusedShape DEF AfterCheck
  <2> QED BY <1>2, <2>2, <2>3 DEF LetThrough, AfterCheck
<1> QED BY <1>1, <1>2

(* Every name that is resolved, and every address used, is that of a       *)
(* request that was let through.                                           *)
LEMMA ResolvedStep ==
  ASSUME IInv, NEW r \in Requests, Accept(r) \/ HandlerStep(r)
  PROVE  Resolved(hostent)' /\ \A t \in Requests : Resolved(addr[t])'
<1> USE DEF IInv
<1>1. ASSUME NEW h, Resolved(h)
      PROVE  h # 0 => \E u \in Requests : LetThrough(u)' /\ host'[u] = h
  BY <1>1, LetThroughStays DEF Resolved
<1>2. Resolved(hostent)'
  <2>1. CASE hostent' = hostent
    BY <1>1, <2>1 DEF Resolved
  <2>2. CASE pc[r] = "resolve" /\ pc'[r] = "socket" /\ hostent' = host[r]
    <3>1. host'[r] = host[r] /\ replies'[r] # <<403>>
      BY <2>2, Flow
    <3>2. LetThrough(r)'
      BY <2>2, <3>1, SettledStep, RefusedShape DEF LetThrough
    <3> QED BY <2>2, <3>1, <3>2 DEF Resolved
  <2> QED BY <2>1, <2>2, Flow
<1>3. ASSUME NEW t \in Requests
      PROVE  Resolved(addr[t])'
  <2>1. addr'[t] = addr[t] \/ addr'[t] = hostent
    BY Flow, OtherRequests DEF HandlerVarsAt
  <2> QED BY <1>1, <2>1 DEF Resolved
<1> QED BY <1>2, <1>3

(* A check that meets no signal: it passes every row, or stops at the one  *)
(* with its site.                                                          *)
LEMMA SearchedStep ==
  ASSUME Types, NEW r \in Requests, Settled(r), Searched(r), Accept(r) \/ HandlerStep(r),
         UNCHANGED filterVars
  PROVE  Searched(r)'
<1> USE DEF filterVars
<1>1. idx[r] \in Nat /\ num_forbidden_sites \in Nat /\ signals \in Nat
      /\ pc[r] \in Places
  BY FilterAssumption DEF Types
<1>2. Settled(r)'
  BY SettledStep
<1>3. NoLoad' <=> NoLoad
  BY DEF NoLoad
<1>4. pc'[r] \in {"accept", "recv"} => idx'[r] = 0 /\ calm'[r] = -1
  BY <1>1, Flow DEF Searched, AfterCheck, Places
<1>5. calm'[r] <= signals
  BY <1>1, Flow DEF Searched
<1>6. ASSUME calm'[r] = signals
      PROVE  /\ NoLoad
             /\ pc'[r] \in {"test", "compare"} => Differs(r, idx[r])'
             /\ pc'[r] = "compare" => idx'[r] < num_forbidden_sites /\ ~torn'[r]
             /\ pc'[r] = "refuse" \/ (pc'[r] = "done" /\ replies'[r] = <<403>>)
                   => ~Differs(r, num_forbidden_sites)'
             /\ pc'[r] \in AfterCheck => Differs(r, num_forbidden_sites)'
  <2>1. CASE pc[r] = "accept"
    BY <1>1, <1>6, <2>1, Flow DEF Searched
  <2>2. CASE pc[r] = "recv"
    <3>1. pc'[r] = "test" /\ NoLoad /\ idx'[r] = 0
      BY <1>1, <1>6, <2>2, Flow DEF Searched
    <3> QED BY <3>1 DEF Differs, AfterCheck
  <2>3. CASE pc[r] \notin {"accept", "recv"}
    <3>1. host'[r] = host[r] /\ calm[r] = signals
      BY <1>6, <2>3, Flow
    <3>2. /\ NoLoad
          /\ pc[r] \in {"test", "compare"} => Differs(r, idx[r])
          /\ pc[r] = "compare" => idx[r] < num_forbidden_sites /\ ~torn[r]
          /\ Refused(r) => ~Differs(r, num_forbidden_sites)
          /\ Admitted(r) => Differs(r, num_forbidden_sites)
      BY <3>1 DEF Searched, Undisturbed
    <3>3. \A n : Differs(r, n) <=> \A i \in 0..(n - 1) : forbidden_sites'[i] # host'[r]
      BY <3>1 DEF Differs
    <3>4. CASE pc[r] = "test"
      <4>1. /\ idx'[r] = idx[r]
            /\ \/ /\ idx[r] < num_forbidden_sites /\ pc'[r] = "compare"
                  /\ torn'[r] = (idx[r] \in WritingRows)
               \/ idx[r] >= num_forbidden_sites /\ pc'[r] = "resolve"
        BY <3>4, Flow
      <4>2. idx[r] >= num_forbidden_sites => Differs(r, num_forbidden_sites)
        BY <1>1, <3>2, <3>4 DEF Differs
      <4>3. idx[r] \notin WritingRows
        BY <3>2 DEF WritingRows, WritesOf, NoLoad
      <4> QED BY <1>1, <3>2, <3>3, <3>4, <4>1, <4>2, <4>3 DEF Differs, AfterCheck
    <3>5. CASE pc[r] = "compare"
      <4>1. CASE pc'[r] = "refuse" /\ idx'[r] = idx[r] /\ Matches(r)
        <5>1. ~Differs(r, num_forbidden_sites)
          BY <1>1, <3>2, <3>5, <4>1 DEF Differs, Matches
        <5> QED BY <3>2, <3>3, <4>1, <5>1 DEF Differs, AfterCheck
      <4>2. CASE pc'[r] = "test" /\ idx'[r] = idx[r] + 1 /\ Mismatches(r)
        <5>1. forbidden_sites[idx[r]] # host[r]
          BY <3>2, <3>5, <4>2 DEF Mismatches
        <5>2. Differs(r, idx[r] + 1)
          BY <1>1, <3>2, <3>5, <5>1 DEF Differs
        <5> QED BY <3>2, <3>3, <4>2, <5>2 DEF Differs, AfterCheck
      <4> QED BY <3>5, <4>1, <4>2, Flow
    <3>6. CASE pc[r] = "refuse"
      <4>1. pc'[r] = "done" /\ Refused(r)
        BY <3>6, Flow DEF Refused
      <4> QED BY <3>2, <3>3, <4>1 DEF Differs, AfterCheck
    <3>7. CASE pc[r] \in AfterCheck
      <4>1. pc'[r] \in AfterCheck \cup {"done"} /\ Admitted(r) /\ replies'[r] # <<403>>
        BY <3>7, Flow DEF AfterCheck, Admitted
      <4> QED BY <3>2, <3>3, <4>1 DEF Differs, AfterCheck
    <3> QED BY <1>1, <2>3, <3>4, <3>5, <3>6, <3>7, Flow DEF Places, AfterCheck
  <2> QED BY <2>1, <2>2, <2>3
<1>7. Undisturbed(r)' => calm'[r] = signals
  BY DEF Undisturbed
<1>8. /\ Refused(r)' => pc'[r] = "refuse" \/ (pc'[r] = "done" /\ replies'[r] = <<403>>)
      /\ Admitted(r)' => pc'[r] \in AfterCheck
  BY <1>2, RefusedShape DEF Admitted, AfterCheck
<1> QED BY <1>3, <1>4, <1>5, <1>6, <1>7, <1>8 DEF Searched

(* A signal and a reload disturb every check, and touch nothing else of a  *)
(* thread.                                                                 *)
LEMMA FilterStep ==
  ASSUME IInv, NEW l \in Loaders, Sigint(l) \/ LoaderStep(l), UNCHANGED handlerVars,
         torn' \in [Requests -> BOOLEAN]
  PROVE  IInv'
<1> USE DEF IInv, handlerVars
<1>1. /\ num_forbidden_sites \in Nat /\ signals \in 0..MaxSignals /\ MaxSignals \in Nat
      /\ loader \in [Loaders -> LoaderStates]
  BY FilterAssumption DEF Types
<1>2. Types'
  <2>1. num_forbidden_sites' \in Nat /\ signals' \in 0..MaxSignals
    BY <1>1 DEF Sigint, LoaderStep, LoadOpen, LoadLine, LoadCopied, LoadCount, LoadEnd, LoadSort
  <2>2. \E s \in LoaderStates : loader' = [loader EXCEPT ![l] = s]
    BY DEF Sigint, LoaderStep, LoadOpen, LoadLine, LoadCopied, LoadCount, LoadEnd, LoadSort,
           StartWriting, LoaderStates
  <2>3. loader' \in [Loaders -> LoaderStates]
    BY <1>1, <2>2
  <2> QED BY <2>1, <2>3 DEF Types
<1>3. ASSUME NEW r \in Requests
      PROVE  Settled(r)' /\ Resolved(addr[r])' /\ Resolved(hostent)'
  BY DEF Settled, Released, Resolved, LetThrough, Refused
<1>4. ASSUME NEW r \in Requests
      PROVE  Searched(r)'
  <2>1. calm[r] <= signals /\ calm[r] \in Int
    BY <1>1 DEF Searched, Types
  <2>2. calm'[r] <= signals' /\ calm'[r] # signals'
    <3>1. CASE Sigint(l)
      BY <1>1, <2>1, <3>1 DEF Sigint
    <3>2. CASE LoaderStep(l)
      <4>1. signals' = signals /\ ~NoLoad
        BY <3>2 DEF LoaderStep, LoadOpen, LoadLine, LoadCopied, LoadCount, LoadEnd, LoadSort, NoLoad
      <4> QED BY <2>1, <4>1 DEF Searched, Undisturbed
    <3> QED BY <3>1, <3>2
  <2> QED BY <2>2 DEF Searched, Undisturbed
<1>5. Resolved(hostent)'
  BY DEF Resolved, LetThrough, Refused
<1> QED BY <1>2, <1>3, <1>4, <1>5

(* The invariant is inductive.                                             *)
LEMMA IInvStep ==
  ASSUME IInv, [Next]_vars
  PROVE  IInv'
<1>1. ASSUME NEW r \in Requests, Main(r) \/ Handler(r)
      PROVE  IInv'
  <2>1. (Accept(r) \/ HandlerStep(r)) /\ UNCHANGED filterVars
    BY <1>1 DEF Main, Handler
  <2>2. Types' /\ Resolved(hostent)' /\ \A t \in Requests : Resolved(addr[t])'
    BY <2>1, HandlerTypes, ResolvedStep DEF IInv
  <2>3. Settled(r)' /\ Searched(r)'
    BY <2>1, SettledStep, SearchedStep DEF IInv
  <2>4. ASSUME NEW u \in Requests, u # r
        PROVE  Settled(u)' /\ Searched(u)'
    <3>1. UNCHANGED HandlerVarsAt(u) /\ Settled(u) /\ Searched(u)
      BY <2>1, <2>4, OtherRequests DEF IInv
    <3> QED BY <2>1, <3>1 DEF HandlerVarsAt, filterVars, Settled, Released, Searched, Undisturbed, NoLoad,
                              Differs, Refused, Admitted
  <2> QED BY <2>2, <2>3, <2>4 DEF IInv
<1>2. ASSUME NEW l \in Loaders, Signal(l) \/ Reload(l)
      PROVE  IInv'
  <2>1. torn' \in [Requests -> BOOLEAN]
    <3>1. torn \in [Requests -> BOOLEAN]
      BY DEF IInv, Types
    <3> QED BY <1>2, <3>1 DEF Signal, Reload
  <2> QED BY <1>2, <2>1, FilterStep DEF Signal, Reload
<1>3. CASE UNCHANGED vars
  <2> USE <1>3 DEF vars, filterVars, handlerVars
  <2>1. Types'
    BY DEF IInv, Types
  <2>2. ASSUME NEW u \in Requests
        PROVE  Settled(u)' /\ Searched(u)'
    BY DEF IInv, Settled, Released, Searched, Undisturbed, NoLoad, Differs, Refused, Admitted
  <2>3. Resolved(hostent)' /\ \A u \in Requests : Resolved(addr[u])'
    BY DEF IInv, Resolved, LetThrough, Refused
  <2> QED BY <2>1, <2>2, <2>3 DEF IInv
<1> QED BY <1>1, <1>2, <1>3 DEF Next

(* The invariant holds initially.                                          *)
LEMMA IInvInit == Init => IInv
<1> SUFFICES ASSUME Init
             PROVE  IInv
  OBVIOUS
<1> USE DEF Init, FilterInit, HandlerInit
<1>1. Types
  <2>1. Len(StartFile) \in Nat /\ MaxSignals \in Nat
    BY FilterAssumption
  <2>2. <<>> \in Seq(Statuses) /\ {} \in SUBSET {200, 403} /\ "accept" \in Places
    BY Constants
  <2>3. "none" \in TlsStates /\ "idle" \in LoaderStates
    BY DEF TlsStates, LoaderStates
  <2> HIDE DEF Statuses
  <2> QED BY <2>1, <2>2, <2>3 DEF Types
<1>2. ASSUME NEW r \in Requests
      PROVE  Settled(r) /\ Searched(r)
  <2>1. pc[r] = "accept" /\ replies[r] = <<>> /\ idx[r] = 0 /\ calm[r] = -1 /\ signals = 0
    OBVIOUS
  <2>2. Settled(r)
    BY DEF Settled, Connected, InSession
  <2>3. Searched(r)
    BY <2>1 DEF Searched, Undisturbed
  <2> QED BY <2>2, <2>3
<1>3. Resolved(hostent) /\ \A r \in Requests : Resolved(addr[r])
  BY DEF Resolved
<1> QED BY <1>1, <1>2, <1>3 DEF IInv

(* However many threads, loaders and signals there are, IInv is an         *)
(* invariant of WebProxy.                                                  *)
THEOREM InvariantHolds == Spec => []IInv
<1>1. Init => IInv
  BY IInvInit
<1>2. IInv /\ [Next]_vars => IInv'
  BY IInvStep
<1> QED BY <1>1, <1>2, PTL DEF Spec

(* A check that meets no reload refuses exactly the listed sites, however  *)
(* many requests are under way and wherever the site stands in the list.   *)
THEOREM CheckIsRightCorrect == Spec => []CheckIsRight
<1>1. IInv => CheckIsRight
  <2> SUFFICES ASSUME IInv, NEW r \in Requests, Undisturbed(r)
               PROVE  /\ Refused(r) => host[r] \in ToSet(Listed)
                      /\ Admitted(r) => host[r] \notin ToSet(Listed)
    BY DEF CheckIsRight
  <2>1. num_forbidden_sites \in Nat
    BY DEF IInv, Types
  <2>2. \A h : h \in ToSet(Listed) <=> \E i \in 0..(num_forbidden_sites - 1) : forbidden_sites[i] = h
    <3>1. \A h : h \in ToSet(Listed) <=> \E i \in 1..num_forbidden_sites : forbidden_sites[i - 1] = h
      BY DEF ToSet, Listed, Entries
    <3>2. /\ \A i \in 1..num_forbidden_sites : i - 1 \in 0..(num_forbidden_sites - 1)
          /\ \A i \in 0..(num_forbidden_sites - 1) :
                i + 1 \in 1..num_forbidden_sites /\ (i + 1) - 1 = i
      BY <2>1
    <3> QED BY <3>1, <3>2
  <2>3. /\ Refused(r) => ~Differs(r, num_forbidden_sites)
        /\ Admitted(r) => Differs(r, num_forbidden_sites)
    BY DEF IInv, Searched
  <2> QED BY <2>2, <2>3 DEF Differs
<1> QED BY <1>1, InvariantHolds, PTL

(* Whatever address a thread uses belongs to a host whose own request was  *)
(* let through, although all threads share one result of gethostbyname.    *)
THEOREM ContactsOnlyAdmittedCorrect == Spec => []ContactsOnlyAdmitted
<1>1. IInv => ContactsOnlyAdmitted
  BY DEF IInv, ContactsOnlyAdmitted, Resolved, LetThrough
<1> QED BY <1>1, InvariantHolds, PTL

(* handle_client closes its client, replies at most once, and logs 403 for *)
(* the refused and nothing else for them.                                  *)
THEOREM ClientSettledCorrect == Spec => []ClientSettled
<1>1. IInv => ClientSettled
  <2> SUFFICES ASSUME IInv, NEW r \in Requests, pc[r] = "done"
               PROVE  /\ ~client_fd[r]
                      /\ Len(replies[r]) <= 1
                      /\ logged[r] # {} => (Refused(r) <=> logged[r] = {403})
    BY DEF ClientSettled
  <2>1. ~client_fd[r] /\ Settled(r)
    BY DEF IInv, Settled
  <2>2. Refused(r) <=> replies[r] = <<403>>
    BY <2>1, RefusedShape
  <2>3. CASE replies[r] = <<403>> /\ logged[r] \subseteq {403}
    BY <2>1, <2>2, <2>3
  <2>4. CASE replies[r] \in {<<>>, <<200>>} /\ logged[r] \subseteq {200}
    <3>1. CASE replies[r] = <<>>
      BY <2>1, <2>2, <2>4, <3>1
    <3>2. CASE replies[r] = <<200>>
      <4>1. Len(replies[r]) = 1 /\ replies[r] # <<403>>
        BY <3>2
      <4> QED BY <2>1, <2>2, <2>4, <4>1
    <3> QED BY <2>4, <3>1, <3>2
  <2>5. CASE replies[r] \in {<<400>>, <<501>>, <<502>>} /\ logged[r] = {}
    <3>1. Len(replies[r]) = 1
      BY <2>5
    <3> QED BY <2>1, <2>5, <3>1
  <2> QED BY <2>1, <2>3, <2>4, <2>5 DEF Settled
<1> QED BY <1>1, InvariantHolds, PTL

(* "Cleanup": the connection to the server and its TLS session are         *)
(* released together, but for the 501 reply, which keeps both, and the 502 *)
(* reply for want of CA certificates, which keeps the context.             *)
THEOREM ServerSettledCorrect == Spec => []ServerSettled
<1>1. IInv => ServerSettled
  BY DEF IInv, Settled, Released, ServerSettled
<1> QED BY <1>1, InvariantHolds, PTL

-----------------------------------------------------------------------------
(* Every nonempty set of numbers has a least one.                          *)
LEMMA SmallestElement ==
  ASSUME NEW S \in SUBSET Nat, S # {}
  PROVE  \E n \in S : \A m \in S : n <= m
<1> DEFINE R == OpToRel(<, Nat)
<1>1. IsWellFoundedOn(R, Nat)
  BY NatLessThanWellFounded
<1>2. \A x, y \in Nat : x < y => <<x, y>> \in R
  BY DEF OpToRel
<1> HIDE DEF R
<1>3. \E x \in S : \A y \in S : ~ (<<y, x>> \in R)
  BY <1>1, WFMin, Zenon
<1>4. PICK x \in S : \A y \in S : ~ (<<y, x>> \in R)
  BY <1>3
<1>5. \A y \in S : x <= y
  <2> SUFFICES ASSUME NEW y \in S
               PROVE  x <= y
    OBVIOUS
  <2>1. x \in Nat /\ y \in Nat
    OBVIOUS
  <2>2. ~ (y < x)
    BY <1>2, <1>4, <2>1
  <2> QED BY <2>1, <2>2
<1> QED BY <1>5

(* The sites of a file have an upper bound.                                *)
LEMMA Bounded ==
  ASSUME NEW s \in Seq(Nat)
  PROVE  \E b \in Nat : \A j \in DOMAIN s : s[j] <= b
<1> DEFINE Unbounded == {k \in 0..Len(s) : ~ \E b \in Nat : \A j \in 1..k : s[j] <= b}
<1>1. CASE Unbounded = {}
  <2>1. Len(s) \in 0..Len(s) /\ DOMAIN s = 1..Len(s)
    OBVIOUS
  <2> QED BY <1>1, <2>1
<1>2. CASE Unbounded # {}
  <2>1. Unbounded \in SUBSET Nat
    OBVIOUS
  <2>2. PICK k \in Unbounded : \A m \in Unbounded : k <= m
    <3> HIDE DEF Unbounded
    <3> QED BY <1>2, <2>1, SmallestElement
  <2>3. k # 0
    <3>1. ~ \E b \in Nat : \A j \in 1..k : s[j] <= b
      OBVIOUS
    <3>2. k = 0 => \A j \in 1..k : s[j] <= 0
      OBVIOUS
    <3> QED BY <3>1, <3>2
  <2>4. k - 1 \in 0..Len(s) /\ k - 1 \notin Unbounded /\ k \in 1..Len(s) /\ k \in DOMAIN s
    <3>1. k \in 0..Len(s) /\ Len(s) \in Nat /\ DOMAIN s = 1..Len(s)
      OBVIOUS
    <3>2. k - 1 \in 0..Len(s) /\ k \in 1..Len(s) /\ ~ (k <= k - 1)
      BY <2>3, <3>1
    <3> HIDE DEF Unbounded
    <3> QED BY <2>2, <3>1, <3>2
  <2>5. PICK b \in Nat : \A j \in 1..(k - 1) : s[j] <= b
    BY <2>4
  <2>6. PICK c \in Nat : b <= c /\ s[k] <= c
    <3> HIDE DEF Unbounded
    <3>1. s[k] \in Nat
      BY <2>4
    <3>2. b <= s[k] \/ s[k] <= b
      BY <3>1
    <3> QED BY <3>1, <3>2
  <2>7. \A j \in 1..k : s[j] <= c
    <3> SUFFICES ASSUME NEW j \in 1..k
                 PROVE  s[j] <= c
      OBVIOUS
    <3> HIDE DEF Unbounded
    <3>1. (j = k \/ j \in 1..(k - 1)) /\ j \in 1..Len(s)
      BY <2>4
    <3>2. s[j] \in Nat
      BY <3>1
    <3> QED BY <2>5, <2>6, <3>1, <3>2
  <2> QED BY <2>2, <2>7
<1> QED BY <1>1, <1>2

(* How many entries are at most n.                                         *)
LEMMA BelowCounts ==
  ASSUME NEW s \in Seq(Nat), NEW n \in Int
  PROVE  /\ IsFiniteSet(Below(s, n)) /\ Cardinality(Below(s, n)) \in Nat
         /\ n < 0 => Cardinality(Below(s, n)) = 0
         /\ (\A j \in DOMAIN s : s[j] <= n) => Cardinality(Below(s, n)) = Len(s)
<1>1. IsFiniteSet(1..Len(s)) /\ Cardinality(1..Len(s)) = Len(s)
  <2> DEFINE len == Len(s)
  <2>1. len \in Nat
    OBVIOUS
  <2> HIDE DEF len
  <2>2. IsFiniteSet(1..len) /\ Cardinality(1..len) = IF 1 > len THEN 0 ELSE len - 1 + 1
    <3>1. 1 \in Int /\ len \in Int
      BY <2>1
    <3> QED BY <3>1, FS_Interval, Zenon
  <2>3. IsFiniteSet(1..len) /\ Cardinality(1..len) = len
    BY <2>1, <2>2
  <2> QED BY <2>3 DEF len
<1>2. Below(s, n) \subseteq 1..Len(s)
  BY DEF Below
<1>3. IsFiniteSet(Below(s, n)) /\ Cardinality(Below(s, n)) \in Nat
  BY <1>1, <1>2, FS_Subset, FS_CardinalityType
<1>4. n < 0 => Below(s, n) = {}
  BY DEF Below
<1>5. (\A j \in DOMAIN s : s[j] <= n) => Below(s, n) = 1..Len(s)
  BY DEF Below
<1> QED BY <1>1, <1>3, <1>4, <1>5, FS_EmptySet

(* There is an i-th smallest entry, so that a sorted list is as long as    *)
(* the list and has its entries only.                                      *)
LEMMA SortedEntry ==
  ASSUME NEW s \in Seq(Nat), NEW i \in 1..Len(s)
  PROVE  /\ Sorted(s)[i] \in ToSet(s)
         /\ Cardinality(Below(s, Sorted(s)[i] - 1)) < i
         /\ i <= Cardinality(Below(s, Sorted(s)[i]))
<1> DEFINE C(n) == Cardinality(Below(s, n))
<1> DEFINE Enough == {n \in Nat : i <= C(n)}
<1>1. Enough # {}
  <2>1. PICK b \in Nat : \A j \in DOMAIN s : s[j] <= b
    BY Bounded
  <2> HIDE DEF C
  <2>2. C(b) = Len(s)
    <3>1. b \in Int
      OBVIOUS
    <3> QED BY <2>1, <3>1, BelowCounts DEF C
  <2> QED BY <2>2
<1>2. PICK v \in Enough : \A m \in Enough : v <= m
  <2>1. Enough \in SUBSET Nat
    OBVIOUS
  <2> HIDE DEF Enough
  <2> QED BY <1>1, <2>1, SmallestElement
<1>3. v \in Nat /\ i <= C(v) /\ C(v) \in Nat /\ C(v - 1) \in Nat
  <2>1. v \in Nat /\ v - 1 \in Int /\ i <= C(v)
    OBVIOUS
  <2> HIDE DEF Enough
  <2> DEFINE u == v - 1
  <2>2. u \in Int
    BY <2>1
  <2>3. C(v) \in Nat
    BY <2>1, BelowCounts
  <2> HIDE DEF u
  <2>4. C(u) \in Nat
    BY <2>2, BelowCounts
  <2> QED BY <2>1, <2>3, <2>4 DEF u
<1>4. C(v - 1) < i
  <2>1. CASE v = 0
    <3>1. C(v - 1) = 0
      BY <2>1, BelowCounts
    <3> QED BY <3>1
  <2>2. CASE v # 0
    <3>1. v - 1 \in Nat /\ ~ (v <= v - 1)
      BY <1>3, <2>2
    <3>2. v - 1 \notin Enough
      BY <1>2, <3>1
    <3>3. ~ (i <= C(v - 1))
      BY <3>1, <3>2
    <3> HIDE DEF C
    <3> QED BY <1>3, <3>3
  <2> QED BY <2>1, <2>2
<1>5. v \in ToSet(s)
  <2>1. Below(s, v - 1) # Below(s, v)
    <3> HIDE DEF Enough
    <3>1. C(v - 1) # C(v)
      <4> HIDE DEF C
      <4> QED BY <1>3, <1>4
    <3> QED BY <3>1
  <2>2. PICK j \in DOMAIN s : ~ (s[j] <= v - 1 <=> s[j] <= v)
    BY <2>1 DEF Below
  <2>3. s[j] = v
    BY <1>3, <2>2
  <2> QED BY <2>3 DEF ToSet
<1>6. Sorted(s)[i] = CHOOSE n \in ToSet(s) : C(n - 1) < i /\ i <= C(n)
  BY DEF Sorted
<1> HIDE DEF Enough
<1>7. \E n \in ToSet(s) : C(n - 1) < i /\ i <= C(n)
  BY <1>3, <1>4, <1>5
<1> HIDE DEF C
<1>8. Sorted(s)[i] \in ToSet(s) /\ C(Sorted(s)[i] - 1) < i /\ i <= C(Sorted(s)[i])
  BY <1>6, <1>7
<1> QED BY <1>8 DEF C

(* qsort: the list keeps its length and its entries are in order.          *)
LEMMA SortedInOrder ==
  ASSUME NEW s \in Seq(Nat)
  PROVE  /\ Sorted(s) \in Seq(ToSet(s)) /\ Len(Sorted(s)) = Len(s)
         /\ Sorted(s) = [k \in 1..Len(s) |-> Sorted(s)[k]]
         /\ \A i, k \in 1..Len(s) : i <= k => Sorted(s)[i] <= Sorted(s)[k]
<1>1. Len(s) \in Nat /\ DOMAIN s = 1..Len(s)
  OBVIOUS
<1>0. ToSet(s) \subseteq Nat
  BY DEF ToSet
<1>2. DOMAIN Sorted(s) = 1..Len(s)
  BY <1>1 DEF Sorted
<1>3. Sorted(s) \in [1..Len(s) -> ToSet(s)]
  <2>1. Sorted(s) = [i \in 1..Len(s) |-> Sorted(s)[i]]
    BY <1>1 DEF Sorted
  <2> QED BY <2>1, SortedEntry
<1>4. Sorted(s) \in Seq(ToSet(s)) /\ Len(Sorted(s)) = Len(s)
  BY <1>1, <1>3
<1>5. ASSUME NEW i \in 1..Len(s), NEW k \in 1..Len(s), i <= k
      PROVE  Sorted(s)[i] <= Sorted(s)[k]
  <2> DEFINE n == Sorted(s)[i]
  <2> DEFINE m == Sorted(s)[k]
  <2>1. /\ n \in ToSet(s) /\ Cardinality(Below(s, n - 1)) < i
        /\ m \in ToSet(s) /\ k <= Cardinality(Below(s, m))
    BY SortedEntry
  <2> HIDE DEF n, m
  <2>2. n \in Nat /\ m \in Nat
    BY <1>0, <2>1
  <2>3. ASSUME ~ (n <= m)
        PROVE  FALSE
    <3>1. Below(s, m) \subseteq Below(s, n - 1)
      <4>1. ASSUME NEW j \in DOMAIN s, s[j] <= m
            PROVE  s[j] <= n - 1
        <5>1. s[j] \in Nat
          BY <4>1
        <5> QED BY <2>2, <2>3, <4>1, <5>1
      <4> QED BY <4>1 DEF Below
    <3>2. Cardinality(Below(s, m)) <= Cardinality(Below(s, n - 1))
      BY <2>2, <3>1, BelowCounts, FS_Subset
    <3>3. Cardinality(Below(s, m)) \in Nat /\ Cardinality(Below(s, n - 1)) \in Nat
      <4>1. m \in Int /\ n - 1 \in Int
        BY <2>2
      <4> QED BY <4>1, BelowCounts
    <3> QED BY <1>5, <2>1, <3>2, <3>3
  <2> QED BY <2>3 DEF n, m
<1> QED BY <1>3, <1>4, <1>5

-----------------------------------------------------------------------------
(* A sorted list written over the rows.                                    *)
LEMMA RowsOfSorted ==
  ASSUME NEW s \in Seq(Nat), Len(s) <= MaxSites, NEW rows
  PROVE  /\ AsRows(Sorted(s), rows) =
               [i \in Rows |-> IF i < Len(s) THEN Sorted(s)[i + 1] ELSE rows[i]]
         /\ \A i \in Rows : AsRows(Sorted(s), rows)[i] \in ToSet(s) \cup {rows[i]}
         /\ \A k \in 1..Len(s) : k - 1 \in Rows /\ AsRows(Sorted(s), rows)[k - 1] = Sorted(s)[k]
<1> DEFINE n == Len(s)
<1> DEFINE t == Sorted(s)
<1>1. n \in Nat /\ MaxSites \in Nat /\ n <= MaxSites
  BY FilterAssumption
<1>2. Len(t) = n /\ t \in Seq(ToSet(s))
  BY SortedInOrder
<1>3. t = [k \in 1..n |-> t[k]] /\ \A k \in 1..n : t[k] \in ToSet(s)
  <2> HIDE DEF n, t
  <2> QED BY <1>2
<1> HIDE DEF n, t
<1>4. AsRows(t, rows) = [i \in Rows |-> IF i < n THEN t[i + 1] ELSE rows[i]]
  BY <1>2 DEF AsRows
<1>5. \A i \in Rows : i < n => i + 1 \in 1..n
  BY <1>1 DEF Rows
<1>6. \A k \in 1..n : k - 1 \in Rows /\ k - 1 < n /\ (k - 1) + 1 = k
  BY <1>1 DEF Rows
<1>7. \A i \in Rows : AsRows(t, rows)[i] \in ToSet(s) \cup {rows[i]}
  BY <1>3, <1>4, <1>5
<1>8. \A k \in 1..n : AsRows(t, rows)[k - 1] = t[k]
  BY <1>4, <1>6
<1> QED BY <1>4, <1>6, <1>7, <1>8 DEF n, t

(* The two files.                                                          *)
LEMMA Files ==
  /\ StartFile \in Seq(Nat) /\ ReloadFile \in Seq(Nat)
  /\ Len(StartFile) \in 0..MaxSites /\ Len(ReloadFile) \in 0..MaxSites /\ MaxSites \in Nat
  /\ ToSet(StartFile) \subseteq Sites /\ ToSet(ReloadFile) \subseteq Sites
  /\ \A i \in 1..Len(ReloadFile) : ReloadFile[i] \in Sites
  /\ Sites \subseteq Nat \ {0}
<1>1. StartFile \in Seq(Nat \ {0}) /\ ReloadFile \in Seq(Nat \ {0})
  BY FilterAssumption
<1>2. /\ ToSet(StartFile) \subseteq Nat \ {0}
      /\ ToSet(ReloadFile) \subseteq Nat \ {0}
      /\ \A i \in 1..Len(ReloadFile) : ReloadFile[i] \in ToSet(ReloadFile)
  BY <1>1 DEF ToSet
<1>3. Len(StartFile) \in 0..MaxSites /\ Len(ReloadFile) \in 0..MaxSites /\ MaxSites \in Nat
  BY <1>1, FilterAssumption
<1>4. StartFile \in Seq(Nat) /\ ReloadFile \in Seq(Nat)
  BY <1>1
<1> QED BY <1>2, <1>3, <1>4 DEF Sites

(* The list of the start is the file named by -a, sorted.                  *)
LEMMA RowsInit ==
  ASSUME FilterInit
  PROVE  RowsInv
<1> DEFINE empty == [i \in Rows |-> 0]
<1>1. /\ forbidden_sites = AsRows(Sorted(StartFile), empty)
      /\ num_forbidden_sites = Len(StartFile) /\ loaded = StartFile
      /\ loader = [l \in Loaders |-> "idle"] /\ line = [l \in Loaders |-> 1] /\ signals = 0
      /\ row = [l \in Loaders |-> 0] /\ clash = {}
  BY DEF FilterInit
<1>2. \A i \in Rows : empty[i] = 0
  OBVIOUS
<1> HIDE DEF empty
<1>3. \A i \in Rows : forbidden_sites[i] \in Sites \cup {0}
  <2>1. /\ StartFile \in Seq(Nat) /\ Len(StartFile) <= MaxSites
        /\ ToSet(StartFile) \subseteq Sites
    BY Files
  <2>2. \A i \in Rows : AsRows(Sorted(StartFile), empty)[i] \in ToSet(StartFile) \cup {empty[i]}
    BY <2>1, RowsOfSorted
  <2> QED BY <1>1, <1>2, <2>1, <2>2
<1>4. FilterTypeOK
  <2>1. forbidden_sites \in [Rows -> Nat]
    <3>1. \A i \in Rows : forbidden_sites[i] \in Nat
      <4>1. Sites \cup {0} \subseteq Nat
        BY Files
      <4> QED BY <1>3, <4>1
    <3>2. forbidden_sites = [i \in Rows |-> forbidden_sites[i]]
      BY <1>1, Files, RowsOfSorted
    <3> QED BY <3>1, <3>2
  <2>2. /\ num_forbidden_sites \in 0..MaxSites /\ 1 \in 1..(Len(ReloadFile) + 1)
        /\ 0 \in 0..MaxSignals /\ 0 \in 0..MaxSites
    BY <1>1, Files, FilterAssumption
  <2> QED BY <1>1, <2>1, <2>2 DEF FilterTypeOK
<1>5. Listed = Sorted(loaded)
  <2>1. \A k \in 1..Len(StartFile) : forbidden_sites[k - 1] = Sorted(StartFile)[k]
    BY <1>1, Files, RowsOfSorted
  <2>2. Sorted(StartFile) = [k \in 1..Len(StartFile) |-> Sorted(StartFile)[k]]
    BY Files, SortedInOrder
  <2> QED BY <1>1, <2>1, <2>2 DEF Listed, Entries
<1>6. \A l \in Loaders : LoadInv(l)
  BY <1>1 DEF LoadInv
<1> QED BY <1>1, <1>3, <1>4, <1>5, <1>6 DEF RowsInv

(* A loader that writes alone leaves what it wrote.                        *)
LEMMA WritingAlone ==
  ASSUME OneLoader, clash = {}, NEW l \in Loaders
  PROVE  /\ \A how, n : StartWriting(l, how, n) =>
               /\ loader' = [loader EXCEPT ![l] = how]
               /\ row' = [row EXCEPT ![l] = n]
               /\ clash' = {}
         /\ \A rows : Written(l, rows) =>
               forbidden_sites' = [i \in Rows |-> IF i \in WritesOf(l) THEN rows[i]
                                                                    ELSE forbidden_sites[i]]
<1>1. Loaders \ {l} = {}
  BY DEF OneLoader
<1>2. {m \in Loaders \ {l} : WritesOf(m) \cap {} # {}} = {}
  BY <1>1
<1>3. ASSUME NEW how, NEW n, StartWriting(l, how, n)
      PROVE  /\ loader' = [loader EXCEPT ![l] = how]
             /\ row' = [row EXCEPT ![l] = n]
             /\ clash' = {}
  BY <1>1, <1>3 DEF StartWriting
<1>4. ASSUME NEW rows, Written(l, rows)
      PROVE  forbidden_sites' = [i \in Rows |-> IF i \in WritesOf(l) THEN rows[i]
                                                                   ELSE forbidden_sites[i]]
  BY <1>4 DEF Written
<1> QED BY <1>3, <1>4

(* The one loader clears the count, fills the rows below it and sorts      *)
(* them: what it leaves is the file.                                       *)
LEMMA RowsStep ==
  ASSUME OneLoader, RowsInv, NEW l \in Loaders, Sigint(l) \/ LoaderStep(l)
  PROVE  RowsInv'
<1>1. /\ forbidden_sites \in [Rows -> Nat] /\ num_forbidden_sites \in 0..MaxSites
      /\ loader \in [Loaders -> {"idle", "open", "line", "copy", "count", "sort"}]
      /\ line \in [Loaders -> 1..(Len(ReloadFile) + 1)] /\ row \in [Loaders -> 0..MaxSites]
      /\ signals \in 0..MaxSignals /\ loaded \in {StartFile, ReloadFile}
      /\ MaxSites \in Nat /\ MaxSignals \in Nat /\ Len(ReloadFile) \in 0..MaxSites
  BY Files, FilterAssumption DEF RowsInv, FilterTypeOK
<1>2. /\ \A i \in Rows : forbidden_sites[i] \in Sites \cup {0}
      /\ LoadInv(l)
      /\ loader[l] \in {"idle", "open"} => Listed = Sorted(loaded)
      /\ \A m \in Loaders : m = l
      /\ clash = {}
  BY DEF RowsInv, OneLoader
<1>3. ASSUME FilterTypeOK', clash' = {}, \A i \in Rows : forbidden_sites'[i] \in Sites \cup {0}, LoadInv(l)',
             loader'[l] \in {"idle", "open"} => Listed' = Sorted(loaded)'
      PROVE  RowsInv'
  BY <1>2, <1>3 DEF RowsInv
<1>4. CASE Sigint(l)
  <2>1. /\ loader' = [loader EXCEPT ![l] = "open"] /\ signals' = signals + 1 /\ signals < MaxSignals
        /\ UNCHANGED <<forbidden_sites, num_forbidden_sites, line, row, clash, loaded>>
        /\ loader[l] = "idle"
    BY <1>4 DEF Sigint
  <2>2. FilterTypeOK'
    BY <1>1, <1>2, <2>1 DEF FilterTypeOK
  <2>3. loader'[l] = "open" /\ Listed' = Listed /\ Listed = Sorted(loaded)
    BY <1>1, <1>2, <2>1 DEF Listed, Entries
  <2>4. LoadInv(l)'
    BY <2>3 DEF LoadInv
  <2> QED BY <1>2, <1>3, <2>1, <2>2, <2>3, <2>4
<1>5. CASE LoadOpen(l)
  <2>1. loader[l] = "open" /\ UNCHANGED <<forbidden_sites, row, clash, signals, loaded>>
    BY <1>5 DEF LoadOpen
  <2>2. CASE /\ loader' = [loader EXCEPT ![l] = "line"] /\ line' = [line EXCEPT ![l] = 1]
             /\ num_forbidden_sites' = 0
    <3>1. 0 \in 0..MaxSites /\ 1 \in 1..(Len(ReloadFile) + 1)
      BY <1>1
    <3>2. FilterTypeOK'
      BY <1>1, <1>2, <2>1, <2>2, <3>1 DEF FilterTypeOK
    <3>3. loader'[l] = "line" /\ line'[l] = 1
      BY <1>1, <2>2
    <3>4. LoadInv(l)'
      BY <2>2, <3>3 DEF LoadInv, FilledBelow
    <3> QED BY <1>2, <1>3, <2>1, <3>2, <3>3, <3>4
  <2>3. CASE loader' = [loader EXCEPT ![l] = "idle"] /\ UNCHANGED <<line, num_forbidden_sites>>
    <3>1. FilterTypeOK'
      BY <1>1, <1>2, <2>1, <2>3 DEF FilterTypeOK
    <3>2. loader'[l] = "idle" /\ Listed' = Listed
      BY <1>1, <2>1, <2>3 DEF Listed, Entries
    <3>3. LoadInv(l)'
      BY <3>2 DEF LoadInv
    <3> QED BY <1>2, <1>3, <2>1, <3>1, <3>2, <3>3
  <2> QED BY <1>5, <2>2, <2>3 DEF LoadOpen
<1>6. CASE LoadLine(l)
  <2> DEFINE n == num_forbidden_sites
  <2>1. /\ loader[l] = "line" /\ line[l] <= Len(ReloadFile) /\ n < MaxSites
        /\ loader' = [loader EXCEPT ![l] = "copy"] /\ row' = [row EXCEPT ![l] = n]
        /\ clash' = {} /\ UNCHANGED <<forbidden_sites, num_forbidden_sites, line, signals, loaded>>
    BY <1>2, <1>6, WritingAlone DEF LoadLine
  <2>2. n = line[l] - 1 /\ \A i \in 1..n : forbidden_sites[i - 1] = ReloadFile[i]
    BY <1>2, <2>1 DEF LoadInv, FilledBelow
  <2>3. FilterTypeOK'
    BY <1>1, <1>2, <2>1 DEF FilterTypeOK
  <2>4. loader'[l] = "copy" /\ row'[l] = n
    BY <1>1, <2>1
  <2>5. LoadInv(l)'
    BY <2>1, <2>2, <2>4 DEF LoadInv, FilledBelow
  <2> QED BY <1>2, <1>3, <2>1, <2>3, <2>4, <2>5
<1>10. CASE LoadCopied(l)
  <2> DEFINE n == num_forbidden_sites
  <2>1. /\ loader[l] = "copy" /\ loader' = [loader EXCEPT ![l] = "count"]
        /\ forbidden_sites' = [i \in Rows |-> IF i \in WritesOf(l)
                                               THEN [k \in Rows |-> ReloadFile[line[l]]][i]
                                               ELSE forbidden_sites[i]]
        /\ UNCHANGED <<num_forbidden_sites, line, row, clash, signals, loaded>>
    BY <1>2, <1>10, WritingAlone DEF LoadCopied
  <2>2. /\ n = line[l] - 1 /\ \A i \in 1..n : forbidden_sites[i - 1] = ReloadFile[i]
        /\ row[l] = n /\ line[l] <= Len(ReloadFile)
    BY <1>2, <2>1 DEF LoadInv, FilledBelow
  <2>3. n \in Rows /\ n \in Nat /\ line[l] \in 1..Len(ReloadFile)
    BY <1>1, <2>2 DEF Rows
  <2>4. ReloadFile[line[l]] \in Sites /\ ReloadFile[line[l]] \in Nat
    BY <2>3, Files
  <2>5. WritesOf(l) = {n}
    BY <2>1, <2>2 DEF WritesOf
  <2>6. \A i \in Rows : forbidden_sites'[i] = IF i = n THEN ReloadFile[line[l]]
                                                       ELSE forbidden_sites[i]
    BY <2>1, <2>5
  <2>7. FilterTypeOK'
    <3>1. forbidden_sites' \in [Rows -> Nat]
      BY <1>1, <2>1, <2>4, <2>5
    <3> QED BY <1>1, <1>2, <2>1, <3>1 DEF FilterTypeOK
  <2>8. \A i \in Rows : forbidden_sites'[i] \in Sites \cup {0}
    BY <1>2, <2>4, <2>6
  <2>9. loader'[l] = "count"
    BY <1>1, <2>1
  <2>10. /\ \A i \in 1..n : i - 1 \in Rows /\ i - 1 # n
         /\ forbidden_sites'[n] = ReloadFile[line[l]]
    BY <1>1, <2>3, <2>6 DEF Rows
  <2>11. \A i \in 1..n : forbidden_sites'[i - 1] = ReloadFile[i]
    BY <2>2, <2>6, <2>10
  <2>12. LoadInv(l)'
    BY <2>1, <2>2, <2>9, <2>10, <2>11 DEF LoadInv, FilledBelow
  <2> QED BY <1>2, <1>3, <2>1, <2>7, <2>8, <2>9, <2>12
<1>7. CASE LoadCount(l)
  <2> DEFINE n == num_forbidden_sites
  <2>1. /\ loader[l] = "count" /\ num_forbidden_sites' = n + 1
        /\ line' = [line EXCEPT ![l] = @ + 1] /\ loader' = [loader EXCEPT ![l] = "line"]
        /\ UNCHANGED <<forbidden_sites, row, clash, signals, loaded>>
    BY <1>7 DEF LoadCount
  <2>2. /\ n = line[l] - 1 /\ \A i \in 1..n : forbidden_sites[i - 1] = ReloadFile[i]
        /\ line[l] <= Len(ReloadFile) /\ forbidden_sites[line[l] - 1] = ReloadFile[line[l]]
    BY <1>2, <2>1 DEF LoadInv, FilledBelow
  <2>3. /\ n \in Nat /\ n + 1 \in 0..MaxSites /\ line[l] + 1 \in 1..(Len(ReloadFile) + 1)
        /\ line[l] = n + 1
    BY <1>1, <2>2
  <2>4. loader'[l] = "line" /\ line'[l] = n + 2
    BY <1>1, <2>1, <2>3
  <2>5. FilterTypeOK'
    BY <1>1, <1>2, <2>1, <2>3 DEF FilterTypeOK
  <2>6. \A i \in 1..(n + 1) : forbidden_sites[i - 1] = ReloadFile[i]
    <3>1. \A i \in 1..(n + 1) : i \in 1..n \/ i = n + 1
      BY <2>3
    <3> QED BY <2>2, <2>3, <3>1
  <2>7. LoadInv(l)'
    <3>1. n + 1 = (n + 2) - 1
      BY <2>3
    <3> QED BY <2>1, <2>4, <2>6, <3>1 DEF LoadInv, FilledBelow
  <2> QED BY <1>2, <1>3, <2>1, <2>4, <2>5, <2>7
<1>8. CASE LoadEnd(l)
  <2> DEFINE n == num_forbidden_sites
  <2>1. /\ loader[l] = "line" /\ line[l] > Len(ReloadFile)
        /\ loader' = [loader EXCEPT ![l] = "sort"] /\ row' = [row EXCEPT ![l] = n]
        /\ clash' = {} /\ UNCHANGED <<forbidden_sites, num_forbidden_sites, line, signals, loaded>>
    BY <1>2, <1>8, WritingAlone DEF LoadEnd
  <2>2. loader'[l] = "sort" /\ line[l] = Len(ReloadFile) + 1 /\ row'[l] = n
    BY <1>1, <2>1
  <2>3. FilterTypeOK'
    BY <1>1, <1>2, <2>1 DEF FilterTypeOK
  <2>4. LoadInv(l)'
    BY <1>2, <2>1, <2>2 DEF LoadInv, FilledBelow
  <2> QED BY <1>2, <1>3, <2>1, <2>2, <2>3, <2>4
<1>9. CASE LoadSort(l)
  <2> DEFINE n == num_forbidden_sites
  <2> DEFINE sorted == AsRows(Sorted(ReloadFile), forbidden_sites)
  <2>1. /\ loader[l] = "sort"
        /\ forbidden_sites' =
              [i \in Rows |-> IF i \in WritesOf(l)
                                THEN AsRows(Sorted(Entries(row[l])), forbidden_sites)[i]
                                ELSE forbidden_sites[i]]
        /\ loader' = [loader EXCEPT ![l] = "idle"] /\ loaded' = ReloadFile
        /\ UNCHANGED <<num_forbidden_sites, line, row, clash, signals>>
    BY <1>2, <1>9, WritingAlone DEF LoadSort
  <2>2. /\ n = Len(ReloadFile) /\ row[l] = n
        /\ \A i \in 1..n : forbidden_sites[i - 1] = ReloadFile[i]
    BY <1>1, <1>2, <2>1 DEF LoadInv, FilledBelow
  <2>3. Entries(row[l]) = ReloadFile
    <3>1. ReloadFile = [i \in 1..Len(ReloadFile) |-> ReloadFile[i]]
      BY Files
    <3> QED BY <2>2, <3>1 DEF Entries
  <2>10. forbidden_sites' = sorted
    <3>1. WritesOf(l) = 0..(n - 1)
      BY <2>1, <2>2 DEF WritesOf
    <3>2. sorted = [i \in Rows |-> IF i < n THEN Sorted(ReloadFile)[i + 1] ELSE forbidden_sites[i]]
      BY <1>1, <2>2, Files, RowsOfSorted
    <3>3. \A i \in Rows : i \in 0..(n - 1) <=> i < n
      BY <1>1 DEF Rows
    <3>4. forbidden_sites' = [i \in Rows |-> IF i < n THEN sorted[i] ELSE forbidden_sites[i]]
      <4> HIDE DEF sorted
      <4>1. forbidden_sites' = [i \in Rows |-> IF i \in 0..(n - 1) THEN sorted[i]
                                                                  ELSE forbidden_sites[i]]
        BY <2>1, <2>3, <3>1 DEF sorted
      <4> QED BY <3>3, <4>1
    <3> HIDE DEF sorted
    <3> QED BY <3>2, <3>4
  <2>4. \A i \in Rows : forbidden_sites'[i] \in Sites \cup {0}
    <3>1. \A i \in Rows : forbidden_sites'[i] \in ToSet(ReloadFile) \cup {forbidden_sites[i]}
      BY <1>1, <2>10, Files, RowsOfSorted
    <3>2. ToSet(ReloadFile) \subseteq Sites
      BY Files
    <3> QED BY <1>2, <3>1, <3>2
  <2>5. forbidden_sites' \in [Rows -> Nat]
    <3>1. \A i \in Rows : forbidden_sites'[i] \in Nat
      <4>1. Sites \cup {0} \subseteq Nat
        BY Files
      <4> QED BY <2>4, <4>1
    <3>2. forbidden_sites' = [i \in Rows |-> forbidden_sites'[i]]
      BY <1>1, <2>10, Files, RowsOfSorted
    <3> QED BY <3>1, <3>2
  <2>6. FilterTypeOK'
    BY <1>1, <1>2, <2>1, <2>5 DEF FilterTypeOK
  <2>7. loader'[l] = "idle"
    BY <1>1, <2>1
  <2>8. Listed' = Sorted(loaded)'
    <3>1. \A k \in 1..Len(ReloadFile) : forbidden_sites'[k - 1] = Sorted(ReloadFile)[k]
      BY <1>1, <2>10, Files, RowsOfSorted
    <3>2. Sorted(ReloadFile) = [k \in 1..Len(ReloadFile) |-> Sorted(ReloadFile)[k]]
      BY Files, SortedInOrder
    <3>3. Listed' = [k \in 1..Len(ReloadFile) |-> forbidden_sites'[k - 1]]
      BY <2>1, <2>2 DEF Listed, Entries
    <3>4. Sorted(loaded)' = Sorted(ReloadFile)
      BY <2>1 DEF Sorted, Below
    <3> QED BY <3>1, <3>2, <3>3, <3>4
  <2>9. LoadInv(l)'
    BY <2>7 DEF LoadInv
  <2> QED BY <1>2, <1>3, <2>1, <2>4, <2>6, <2>8, <2>9
<1> QED BY <1>4, <1>5, <1>6, <1>7, <1>8, <1>9, <1>10 DEF LoaderStep

(* A thread looks at rows of the array only, and finds there what one of   *)
(* the files names.                                                        *)
LEMMA ReaderStep ==
  ASSUME IInv, RowsInv, NEW r \in Requests, ReaderInv(r), Accept(r) \/ HandlerStep(r)
  PROVE  ReaderInv(r)'
<1>1. /\ idx[r] \in Nat /\ num_forbidden_sites \in 0..MaxSites /\ MaxSites \in Nat
      /\ pc[r] \in Places
  BY Files DEF IInv, Types, RowsInv, FilterTypeOK
<1>2. Types /\ Settled(r) /\ Settled(r)'
  BY SettledStep DEF IInv
<1>3. idx[r] < MaxSites => forbidden_sites[idx[r]] \in Sites \cup {0}
  <2>1. idx[r] < MaxSites => idx[r] \in Rows
    BY <1>1 DEF Rows
  <2> QED BY <2>1 DEF RowsInv
<1>4. 0 \notin Hosts
  BY HandlerAssumption
<1>5. idx'[r] <= MaxSites /\ (pc'[r] = "compare" => idx'[r] < MaxSites)
  BY <1>1, <1>2, Flow DEF ReaderInv, Places, AfterCheck
<1>6. pc'[r] \in {"test", "compare"} => host'[r] # 0
  BY <1>1, <1>2, <1>4, Flow DEF ReaderInv, Places, AfterCheck
<1>7. Refused(r)' /\ ~torn'[r] => host'[r] \in Sites
  <2>1. Refused(r)' => pc'[r] = "refuse" \/ (pc'[r] = "done" /\ replies'[r] = <<403>>)
    BY <1>2, RefusedShape
  <2>2. CASE pc'[r] = "refuse" /\ ~torn'[r]
    <3>1. pc[r] = "compare" /\ host'[r] = host[r] /\ torn'[r] = torn[r] /\ Matches(r)
      BY <1>2, <2>2, Flow
    <3>2. host[r] = forbidden_sites[idx[r]] /\ host[r] # 0 /\ idx[r] < MaxSites
      BY <2>2, <3>1 DEF Matches, ReaderInv
    <3> QED BY <1>3, <3>1, <3>2
  <2>3. CASE replies'[r] = <<403>> /\ ~torn'[r]
    <3>1. pc[r] = "refuse" /\ host'[r] = host[r] /\ torn'[r] = torn[r]
      BY <1>2, <2>3, Flow
    <3> QED BY <2>3, <3>1 DEF ReaderInv, Refused
  <2> QED BY <2>1, <2>2, <2>3
<1> QED BY <1>5, <1>6, <1>7 DEF ReaderInv

(* The threads write none of what RowsInv is about.                        *)
LEMMA RowsUnchanged ==
  ASSUME RowsInv, UNCHANGED filterVars
  PROVE  RowsInv'
<1> USE DEF filterVars
<1>1. FilterTypeOK'
  BY DEF RowsInv, FilterTypeOK
<1>2. \A i \in Rows : forbidden_sites'[i] \in Sites \cup {0}
  BY DEF RowsInv
<1>3. \A l \in Loaders : LoadInv(l)'
  BY DEF RowsInv, LoadInv, FilledBelow
<1>4. Listed' = Listed /\ Sorted(loaded)' = Sorted(loaded)
  BY DEF Listed, Entries, Sorted, Below
<1> QED BY <1>1, <1>2, <1>3, <1>4 DEF RowsInv

(* ListInv is inductive relative to IInv.                                  *)
LEMMA ListInvStep ==
  ASSUME OneLoader, IInv, ListInv, [Next]_vars
  PROVE  ListInv'
<1>1. ASSUME NEW r \in Requests, Main(r) \/ Handler(r)
      PROVE  ListInv'
  <2>1. (Accept(r) \/ HandlerStep(r)) /\ UNCHANGED filterVars
    BY <1>1 DEF Main, Handler
  <2>2. RowsInv'
    BY <2>1, RowsUnchanged DEF ListInv
  <2>3. ReaderInv(r)'
    BY <2>1, ReaderStep DEF ListInv
  <2>4. ASSUME NEW u \in Requests, u # r
        PROVE  ReaderInv(u)'
    <3>1. UNCHANGED HandlerVarsAt(u) /\ ReaderInv(u)
      BY <2>1, <2>4, OtherRequests DEF IInv, ListInv
    <3> QED BY <3>1 DEF HandlerVarsAt, ReaderInv, Refused
  <2> QED BY <2>2, <2>3, <2>4 DEF ListInv
<1>2. ASSUME NEW l \in Loaders, Signal(l) \/ Reload(l)
      PROVE  ListInv'
  <2>1. (Sigint(l) \/ LoaderStep(l)) /\ UNCHANGED handlerVars
    BY <1>2 DEF Signal, Reload
  <2>2. RowsInv'
    BY <2>1, RowsStep DEF ListInv
  <2>3. ASSUME NEW r \in Requests
        PROVE  ReaderInv(r)'
    <3>1. torn[r] => torn'[r]
      BY <1>2 DEF Signal, Reload
    <3> QED BY <2>1, <3>1 DEF handlerVars, ListInv, ReaderInv, Refused
  <2> QED BY <2>2, <2>3 DEF ListInv
<1>3. CASE UNCHANGED vars
  <2> USE <1>3 DEF vars, filterVars, handlerVars
  <2>1. RowsInv'
    BY RowsUnchanged DEF ListInv
  <2>2. ASSUME NEW r \in Requests
        PROVE  ReaderInv(r)'
    BY DEF ListInv, ReaderInv, Refused
  <2> QED BY <2>1, <2>2 DEF ListInv
<1> QED BY <1>1, <1>2, <1>3 DEF Next

(* With one loader at a time the rows below the count are always the part  *)
(* of the file that was read.                                              *)
THEOREM ListInvariantHolds == OneLoader => (Spec => []ListInv)
<1> SUFFICES ASSUME OneLoader
             PROVE  Spec => []ListInv
  OBVIOUS
<1>1. Init => ListInv
  <2> SUFFICES ASSUME Init, NEW r \in Requests
               PROVE  ReaderInv(r)
    BY RowsInit DEF Init, ListInv
  <2>1. pc[r] = "accept" /\ idx[r] = 0 /\ replies[r] = <<>> /\ MaxSites \in Nat
    BY Files DEF Init, HandlerInit
  <2> QED BY <2>1 DEF ReaderInv, Refused
<1>2. IInv /\ ListInv /\ [Next]_vars => ListInv'
  BY ListInvStep
<1> QED BY <1>1, <1>2, InvariantHolds, PTL DEF Spec

(* Between reloads the list is the last loaded file, in order, for files   *)
(* of every size, if no two SIGINTs are handled at the same time.          *)
THEOREM ListIsFileCorrect == OneLoader => (Spec => []ListIsFile)
<1> SUFFICES ASSUME OneLoader
             PROVE  Spec => []ListIsFile
  OBVIOUS
<1>1. ListInv => ListIsFile
  BY DEF ListInv, RowsInv, ListIsFile, NoLoad
<1> QED BY <1>1, ListInvariantHolds, PTL

(* A search that compared whole rows never refuses a site that neither     *)
(* file names, wherever a reload moves the entries under its index.        *)
THEOREM RefusedWasListedCorrect == OneLoader => (Spec => []RefusedWasListed)
<1> SUFFICES ASSUME OneLoader
             PROVE  Spec => []RefusedWasListed
  OBVIOUS
<1>1. ListInv => RefusedWasListed
  BY DEF ListInv, ReaderInv, RefusedWasListed, Sites
<1> QED BY <1>1, ListInvariantHolds, PTL

(* A search never runs past the array, nor a load past its last row.       *)
THEOREM TypeCorrect == OneLoader => (Spec => []TypeOK)
<1> SUFFICES ASSUME OneLoader
             PROVE  Spec => []TypeOK
  OBVIOUS
<1>1. IInv /\ ListInv => TypeOK
  <2> SUFFICES ASSUME IInv, ListInv
               PROVE  HandlerTypeOK
    BY DEF TypeOK, ListInv, RowsInv
  <2>1. idx \in [Requests -> 0..MaxSites]
    <3>1. \A r \in Requests : idx[r] \in Nat /\ idx[r] <= MaxSites
      BY DEF IInv, Types, ListInv, ReaderInv
    <3>2. idx = [r \in Requests |-> idx[r]] /\ MaxSites \in Nat
      BY Files DEF IInv, Types
    <3> QED BY <3>1, <3>2
  <2> QED BY <2>1 DEF IInv, Types, HandlerTypeOK, Places, Statuses, TlsStates
<1> QED BY <1>1, InvariantHolds, ListInvariantHolds, PTL
=============================================================================
