---------------------------- MODULE ProxyHandler ----------------------------
(***************************************************************************)
(* WebProxy/src/connection.c: the threads that each handle one client      *)
(* (handle_client with connect_to_server and forward_response), and the    *)
(* accept loop of myproxy.c that creates them.                             *)
(*                                                                         *)
(* Requests are the connections clients make.  The threads share the list  *)
(* of ProxyFilter, the descriptors of the process and the static result of *)
(* gethostbyname.  active_connections is left out: it is written and never *)
(* read, as close_forbidden_connections is never called.                   *)
(***************************************************************************)
EXTENDS ProxyFilter

CONSTANTS
    Requests,
    Hosts,          \* sites clients ask for
    MaxFds          \* descriptors the process may have for connections

ASSUME HandlerAssumption == Hosts \subseteq Nat \ {0} /\ MaxFds \in Nat \ {0}

VARIABLES
    pc,             \* pc[r]: where the thread for r is
    host,           \* host[r]: the site r asks for, 0 before it is known
    idx,            \* i of is_site_blocked
    calm,           \* history: signals when r's check began, -1 during a load
    hostent,        \* the static result of gethostbyname: a site, 0 at first
    addr,           \* addr[r]: the site whose address r connected to, or 0
    client_fd,      \* client_fd[r]: open
    server_fd,      \* server_fd[r]: open
    tls,            \* tls[r]: "none", "context" (ssl_ctx only) or "session" (ssl too)
    replies,        \* replies[r]: what was sent to the client, in order
    logged,         \* logged[r]: statuses written to the log for r
    torn            \* torn[r]: a loader wrote to the row while r compared it

handlerVars == <<pc, host, idx, calm, hostent, addr, client_fd, server_fd, tls, replies,
                 logged>>

HandlerInit ==
    /\ pc = [r \in Requests |-> "accept"]
    /\ host = [r \in Requests |-> 0]
    /\ idx = [r \in Requests |-> 0]
    /\ calm = [r \in Requests |-> -1]
    /\ hostent = 0
    /\ addr = [r \in Requests |-> 0]
    /\ client_fd = [r \in Requests |-> FALSE]
    /\ server_fd = [r \in Requests |-> FALSE]
    /\ tls = [r \in Requests |-> "none"]
    /\ replies = [r \in Requests |-> <<>>]
    /\ logged = [r \in Requests |-> {}]
    /\ torn = [r \in Requests |-> FALSE]

HandlerTypeOK ==
    /\ pc \in [Requests -> {"accept", "recv", "test", "compare", "refuse", "resolve",
                            "socket", "connect", "handshake", "method", "forward",
                            "finish", "done"}]
    /\ host \in [Requests -> Hosts \cup {0}]
    /\ idx \in [Requests -> 0..MaxSites]
    /\ calm \in [Requests -> -1..MaxSignals]
    /\ hostent \in Hosts \cup {0}
    /\ addr \in [Requests -> Hosts \cup {0}]
    /\ client_fd \in [Requests -> BOOLEAN]
    /\ server_fd \in [Requests -> BOOLEAN]
    /\ tls \in [Requests -> {"none", "context", "session"}]
    /\ replies \in [Requests -> Seq({400, 403, 501, 502, 200})]
    /\ logged \in [Requests -> SUBSET {200, 403}]
    /\ torn \in [Requests -> BOOLEAN]

-----------------------------------------------------------------------------
FdsInUse == Cardinality({r \in Requests : client_fd[r]})
          + Cardinality({r \in Requests : server_fd[r]})

Goto(r, label) == pc' = [pc EXCEPT ![r] = label]
Reply(r, status) == replies' = [replies EXCEPT ![r] = Append(@, status)]
CloseClient(r) == client_fd' = [client_fd EXCEPT ![r] = FALSE]
CloseServer(r) == server_fd' = [server_fd EXCEPT ![r] = FALSE]
SetTls(r, state) == tls' = [tls EXCEPT ![r] = state]

(* log_request, which does nothing when the log cannot be opened. *)
Log(r, status) ==
    \/ logged' = [logged EXCEPT ![r] = @ \cup {status}]
    \/ UNCHANGED logged

(* send_error, close(client_fd), return. *)
Fail(r, status) ==
    /\ Reply(r, status)
    /\ CloseClient(r)
    /\ Goto(r, "done")

(* accept fails while no descriptor is free.  When malloc or               *)
(* pthread_create fails the connection is closed at once.                  *)
Accept(r) ==
    /\ pc[r] = "accept"
    /\ FdsInUse < MaxFds
    /\ \/ /\ client_fd' = [client_fd EXCEPT ![r] = TRUE]
          /\ Goto(r, "recv")
       \/ /\ Goto(r, "done")
          /\ UNCHANGED client_fd
    /\ UNCHANGED <<host, idx, calm, hostent, addr, server_fd, replies, logged, tls, torn>>

(* recv returns nothing, the request line is refused, or the check starts. *)
Receive(r) ==
    /\ pc[r] = "recv"
    /\ \/ CloseClient(r) /\ Goto(r, "done") /\ UNCHANGED <<host, calm, replies>>
       \/ Fail(r, 400) /\ UNCHANGED <<host, calm>>
       \/ /\ \E h \in Hosts : host' = [host EXCEPT ![r] = h]
          /\ calm' = [calm EXCEPT ![r] = IF NoLoad THEN signals ELSE -1]
          /\ Goto(r, "test")
          /\ UNCHANGED <<client_fd, replies>>
    /\ UNCHANGED <<idx, hostent, addr, server_fd, logged, tls, torn>>

-----------------------------------------------------------------------------
(* The loop of is_site_blocked: the condition ... *)
StartCompare(r) ==
    /\ Goto(r, "compare")
    /\ torn' = [torn EXCEPT ![r] = idx[r] \in WritingRows]
CheckTestOffByOne(r) ==
    /\ pc[r] = "test"
    /\ IF idx[r] < num_forbidden_sites - 1
         THEN StartCompare(r)
         ELSE Goto(r, "resolve") /\ UNCHANGED torn
    /\ UNCHANGED <<host, idx, calm, hostent, addr, client_fd, server_fd, replies, logged, tls>>
CheckTest(r) ==
    /\ pc[r] = "test"
    /\ IF idx[r] < num_forbidden_sites
         THEN StartCompare(r)
         ELSE Goto(r, "resolve") /\ UNCHANGED torn
    /\ UNCHANGED <<host, idx, calm, hostent, addr, client_fd, server_fd, replies, logged, tls>>

(* What the comparisons say: anything when a loader was writing to the row *)
(* at some time since they began.                                          *)
Matches(r) == torn[r] \/ forbidden_sites[idx[r]] = host[r]
Mismatches(r) == torn[r] \/ forbidden_sites[idx[r]] # host[r]
CheckCompareStaying(r) ==
    /\ pc[r] = "compare"
    /\ \/ Matches(r) /\ Goto(r, "refuse") /\ UNCHANGED torn
       \/ Mismatches(r) /\ Goto(r, "test") /\ torn' = [torn EXCEPT ![r] = FALSE]
    /\ UNCHANGED <<host, idx, calm, hostent, addr, client_fd, server_fd, replies, logged, tls>>
CheckCompareInverted(r) ==
    /\ pc[r] = "compare"
    /\ \/ Mismatches(r) /\ Goto(r, "refuse") /\ UNCHANGED <<idx, torn>>
       \/ /\ Matches(r)
          /\ Goto(r, "test")
          /\ idx' = [idx EXCEPT ![r] = @ + 1]
          /\ torn' = [torn EXCEPT ![r] = FALSE]
    /\ UNCHANGED <<host, calm, hostent, addr, client_fd, server_fd, replies, logged, tls>>
(* ... and the body, which reads the row some time later. *)
CheckCompare(r) ==
    /\ pc[r] = "compare"
    /\ \/ Matches(r) /\ Goto(r, "refuse") /\ UNCHANGED <<idx, torn>>
       \/ /\ Mismatches(r)
          /\ Goto(r, "test")
          /\ idx' = [idx EXCEPT ![r] = @ + 1]
          /\ torn' = [torn EXCEPT ![r] = FALSE]
    /\ UNCHANGED <<host, calm, hostent, addr, client_fd, server_fd, replies, logged, tls>>

RefuseAndGoOn(r) ==
    /\ pc[r] = "refuse"
    /\ Reply(r, 403)
    /\ Log(r, 403)
    /\ Goto(r, "resolve")
    /\ UNCHANGED <<host, idx, calm, hostent, addr, client_fd, server_fd, tls, torn>>
Refuse(r) ==
    /\ pc[r] = "refuse"
    /\ Fail(r, 403)
    /\ Log(r, 403)
    /\ UNCHANGED <<host, idx, calm, hostent, addr, server_fd, tls, torn>>

-----------------------------------------------------------------------------
(* gethostbyname, which fails or writes its static result. *)
Resolve(r) ==
    /\ pc[r] = "resolve"
    /\ \/ Fail(r, 502) /\ UNCHANGED hostent
       \/ /\ hostent' = host[r]
          /\ Goto(r, "socket")
          /\ UNCHANGED <<client_fd, replies>>
    /\ UNCHANGED <<host, idx, calm, addr, server_fd, logged, tls, torn>>

OpenSocket(r) ==
    /\ pc[r] = "socket"
    /\ \/ /\ FdsInUse = MaxFds
          /\ Fail(r, 502)
          /\ UNCHANGED server_fd
       \/ /\ FdsInUse < MaxFds
          /\ server_fd' = [server_fd EXCEPT ![r] = TRUE]
          /\ Goto(r, "connect")
          /\ UNCHANGED <<client_fd, replies>>
    /\ UNCHANGED <<host, idx, calm, hostent, addr, logged, tls, torn>>

(* The address is copied from the static result only now. *)
Connect(r) ==
    /\ pc[r] = "connect"
    /\ \/ Fail(r, 502) /\ CloseServer(r) /\ UNCHANGED addr
       \/ /\ addr' = [addr EXCEPT ![r] = hostent]
          /\ Goto(r, "handshake")
          /\ UNCHANGED <<client_fd, server_fd, replies>>
    /\ UNCHANGED <<host, idx, calm, hostent, logged, tls, torn>>

(* SSL_CTX_new or SSL_connect fails, and everything is released; or there  *)
(* are no CA certificates to verify the server with, and server_fd stays   *)
(* open with the context; or the connection is ready.                      *)
HandshakeAbandoned(r) ==
    /\ pc[r] = "handshake"
    /\ \/ Fail(r, 502) /\ UNCHANGED <<server_fd, tls>>
       \/ Fail(r, 502) /\ SetTls(r, "context") /\ UNCHANGED server_fd
       \/ Goto(r, "method") /\ SetTls(r, "session") /\ UNCHANGED <<client_fd, server_fd, replies>>
    /\ UNCHANGED <<host, idx, calm, hostent, addr, logged, torn>>
Handshake(r) ==
    /\ pc[r] = "handshake"
    /\ \/ Fail(r, 502) /\ CloseServer(r) /\ UNCHANGED tls
       \/ Fail(r, 502) /\ SetTls(r, "context") /\ UNCHANGED server_fd
       \/ Goto(r, "method") /\ SetTls(r, "session") /\ UNCHANGED <<client_fd, server_fd, replies>>
    /\ UNCHANGED <<host, idx, calm, hostent, addr, logged, torn>>

(* A method other than GET and HEAD is turned down only now, and server_fd *)
(* stays open with its session.                                            *)
CheckMethod(r) ==
    /\ pc[r] = "method"
    /\ \/ Fail(r, 501)
       \/ Goto(r, "forward") /\ UNCHANGED <<client_fd, replies>>
    /\ UNCHANGED <<host, idx, calm, hostent, addr, server_fd, logged, tls, torn>>

(* The request goes out, and what the server sends until it closes goes to *)
(* the client: a response, or nothing at all.                              *)
Forward(r) ==
    /\ pc[r] = "forward"
    /\ Reply(r, 200) \/ UNCHANGED replies
    /\ Goto(r, "finish")
    /\ UNCHANGED <<host, idx, calm, hostent, addr, client_fd, server_fd, logged, tls, torn>>

FinishLoggingSize(r) ==
    /\ pc[r] = "finish"
    /\ Log(r, 0)
    /\ CloseServer(r)
    /\ SetTls(r, "none")
    /\ CloseClient(r)
    /\ Goto(r, "done")
    /\ UNCHANGED <<host, idx, calm, hostent, addr, replies, torn>>
Finish(r) ==
    /\ pc[r] = "finish"
    /\ Log(r, 200)
    /\ CloseServer(r)
    /\ SetTls(r, "none")
    /\ CloseClient(r)
    /\ Goto(r, "done")
    /\ UNCHANGED <<host, idx, calm, hostent, addr, replies, torn>>

HandlerStep(r) ==
    \/ Receive(r)
    \/ CheckTest(r)
    \/ CheckCompare(r)
    \/ Refuse(r)
    \/ Resolve(r)
    \/ OpenSocket(r)
    \/ Connect(r)
    \/ Handshake(r)
    \/ CheckMethod(r)
    \/ Forward(r)
    \/ Finish(r)
=============================================================================
