----------------------------- MODULE Lab1Client -----------------------------
(***************************************************************************)
(* lab1/src/myweb.c: a GET or HEAD request over one TCP connection.  The   *)
(* socket is non-blocking while it connects, so that select can limit the  *)
(* wait, and blocking again for the transfer.  The response is written to  *)
(* output.dat, or to the terminal for HEAD, as C strings.                  *)
(*                                                                         *)
(* The server and TCP are the environment: a connection comes up, is       *)
(* refused or stays pending; an accepted one delivers bytes and is closed  *)
(* or reset.  A byte is named by its position; all that matters of its     *)
(* value is whether it is NUL.                                             *)
(***************************************************************************)
EXTENDS Integers, Sequences, SequencesExt

CONSTANTS
    BufSize,    \* bytes one recv may return: sizeof(buffer) - 1
    MaxLen      \* bound: bytes of a response

ASSUME Lab1Assumption == BufSize \in Nat \ {0} /\ MaxLen \in Nat

VARIABLES
    pc,
    head,           \* the -h option
    exit_status,    \* Running until the process ends
    nonblocking,    \* O_NONBLOCK is set
    connection,     \* "none", "pending", "up" or "refused"
    peer,           \* the server's end: "open", "closed" or "reset"
    requested,      \* the request was sent
    response,       \* what the server sent: "text" and "nul" bytes
    read,           \* bytes of it that recv returned
    created,        \* output.dat was opened, which makes it empty
    saved,          \* positions of the bytes that were written out
    write_failed,   \* writing the output has failed once, which nothing looks at
    complained      \* "Failed to receive response" was printed

clientVars == <<pc, head, exit_status, nonblocking, requested, read, created, saved,
                write_failed, complained>>
vars == <<clientVars, connection, peer, response>>

Running == -1

Init ==
    /\ pc = "start"
    /\ head \in BOOLEAN
    /\ exit_status = Running
    /\ nonblocking = FALSE
    /\ connection = "none"
    /\ peer = "open"
    /\ requested = FALSE
    /\ response = <<>>
    /\ read = 0
    /\ created = FALSE
    /\ saved = <<>>
    /\ write_failed = FALSE
    /\ complained = FALSE

Exit(status) ==
    /\ pc' = "exit"
    /\ exit_status' = status

Goto(label) == pc' = label /\ UNCHANGED exit_status

transferVars == <<requested, read, created, saved, write_failed, complained>>

-----------------------------------------------------------------------------
(* parse_url and create_socket, either of which may fail. *)
Start ==
    /\ pc = "start"
    /\ Goto("connect") \/ Exit(1)
    /\ UNCHANGED <<head, nonblocking, connection, peer, response, transferVars>>

(* connect succeeds at once, goes on in the background, or fails. *)
Connect ==
    /\ pc = "connect"
    /\ nonblocking' = TRUE
    /\ \/ connection' = "up" /\ Goto("restore")
       \/ connection' = "pending" /\ Goto("select")
       \/ Exit(1) /\ UNCHANGED connection
    /\ UNCHANGED <<head, peer, response, transferVars>>

SelectForEver ==
    /\ pc = "select"
    /\ connection # "pending"
    /\ Goto("soError")
    /\ UNCHANGED <<head, nonblocking, connection, peer, response, transferVars>>
(* select reports a connection that is up or refused; it times out while   *)
(* it is pending, and may fail.                                            *)
Select ==
    /\ pc = "select"
    /\ \/ connection # "pending" /\ Goto("soError")
       \/ Exit(1)
    /\ UNCHANGED <<head, nonblocking, connection, peer, response, transferVars>>

CheckSoError ==
    /\ pc = "soError"
    /\ \/ connection = "up" /\ peer # "reset" /\ Goto("restore")
       \/ Exit(1)
    /\ UNCHANGED <<head, nonblocking, connection, peer, response, transferVars>>

RestoreNothing ==
    /\ pc = "restore"
    /\ Goto("request")
    /\ UNCHANGED <<head, nonblocking, connection, peer, response, transferVars>>
RestoreBlocking ==
    /\ pc = "restore"
    /\ \/ nonblocking' = FALSE /\ Goto("request")
       \/ Exit(1) /\ UNCHANGED nonblocking
    /\ UNCHANGED <<head, connection, peer, response, transferVars>>

SendRequestUnchecked ==
    /\ pc = "request"
    /\ requested' \in {peer # "reset", FALSE}
    /\ Goto("open")
    /\ UNCHANGED <<head, nonblocking, connection, peer, response, read, created, saved,
                   write_failed, complained>>
SendRequest ==
    /\ pc = "request"
    /\ \/ peer # "reset" /\ requested' = TRUE /\ Goto("open")
       \/ Exit(1) /\ UNCHANGED requested
    /\ UNCHANGED <<head, nonblocking, connection, peer, response, read, created, saved,
                   write_failed, complained>>

OpenOutput ==
    /\ pc = "open"
    /\ \/ head /\ Goto("receive") /\ UNCHANGED created
       \/ ~head /\ created' = TRUE /\ Goto("receive")
       \/ ~head /\ Exit(1) /\ UNCHANGED created
    /\ UNCHANGED <<head, nonblocking, connection, peer, response, requested, read, saved,
                   write_failed, complained>>

-----------------------------------------------------------------------------
Pending == Len(response) - read

(* What "%s" writes of the n bytes that recv returned. *)
UpToNul(n) ==
    LET nuls == {i \in (read + 1)..(read + n) : response[i] = "nul"} IN
    [i \in 1..(IF nuls = {} THEN n ELSE Min(nuls) - read - 1) |-> read + i]

(* recv returns some of the bytes that are there; writing them may fail    *)
(* with a part of them written.                                            *)
Receive ==
    /\ pc = "receive"
    /\ \E n \in 1..Min({Pending, BufSize}) :
          /\ read' = read + n
          /\ \/ saved' = saved \o UpToNul(n) /\ UNCHANGED write_failed
             \/ \E k \in 0..Len(UpToNul(n)) :
                   saved' = saved \o SubSeq(UpToNul(n), 1, k) /\ write_failed' = TRUE
    /\ UNCHANGED <<pc, head, exit_status, nonblocking, connection, peer, response, requested,
                   created, complained>>

(* The server closed and everything is read: recv returns 0. *)
ReceiveEnd ==
    /\ pc = "receive"
    /\ peer = "closed" /\ Pending = 0
    /\ Goto("finish")
    /\ UNCHANGED <<head, nonblocking, connection, peer, response, transferVars>>

(* recv returns -1, which is reported and not an error of the program: the *)
(* connection was reset, or the socket would have to wait.                 *)
RecvFails == peer = "reset" \/ (nonblocking /\ Pending = 0)
ReceiveError ==
    /\ pc = "receive"
    /\ RecvFails
    /\ complained' = TRUE
    /\ Goto("finish")
    /\ UNCHANGED <<head, nonblocking, connection, peer, response, requested, read, created, saved,
                   write_failed>>

(* fclose for GET, and the end of the process for HEAD, writes what stdio  *)
(* still holds.  When that fails the end of the output is lost, and the    *)
(* status is 0 all the same.                                               *)
Finish ==
    /\ pc = "finish"
    /\ \/ UNCHANGED <<saved, write_failed>>
       \/ \E k \in 0..Len(saved) : saved' = SubSeq(saved, 1, k) /\ write_failed' = TRUE
    /\ Exit(0)
    /\ UNCHANGED <<head, nonblocking, connection, peer, response, requested, read, created,
                   complained>>

Client ==
    \/ Start
    \/ Connect
    \/ Select
    \/ CheckSoError
    \/ RestoreBlocking
    \/ SendRequest
    \/ OpenOutput
    \/ Receive
    \/ ReceiveEnd
    \/ ReceiveError
    \/ Finish

-----------------------------------------------------------------------------
(* TCP decides on a pending connection, if ever. *)
Decide ==
    /\ connection = "pending"
    /\ connection' \in {"up", "refused"}
    /\ UNCHANGED <<clientVars, peer, response>>

PeerSends ==
    /\ connection = "up" /\ requested /\ peer = "open"
    /\ Len(response) < MaxLen
    /\ \E byte \in {"text", "nul"} : response' = Append(response, byte)
    /\ UNCHANGED <<clientVars, connection, peer>>

(* The server ends the connection, as "Connection: close" asks for. *)
PeerEnds ==
    /\ connection = "up" /\ peer = "open"
    /\ peer' \in {"closed", "reset"}
    /\ UNCHANGED <<clientVars, connection, response>>

Next == Client \/ Decide \/ PeerSends \/ PeerEnds

(* The program goes on, select returns, and a server that accepted the     *)
(* connection ends it; that a pending connection is decided is not assumed.*)
Spec == Init /\ [][Next]_vars /\ WF_vars(Client) /\ WF_vars(PeerEnds)

-----------------------------------------------------------------------------
(* A run that ends with status 0 has complained exactly when the server    *)
(* reset the connection.  If it has not, it has written the whole response *)
(* in order, however recv cut it into pieces; unless the response holds a  *)
(* NUL byte or a write failed, which the program does not report.          *)
WholeOrComplained ==
    exit_status = 0 /\ "nul" \notin ToSet(response) =>
        \/ peer = "closed" /\ ~complained
              /\ (write_failed \/ saved = [i \in 1..Len(response) |-> i])
        \/ peer = "reset" /\ complained

(* "It shouldn't create output.dat": the file of an earlier run is only    *)
(* emptied for a GET request that went out over an established connection. *)
CreatedMeansRequested == created => requested /\ connection = "up" /\ ~head

(* Whatever the server does or does not answer to the connection request,  *)
(* the client ends: "Connection timed out".                                *)
Ends == <>(exit_status # Running)
=============================================================================
