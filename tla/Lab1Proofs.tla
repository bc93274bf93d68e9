------------------------------ MODULE Lab1Proofs ------------------------------
(***************************************************************************)
(* lab1's client, for responses of every length and a buffer of every      *)
(* size: what a run that ends with status 0 has written, and when          *)
(* output.dat is emptied.                                                  *)
(*                                                                         *)
(* IInv says what is settled at each place of the program: only a socket   *)
(* that blocks again is read (Blocking), so that recv fails for a reset    *)
(* only, and the loop ends with everything read or with a complaint        *)
(* (Ended).                                                                *)
(***************************************************************************)
EXTENDS Lab1Client, SequenceTheorems, TLAPS

Places == {"start", "connect", "select", "soError", "restore", "request", "open",
           "receive", "finish", "exit"}
Types ==
    /\ pc \in Places
    /\ head \in BOOLEAN
    /\ exit_status \in {Running, 0, 1}
    /\ nonblocking \in BOOLEAN
    /\ connection \in {"none", "pending", "up", "refused"}
    /\ peer \in {"open", "closed", "reset"}
    /\ requested \in BOOLEAN
    /\ response \in Seq({"text", "nul"})
    /\ read \in 0..Len(response)
    /\ created \in BOOLEAN
    /\ write_failed \in BOOLEAN
    /\ complained \in BOOLEAN

Blocking == pc \in {"request", "open", "receive", "finish"} => ~nonblocking
Established ==
    /\ pc \in {"restore", "request", "open", "receive", "finish"} => connection = "up"
    /\ requested => connection = "up" /\ pc \in {"open", "receive", "finish", "exit"}
    /\ pc \in {"open", "receive", "finish"} => requested
    /\ created => requested /\ ~head
WrittenSoFar == "nul" \notin ToSet(response) /\ ~write_failed => saved = [i \in 1..read |-> i]
Ended ==
    /\ exit_status = Running <=> pc # "exit"
    /\ complained => pc \in {"finish", "exit"}
    /\ pc = "finish" \/ exit_status = 0 =>
          \/ peer = "closed" /\ ~complained /\ read = Len(response)
          \/ peer = "reset" /\ complained

IInv == Types /\ Blocking /\ Established /\ WrittenSoFar /\ Ended

-----------------------------------------------------------------------------
(* Two numbers have a smaller one.                                         *)
LEMMA MinOfTwo ==
  ASSUME NEW a \in Int, NEW b \in Int
  PROVE  Min({a, b}) <= a /\ Min({a, b}) <= b /\ Min({a, b}) \in {a, b}
<1>1. \E x \in {a, b} : \A y \in {a, b} : x <= y
  BY a <= b \/ b <= a
<1> QED BY <1>1 DEF Min

(* Without a NUL byte "%s" writes all that recv returned.                  *)
LEMMA NoNulAllWritten ==
  ASSUME Types, "nul" \notin ToSet(response), NEW n \in Nat, read + n <= Len(response)
  PROVE  UpToNul(n) = [i \in 1..n |-> read + i]
<1>1. {i \in (read + 1)..(read + n) : response[i] = "nul"} = {}
  <2>1. \A i \in (read + 1)..(read + n) : i \in 1..Len(response)
    BY DEF Types
  <2>2. DOMAIN response = 1..Len(response)
    BY DEF Types
  <2> QED BY <2>1, <2>2 DEF ToSet
<1> QED BY <1>1 DEF UpToNul

(* Two runs of consecutive positions make one.                             *)
LEMMA PositionsConcat ==
  ASSUME NEW k \in Nat, NEW n \in Nat
  PROVE  [i \in 1..k |-> i] \o [i \in 1..n |-> k + i] = [i \in 1..(k + n) |-> i]
<1> DEFINE p == [i \in 1..k |-> i]
<1> DEFINE q == [i \in 1..n |-> k + i]
<1>1. p \in Seq(Nat) /\ q \in Seq(Nat) /\ Len(p) = k /\ Len(q) = n
  OBVIOUS
<1>2. /\ \A i \in 1..k : p[i] = i
      /\ \A i \in 1..n : q[i] = k + i
  OBVIOUS
<1> HIDE DEF p, q
<1>3. p \o q = [i \in 1..(k + n) |-> IF i <= k THEN p[i] ELSE q[i - k]]
  <2>1. p \o q \in Seq(Nat) /\ Len(p \o q) = k + n
    BY <1>1, ConcatProperties
  <2>2. \A i \in 1..(k + n) : (p \o q)[i] = IF i <= k THEN p[i] ELSE q[i - k]
    BY <1>1, ConcatProperties
  <2>3. p \o q \in [1..(k + n) -> Nat]
    BY <2>1, LenProperties
  <2> QED BY <2>2, <2>3
<1>4. \A i \in 1..(k + n) : (IF i <= k THEN p[i] ELSE q[i - k]) = i
  <2> SUFFICES ASSUME NEW i \in 1..(k + n)
               PROVE  (IF i <= k THEN p[i] ELSE q[i - k]) = i
    OBVIOUS
  <2>1. CASE i <= k
    <3>1. i \in 1..k
      BY <2>1
    <3> QED BY <1>2, <2>1, <3>1
  <2>2. CASE ~ (i <= k)
    <3>1. i - k \in 1..n /\ k + (i - k) = i
      BY <2>2
    <3>2. q[i - k] = i
      BY <1>2, <3>1
    <3> QED BY <2>2, <3>2
  <2> QED BY <2>1, <2>2
<1> QED BY <1>3, <1>4 DEF p, q

-----------------------------------------------------------------------------
(* The invariant holds initially.                                          *)
LEMMA IInvInit == Init => IInv
<1> SUFFICES ASSUME Init
             PROVE  IInv
  OBVIOUS
<1> USE DEF Init, Running
<1>1. Types
  <2>1. <<>> \in Seq({"text", "nul"}) /\ 0 \in 0..Len(<<>>)
    OBVIOUS
  <2>2. "start" \in Places
    BY DEF Places
  <2> QED BY <2>1, <2>2 DEF Types
<1>2. WrittenSoFar
  <2>1. saved = <<>> /\ read = 0
    OBVIOUS
  <2>2. <<>> = [i \in 1..0 |-> i]
    OBVIOUS
  <2> QED BY <2>1, <2>2 DEF WrittenSoFar
<1> QED BY <1>1, <1>2 DEF IInv, Blocking, Established, Ended

(* The steps that read and write nothing of the response.                  *)
LEMMA ControlStep ==
  ASSUME IInv,
         \/ Start \/ Connect \/ Select \/ CheckSoError \/ RestoreBlocking \/ SendRequest
         \/ OpenOutput \/ ReceiveEnd \/ ReceiveError \/ Decide \/ PeerEnds
  PROVE  IInv'
<1> USE DEF IInv, clientVars, transferVars, Goto, Exit, Running
<1>0. UNCHANGED <<response, read, saved, write_failed>>
  BY DEF Start, Connect, Select, CheckSoError, RestoreBlocking, SendRequest, OpenOutput,
         ReceiveEnd, ReceiveError, Decide, PeerEnds
<1>1. Types'
  <2>1. pc' \in Places
    BY DEF Types, Places, Start, Connect, Select, CheckSoError, RestoreBlocking, SendRequest,
           OpenOutput, ReceiveEnd, ReceiveError, Decide, PeerEnds
  <2>2. exit_status' \in {-1, 0, 1} /\ head' \in BOOLEAN /\ nonblocking' \in BOOLEAN
    BY DEF Types, Start, Connect, Select, CheckSoError, RestoreBlocking, SendRequest,
           OpenOutput, ReceiveEnd, ReceiveError, Decide, PeerEnds
  <2>3. connection' \in {"none", "pending", "up", "refused"} /\ peer' \in {"open", "closed", "reset"}
    BY DEF Types, Start, Connect, Select, CheckSoError, RestoreBlocking, SendRequest,
           OpenOutput, ReceiveEnd, ReceiveError, Decide, PeerEnds
  <2>4. requested' \in BOOLEAN /\ created' \in BOOLEAN /\ complained' \in BOOLEAN
    BY DEF Types, Start, Connect, Select, CheckSoError, RestoreBlocking, SendRequest,
           OpenOutput, ReceiveEnd, ReceiveError, Decide, PeerEnds
  <2> QED BY <1>0, <2>1, <2>2, <2>3, <2>4 DEF Types
<1>2. Blocking'
  BY <1>0 DEF Types, Blocking, Start, Connect, Select, CheckSoError, RestoreBlocking, SendRequest,
         OpenOutput, ReceiveEnd, ReceiveError, Decide, PeerEnds
<1>3. Established'
  BY <1>0 DEF Types, Established, Start, Connect, Select, CheckSoError, RestoreBlocking,
         SendRequest, OpenOutput, ReceiveEnd, ReceiveError, Decide, PeerEnds
<1>4. WrittenSoFar'
  BY <1>0 DEF WrittenSoFar
<1>5. Ended'
  <2>1. ReceiveEnd => peer = "closed" /\ read = Len(response) /\ ~complained
    BY DEF ReceiveEnd, Pending, Types, Ended
  <2>2. ReceiveError => peer = "reset"
    BY DEF ReceiveError, RecvFails, Blocking
  <2> QED BY <1>0, <2>1, <2>2 DEF Types, Ended, Start, Connect, Select, CheckSoError, RestoreBlocking,
         SendRequest, OpenOutput, ReceiveEnd, ReceiveError, Decide, PeerEnds
<1> QED BY <1>1, <1>2, <1>3, <1>4, <1>5

(* The end of the program may lose output, and then a write has failed.    *)
LEMMA FinishStep ==
  ASSUME IInv, Finish
  PROVE  IInv'
<1> USE DEF IInv, Exit, Running
<1>1. /\ pc = "finish" /\ pc' = "exit" /\ exit_status' = 0
      /\ UNCHANGED <<head, nonblocking, connection, peer, response, requested, read, created,
                     complained>>
  BY DEF Finish
<1>2. UNCHANGED <<saved, write_failed>> \/ write_failed' = TRUE
  BY DEF Finish
<1>3. Types'
  BY <1>1, <1>2 DEF Types, Places
<1>4. WrittenSoFar'
  BY <1>1, <1>2 DEF WrittenSoFar, ToSet
<1> QED BY <1>1, <1>3, <1>4 DEF Types, Blocking, Established, Ended

(* recv takes some of the bytes that are there, and they are written out   *)
(* up to a NUL.                                                            *)
LEMMA ReceiveStep ==
  ASSUME IInv, Receive
  PROVE  IInv'
<1> USE DEF IInv
<1>1. PICK n \in 1..Min({Pending, BufSize}) :
             /\ read' = read + n
             /\ \/ saved' = saved \o UpToNul(n) /\ UNCHANGED write_failed
                \/ write_failed' = TRUE
  BY DEF Receive
<1>2. /\ UNCHANGED <<pc, head, exit_status, nonblocking, connection, peer, response, requested,
                     created, complained>>
      /\ pc = "receive"
  BY DEF Receive
<1>3. read \in Nat /\ Len(response) \in Nat
  BY DEF Types
<1>4. n \in Nat /\ read + n <= Len(response)
  <2>1. Pending \in Int /\ BufSize \in Int
    BY <1>3, Lab1Assumption DEF Pending
  <2>2. Min({Pending, BufSize}) <= Pending /\ Min({Pending, BufSize}) \in Int
    BY <2>1, MinOfTwo
  <2> QED BY <1>3, <2>2 DEF Pending
<1>5. read' \in 0..Len(response)
  BY <1>1, <1>3, <1>4
<1>6. WrittenSoFar'
  <2> SUFFICES ASSUME "nul" \notin ToSet(response), ~write_failed'
               PROVE  saved' = [i \in 1..(read + n) |-> i]
    BY <1>1, <1>2 DEF WrittenSoFar, ToSet
  <2>1. saved = [i \in 1..read |-> i]
    BY <1>1 DEF WrittenSoFar
  <2>2. UpToNul(n) = [i \in 1..n |-> read + i]
    BY <1>4, NoNulAllWritten
  <2> QED BY <1>1, <1>3, <1>4, <2>1, <2>2, PositionsConcat
<1>7. write_failed' \in BOOLEAN
  BY <1>1 DEF Types
<1> QED BY <1>2, <1>5, <1>6, <1>7, Lab1Assumption DEF Types, Blocking, Established, Ended, Running

(* The server only sends while it has not ended the connection, so that    *)
(* nothing follows what the client took for the end.                       *)
LEMMA PeerSendsStep ==
  ASSUME IInv, PeerSends
  PROVE  IInv'
<1> USE DEF IInv, clientVars
<1>1. PICK byte \in {"text", "nul"} : response' = Append(response, byte)
  BY DEF PeerSends
<1>2. UNCHANGED <<clientVars, connection, peer>> /\ peer = "open"
  BY DEF PeerSends
<1>3. /\ response' \in Seq({"text", "nul"}) /\ Len(response') = Len(response) + 1
      /\ Len(response) \in Nat /\ read \in 0..Len(response')
  BY <1>1 DEF Types
<1>4. "nul" \notin ToSet(response') => "nul" \notin ToSet(response)
  <2>1. \A i \in 1..Len(response) : response'[i] = response[i] /\ i \in 1..Len(response')
    BY <1>1, <1>3 DEF Types
  <2>2. DOMAIN response = 1..Len(response) /\ DOMAIN response' = 1..Len(response')
    BY <1>3 DEF Types
  <2> QED BY <2>1, <2>2 DEF ToSet
<1>5. WrittenSoFar'
  BY <1>2, <1>4 DEF WrittenSoFar, ToSet
<1> QED BY <1>2, <1>3, <1>5 DEF Types, Blocking, Established, Ended, Running

(* The invariant is inductive.                                             *)
LEMMA IInvStep ==
  ASSUME IInv, [Next]_vars
  PROVE  IInv'
<1>1. CASE Receive
  BY <1>1, ReceiveStep
<1>2. CASE PeerSends
  BY <1>2, PeerSendsStep
<1>3. CASE \/ Start \/ Connect \/ Select \/ CheckSoError \/ RestoreBlocking \/ SendRequest
           \/ OpenOutput \/ ReceiveEnd \/ ReceiveError \/ Decide \/ PeerEnds
  BY <1>3, ControlStep
<1>5. CASE Finish
  BY <1>5, FinishStep
<1>4. CASE UNCHANGED vars
  BY <1>4 DEF vars, clientVars, IInv, Types, Blocking, Established, WrittenSoFar, Ended, ToSet
<1> QED BY <1>1, <1>2, <1>3, <1>4, <1>5 DEF Next, Client

(* For a buffer of any size and a response of any length, IInv is an       *)
(* invariant of lab1.                                                      *)
THEOREM InvariantHolds == Spec => []IInv
<1>1. Spec => Init /\ [][Next]_vars
  BY PTL DEF Spec
<1>2. IInv /\ [Next]_vars => IInv'
  BY IInvStep
<1> QED BY <1>1, <1>2, IInvInit, PTL

(* A run that ends with status 0 has complained of a reset, or has written *)
(* every byte of the response, in order and once, unless a write failed.   *)
THEOREM WholeOrComplainedCorrect == Spec => []WholeOrComplained
<1>1. IInv => WholeOrComplained
  BY DEF IInv, WholeOrComplained, WrittenSoFar, Ended, Running
<1> QED BY <1>1, InvariantHolds, PTL

(* output.dat is only emptied for a GET request that went out over an      *)
(* established connection.                                                 *)
THEOREM CreatedMeansRequestedCorrect == Spec => []CreatedMeansRequested
<1>1. IInv => CreatedMeansRequested
  BY DEF IInv, CreatedMeansRequested, Established
<1> QED BY <1>1, InvariantHolds, PTL
=============================================================================
