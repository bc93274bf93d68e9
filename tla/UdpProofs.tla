------------------------------ MODULE UdpProofs ------------------------------
(***************************************************************************)
(* Facts the proofs about the UDP programs share: arithmetic modulo the    *)
(* window size, sequences, and the types of the queues of Udp.             *)
(***************************************************************************)
EXTENDS Udp, SequenceTheorems, TLAPS

(* A positive multiple of w is at least w.                                 *)
LEMMA MulGe ==
  ASSUME NEW w \in Nat \ {0}, NEW k \in Int, k >= 1
  PROVE  w * k >= w
  OBVIOUS

(* A multiple of w that is not positive.                                   *)
LEMMA MulLe ==
  ASSUME NEW w \in Nat \ {0}, NEW k \in Int, k <= 0
  PROVE  w * k <= 0
  OBVIOUS

(* Division with remainder.                                                *)
LEMMA DivMod ==
  ASSUME NEW w \in Nat \ {0}, NEW i \in Nat
  PROVE  /\ i \div w \in Int
         /\ i % w \in 0..(w - 1)
         /\ i = w * (i \div w) + (i % w)
  OBVIOUS

(* Two numbers less than w apart differ modulo w: what makes seq % win_size *)
(* a safe index into the arrays of a window.                               *)
LEMMA ModDistinct ==
  ASSUME NEW w \in Nat \ {0}, NEW i \in Nat, NEW j \in Nat, i < j, j < i + w
  PROVE  i % w # j % w
<1> SUFFICES ASSUME i % w = j % w
             PROVE  FALSE
  OBVIOUS
<1> DEFINE a == i \div w
           b == j \div w
           q == b - a
<1>0. a \in Int /\ b \in Int /\ i = w * a + (i % w) /\ j = w * b + (i % w) /\ i % w \in Int
  BY DivMod
<1> HIDE DEF a, b
<1>1. q \in Int /\ j - i = w * q
  BY <1>0
<1> HIDE DEF q
<1>2. CASE q >= 1
  BY <1>1, <1>2, MulGe
<1>3. CASE q <= 0
  BY <1>1, <1>3, MulLe
<1> QED BY <1>1, <1>2, <1>3

(* The elements of a sequence.                                             *)
LEMMA SeqElements ==
  ASSUME NEW S, NEW q \in Seq(S)
  PROVE  \A k \in 1..Len(q) : q[k] \in S
  OBVIOUS

(* The elements of a concatenation.                                        *)
LEMMA ConcatElements ==
  ASSUME NEW S, NEW p \in Seq(S), NEW s \in Seq(S)
  PROVE  /\ p \o s \in [1..(Len(p) + Len(s)) -> S]
         /\ \A i \in 1..(Len(p) + Len(s)) :
               (p \o s)[i] = IF i <= Len(p) THEN p[i] ELSE s[i - Len(p)]
<1>1. p \o s \in Seq(S) /\ Len(p \o s) = Len(p) + Len(s)
  BY ConcatProperties
<1> QED BY <1>1, ConcatProperties, LenProperties

(* A function on 1..k is a sequence.                                       *)
LEMMA FunctionIsSeq ==
  ASSUME NEW S, NEW k \in Nat, NEW f \in [1..k -> S]
  PROVE  f \in Seq(S)
  BY SeqDef

(* What is left of a queue when its first element is taken.               *)
LEMMA TailElements ==
  ASSUME NEW S, NEW q \in Seq(S), q # <<>>
  PROVE  /\ Head(q) = q[1] /\ Head(q) \in S /\ 1 \in 1..Len(q)
         /\ Tail(q) \in Seq(S) /\ Len(Tail(q)) = Len(q) - 1 /\ Len(q) \in Nat \ {0}
         /\ \A k \in 1..(Len(q) - 1) : Tail(q)[k] = q[k + 1] /\ k + 1 \in 1..Len(q)
  OBVIOUS

(* A queue with one more element at its end.                               *)
LEMMA AppendElements ==
  ASSUME NEW S, NEW q \in Seq(S), NEW x \in S
  PROVE  /\ Append(q, x) \in Seq(S) /\ Len(Append(q, x)) = Len(q) + 1 /\ Len(q) \in Nat
         /\ \A k \in 1..Len(q) : Append(q, x)[k] = q[k]
         /\ Append(q, x)[Len(q) + 1] = x
  OBVIOUS

(* sendto of a packet keeps the types of the queues.                       *)
LEMMA SendPacketType ==
  ASSUME NEW P, NEW A, UdpTypeOK(P, A), NEW t \in Threads, NEW p \in P, SendPacket(t, p)
  PROVE  UdpTypeOK(P, A)'
  BY DEF UdpTypeOK, SendPacket

(* recvfrom of an ack keeps the types of the queues and yields an ack.     *)
LEMMA TakeAckType ==
  ASSUME NEW P, NEW A, UdpTypeOK(P, A), NEW t \in Threads, toClient[t] # <<>>, TakeAck(t)
  PROVE  UdpTypeOK(P, A)' /\ Head(toClient[t]) \in A
  BY DEF UdpTypeOK, TakeAck

(* recvfrom of a packet, and the acks sent for it, keep the types of the   *)
(* queues.                                                                 *)
LEMMA TakePacketType ==
  ASSUME NEW P, NEW A, UdpTypeOK(P, A), NEW t \in Threads, toServer[t] # <<>>,
         NEW acks \in Seq(A), TakePacket(t, acks)
  PROVE  UdpTypeOK(P, A)' /\ Head(toServer[t]) \in P
  BY DEF UdpTypeOK, TakePacket

(* Two datagrams that change places are still datagrams.                   *)
LEMMA SwapType ==
  ASSUME NEW S, NEW q \in Seq(S), NEW i \in 1..(Len(q) - 1)
  PROVE  SwapAt(q, i) \in Seq(S)
<1>1. SwapAt(q, i) \in [1..Len(q) -> S]
  BY DEF SwapAt
<1> QED BY <1>1, FunctionIsSeq

(* Where the datagram comes from that is k-th after a change of places.    *)
Moved(k, i) == IF k = i THEN i + 1 ELSE IF k = i + 1 THEN i ELSE k

(* They are the ones that were there before, each of them once.            *)
LEMMA SwapElements ==
  ASSUME NEW S, NEW q \in Seq(S), NEW i \in 1..(Len(q) - 1)
  PROVE  /\ \A k \in 1..Len(SwapAt(q, i)) :
               Moved(k, i) \in 1..Len(q) /\ SwapAt(q, i)[k] = q[Moved(k, i)]
         /\ \A j, k \in 1..Len(SwapAt(q, i)) : Moved(j, i) = Moved(k, i) => j = k
<1> DEFINE r == SwapAt(q, i)
<1>1. q \in [1..Len(q) -> S] /\ Len(q) \in Nat
  OBVIOUS
<1>2. r \in Seq(S)
  BY SwapType
<1>3. r = [q EXCEPT ![i] = q[i + 1], ![i + 1] = q[i]]
  BY DEF SwapAt
<1> HIDE DEF r
<1>4. DOMAIN r = 1..Len(q) /\ Len(r) = Len(q)
  BY <1>1, <1>2, <1>3
<1>5. i \in 1..Len(q) /\ i + 1 \in 1..Len(q)
  BY <1>1
<1>6. \A k \in 1..Len(r) : Moved(k, i) \in 1..Len(q)
  BY <1>4, <1>5 DEF Moved
<1>7. \A k \in 1..Len(r) : r[k] = q[Moved(k, i)]
  BY <1>1, <1>3, <1>4, <1>5 DEF Moved
<1>8. \A j, k \in 1..Len(r) : Moved(j, i) = Moved(k, i) => j = k
  BY <1>1, <1>4 DEF Moved
<1> QED BY <1>6, <1>7, <1>8 DEF r

(* Reordering keeps the types of the queues.                               *)
LEMMA ReorderType ==
  ASSUME NEW P, NEW A, UdpTypeOK(P, A), NEW t \in Threads, Reorder(t)
  PROVE  UdpTypeOK(P, A)'
<1>1. CASE /\ \E i \in 1..(Len(toServer[t]) - 1) :
                toServer' = [toServer EXCEPT ![t] = SwapAt(@, i)]
           /\ UNCHANGED <<toClient, losses>>
  BY <1>1, SwapType DEF UdpTypeOK
<1>2. CASE /\ \E i \in 1..(Len(toClient[t]) - 1) :
                toClient' = [toClient EXCEPT ![t] = SwapAt(@, i)]
           /\ UNCHANGED <<toServer, losses>>
  BY <1>2, SwapType DEF UdpTypeOK
<1> QED BY <1>1, <1>2 DEF Reorder
(* A second copy of a datagram is a datagram of its queue.                 *)
LEMMA CopyElements ==
  ASSUME NEW S, NEW q \in Seq(S), NEW i \in 1..Len(q)
  PROVE  /\ Append(q, q[i]) \in Seq(S) /\ Len(Append(q, q[i])) = Len(q) + 1 /\ Len(q) \in Nat
         /\ \A k \in 1..Len(q) : Append(q, q[i])[k] = q[k]
         /\ \A k \in 1..Len(Append(q, q[i])) : \E j \in 1..Len(q) : Append(q, q[i])[k] = q[j]
<1>1. q[i] \in S
  BY SeqElements
<1>2. /\ Append(q, q[i]) \in Seq(S) /\ Len(Append(q, q[i])) = Len(q) + 1 /\ Len(q) \in Nat
      /\ \A k \in 1..Len(q) : Append(q, q[i])[k] = q[k]
      /\ Append(q, q[i])[Len(q) + 1] = q[i]
  BY <1>1, AppendElements
<1>3. ASSUME NEW k \in 1..Len(Append(q, q[i]))
      PROVE  \E j \in 1..Len(q) : Append(q, q[i])[k] = q[j]
  <2>1. k \in 1..Len(q) \/ k = Len(q) + 1
    BY <1>2
  <2> QED BY <1>2, <2>1
<1> QED BY <1>2, <1>3

(* Duplication keeps the types of the queues.                              *)
LEMMA DuplicateType ==
  ASSUME NEW P, NEW A, UdpTypeOK(P, A), NEW t \in Threads, Duplicate(t)
  PROVE  UdpTypeOK(P, A)'
<1>1. ASSUME NEW i \in 1..Len(toServer[t]), DuplicatePacket(t, i)
      PROVE  UdpTypeOK(P, A)'
  BY <1>1, CopyElements DEF UdpTypeOK, DuplicatePacket
<1>2. ASSUME NEW i \in 1..Len(toClient[t]), DuplicateAck(t, i)
      PROVE  UdpTypeOK(P, A)'
  BY <1>2, CopyElements DEF UdpTypeOK, DuplicateAck
<1> QED BY <1>1, <1>2 DEF Duplicate

(* Whatever is under way after a change of places or a duplication was     *)
(* under way before.                                                       *)
LEMMA DisorderElements ==
  ASSUME NEW P, NEW A, UdpTypeOK(P, A), NEW t \in Threads, Reorder(t) \/ Duplicate(t),
         NEW u \in Threads
  PROVE  /\ \A k \in 1..Len(toServer'[u]) :
               \E j \in 1..Len(toServer[u]) : toServer'[u][k] = toServer[u][j]
         /\ \A k \in 1..Len(toClient'[u]) :
               \E j \in 1..Len(toClient[u]) : toClient'[u][k] = toClient[u][j]
<1>1. toServer[u] \in Seq(P) /\ toClient[u] \in Seq(A)
  BY DEF UdpTypeOK
<1>2. /\ \/ UNCHANGED toServer[u]
         \/ \E i \in 1..(Len(toServer[u]) - 1) : toServer'[u] = SwapAt(toServer[u], i)
         \/ \E i \in 1..Len(toServer[u]) : toServer'[u] = Append(toServer[u], toServer[u][i])
      /\ \/ UNCHANGED toClient[u]
         \/ \E i \in 1..(Len(toClient[u]) - 1) : toClient'[u] = SwapAt(toClient[u], i)
         \/ \E i \in 1..Len(toClient[u]) : toClient'[u] = Append(toClient[u], toClient[u][i])
  BY DEF Reorder, Duplicate, DuplicatePacket, DuplicateAck, UdpTypeOK
<1>3. \A k \in 1..Len(toServer'[u]) :
         \E j \in 1..Len(toServer[u]) : toServer'[u][k] = toServer[u][j]
  <2> DEFINE q == toServer[u]
             r == toServer'[u]
  <2>1. /\ q \in Seq(P)
        /\ \/ r = q
           \/ \E i \in 1..(Len(q) - 1) : r = SwapAt(q, i)
           \/ \E i \in 1..Len(q) : r = Append(q, q[i])
    BY <1>1, <1>2
  <2> HIDE DEF q, r
  <2>2. \A k \in 1..Len(r) : \E j \in 1..Len(q) : r[k] = q[j]
    <3>1. CASE r = q
      BY <3>1
    <3>2. ASSUME NEW i \in 1..(Len(q) - 1), r = SwapAt(q, i)
          PROVE  \A k \in 1..Len(r) : \E j \in 1..Len(q) : r[k] = q[j]
      BY <2>1, <3>2, SwapElements
    <3>3. ASSUME NEW i \in 1..Len(q), r = Append(q, q[i])
          PROVE  \A k \in 1..Len(r) : \E j \in 1..Len(q) : r[k] = q[j]
      BY <2>1, <3>3, CopyElements
    <3> QED BY <2>1, <3>1, <3>2, <3>3
  <2> QED BY <2>2 DEF q, r
<1>4. \A k \in 1..Len(toClient'[u]) :
         \E j \in 1..Len(toClient[u]) : toClient'[u][k] = toClient[u][j]
  <2> DEFINE q == toClient[u]
             r == toClient'[u]
  <2>1. /\ q \in Seq(A)
        /\ \/ r = q
           \/ \E i \in 1..(Len(q) - 1) : r = SwapAt(q, i)
           \/ \E i \in 1..Len(q) : r = Append(q, q[i])
    BY <1>1, <1>2
  <2> HIDE DEF q, r
  <2>2. \A k \in 1..Len(r) : \E j \in 1..Len(q) : r[k] = q[j]
    <3>1. CASE r = q
      BY <3>1
    <3>2. ASSUME NEW i \in 1..(Len(q) - 1), r = SwapAt(q, i)
          PROVE  \A k \in 1..Len(r) : \E j \in 1..Len(q) : r[k] = q[j]
      BY <2>1, <3>2, SwapElements
    <3>3. ASSUME NEW i \in 1..Len(q), r = Append(q, q[i])
          PROVE  \A k \in 1..Len(r) : \E j \in 1..Len(q) : r[k] = q[j]
      BY <2>1, <3>3, CopyElements
    <3> QED BY <2>1, <3>1, <3>2, <3>3
  <2> QED BY <2>2 DEF q, r
<1> QED BY <1>3, <1>4
=============================================================================
