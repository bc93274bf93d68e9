------------------------------ MODULE Lab2Proofs ------------------------------
(***************************************************************************)
(* lab2, on a path that loses, doubles and reorders datagrams: a client    *)
(* that reports success has an initial part of its own file, and on an     *)
(* undisturbed path there is never a gap, and the EOF marker comes last.   *)
(*                                                                         *)
(* The proof is of IInv of Lab2Invariant: the steps of a client, of the    *)
(* server on one client's datagram and of the path each change only that   *)
(* client's variables (Frame).  Every datagram is one its client has sent  *)
(* (PacketsInv), whatever happens to it on the way.                        *)
(***************************************************************************)
EXTENDS Lab2Invariant, UdpProofs, FiniteSetTheorems

(* A packet carries at least one byte. *)
LEMMA PayloadPositive == Payload \in Nat \ {0}
  BY ClientAssumption DEF Payload, IntSize

(* Where packets begin: each begins where the one before it ends.          *)
LEMMA OffsetType ==
  ASSUME NEW n \in Nat
  PROVE  Offset(n) \in Nat
<1>1. ASSUME NEW p \in Nat
      PROVE  n * p \in Nat
  OBVIOUS
<1> QED BY <1>1, PayloadPositive DEF Offset

LEMMA OffsetGrows ==
  ASSUME NEW m \in Nat, NEW n \in Nat, m < n
  PROVE  Offset(m) + Payload <= Offset(n)
<1>1. ASSUME NEW p \in Nat, NEW d \in Nat
      PROVE  m * p + p <= (m + (d + 1)) * p
  <2>1. (m + (d + 1)) * p = m * p + (d * p + p)
    OBVIOUS
  <2>2. d * p \in Nat /\ m * p \in Nat
    OBVIOUS
  <2> QED BY <2>1, <2>2
<1>2. n - m - 1 \in Nat /\ m + ((n - m - 1) + 1) = n
  OBVIOUS
<1> QED BY <1>1, <1>2, PayloadPositive DEF Offset

(* Every position of a file lies in exactly the packet that division says. *)
LEMMA InSomePacket ==
  ASSUME NEW i \in Nat \ {0}
  PROVE  \E n \in Nat : Offset(n) < i /\ i <= Offset(n) + Payload
<1> DEFINE p == Payload
           n == (i - 1) \div p
           r == (i - 1) % p
<1>1. p \in Nat \ {0} /\ i - 1 \in Nat
  BY PayloadPositive
<1>2. n \in Int /\ r \in 0..(p - 1) /\ i - 1 = p * n + r
  BY <1>1, DivMod
<1> HIDE DEF p, n, r
<1>3. n \in Nat
  <2>1. CASE n <= 0 - 1
    <3>1. p * n <= 0 - p
      <4>1. p * (0 - n) >= p
        BY <1>1, <1>2, <2>1, MulGe
      <4>2. p * (0 - n) = 0 - p * n
        BY <1>1, <1>2
      <4>3. p * n \in Int
        BY <1>1, <1>2
      <4> QED BY <1>1, <4>1, <4>2, <4>3
    <3>2. p * n \in Int
      BY <1>1, <1>2
    <3> QED BY <1>1, <1>2, <3>1, <3>2
  <2> QED BY <1>2, <2>1
<1>4. n * p = p * n /\ n * p \in Nat
  BY <1>1, <1>3
<1>5. Offset(n) = n * p
  BY DEF Offset, p
<1>6. Offset(n) < i /\ i <= Offset(n) + p
  BY <1>1, <1>2, <1>4, <1>5
<1> QED BY <1>3, <1>6 DEF p

(* A file is the sequence of its bytes.                                    *)
LEMMA FileFacts ==
  ASSUME NEW c \in Threads
  PROVE  /\ File(c) \in Seq(Bytes) /\ Len(File(c)) = Size[c]
         /\ \A i \in 1..Size[c] : File(c)[i] = <<c, i>>
<1> DEFINE k == Size[c]
           f == [i \in 1..k |-> <<c, i>>]
<1>1. k \in Nat
  BY ClientAssumption
<1> HIDE DEF k
<1>2. f \in [1..k -> Bytes] /\ Len(f) = k /\ \A i \in 1..k : f[i] = <<c, i>>
  <2>1. ASSUME NEW i \in 1..k
        PROVE  <<c, i>> \in Bytes
    <3>1. <<c, i>> \in {<<c, j>> : j \in 1..Size[c]}
      BY DEF k
    <3> QED BY <3>1 DEF Bytes
  <2>2. f \in [1..k -> Bytes]
    BY <2>1
  <2>3. Len(f) = k
    BY <1>1
  <2> QED BY <2>2, <2>3
<1>3. File(c) = f
  BY DEF File, k
<1> HIDE DEF f
<1>4. f \in Seq(Bytes)
  BY <1>1, <1>2, FunctionIsSeq
<1> QED BY <1>2, <1>3, <1>4 DEF k

(* The bytes of a packet.                                                  *)
LEMMA PieceFacts ==
  ASSUME NEW c \in Threads, NEW n \in Nat, Offset(n) < Size[c]
  PROVE  /\ Offset(n) \in Nat /\ End(c, n) \in Nat
         /\ Offset(n) < End(c, n) /\ End(c, n) <= Size[c] /\ End(c, n) <= Offset(n) + Payload
         /\ Piece(c, n) \in Seq(Bytes) /\ Len(Piece(c, n)) = End(c, n) - Offset(n)
         /\ \A j \in 1..(End(c, n) - Offset(n)) : Piece(c, n)[j] = <<c, Offset(n) + j>>
<1>1. Size[c] \in Nat /\ Payload \in Nat \ {0} /\ Offset(n) \in Nat
  BY ClientAssumption, PayloadPositive, OffsetType
<1>2. /\ End(c, n) \in Nat /\ Offset(n) < End(c, n) /\ End(c, n) <= Size[c]
      /\ End(c, n) <= Offset(n) + Payload
  BY <1>1 DEF End
<1>4. File(c) \in Seq(Bytes) /\ Len(File(c)) = Size[c] /\ \A i \in 1..Size[c] : File(c)[i] = <<c, i>>
  BY FileFacts
<1> DEFINE m == Offset(n)
           e == End(c, n)
           f == File(c)
<1>5. m \in Nat /\ e \in Nat /\ f \in Seq(Bytes) /\ m < e /\ e <= Len(f)
  BY <1>1, <1>2, <1>4
<1>6. Piece(c, n) = SubSeq(f, m + 1, e)
  BY DEF Piece
<1> HIDE DEF m, e, f
<1>7. /\ SubSeq(f, m + 1, e) \in Seq(Bytes) /\ Len(SubSeq(f, m + 1, e)) = e - m
      /\ \A j \in 1..(e - m) : SubSeq(f, m + 1, e)[j] = f[m + j]
  BY <1>5
<1>8. ASSUME NEW j \in 1..(e - m)
      PROVE  m + j \in 1..Size[c] /\ f[m + j] = <<c, m + j>>
  <2>1. e <= Size[c] /\ Size[c] \in Nat
    BY <1>1, <1>2 DEF e
  <2>2. m + j \in 1..Size[c]
    BY <1>5, <2>1
  <2> QED BY <1>4, <2>2 DEF f
<1> QED BY <1>1, <1>2, <1>6, <1>7, <1>8 DEF m, e

(* What fseek and fwrite make of a file.                                   *)
LEMMA WriteAtFacts ==
  ASSUME NEW S, NEW f \in Seq(S), Hole \in S, NEW offset \in Nat, NEW data \in Seq(S),
         data # <<>>
  PROVE  /\ WriteAt(f, offset, data) \in Seq(S)
         /\ offset + Len(data) > Len(f) => Len(WriteAt(f, offset, data)) = offset + Len(data)
         /\ ~(offset + Len(data) > Len(f)) => Len(WriteAt(f, offset, data)) = Len(f)
         /\ \A i \in (offset + 1)..(offset + Len(data)) :
               WriteAt(f, offset, data)[i] = data[i - offset]
         /\ \A i \in 1..Len(f) : i \notin (offset + 1)..(offset + Len(data))
               => WriteAt(f, offset, data)[i] = f[i]
<1> DEFINE end == offset + Len(data)
           k == IF data # <<>> /\ end > Len(f) THEN end ELSE Len(f)
           w == [i \in 1..k |-> IF i \in (offset + 1)..end THEN data[i - offset]
                                ELSE IF i <= Len(f) THEN f[i] ELSE Hole]
<1>1. end \in Nat /\ k \in Nat /\ end <= k /\ Len(f) <= k /\ Len(f) \in Nat
  OBVIOUS
<1>2. WriteAt(f, offset, data) = w
  BY DEF WriteAt
<1>3. w \in [1..k -> S]
  <2> SUFFICES ASSUME NEW i \in 1..k
               PROVE  w[i] \in S
    OBVIOUS
  <2>1. CASE i \in (offset + 1)..end
    <3>1. i - offset \in 1..Len(data)
      BY <2>1
    <3> QED BY <2>1, <3>1
  <2>2. CASE i \notin (offset + 1)..end
    BY <2>2, <1>1
  <2> QED BY <2>1, <2>2
<1>4. w \in Seq(S) /\ Len(w) = k
  BY <1>1, <1>3, FunctionIsSeq
<1>5. \A i \in (offset + 1)..end : w[i] = data[i - offset]
  BY <1>1
<1>6. \A i \in 1..Len(f) : i \notin (offset + 1)..end => w[i] = f[i]
  BY <1>1
<1> HIDE DEF w
<1> QED BY <1>2, <1>4, <1>5, <1>6

Packets == {p \in [seq : Int, data : Seq(Bytes)] : IsPacket(p)}

ClientVarsAt(c) ==
    <<pc[c], seq_num[c], received_seq[c], total_packets[c], output[c], ended[c]>>
QueuesAt(c) == <<toServer[c], toClient[c]>>

(* ClientInv of a client depends on nothing but its own variables.         *)
LEMMA Frame ==
  ASSUME NEW c \in Threads, ClientInv(c), UNCHANGED <<ClientVarsAt(c), QueuesAt(c)>>,
         c \in disturbed => c \in disturbed'
  PROVE  ClientInv(c)'
<1> USE DEF ClientVarsAt, QueuesAt, ClientInv
<1>1. PacketsInv(c)'
  BY DEF PacketsInv, Sendable
<1>2. SentInv(c)'
  BY DEF SentInv, Sent
<1>3. CountInv(c)'
  BY DEF CountInv, NoGap
<1>4. OutputInv(c)'
  BY DEF OutputInv
<1>5. c \notin disturbed => OrderInv(c)'
  BY DEF OrderInv, NumberAt
<1> QED BY <1>1, <1>2, <1>3, <1>4, <1>5

(* The types of one client's state.                                        *)
LEMMA Types ==
  ASSUME TypeOK, NEW c \in Threads
  PROVE  /\ seq_num[c] \in Nat /\ total_packets[c] \in Nat /\ Size[c] \in Nat
         /\ received_seq[c] \in SUBSET Nat /\ output[c] \in Seq(Bytes \cup {Hole})
         /\ Len(output[c]) \in Nat
         /\ toServer[c] \in Seq(Packets) /\ toClient[c] \in Seq(Packets)
         /\ Len(toServer[c]) \in Nat /\ Len(toClient[c]) \in Nat
         /\ Sent(c) = Offset(seq_num[c]) /\ Chunk(c) = Piece(c, seq_num[c])
<1>1. /\ seq_num[c] \in Nat /\ total_packets[c] \in Nat /\ Size[c] \in Nat
      /\ received_seq[c] \in SUBSET Nat /\ output[c] \in Seq(Bytes \cup {Hole})
  BY ClientAssumption DEF TypeOK, ClientTypeOK
<1>2. toServer[c] \in Seq(Packets) /\ toClient[c] \in Seq(Packets)
  BY DEF TypeOK, UdpTypeOK, Packets
<1>3. Len(output[c]) \in Nat /\ Len(toServer[c]) \in Nat /\ Len(toClient[c]) \in Nat
  BY <1>1, <1>2, LenProperties
<1>4. Sent(c) = Offset(seq_num[c])
  BY DEF Sent, Offset
<1>5. Chunk(c) = Piece(c, seq_num[c])
  BY <1>4 DEF Chunk, Piece, End
<1> QED BY <1>1, <1>2, <1>3, <1>4, <1>5

(* No packet that was sent is empty.                                       *)
LEMMA SentBegins ==
  ASSUME TypeOK, NEW c \in Threads, SentInv(c), NEW n \in 0..(seq_num[c] - 1)
  PROVE  n \in Nat /\ Offset(n) < Size[c]
<1> DEFINE s == seq_num[c]
<1>1. s \in Nat /\ n \in Nat /\ s > 0 /\ Offset(s - 1) < Size[c] /\ Size[c] \in Nat
  BY Types DEF SentInv
<1>2. CASE n = s - 1
  BY <1>1, <1>2
<1>3. CASE n # s - 1
  <2>1. n < s - 1 /\ s - 1 \in Nat
    BY <1>1, <1>3
  <2>2. Offset(n) + Payload <= Offset(s - 1)
    BY <1>1, <2>1, OffsetGrows
  <2>3. Offset(n) \in Nat /\ Offset(s - 1) \in Nat /\ Payload \in Nat
    BY <1>1, <2>1, OffsetType, PayloadPositive
  <2> QED BY <1>1, <2>2, <2>3
<1> QED BY <1>2, <1>3

(* What a datagram of client c is.                                         *)
LEMMA SendableFacts ==
  ASSUME TypeOK, NEW c \in Threads, SentInv(c), NEW p \in Sendable(c)
  PROVE  /\ p \in Packets
         /\ p.seq # EofMarker =>
               p.seq \in 0..(seq_num[c] - 1) /\ p.data = Piece(c, p.seq) /\ p.data # <<>>
<1>1. CASE p = Packet(EofMarker, <<>>)
  <2>1. <<>> \in Seq(Bytes) /\ EofMarker \in Int
    BY DEF EofMarker
  <2>2. p = [seq |-> EofMarker, data |-> <<>>]
    BY <1>1 DEF Packet
  <2>3. p \in [seq : Int, data : Seq(Bytes)] /\ p.seq = EofMarker /\ p.data = <<>>
    BY <2>1, <2>2
  <2>4. IsPacket(p)
    BY <2>1, <2>3 DEF IsPacket
  <2> QED BY <2>3, <2>4 DEF Packets
<1>2. ASSUME NEW n \in 0..(seq_num[c] - 1), p = Packet(n, Piece(c, n))
      PROVE  /\ p \in Packets /\ p.seq = n /\ p.data = Piece(c, n) /\ p.data # <<>>
  <2>1. n \in Nat /\ Offset(n) < Size[c]
    BY SentBegins
  <2>2. /\ Piece(c, n) \in Seq(Bytes) /\ Len(Piece(c, n)) = End(c, n) - Offset(n)
        /\ Offset(n) < End(c, n) /\ End(c, n) \in Nat /\ Offset(n) \in Nat
    BY <2>1, PieceFacts
  <2>3. Len(Piece(c, n)) # 0
    BY <2>2
  <2>4. Piece(c, n) # <<>>
    BY <2>3
  <2> QED BY <1>2, <2>1, <2>2, <2>4 DEF Packet, Packets, IsPacket
<1>3. p = Packet(EofMarker, <<>>) \/ \E n \in 0..(seq_num[c] - 1) : p = Packet(n, Piece(c, n))
  BY DEF Sendable
<1> QED BY <1>1, <1>2, <1>3 DEF Packet

(* What has been sent stays what a datagram may be.                        *)
LEMMA SendableGrows ==
  ASSUME NEW c \in Threads, seq_num[c] \in Nat, seq_num'[c] \in Nat, seq_num[c] <= seq_num'[c]
  PROVE  Sendable(c) \subseteq Sendable(c)'
<1>1. 0..(seq_num[c] - 1) \subseteq 0..(seq_num'[c] - 1)
  OBVIOUS
<1>2. \A n : Piece(c, n)' = Piece(c, n)
  BY DEF Piece, End, File, Offset, Payload, IntSize
<1> QED BY <1>1, <1>2 DEF Sendable

(* The queues of an undisturbed client when a datagram joins the end of    *)
(* toServer.                                                               *)
LEMMA OrderAppend ==
  ASSUME TypeOK, NEW c \in Threads, OrderInv(c), pc[c] = "send", PacketsInv(c),
         NEW p \in Packets, toServer'[c] = Append(toServer[c], p), toClient'[c] = toClient[c],
         UNCHANGED <<received_seq[c], total_packets[c], ended[c]>>, ended[c] = "not",
         \/ p.seq = seq_num[c] /\ seq_num'[c] = seq_num[c] + 1
         \/ p.seq = EofMarker /\ seq_num'[c] = seq_num[c] /\ pc'[c] = "receive"
  PROVE  OrderInv(c)'
<1> DEFINE q == toServer[c]
           r == toServer'[c]
           T == total_packets[c]
           C == Len(toClient[c])
           N == seq_num[c]
           Num(n) == IF n < seq_num'[c] THEN n ELSE EofMarker
<1>1. T \in Nat /\ C \in Nat /\ N \in Nat /\ Len(q) \in Nat
  BY Types
<1>2. /\ Len(r) = Len(q) + 1 /\ \A k \in 1..Len(q) : r[k] = q[k]
      /\ r[Len(q) + 1] = p
  <2>1. q \in Seq(Packets) /\ r = Append(q, p)
    BY Types
  <2> HIDE DEF q, r
  <2> QED BY <2>1, AppendElements
<1>3. T + C + Len(q) = N
  BY DEF OrderInv
<1>4. /\ \A k \in 1..C : toClient[c][k].seq = NumberAt(c, T + k - 1)
      /\ \A k \in 1..Len(q) : q[k].seq = NumberAt(c, T + C + k - 1)
      /\ received_seq[c] = 0..(T - 1)
  BY DEF OrderInv
<1>5. ASSUME NEW n \in Int, n < N
      PROVE  Num(n) = NumberAt(c, n)
  BY <1>1, <1>5 DEF NumberAt
<1> HIDE DEF q, r
<1>6. \A k \in 1..C : toClient'[c][k].seq = Num(T + k - 1)
  <2> SUFFICES ASSUME NEW k \in 1..C
               PROVE  toClient'[c][k].seq = Num(T + k - 1)
    OBVIOUS
  <2>1. T + k - 1 \in Int /\ T + k - 1 < N
    BY <1>1, <1>3
  <2> QED BY <1>4, <1>5, <2>1
<1>7. \A k \in 1..Len(r) : r[k].seq = Num(T + C + k - 1)
  <2> SUFFICES ASSUME NEW k \in 1..Len(r)
               PROVE  r[k].seq = Num(T + C + k - 1)
    OBVIOUS
  <2>1. CASE k \in 1..Len(q)
    <3>1. T + C + k - 1 \in Int /\ T + C + k - 1 < N
      BY <1>1, <1>3, <2>1
    <3> QED BY <1>2, <1>4, <1>5, <2>1, <3>1
  <2>2. CASE k = Len(q) + 1
    <3>1. T + C + k - 1 = N
      BY <1>1, <1>3, <2>2
    <3>2. r[k].seq = p.seq
      BY <1>2, <2>2
    <3>3. Num(N) = p.seq
      BY <1>1
    <3> QED BY <3>1, <3>2, <3>3
  <2> QED BY <1>1, <1>2, <2>1, <2>2
<1>8. /\ T + C + Len(r) <= seq_num'[c] + 1
      /\ pc'[c] \in {"new", "send"} => T + C + Len(r) = seq_num'[c]
  <2> HIDE DEF T, C, N
  <2>1. CASE seq_num'[c] = N + 1
    BY <1>1, <1>2, <1>3, <2>1
  <2>2. CASE seq_num'[c] = N /\ pc'[c] = "receive"
    BY <1>1, <1>2, <1>3, <2>2
  <2> QED BY <2>1, <2>2 DEF N
<1> QED BY <1>4, <1>6, <1>7, <1>8 DEF OrderInv, NumberAt, r

(* What SendPacket, TakeAck and TakePacket do to the queues of their client. *)
LEMMA QueueEffects ==
  ASSUME TypeOK, NEW c \in Threads
  PROVE  /\ \A p : SendPacket(c, p) =>
                toServer'[c] = Append(toServer[c], p) /\ toClient'[c] = toClient[c]
         /\ TakeAck(c) => toServer'[c] = toServer[c] /\ toClient'[c] = Tail(toClient[c])
         /\ \A p \in Packets : TakePacket(c, <<p>>) =>
                toServer'[c] = Tail(toServer[c]) /\ toClient'[c] = Append(toClient[c], p)
<1>1. toServer \in [Threads -> Seq(Packets)] /\ toClient \in [Threads -> Seq(Packets)]
  BY DEF TypeOK, UdpTypeOK, Packets
<1>2. ASSUME NEW p, SendPacket(c, p)
      PROVE  toServer'[c] = Append(toServer[c], p) /\ toClient'[c] = toClient[c]
  BY <1>1, <1>2 DEF SendPacket
<1>3. ASSUME TakeAck(c)
      PROVE  toServer'[c] = toServer[c] /\ toClient'[c] = Tail(toClient[c])
  BY <1>1, <1>3 DEF TakeAck
<1>4. ASSUME NEW p \in Packets, TakePacket(c, <<p>>)
      PROVE  toServer'[c] = Tail(toServer[c]) /\ toClient'[c] = Append(toClient[c], p)
  <2>1. toServer'[c] = Tail(toServer[c]) /\ toClient'[c] = toClient[c] \o <<p>>
    BY <1>1, <1>4 DEF TakePacket
  <2>2. toClient[c] \o <<p>> = Append(toClient[c], p)
    BY <1>1, AppendIsConcat
  <2> QED BY <2>1, <2>2
<1> QED BY <1>2, <1>3, <1>4

(* sendto of the next part of the file.                                    *)
LEMMA SendPacketStep ==
  ASSUME TypeOK, NEW c \in Threads, ClientInv(c), UNCHANGED disturbed, SendPacketOfFile(c)
  PROVE  ClientInv(c)'
<1> DEFINE N == seq_num[c]
           p == Packet(N, Piece(c, N))
<1>1. /\ pc[c] = "send" /\ Offset(N) < Size[c] /\ UNCHANGED <<pc, received_seq, total_packets, output, ended>>
      /\ toServer'[c] = Append(toServer[c], p) /\ toClient'[c] = toClient[c]
      /\ seq_num'[c] = N + 1 /\ N \in Nat
  BY Types, QueueEffects DEF SendPacketOfFile, TypeOK, ClientTypeOK
<1>2. SentInv(c)'
  BY <1>1 DEF ClientInv, SentInv, Offset
<1>3. Sendable(c) \subseteq Sendable(c)' /\ p \in Sendable(c)'
  <2>1. Sendable(c) \subseteq Sendable(c)'
    BY <1>1, SendableGrows
  <2>2. N \in 0..(seq_num'[c] - 1)
    BY <1>1
  <2>3. Piece(c, N) = SubSeq(File(c), Offset(N) + 1, End(c, N))
    BY DEF Piece
  <2>4. \A n \in 0..(seq_num'[c] - 1) : Packet(n, Piece(c, n)) \in Sendable(c)'
    BY DEF Sendable, Piece, End, File, Offset, Payload, IntSize
  <2> QED BY <2>1, <2>2, <2>4
<1>4. p \in Packets /\ p.seq = N
  <2>1. Piece(c, N) \in Seq(Bytes)
    BY <1>1, PieceFacts
  <2> QED BY <1>1, <2>1 DEF Packet, Packets, IsPacket
<1> HIDE DEF p
<1>5. PacketsInv(c)'
  <2>1. toServer[c] \in Seq(Sendable(c)') /\ toClient[c] \in Seq(Sendable(c)')
    BY <1>3, SeqMonotonic DEF ClientInv, PacketsInv
  <2> QED BY <1>1, <1>3, <2>1, AppendElements DEF PacketsInv
<1>6. CountInv(c)'
  <2>1. received_seq[c] \subseteq 0..N /\ seq_num'[c] - 1 = N
    BY <1>1 DEF ClientInv, CountInv
  <2> QED BY <1>1, <2>1 DEF ClientInv, CountInv, NoGap
<1>7. OutputInv(c)'
  BY <1>1 DEF ClientInv, OutputInv, End, Offset, Payload, IntSize
<1>8. c \notin disturbed => OrderInv(c)'
  <2>1. ended[c] = "not"
    BY <1>1 DEF ClientInv, SentInv
  <2> QED BY <1>1, <1>4, <2>1, OrderAppend DEF ClientInv
<1> QED BY <1>2, <1>5, <1>6, <1>7, <1>8 DEF ClientInv

(* sendto of the EOF marker, behind the last packet.                       *)
LEMMA SendEofStep ==
  ASSUME TypeOK, NEW c \in Threads, ClientInv(c), UNCHANGED disturbed, SendEof(c)
  PROVE  ClientInv(c)'
<1> DEFINE p == Packet(EofMarker, <<>>)
<1>1. /\ pc[c] = "send" /\ pc'[c] = "receive" /\ Sent(c) >= Size[c]
      /\ UNCHANGED <<seq_num, received_seq, total_packets, output, ended>>
      /\ toServer'[c] = Append(toServer[c], p) /\ toClient'[c] = toClient[c]
  BY QueueEffects DEF SendEof, Goto, TypeOK, ClientTypeOK
<1>2. SentInv(c)'
  BY <1>1 DEF ClientInv, SentInv, Sent
<1>3. Sendable(c)' = Sendable(c) /\ p \in Sendable(c)
  BY <1>1 DEF Sendable
<1>4. p \in Packets /\ p.seq = EofMarker
  BY <1>3, SendableFacts DEF ClientInv, Packet
<1> HIDE DEF p
<1>5. PacketsInv(c)'
  BY <1>1, <1>3, AppendElements DEF ClientInv, PacketsInv
<1>6. CountInv(c)' /\ OutputInv(c)'
  BY <1>1 DEF ClientInv, CountInv, NoGap, OutputInv
<1>7. c \notin disturbed => OrderInv(c)'
  <2>1. ended[c] = "not"
    BY <1>1 DEF ClientInv, SentInv
  <2> QED BY <1>1, <1>4, <2>1, OrderAppend DEF ClientInv
<1> QED BY <1>2, <1>5, <1>6, <1>7 DEF ClientInv

(* A step of the client that touches no datagram.                          *)
LEMMA MoveStep ==
  ASSUME TypeOK, NEW c \in Threads, ClientInv(c), UNCHANGED disturbed,
         Start(c) \/ SocketError(c) \/ ReceiveTimeout(c) \/ Validate(c)
  PROVE  ClientInv(c)'
<1> USE DEF ClientInv, netVars, Goto
<1>1. UNCHANGED <<seq_num, received_seq, total_packets, output, netVars>>
  BY DEF Start, SocketError, ReceiveTimeout, Validate
<1>2. /\ pc[c] \in {"new", "send", "receive", "validate"}
      /\ pc'[c] \in {"send", "validate", "complete", "missing", "aborted"}
      /\ pc'[c] = "send" => pc[c] = "new" /\ ended'[c] = ended[c]
      /\ pc'[c] \in {"validate", "complete", "missing"} => pc[c] \in {"receive", "validate"}
      /\ pc'[c] = "complete" => NoGap(c)
      /\ pc'[c] = "missing" => ~NoGap(c)
      /\ ended'[c] = "eof" => ended[c] = "eof"
  BY DEF Start, SocketError, ReceiveTimeout, Validate, TypeOK, ClientTypeOK
<1>3. SentInv(c)'
  BY <1>1, <1>2 DEF SentInv, Sent
<1>4. PacketsInv(c)' /\ OutputInv(c)'
  BY <1>1 DEF PacketsInv, Sendable, OutputInv
<1>5. CountInv(c)'
  BY <1>1, <1>2 DEF CountInv, NoGap
<1>6. c \notin disturbed => OrderInv(c)'
  BY <1>1, <1>2 DEF OrderInv, NumberAt
<1> QED BY <1>3, <1>4, <1>5, <1>6

(* What is left in the queues of an undisturbed client when the datagram   *)
(* at the head of toClient is taken.                                       *)
LEMMA OrderTail ==
  ASSUME TypeOK, NEW c \in Threads, OrderInv(c), pc[c] = "receive",
         toClient[c] # <<>>, toClient'[c] = Tail(toClient[c]), toServer'[c] = toServer[c],
         UNCHANGED seq_num[c], pc'[c] \notin {"new", "send"},
         \/ Head(toClient[c]).seq # EofMarker /\ total_packets'[c] = total_packets[c] + 1
         \/ total_packets'[c] = total_packets[c] /\ Head(toClient[c]).seq = EofMarker,
         received_seq'[c] = 0..(total_packets'[c] - 1),
         ended'[c] = "eof" => total_packets'[c] = seq_num[c]
  PROVE  OrderInv(c)'
<1> DEFINE q == toClient[c]
           S == toServer[c]
           T == total_packets[c]
           N == seq_num[c]
           Num(n) == IF n < N THEN n ELSE EofMarker
<1>1. T \in Nat /\ N \in Nat /\ Len(q) \in Nat \ {0} /\ Len(S) \in Nat /\ Head(q).seq = q[1].seq
      /\ Len(Tail(q)) = Len(q) - 1
      /\ \A k \in 1..(Len(q) - 1) : Tail(q)[k] = q[k + 1] /\ k + 1 \in 1..Len(q)
  <2>1. T \in Nat /\ N \in Nat /\ q \in Seq(Packets) /\ Len(S) \in Nat
    BY Types
  <2> HIDE DEF q, T, N, S
  <2> QED BY <2>1, TailElements DEF q
<1>2. /\ \A k \in 1..Len(q) : q[k].seq = Num(T + k - 1)
      /\ \A k \in 1..Len(S) : S[k].seq = Num(T + Len(q) + k - 1)
      /\ T + Len(q) + Len(S) <= N + 1
  BY DEF OrderInv, NumberAt
<1>4. Head(q).seq = Num(T)
  <2>1. 1 \in 1..Len(q) /\ T + 1 - 1 = T
    <3> HIDE DEF q, T
    <3> QED BY <1>1
  <2> HIDE DEF Num
  <2> QED BY <1>1, <1>2, <2>1
<1>5. CASE total_packets'[c] = T + 1
  <2>1. \A k \in 1..(Len(q) - 1) : Tail(q)[k].seq = Num((T + 1) + k - 1)
    <3> SUFFICES ASSUME NEW k \in 1..(Len(q) - 1)
                 PROVE  Tail(q)[k].seq = Num((T + 1) + k - 1)
      OBVIOUS
    <3>1. (T + 1) + k - 1 = T + (k + 1) - 1
      BY <1>1
    <3> QED BY <1>1, <1>2, <3>1
  <2>2. \A k \in 1..Len(S) : S[k].seq = Num((T + 1) + (Len(q) - 1) + k - 1)
    <3>1. (T + 1) + (Len(q) - 1) = T + Len(q)
      <4> HIDE DEF T, q
      <4> QED BY <1>1
    <3> QED BY <1>2, <3>1
  <2>3. (T + 1) + (Len(q) - 1) + Len(S) <= N + 1
    BY <1>1, <1>2
  <2> DEFINE r == toClient'[c]
  <2>4. Len(r) = Len(q) - 1 /\ \A k \in 1..(Len(q) - 1) : r[k] = Tail(q)[k]
    BY <1>1
  <2>5. /\ \A k \in 1..Len(r) : r[k].seq = Num((T + 1) + k - 1)
        /\ \A k \in 1..Len(S) : S[k].seq = Num((T + 1) + Len(r) + k - 1)
        /\ (T + 1) + Len(r) + Len(S) <= N + 1
    <3> HIDE DEF r, q, S, Num, T, N
    <3> QED BY <2>1, <2>2, <2>3, <2>4
  <2> QED BY <1>5, <2>5 DEF OrderInv, NumberAt
<1>6. CASE total_packets'[c] = T /\ Head(q).seq = EofMarker
  <2>1. T >= N /\ Len(q) = 1 /\ Len(S) = 0
    <3>1. ~(T < N)
      BY <1>1, <1>4, <1>6 DEF EofMarker
    <3> HIDE DEF T, N, q, S
    <3> QED BY <1>1, <1>2, <3>1
  <2> DEFINE r == toClient'[c]
  <2>2. Len(r) = 0 /\ Len(toServer'[c]) = 0
    BY <1>1, <2>1
  <2>3. T + 0 + 0 <= N + 1 /\ T = T + 0
    <3> HIDE DEF T, N, q, S
    <3> QED BY <1>1, <1>2, <2>1
  <2> HIDE DEF r
  <2>4. /\ \A k \in 1..Len(r) : r[k].seq = NumberAt(c, total_packets[c] + k - 1)'
        /\ \A k \in 1..Len(toServer'[c]) :
              toServer'[c][k].seq = NumberAt(c, total_packets[c] + Len(toClient[c]) + k - 1)'
        /\ total_packets'[c] + Len(r) + Len(toServer'[c]) <= seq_num'[c] + 1
    BY <1>6, <2>2, <2>3
  <2> QED BY <2>4 DEF OrderInv, r
<1> QED BY <1>5, <1>6

(* An echo: its number is marked and its bytes are written where they      *)
(* belong, over nothing but the same bytes.                                *)
LEMMA EchoWritten ==
  ASSUME TypeOK, NEW c \in Threads, SentInv(c), OutputInv(c),
         received_seq[c] \subseteq 0..(seq_num[c] - 1),
         NEW n \in 0..(seq_num[c] - 1), seq_num'[c] = seq_num[c],
         received_seq'[c] = received_seq[c] \cup {n},
         output'[c] = WriteAt(output[c], Offset(n), Piece(c, n))
  PROVE  OutputInv(c)' /\ output'[c] \in Seq(Bytes \cup {Hole})
<1> DEFINE o == output[c]
           r == output'[c]
           a == Offset(n)
           e == End(c, n)
           B == Bytes \cup {Hole}
           d == Piece(c, n)
<1>1. ASSUME NEW m \in 0..(seq_num[c] - 1)
      PROVE  /\ m \in Nat /\ Offset(m) \in Nat /\ End(c, m) \in Nat
             /\ Offset(m) < End(c, m) /\ End(c, m) <= Offset(m) + Payload
             /\ Piece(c, m) \in Seq(Bytes) /\ Len(Piece(c, m)) = End(c, m) - Offset(m)
             /\ \A j \in 1..(End(c, m) - Offset(m)) : Piece(c, m)[j] = <<c, Offset(m) + j>>
  BY SentBegins, PieceFacts
<1>2. o \in Seq(B) /\ Len(o) \in Nat /\ Payload \in Nat \ {0}
  BY Types, PayloadPositive
<1>3. d \in Seq(B) /\ Hole \in B
  BY <1>1, SeqMonotonic
<1>4. /\ a \in Nat /\ e \in Nat /\ a < e /\ a + Len(d) = e
      /\ \A j \in 1..(e - a) : d[j] = <<c, a + j>>
  <2>1. /\ a \in Nat /\ e \in Nat /\ a < e /\ Len(d) = e - a
        /\ \A j \in 1..(e - a) : d[j] = <<c, a + j>>
    BY <1>1
  <2> HIDE DEF a, e, d
  <2> QED BY <2>1
<1> HIDE DEF a, e, d, o, B
<1>5. /\ r \in Seq(B)
      /\ Len(r) = (IF e > Len(o) THEN e ELSE Len(o))
      /\ \A i \in (a + 1)..e : r[i] = d[i - a]
      /\ \A i \in 1..Len(o) : i \notin (a + 1)..e => r[i] = o[i]
  <2>1. r = WriteAt(o, a, d)
    BY DEF o, a, d
  <2> DEFINE w == WriteAt(o, a, d)
             k == IF a + Len(d) > Len(o) THEN a + Len(d) ELSE Len(o)
  <2>2. o \in Seq(B) /\ Hole \in B /\ a \in Nat /\ d \in Seq(B) /\ d # <<>>
    BY <1>2, <1>3, <1>4
  <2>6. w \in Seq(B)
    BY <2>2, WriteAtFacts
  <2>7. Len(w) = k
    BY <2>2, WriteAtFacts
  <2>3. w \in Seq(B) /\ Len(w) = k
    BY <2>6, <2>7
  <2>4. \A i \in (a + 1)..(a + Len(d)) : w[i] = d[i - a]
    BY <2>2, WriteAtFacts
  <2>5. \A i \in 1..Len(o) : i \notin (a + 1)..(a + Len(d)) => w[i] = o[i]
    BY <2>2, WriteAtFacts
  <2> HIDE DEF r, w
  <2> QED BY <1>4, <2>1, <2>3, <2>4, <2>5 DEF w
<1> HIDE DEF r
<1>6. \A i \in (a + 1)..e : r[i] = <<c, i>>
  <2> SUFFICES ASSUME NEW i \in (a + 1)..e
               PROVE  r[i] = <<c, i>>
    OBVIOUS
  <2>1. i - a \in 1..(e - a) /\ a + (i - a) = i
    BY <1>4
  <2> QED BY <1>4, <1>5, <2>1
<1>7. ASSUME NEW m \in received_seq[c] \cup {n}
      PROVE  End(c, m) <= Len(r) /\ \A i \in (Offset(m) + 1)..End(c, m) : r[i] = <<c, i>>
  <2>1. CASE m = n
    BY <1>2, <1>4, <1>5, <1>6, <2>1 DEF a, e
  <2>2. CASE m # n
    <3>1. m \in received_seq[c] /\ m \in 0..(seq_num[c] - 1)
      BY <2>2
    <3>2. End(c, m) <= Len(o) /\ \A i \in (Offset(m) + 1)..End(c, m) : o[i] = <<c, i>>
      BY <3>1 DEF OutputInv, o
    <3>3. /\ m \in Nat /\ n \in Nat /\ Offset(m) \in Nat /\ End(c, m) \in Nat
          /\ End(c, m) <= Offset(m) + Payload /\ e <= a + Payload
      BY <1>1, <3>1 DEF a, e
    <3>4. End(c, m) <= a \/ e <= Offset(m)
      <4>1. CASE m < n
        <5>1. Offset(m) + Payload <= a
          BY <3>3, <4>1, OffsetGrows DEF a
        <5> QED BY <1>2, <1>4, <3>3, <5>1
      <4>2. CASE n < m
        <5>1. a + Payload <= Offset(m)
          BY <3>3, <4>2, OffsetGrows DEF a
        <5> QED BY <1>2, <1>4, <3>3, <5>1
      <4> QED BY <2>2, <3>3, <4>1, <4>2
    <3>5. ASSUME NEW i \in (Offset(m) + 1)..End(c, m)
          PROVE  i \in 1..Len(o) /\ i \notin (a + 1)..e
      BY <1>2, <1>4, <3>2, <3>3, <3>4
    <3>6. End(c, m) <= Len(r)
      BY <1>2, <1>4, <1>5, <3>2, <3>3
    <3> QED BY <1>5, <3>2, <3>5, <3>6
  <2> QED BY <2>1, <2>2
<1>8. \E m \in received_seq[c] \cup {n} : Len(r) = End(c, m)
  <2>1. CASE e > Len(o)
    BY <1>5, <2>1 DEF e
  <2>2. CASE ~(e > Len(o))
    <3>1. Len(o) # 0 /\ Len(r) = Len(o)
      BY <1>2, <1>4, <1>5, <2>2
    <3> QED BY <3>1 DEF OutputInv, o
  <2> QED BY <2>1, <2>2
<1>9. \A m : End(c, m)' = End(c, m) /\ Offset(m)' = Offset(m)
  BY DEF End, Offset, Payload, IntSize
<1>10. received_seq'[c] = received_seq[c] \cup {n}
  OBVIOUS
<1> QED BY <1>5, <1>7, <1>8, <1>9, <1>10 DEF OutputInv, r, B

(* Received numbers are finitely many. *)
LEMMA FiniteReceived ==
  ASSUME TypeOK, NEW c \in Threads, received_seq[c] \subseteq 0..(seq_num[c] - 1)
  PROVE  IsFiniteSet(received_seq[c]) /\ Cardinality(received_seq[c]) \in Nat
<1> DEFINE last == seq_num[c] - 1
<1>0. last \in Int
  BY Types
<1> HIDE DEF last
<1>1. IsFiniteSet(0..last)
  BY <1>0, FS_Interval
<1>2. IsFiniteSet(received_seq[c])
  BY <1>1, FS_Subset DEF last
<1> QED BY <1>2, FS_CardinalityType

(* recvfrom of an echo: the packet counts, whether it is a new one or not. *)
LEMMA ReceiveEchoStep ==
  ASSUME TypeOK, NEW c \in Threads, ClientInv(c), UNCHANGED disturbed, ReceiveEcho(c)
  PROVE  ClientInv(c)' /\ output' = [output EXCEPT ![c] = output'[c]]
         /\ received_seq'[c] \subseteq 0..(seq_num[c] - 1)
         /\ output'[c] \in Seq(Bytes \cup {Hole})
<1> DEFINE p == Head(toClient[c])
           n == p.seq
           T == total_packets[c]
<1>1. /\ pc[c] = "receive" /\ toClient[c] # <<>> /\ n # EofMarker
      /\ UNCHANGED <<pc, seq_num, ended>>
      /\ toClient'[c] = Tail(toClient[c]) /\ toServer'[c] = toServer[c]
      /\ received_seq'[c] = received_seq[c] \cup {n}
      /\ total_packets'[c] = T + 1 /\ T \in Nat
  BY Types, QueueEffects DEF ReceiveEcho, TypeOK, ClientTypeOK
<1>2. p \in Sendable(c) /\ Tail(toClient[c]) \in Seq(Sendable(c))
  BY <1>1, TailElements DEF ClientInv, PacketsInv
<1>3. n \in 0..(seq_num[c] - 1) /\ p.data = Piece(c, n) /\ p.data # <<>>
  BY <1>1, <1>2, SendableFacts DEF ClientInv
<1>4. /\ output' = [output EXCEPT ![c] = WriteAt(output[c], Offset(n), Piece(c, n))]
      /\ output'[c] = WriteAt(output[c], Offset(n), Piece(c, n))
  BY <1>3 DEF ReceiveEcho, TypeOK, ClientTypeOK
<1>5. SentInv(c)' /\ PacketsInv(c)'
  BY <1>1, <1>2 DEF ClientInv, SentInv, Sent, PacketsInv, Sendable
<1>6. received_seq[c] \subseteq 0..(seq_num[c] - 1) /\ Cardinality(received_seq[c]) <= T
  BY DEF ClientInv, CountInv
<1>7. OutputInv(c)' /\ output'[c] \in Seq(Bytes \cup {Hole})
  <2> HIDE DEF n
  <2> QED BY <1>1, <1>3, <1>4, <1>6, EchoWritten DEF ClientInv
<1>8. CountInv(c)'
  <2>1. Cardinality(received_seq[c] \cup {n}) <= T + 1
    <3> DEFINE S == received_seq[c]
    <3>1. IsFiniteSet(S) /\ Cardinality(S) \in Nat
      BY <1>6, FiniteReceived
    <3> HIDE DEF S, n
    <3>2. Cardinality(S \cup {n}) = IF n \in S THEN Cardinality(S) ELSE Cardinality(S) + 1
      BY <3>1, FS_AddElement
    <3>3. Cardinality(S \cup {n}) <= Cardinality(S) + 1 /\ Cardinality(S \cup {n}) \in Nat
      BY <3>1, <3>2
    <3> QED BY <1>1, <1>6, <3>1, <3>3 DEF S
  <2> QED BY <1>1, <1>3, <1>6, <2>1 DEF CountInv
<1>9. ASSUME c \notin disturbed
      PROVE  OrderInv(c)'
  <2>1. OrderInv(c) /\ received_seq[c] = 0..(T - 1) /\ ended[c] = "not"
    BY <1>1, <1>9 DEF ClientInv, OrderInv, SentInv
  <2>2. n = T
    <3>1. toClient[c] \in Seq(Packets)
      BY Types
    <3>2. n = NumberAt(c, T + 1 - 1) /\ T + 1 - 1 = T
      BY <1>1, <2>1, <3>1, TailElements DEF OrderInv
    <3> QED BY <1>1, <3>2 DEF NumberAt
  <2>3. received_seq'[c] = 0..(total_packets'[c] - 1)
    BY <1>1, <2>1, <2>2
  <2> QED BY <1>1, <2>1, <2>3, OrderTail
<1> QED BY <1>3, <1>1, <1>4, <1>5, <1>6, <1>7, <1>8, <1>9 DEF ClientInv

(* recvfrom of the EOF marker: on an undisturbed path, all packets came    *)
(* before it.                                                              *)
LEMMA ReceiveEofStep ==
  ASSUME TypeOK, NEW c \in Threads, ClientInv(c), UNCHANGED disturbed, ReceiveEof(c)
  PROVE  ClientInv(c)'
<1> DEFINE T == total_packets[c]
           N == seq_num[c]
<1>1. /\ pc[c] = "receive" /\ pc'[c] = "validate" /\ toClient[c] # <<>>
      /\ Head(toClient[c]).seq = EofMarker /\ ended'[c] = "eof"
      /\ UNCHANGED <<seq_num, received_seq, total_packets, output>>
      /\ toClient'[c] = Tail(toClient[c]) /\ toServer'[c] = toServer[c]
      /\ T \in Nat /\ N \in Nat
  BY Types, QueueEffects DEF ReceiveEof, Goto, TypeOK, ClientTypeOK
<1>2. SentInv(c)'
  BY <1>1 DEF ClientInv, SentInv, Sent
<1>3. PacketsInv(c)'
  BY <1>1, TailElements DEF ClientInv, PacketsInv, Sendable
<1>4. CountInv(c)' /\ OutputInv(c)'
  BY <1>1 DEF ClientInv, CountInv, OutputInv
<1>5. ASSUME c \notin disturbed
      PROVE  OrderInv(c)'
  <2>1. OrderInv(c)
    BY <1>5 DEF ClientInv
  <2>2. T = N
    <3>1. toClient[c] \in Seq(Packets) /\ Len(toServer[c]) \in Nat
      BY Types
    <3>2. /\ Head(toClient[c]) = toClient[c][1] /\ 1 \in 1..Len(toClient[c])
          /\ Len(toClient[c]) \in Nat \ {0}
      BY <1>1, <3>1, TailElements
    <3>3. EofMarker = NumberAt(c, T + 1 - 1) /\ T + 1 - 1 = T
      BY <1>1, <2>1, <3>2 DEF OrderInv
    <3>4. ~(T < N)
      BY <1>1, <3>3 DEF NumberAt, EofMarker
    <3>5. T + Len(toClient[c]) + Len(toServer[c]) <= N + 1
      BY <2>1 DEF OrderInv
    <3> QED BY <1>1, <3>1, <3>2, <3>4, <3>5
  <2> QED BY <1>1, <2>1, <2>2, OrderTail DEF OrderInv
<1> QED BY <1>2, <1>3, <1>4, <1>5 DEF ClientInv

(* Every step of a client keeps its ClientInv.                             *)
LEMMA ClientOwnStep ==
  ASSUME TypeOK, NEW c \in Threads, ClientInv(c), UNCHANGED disturbed,
         ClientStep(c) \/ SocketError(c)
  PROVE  ClientInv(c)'
  BY SendPacketStep, SendEofStep, MoveStep, ReceiveEchoStep, ReceiveEofStep DEF ClientStep

(* The server sends a datagram back to where it came from.                 *)
LEMMA EchoStep ==
  ASSUME TypeOK, NEW c \in Threads, ClientInv(c), UNCHANGED <<clientVars, disturbed>>,
         Echo(c) \/ EchoEof(c)
  PROVE  /\ ClientInv(c)' /\ Head(toServer[c]) \in Packets /\ toServer[c] # <<>>
         /\ TakePacket(c, <<Head(toServer[c])>>)
<1> DEFINE q == toServer[c]
           k == toClient[c]
           p == Head(q)
<1>1. q # <<>> /\ TakePacket(c, <<p>>)
  BY DEF Echo, EchoEof, Arrives, HeadPacket
<1>2. /\ p \in Sendable(c) /\ Tail(q) \in Seq(Sendable(c))
      /\ q \in Seq(Sendable(c)) /\ k \in Seq(Sendable(c))
  BY <1>1, TailElements DEF ClientInv, PacketsInv
<1>3. p \in Packets
  BY <1>2, SendableFacts DEF ClientInv
<1>4. toServer'[c] = Tail(q) /\ toClient'[c] = Append(k, p)
  BY <1>1, <1>3, QueueEffects
<1>5. SentInv(c)' /\ CountInv(c)' /\ OutputInv(c)'
  BY DEF ClientInv, clientVars, SentInv, Sent, CountInv, NoGap, OutputInv
<1>6. PacketsInv(c)'
  <2>1. Sendable(c)' = Sendable(c)
    BY DEF clientVars, Sendable
  <2> QED BY <1>2, <1>4, <2>1, AppendElements DEF PacketsInv
<1>7. ASSUME OrderInv(c)
      PROVE  OrderInv(c)'
  <2> DEFINE T == total_packets[c]
             C == Len(k)
             Q == Len(q)
             k2 == toClient'[c]
             q2 == toServer'[c]
  <2>1. /\ T \in Nat /\ C \in Nat /\ Q \in Nat \ {0} /\ p = q[1] /\ 1 \in 1..Q
        /\ Len(k2) = C + 1 /\ k2[C + 1] = p /\ \A i \in 1..C : k2[i] = k[i]
        /\ Len(q2) = Q - 1 /\ \A i \in 1..(Q - 1) : q2[i] = q[i + 1] /\ i + 1 \in 1..Q
    <3>1. T \in Nat
      BY Types
    <3> HIDE DEF q, k, k2, q2
    <3>2. Q \in Nat \ {0} /\ p = q[1] /\ 1 \in 1..Q /\ Len(q2) = Q - 1
          /\ \A i \in 1..(Q - 1) : q2[i] = q[i + 1] /\ i + 1 \in 1..Q
      BY <1>1, <1>2, <1>4, TailElements DEF k2, q2
    <3>3. C \in Nat /\ Len(k2) = C + 1 /\ k2[C + 1] = p /\ \A i \in 1..C : k2[i] = k[i]
      BY <1>2, <1>4, AppendElements DEF k2, q2
    <3> QED BY <3>1, <3>2, <3>3
  <2>2. /\ \A i \in 1..C : k[i].seq = NumberAt(c, T + i - 1)
        /\ \A i \in 1..Q : q[i].seq = NumberAt(c, T + C + i - 1)
        /\ T + C + Q <= seq_num[c] + 1
        /\ pc[c] \in {"new", "send"} => T + C + Q = seq_num[c]
    BY <1>7 DEF OrderInv
  <2> HIDE DEF q, k, k2, q2, C, Q, T
  <2>3. \A i \in 1..(C + 1) : k2[i].seq = NumberAt(c, T + i - 1)
    <3> SUFFICES ASSUME NEW i \in 1..(C + 1)
                 PROVE  k2[i].seq = NumberAt(c, T + i - 1)
      OBVIOUS
    <3>1. CASE i = C + 1
      <4>1. T + i - 1 = T + C + 1 - 1
        BY <2>1, <3>1
      <4> QED BY <2>1, <2>2, <3>1, <4>1
    <3>2. CASE i \in 1..C
      BY <2>1, <2>2, <3>2
    <3> QED BY <2>1, <3>1, <3>2
  <2>4. \A i \in 1..(Q - 1) : q2[i].seq = NumberAt(c, T + (C + 1) + i - 1)
    <3> SUFFICES ASSUME NEW i \in 1..(Q - 1)
                 PROVE  q2[i].seq = NumberAt(c, T + (C + 1) + i - 1)
      OBVIOUS
    <3>1. T + (C + 1) + i - 1 = T + C + (i + 1) - 1
      BY <2>1
    <3> QED BY <2>1, <2>2, <3>1
  <2>5. T + (C + 1) + (Q - 1) = T + C + Q
    BY <2>1
  <2>6. /\ \A i \in 1..Len(k2) : k2[i].seq = NumberAt(c, T + i - 1)
        /\ \A i \in 1..Len(q2) : q2[i].seq = NumberAt(c, T + Len(k2) + i - 1)
        /\ T + Len(k2) + Len(q2) <= seq_num[c] + 1
        /\ pc[c] \in {"new", "send"} => T + Len(k2) + Len(q2) = seq_num[c]
    BY <2>1, <2>2, <2>3, <2>4, <2>5
  <2> QED BY <1>7, <2>6 DEF OrderInv, NumberAt, clientVars, k2, q2, T
<1> QED BY <1>1, <1>3, <1>5, <1>6, <1>7 DEF ClientInv

(* A fault: whatever becomes of the datagrams, they are still what their   *)
(* client sent; and the client counts as disturbed.                        *)
LEMMA FaultStep ==
  ASSUME TypeOK, NEW c \in Threads, ClientInv(c), Fault(c)
  PROVE  ClientInv(c)'
<1> DEFINE D == Sendable(c)
<1>1. UNCHANGED clientVars /\ c \in disturbed'
  BY DEF Fault
<1>2. SentInv(c)' /\ CountInv(c)' /\ OutputInv(c)'
  BY <1>1 DEF ClientInv, clientVars, SentInv, Sent, CountInv, NoGap, OutputInv
<1>3. toServer[c] \in Seq(D) /\ toClient[c] \in Seq(D)
  BY DEF ClientInv, PacketsInv
<1>4. toServer \in [Threads -> Seq(Packets)] /\ toClient \in [Threads -> Seq(Packets)]
  BY DEF TypeOK, UdpTypeOK, Packets
<1>5. ASSUME NEW S, NEW s \in Seq(S), s # <<>>
      PROVE  Tail(s) \in Seq(S) /\ Doubled(s) \in Seq(S)
  <2>1. Head(s) \in S /\ Tail(s) \in Seq(S)
    BY <1>5, TailElements
  <2>2. <<Head(s)>> \in Seq(S)
    BY <2>1
  <2> QED BY <1>5, <2>1, <2>2, ConcatProperties DEF Doubled
<1>6. toServer'[c] \in Seq(D) /\ toClient'[c] \in Seq(D)
  <2>1. CASE LosePacket(c)
    BY <1>3, <1>4, <1>5, <2>1 DEF LosePacket
  <2>2. CASE LoseAck(c)
    BY <1>3, <1>4, <1>5, <2>2 DEF LoseAck
  <2>3. CASE Repeat(c)
    BY <1>3, <1>4, <1>5, <2>3 DEF Repeat
  <2>4. CASE Reorder(c)
    BY <1>3, <1>4, <2>4, SwapType DEF Reorder
  <2> QED BY <2>1, <2>2, <2>3, <2>4 DEF Fault, Loss, Disorder
<1>7. PacketsInv(c)'
  BY <1>1, <1>6 DEF PacketsInv, Sendable, clientVars
<1> QED BY <1>1, <1>2, <1>7 DEF ClientInv

(* A step of a client leaves what belongs to other clients alone.          *)
LEMMA OtherClients ==
  ASSUME TypeOK, NEW c \in Threads, ClientStep(c) \/ SocketError(c), NEW u \in Threads, u # c
  PROVE  UNCHANGED <<ClientVarsAt(u), QueuesAt(u)>>
<1> USE DEF TypeOK, ClientTypeOK, UdpTypeOK, ClientVarsAt, QueuesAt, clientVars, netVars, Goto
<1>1. CASE Start(c)
  BY <1>1 DEF Start
<1>2. CASE SocketError(c)
  BY <1>2 DEF SocketError
<1>3. CASE SendPacketOfFile(c)
  BY <1>3 DEF SendPacketOfFile, SendPacket
<1>4. CASE SendEof(c)
  BY <1>4 DEF SendEof, SendPacket
<1>5. CASE ReceiveEcho(c)
  <2>1. output'[u] = output[u]
    BY <1>5 DEF ReceiveEcho
  <2> QED BY <1>5, <2>1 DEF ReceiveEcho, TakeAck
<1>6. CASE ReceiveEof(c)
  BY <1>6 DEF ReceiveEof, TakeAck
<1>7. CASE ReceiveTimeout(c)
  BY <1>7 DEF ReceiveTimeout
<1>8. CASE Validate(c)
  BY <1>8 DEF Validate
<1> QED BY <1>1, <1>2, <1>3, <1>4, <1>5, <1>6, <1>7, <1>8 DEF ClientStep

(* So does the server's answer to a client, and a fault of its path.       *)
LEMMA OtherQueues ==
  ASSUME TypeOK, NEW c \in Threads, Echo(c) \/ EchoEof(c) \/ Fault(c), NEW u \in Threads, u # c
  PROVE  UNCHANGED QueuesAt(u)
<1> USE DEF TypeOK, UdpTypeOK, QueuesAt
<1>1. CASE Echo(c) \/ EchoEof(c)
  BY <1>1 DEF Echo, EchoEof, TakePacket
<1>2. CASE LosePacket(c)
  BY <1>2 DEF LosePacket
<1>3. CASE LoseAck(c)
  BY <1>3 DEF LoseAck
<1>4. CASE Repeat(c)
  BY <1>4 DEF Repeat
<1>5. CASE Reorder(c)
  BY <1>5 DEF Reorder
<1> QED BY <1>1, <1>2, <1>3, <1>4, <1>5 DEF Fault, Loss, Disorder

(* Every step of a client keeps the types.                                 *)
LEMMA ClientType ==
  ASSUME TypeOK, NEW c \in Threads, ClientInv(c), Client(c) \/ Error(c)
  PROVE  TypeOK'
<1> USE DEF netVars, Goto
<1>1. UNCHANGED <<server, disorder, disturbed>>
  BY DEF Client, Error, pathVars
<1>2. ClientTypeOK /\ UdpTypeOK(Packets, Packets)
  BY DEF TypeOK, Packets
<1>3. SUFFICES ClientTypeOK' /\ UdpTypeOK(Packets, Packets)'
  BY <1>1 DEF TypeOK, ServerTypeOK, Packets
<1>4. CASE Start(c) \/ SocketError(c) \/ ReceiveTimeout(c) \/ Validate(c)
  <2>1. UNCHANGED <<seq_num, received_seq, total_packets, output, netVars>>
    BY <1>4 DEF Start, SocketError, ReceiveTimeout, Validate
  <2>2. pc' \in [Threads -> {"new", "send", "receive", "validate", "complete", "missing", "aborted"}]
    BY <1>2, <1>4 DEF Start, SocketError, ReceiveTimeout, Validate, ClientTypeOK
  <2>3. ended' \in [Threads -> {"not", "eof", "timeout"}]
    BY <1>2, <1>4 DEF Start, SocketError, ReceiveTimeout, Validate, ClientTypeOK
  <2> QED BY <1>2, <2>1, <2>2, <2>3 DEF ClientTypeOK, UdpTypeOK
<1>5. CASE SendPacketOfFile(c)
  <2>1. Offset(seq_num[c]) < Size[c] /\ seq_num[c] \in Nat /\ Chunk(c) = Piece(c, seq_num[c])
    BY <1>5, Types DEF SendPacketOfFile
  <2>2. Packet(seq_num[c], Chunk(c)) \in Packets
    BY <2>1, PieceFacts DEF Packet, Packets, IsPacket
  <2>3. UdpTypeOK(Packets, Packets)'
    BY <1>2, <1>5, <2>2, SendPacketType DEF SendPacketOfFile
  <2>4. seq_num' \in [Threads -> Nat]
    BY <1>2, <1>5 DEF SendPacketOfFile, ClientTypeOK
  <2>5. \A u \in Threads : received_seq[u] \subseteq 0..(seq_num'[u] - 1)
    <3> SUFFICES ASSUME NEW u \in Threads
                 PROVE  received_seq[u] \subseteq 0..(seq_num'[u] - 1)
      OBVIOUS
    <3>1. seq_num[u] \in Nat /\ (seq_num'[u] = seq_num[u] \/ seq_num'[u] = seq_num[u] + 1)
      BY <1>2, <1>5 DEF SendPacketOfFile, ClientTypeOK
    <3>2. received_seq[u] \subseteq 0..(seq_num[u] - 1)
      BY <1>2 DEF ClientTypeOK
    <3> QED BY <3>1, <3>2
  <2> QED BY <1>2, <1>5, <2>3, <2>4, <2>5 DEF SendPacketOfFile, ClientTypeOK
<1>6. CASE SendEof(c)
  <2>1. Packet(EofMarker, <<>>) \in Packets
    BY SendableFacts DEF ClientInv, Sendable
  <2>2. UdpTypeOK(Packets, Packets)'
    BY <1>2, <1>6, <2>1, SendPacketType DEF SendEof
  <2> QED BY <1>2, <1>6, <2>2 DEF SendEof, ClientTypeOK
<1>7. CASE ReceiveEcho(c)
  <2>1. UdpTypeOK(Packets, Packets)'
    BY <1>2, <1>7, TakeAckType DEF ReceiveEcho
  <2>2. /\ output' = [output EXCEPT ![c] = output'[c]]
        /\ received_seq'[c] \subseteq 0..(seq_num[c] - 1)
        /\ output'[c] \in Seq(Bytes \cup {Hole})
    BY <1>1, <1>7, ReceiveEchoStep
  <2>3. output' \in [Threads -> Seq(Bytes \cup {Hole})]
    BY <1>2, <2>2 DEF ClientTypeOK
  <2>4. total_packets' \in [Threads -> Nat] /\ UNCHANGED <<pc, seq_num, ended>>
    BY <1>2, <1>7 DEF ReceiveEcho, ClientTypeOK
  <2>5. \A u \in Threads : received_seq'[u] \subseteq 0..(seq_num[u] - 1)
    <3> SUFFICES ASSUME NEW u \in Threads, u # c
                 PROVE  received_seq'[u] = received_seq[u]
      BY <1>2, <2>2 DEF ClientTypeOK
    <3> QED BY <1>2, <1>7 DEF ReceiveEcho, ClientTypeOK
  <2>6. received_seq' \in [Threads -> SUBSET Nat]
    <3> DEFINE new == received_seq[c] \cup {Head(toClient[c]).seq}
    <3>1. received_seq' = [received_seq EXCEPT ![c] = new]
      BY <1>7 DEF ReceiveEcho
    <3>2. received_seq'[c] = new /\ seq_num[c] \in Nat
      BY <1>2, <3>1 DEF ClientTypeOK
    <3>3. new \in SUBSET Nat
      <4>1. 0..(seq_num[c] - 1) \subseteq Nat
        BY <3>2
      <4> QED BY <2>2, <3>2, <4>1
    <3> HIDE DEF new
    <3> QED BY <1>2, <3>1, <3>3 DEF ClientTypeOK
  <2> QED BY <1>2, <2>1, <2>3, <2>4, <2>5, <2>6 DEF ClientTypeOK
<1>8. CASE ReceiveEof(c)
  <2>1. UdpTypeOK(Packets, Packets)'
    BY <1>2, <1>8, TakeAckType DEF ReceiveEof
  <2> QED BY <1>2, <1>8, <2>1 DEF ReceiveEof, ClientTypeOK
<1> QED BY <1>4, <1>5, <1>6, <1>7, <1>8 DEF Client, Error, ClientStep

(* The server's steps keep the types.                                      *)
LEMMA ServerType ==
  ASSUME TypeOK, \A c \in Threads : ClientInv(c), Server
  PROVE  TypeOK'
<1>1. ClientTypeOK' /\ UNCHANGED <<disorder, disturbed>>
  BY DEF Server, clientVars, pathVars, TypeOK, ClientTypeOK
<1>2. UdpTypeOK(Packets, Packets) /\ ServerTypeOK
  BY DEF TypeOK, Packets
<1>3. SUFFICES ServerTypeOK' /\ UdpTypeOK(Packets, Packets)'
  BY <1>1 DEF TypeOK, Packets
<1>4. CASE ServerTimeout
  BY <1>2, <1>4 DEF ServerTimeout, Close, netVars, ServerTypeOK, UdpTypeOK
<1>5. ASSUME NEW c \in Threads, Echo(c) \/ EchoEof(c)
      PROVE  ServerTypeOK' /\ UdpTypeOK(Packets, Packets)'
  <2>1. /\ Head(toServer[c]) \in Packets /\ toServer[c] # <<>>
        /\ TakePacket(c, <<Head(toServer[c])>>)
    BY <1>5, EchoStep DEF Server, pathVars
  <2>2. <<Head(toServer[c])>> \in Seq(Packets)
    BY <2>1
  <2>3. UdpTypeOK(Packets, Packets)'
    BY <1>2, <2>1, <2>2, TakePacketType
  <2> QED BY <1>2, <1>5, <2>3 DEF Echo, EchoEof, Close, ServerTypeOK
<1> QED BY <1>4, <1>5 DEF Server, ServerStep

(* So does a fault.                                                        *)
LEMMA FaultType ==
  ASSUME TypeOK, NEW c \in Threads, Fault(c)
  PROVE  TypeOK'
<1>1. ClientTypeOK' /\ ServerTypeOK' /\ disturbed' \subseteq Threads
  BY DEF Fault, clientVars, TypeOK, ClientTypeOK, ServerTypeOK
<1>2. UdpTypeOK(Packets, Packets)
  BY DEF TypeOK, Packets
<1>3. ASSUME NEW s \in Seq(Packets), s # <<>>
      PROVE  Tail(s) \in Seq(Packets) /\ Doubled(s) \in Seq(Packets)
  <2>1. Head(s) \in Packets /\ Tail(s) \in Seq(Packets)
    BY <1>3, TailElements
  <2>2. <<Head(s)>> \in Seq(Packets)
    BY <2>1
  <2> QED BY <1>3, <2>1, <2>2, ConcatProperties DEF Doubled
<1>4. UdpTypeOK(Packets, Packets)'
  <2>1. CASE LosePacket(c)
    BY <1>2, <1>3, <2>1 DEF LosePacket, UdpTypeOK
  <2>2. CASE LoseAck(c)
    BY <1>2, <1>3, <2>2 DEF LoseAck, UdpTypeOK
  <2>3. CASE Repeat(c)
    BY <1>2, <1>3, <2>3 DEF Repeat, UdpTypeOK
  <2>4. CASE Reorder(c)
    BY <1>2, <2>4, ReorderType
  <2> QED BY <2>1, <2>2, <2>3, <2>4 DEF Fault, Loss, Disorder
<1>5. disorder' \in 0..MaxDisorder
  BY MaxDisorderAssumption DEF Fault, Loss, Disorder, TypeOK
<1> QED BY <1>1, <1>4, <1>5 DEF TypeOK, Packets

(* The invariant is inductive.                                             *)
LEMMA IInvStep ==
  ASSUME IInv, [Next]_vars
  PROVE  IInv'
<1> USE DEF IInv
<1>1. ASSUME NEW c \in Threads, Client(c) \/ Error(c)
      PROVE  IInv'
  <2>1. ClientStep(c) \/ SocketError(c)
    BY <1>1 DEF Client, Error
  <2>2. UNCHANGED disturbed
    BY <1>1 DEF Client, Error, pathVars
  <2>3. ASSUME NEW u \in Threads
        PROVE  ClientInv(u)'
    BY <2>1, <2>2, ClientOwnStep, OtherClients, Frame
  <2> QED BY <1>1, <2>3, ClientType
<1>2. ASSUME NEW c \in Threads, Fault(c)
      PROVE  IInv'
  <2>1. UNCHANGED clientVars /\ disturbed \subseteq disturbed'
    BY <1>2 DEF Fault
  <2>2. ASSUME NEW u \in Threads, u # c
        PROVE  ClientInv(u)'
    <3>1. UNCHANGED <<ClientVarsAt(u), QueuesAt(u)>>
      BY <1>2, <2>1, <2>2, OtherQueues DEF clientVars, ClientVarsAt
    <3> QED BY <2>1, <3>1, Frame
  <2> QED BY <1>2, <2>2, FaultStep, FaultType
<1>3. CASE Server
  <2>1. UNCHANGED <<clientVars, disturbed>>
    BY <1>3 DEF Server, pathVars
  <2>3. CASE ServerTimeout
    <3>1. ASSUME NEW u \in Threads
          PROVE  ClientInv(u)'
      <4>1. UNCHANGED <<ClientVarsAt(u), QueuesAt(u)>>
        BY <2>1, <2>3 DEF ServerTimeout, clientVars, netVars, ClientVarsAt, QueuesAt
      <4> QED BY <2>1, <4>1, Frame
    <3> QED BY <1>3, <3>1, ServerType
  <2>4. ASSUME NEW c \in Threads, Echo(c) \/ EchoEof(c)
        PROVE  \A u \in Threads : ClientInv(u)'
    <3>1. ASSUME NEW u \in Threads, u # c
          PROVE  ClientInv(u)'
      <4>1. UNCHANGED <<ClientVarsAt(u), QueuesAt(u)>>
        BY <2>1, <2>4, <3>1, OtherQueues DEF clientVars, ClientVarsAt
      <4> QED BY <2>1, <4>1, Frame
    <3> QED BY <2>1, <2>4, <3>1, EchoStep
  <2> QED BY <1>3, <2>3, <2>4, ServerType DEF Server, ServerStep
<1>4. CASE UNCHANGED vars
  <2>1. TypeOK'
    BY <1>4 DEF vars, clientVars, netVars, pathVars, TypeOK, ClientTypeOK, ServerTypeOK, UdpTypeOK
  <2>2. ASSUME NEW u \in Threads
        PROVE  ClientInv(u)'
    <3>1. UNCHANGED <<ClientVarsAt(u), QueuesAt(u), disturbed>>
      BY <1>4 DEF vars, clientVars, netVars, pathVars, ClientVarsAt, QueuesAt
    <3> QED BY <3>1, Frame
  <2> QED BY <2>1, <2>2
<1> QED BY <1>1, <1>2, <1>3, <1>4 DEF Next

(* The invariant holds initially.                                          *)
LEMMA IInvInit == Init => IInv
<1> SUFFICES ASSUME Init
             PROVE  IInv
  OBVIOUS
<1> USE ClientAssumption, MaxDisorderAssumption DEF Init, ClientInit, ServerInit, UdpInit
<1>1. TypeOK
  <2>1. <<>> \in Seq(Bytes \cup {Hole}) /\ <<>> \in Seq(Packets)
    OBVIOUS
  <2>2. ClientTypeOK
    BY <2>1 DEF ClientTypeOK
  <2>3. UdpTypeOK(Packets, Packets)
    BY <2>1 DEF UdpTypeOK
  <2> QED BY <2>2, <2>3 DEF TypeOK, ServerTypeOK, Packets
<1>2. ASSUME NEW c \in Threads
      PROVE  ClientInv(c)
  <2>1. PacketsInv(c)
    BY DEF PacketsInv
  <2>2. SentInv(c)
    BY DEF SentInv
  <2>3. CountInv(c)
    BY FS_EmptySet DEF CountInv
  <2>4. OutputInv(c)
    BY DEF OutputInv
  <2>5. OrderInv(c)
    BY DEF OrderInv
  <2> QED BY <2>1, <2>2, <2>3, <2>4, <2>5 DEF ClientInv
<1> QED BY <1>1, <1>2 DEF IInv

(* For any buffer size and any path that loses, duplicates and reorders    *)
(* the datagrams, IInv is an invariant of lab2.                            *)
THEOREM InvariantHolds == Spec => []IInv
<1>1. Init => IInv
  BY IInvInit
<1>2. IInv /\ [Next]_vars => IInv'
  BY IInvStep
<1> QED BY <1>1, <1>2, PTL DEF Spec

(* Numbers, queues, bytes and counters stay what the code takes them for.  *)
THEOREM TypeCorrect == Spec => []TypeOK
<1>1. IInv => TypeOK
  BY DEF IInv
<1> QED BY <1>1, InvariantHolds, PTL

(* When all numbers below m and no others were received, the output is an  *)
(* initial part of the file, up to the end of packet m - 1.                *)
LEMMA WithoutGap ==
  ASSUME IInv, NEW c \in Threads, NEW m \in Nat, received_seq[c] = 0..(m - 1)
  PROVE  /\ output[c] = SubSeq(File(c), 1, Len(output[c]))
         /\ Len(output[c]) \in 0..Size[c]
<1> DEFINE o == output[c]
           L == Len(o)
<1>1. /\ L \in Nat /\ Size[c] \in Nat /\ Payload \in Nat \ {0} /\ o \in Seq(Bytes \cup {Hole})
  BY Types, PayloadPositive DEF IInv
<1>2. ASSUME NEW n \in received_seq[c]
      PROVE  /\ n \in Nat /\ Offset(n) \in Nat /\ End(c, n) \in Nat
             /\ End(c, n) <= Size[c] /\ End(c, n) <= Offset(n) + Payload
  BY SentBegins, PieceFacts DEF IInv, ClientInv, CountInv
<1>3. L <= Size[c]
  <2>1. L = 0 \/ \E n \in received_seq[c] : L = End(c, n)
    BY DEF IInv, ClientInv, OutputInv
  <2> QED BY <1>1, <1>2, <2>1
<1>4. ASSUME NEW i \in 1..L
      PROVE  o[i] = <<c, i>>
  <2>1. L # 0 /\ i \in Nat \ {0} /\ i <= L
    BY <1>1
  <2>2. PICK l \in received_seq[c] : L = End(c, l)
    BY <2>1 DEF IInv, ClientInv, OutputInv
  <2>3. PICK n \in Nat : Offset(n) < i /\ i <= Offset(n) + Payload
    BY <2>1, InSomePacket
  <2>4. l \in Nat /\ Offset(l) \in Nat /\ Offset(n) \in Nat /\ i <= Offset(l) + Payload
    <3>1. /\ l \in Nat /\ Offset(l) \in Nat /\ Offset(n) \in Nat
          /\ End(c, l) \in Nat /\ End(c, l) <= Offset(l) + Payload
      BY <1>2, <2>2, OffsetType
    <3> HIDE DEF L
    <3> QED BY <1>1, <2>1, <2>2, <3>1
  <2>5. n <= l
    <3>1. CASE l < n
      <4>1. Offset(l) + Payload <= Offset(n)
        BY <2>4, <3>1, OffsetGrows
      <4> QED BY <1>1, <2>1, <2>3, <2>4, <4>1
    <3> QED BY <2>4, <3>1
  <2>6. n \in received_seq[c]
    BY <2>2, <2>4, <2>5
  <2>7. i \in (Offset(n) + 1)..End(c, n)
    <3>1. i <= End(c, n)
      BY <1>1, <1>3, <2>1, <2>3, <2>4 DEF End
    <3> QED BY <1>2, <2>1, <2>3, <2>4, <2>6, <3>1
  <2> QED BY <2>6, <2>7 DEF IInv, ClientInv, OutputInv
<1>5. File(c) \in Seq(Bytes) /\ Len(File(c)) = Size[c] /\ \A i \in 1..Size[c] : File(c)[i] = <<c, i>>
  <2>1. File(c) \in [1..Size[c] -> Bytes] /\ \A i \in 1..Size[c] : File(c)[i] = <<c, i>>
    BY DEF File, Bytes
  <2>2. File(c) \in Seq(Bytes)
    BY <1>1, <2>1, FunctionIsSeq
  <2>3. Len(File(c)) = Size[c]
    BY <1>1, <2>1, <2>2
  <2> QED BY <2>1, <2>2, <2>3
<1> DEFINE f == File(c)
<1> HIDE DEF o, f
<1>6. f \in Seq(Bytes) /\ L <= Len(f) /\ L \in Nat /\ \A i \in 1..L : f[i] = <<c, i>>
  BY <1>1, <1>3, <1>5 DEF f
<1>7. /\ SubSeq(f, 1, L) \in Seq(Bytes) /\ Len(SubSeq(f, 1, L)) = L
      /\ \A i \in 1..L : SubSeq(f, 1, L)[i] = f[i]
  <2> HIDE DEF L
  <2> QED BY <1>6
<1>8. o = SubSeq(f, 1, L)
  <2> DEFINE s == SubSeq(f, 1, L)
  <2>1. s \in Seq(Bytes) /\ Len(s) = Len(o) /\ \A i \in 1..Len(o) : s[i] = o[i]
    BY <1>4, <1>6, <1>7
  <2> HIDE DEF s
  <2>2. s = o
    BY <1>1, <2>1, SeqEqual
  <2> QED BY <2>2 DEF s
<1> QED BY <1>1, <1>3, <1>8 DEF o, f

(* "File successfully reconstructed.": the output is an initial part of    *)
(* the client's own file, whatever the path lost, doubled or overtook.     *)
THEOREM PrefixOnSuccessCorrect == Spec => []PrefixOnSuccess
<1>1. IInv => PrefixOnSuccess
  <2> SUFFICES ASSUME IInv, NEW c \in Threads, pc[c] = "complete"
               PROVE  output[c] = SubSeq(File(c), 1, Len(output[c]))
    BY DEF PrefixOnSuccess
  <2> DEFINE T == total_packets[c]
             R == received_seq[c]
  <2>1. T \in Nat /\ 0..(T - 1) \subseteq R /\ IsFiniteSet(R) /\ Cardinality(R) <= T
        /\ Cardinality(R) \in Nat
    BY Types, FiniteReceived DEF IInv, ClientInv, CountInv, NoGap
  <2>2. R = 0..(T - 1)
    <3>1. IsFiniteSet(0..(T - 1)) /\ Cardinality(0..(T - 1)) = T
      <4> HIDE DEF T
      <4>1. 0 \in Int /\ T - 1 \in Int /\ (0 > T - 1 => T = 0) /\ (T - 1) - 0 + 1 = T
        BY <2>1
      <4>2. IsFiniteSet(0..(T - 1))
            /\ Cardinality(0..(T - 1)) = IF 0 > T - 1 THEN 0 ELSE (T - 1) - 0 + 1
        BY <4>1, FS_Interval
      <4> QED BY <4>1, <4>2
    <3> HIDE DEF R, T
    <3>2. Cardinality(0..(T - 1)) = Cardinality(R)
      BY <2>1, <3>1, FS_Subset
    <3> QED BY <2>1, <3>2, FS_Subset
  <2> QED BY <2>1, <2>2, WithoutGap
<1> QED BY <1>1, InvariantHolds, PTL

(* "packet missing": only a fault on the client's own path makes it say so. *)
THEOREM AlarmNeedsFaultCorrect == Spec => []AlarmNeedsFault
<1>1. IInv => AlarmNeedsFault
  <2> SUFFICES ASSUME IInv, NEW c \in Threads, pc[c] = "missing", c \notin disturbed
               PROVE  FALSE
    BY DEF AlarmNeedsFault
  <2>1. received_seq[c] = 0..(total_packets[c] - 1)
    BY DEF IInv, ClientInv, OrderInv
  <2> QED BY <2>1 DEF IInv, ClientInv, CountInv, NoGap
<1> QED BY <1>1, InvariantHolds, PTL

(* On an undisturbed path, the client that gets its EOF marker back has    *)
(* its whole file back: nothing is behind the marker.                      *)
THEOREM EofMeansWholeCorrect == Spec => []EofMeansWhole
<1>1. IInv => EofMeansWhole
  <2> SUFFICES ASSUME IInv, NEW c \in Threads, ended[c] = "eof", c \notin disturbed
               PROVE  output[c] = File(c) /\ pc[c] # "missing"
    BY DEF EofMeansWhole
  <2> DEFINE N == seq_num[c]
             L == Len(output[c])
  <2>1. received_seq[c] = 0..(N - 1) /\ total_packets[c] = N /\ N \in Nat
    BY Types DEF IInv, ClientInv, OrderInv
  <2>2. pc[c] # "missing"
    BY <2>1 DEF IInv, ClientInv, CountInv, NoGap
  <2>3. output[c] = SubSeq(File(c), 1, L) /\ L \in 0..Size[c] /\ Size[c] \in Nat
    BY <2>1, WithoutGap, Types DEF IInv
  <2>4. N * Payload >= Size[c]
    BY DEF IInv, ClientInv, SentInv, Sent
  <2>5. L = Size[c]
    <3>1. CASE N = 0
      <4>1. 0 * Payload = 0
        BY PayloadPositive
      <4> QED BY <2>3, <2>4, <3>1, <4>1
    <3>2. CASE N > 0
      <4>1. N - 1 \in received_seq[c] /\ N - 1 \in Nat
        BY <2>1, <3>2
      <4>2. End(c, N - 1) <= L
        BY <4>1 DEF IInv, ClientInv, OutputInv
      <4>3. Offset(N - 1) + Payload = N * Payload
        <5>1. ASSUME NEW k \in Nat, NEW p \in Nat
              PROVE  (k - 1) * p + p = k * p
          OBVIOUS
        <5> QED BY <2>1, <5>1, PayloadPositive DEF Offset
      <4>4. End(c, N - 1) = Size[c]
        <5> DEFINE x == Offset(N - 1) + Payload
        <5>1. x \in Nat
          BY <4>1, OffsetType, PayloadPositive
        <5>2. x >= Size[c]
          BY <2>4, <4>3
        <5>3. End(c, N - 1) = IF x < Size[c] THEN x ELSE Size[c]
          BY DEF End
        <5> HIDE DEF x
        <5> QED BY <2>3, <5>1, <5>2, <5>3
      <4> QED BY <2>3, <4>2, <4>4
    <3> QED BY <2>1, <3>1, <3>2
  <2>6. SubSeq(File(c), 1, Size[c]) = File(c)
    <3> DEFINE f == File(c)
    <3>2. f \in Seq(Bytes) /\ Len(f) = Size[c]
      BY FileFacts
    <3> HIDE DEF f
    <3>3. SubSeq(f, 1, Len(f)) = f
      BY <3>2, SubSeqFull
    <3> QED BY <3>2, <3>3 DEF f
  <2> QED BY <2>2, <2>3, <2>5, <2>6
<1> QED BY <1>1, InvariantHolds, PTL
=============================================================================
