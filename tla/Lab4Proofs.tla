---------------------------- MODULE Lab4Proofs ----------------------------
(***************************************************************************)
(* Delivery: on a path that keeps order, what a sender thread counts as    *)
(* delivered is stored, and what it reports as sent is a whole file.       *)
(*                                                                         *)
(* A step of one thread, of its server or of the path between them changes *)
(* nothing of another thread's ThreadInv (OtherThreads, OtherClients and   *)
(* DeliveryFrame).  For the thread itself a server step must keep what is  *)
(* stored and acknowledge no more than that (StoreDelivers), and a client  *)
(* step must count as delivered only what an ack says (ClientDelivery).    *)
(* A repeated name, which opens the output file anew, does no harm because *)
(* all names come before the first data packet (NamesFirst).               *)
(***************************************************************************)
EXTENDS Lab4Invariant, Lab4WindowProofs

(* The first blocks of a file, as a sequence.                              *)
LEMMA BlocksSeq ==
  ASSUME NEW a \in Nat
  PROVE  Blocks(1, a) \in Seq(Nat \X Nat) /\ Len(Blocks(1, a)) = a
<1>1. Blocks(1, a) \in [1..a -> Nat \X Nat]
  BY DEF Blocks
<1>2. Blocks(1, a) \in Seq(Nat \X Nat)
  BY <1>1, FunctionIsSeq
<1> QED BY <1>1, <1>2 DEF Blocks

(* Appending the next k blocks of the file to its first a blocks.          *)
LEMMA BlocksConcat ==
  ASSUME NEW a \in Nat, NEW k \in Nat, NEW s,
         s = [i \in 1..k |-> <<1, a + i>>]
  PROVE  Blocks(1, a) \o s = Blocks(1, a + k)
<1>1. s \in Seq(Nat \X Nat) /\ Len(s) = k
  <2>1. s \in [1..k -> Nat \X Nat]
    OBVIOUS
  <2>2. s \in Seq(Nat \X Nat)
    BY <2>1, FunctionIsSeq
  <2> QED BY <2>1, <2>2
<1> DEFINE c == Blocks(1, a) \o s
<1>2. /\ c \in [1..(a + k) -> Nat \X Nat]
      /\ \A i \in 1..a : c[i] = Blocks(1, a)[i]
      /\ \A i \in (a + 1)..(a + k) : c[i] = s[i - a]
  <2> DEFINE p == Blocks(1, a)
             S == Nat \X Nat
  <2>1. p \in Seq(S) /\ Len(p) = a /\ s \in Seq(S) /\ Len(s) = k
    BY <1>1, BlocksSeq
  <2> HIDE DEF p, S
  <2>2. /\ p \o s \in [1..(a + k) -> S]
        /\ \A i \in 1..(a + k) : (p \o s)[i] = IF i <= a THEN p[i] ELSE s[i - a]
    <3>1. p \o s \in [1..(Len(p) + Len(s)) -> S]
      BY <2>1, ConcatElements
    <3>2. \A i \in 1..(Len(p) + Len(s)) :
             (p \o s)[i] = IF i <= Len(p) THEN p[i] ELSE s[i - Len(p)]
      BY <2>1, ConcatElements
    <3> QED BY <2>1, <3>1, <3>2
  <2> QED BY <2>2 DEF p, S
<1> HIDE DEF c
<1>3. ASSUME NEW i \in 1..(a + k)
      PROVE  c[i] = <<1, i>>
  <2>1. CASE i \in 1..a
    BY <1>2, <2>1 DEF Blocks
  <2>2. CASE i \in (a + 1)..(a + k)
    <3>1. i - a \in 1..k /\ a + (i - a) = i
      BY <2>2
    <3>2. s[i - a] = <<1, a + (i - a)>>
      BY <3>1
    <3> QED BY <1>2, <2>2, <3>1, <3>2
  <2>3. i \in 1..a \/ i \in (a + 1)..(a + k)
    OBVIOUS
  <2> QED BY <2>1, <2>2, <2>3
<1>4. c = Blocks(1, a + k)
  BY <1>2, <1>3 DEF Blocks
<1> QED BY <1>4 DEF c

(* What StoreWriteAck does to the entry of a client, whatever came before: *)
(* the file, if it held its first expected - 1 blocks, grows by exactly    *)
(* the run of blocks that was waiting.                                     *)
LEMMA StoreInOrder ==
  ASSUME TypeOK, NEW t \in Threads, Head(toServer[t]).run = 1, HeadSeq(t) \in SeqNums,
         \A n \in received[t] : buffer[t][n] = 1,
         NEW expected \in 1..MaxSeqNum, NEW content, NEW isOpen, NEW firstAcks,
         StoreWriteAck(t, expected, content, isOpen, firstAcks)
  PROVE  /\ \A n \in received'[t] : buffer'[t][n] = 1
         /\ content = Blocks(1, expected - 1)
            /\ (isOpen \/ (expected_seq[t] = expected /\ disk[t] = content))
              => disk'[t] = Blocks(1, expected_seq'[t] - 1)
<1> DEFINE rec == received[t] \cup {HeadSeq(t)}
           buf == IF HeadSeq(t) \in received[t] THEN buffer[t]
                  ELSE [buffer[t] EXCEPT ![HeadSeq(t)] = Head(toServer[t]).run]
<1>1. buffer'[t] = buf
  BY DEF StoreWriteAck, TypeOK, ServerTypeOK
<1>2. \A n \in rec : n \in Nat /\ buf[n] = 1
  <2>1. buffer[t] \in [SeqNums -> Nat] /\ received[t] \subseteq SeqNums
    BY DEF TypeOK, ServerTypeOK
  <2>2. \A n \in SeqNums : n \in Nat
    BY ServerAssumption DEF SeqNums
  <2> QED BY <2>1, <2>2
<1>3. CASE /\ ~isOpen
           /\ received' = [received EXCEPT ![t] = rec]
           /\ UNCHANGED <<expected_seq, disk>>
  BY <1>1, <1>2, <1>3 DEF TypeOK, ServerTypeOK
<1>4. ASSUME NEW e \in expected..MaxSeqNum,
             StopsAt(e, expected, rec),
             expected_seq' = [expected_seq EXCEPT ![t] = e],
             received' = [received EXCEPT ![t] = rec \ (expected..(e - 1))],
             disk' = [disk EXCEPT ![t] = content \o
                          [i \in 1..(e - expected) |->
                              <<buf[expected + i - 1], expected + i - 1>>]]
      PROVE  /\ \A n \in received'[t] : buffer'[t][n] = 1
             /\ content = Blocks(1, expected - 1) => disk'[t] = Blocks(1, expected_seq'[t] - 1)
  <2> HIDE DEF rec, buf
  <2>1. expected_seq'[t] = e /\ received'[t] = rec \ (expected..(e - 1))
    BY <1>4 DEF TypeOK, ServerTypeOK
  <2>2. \A n \in received'[t] : buffer'[t][n] = 1
    BY <1>1, <1>2, <2>1
  <2>3. ASSUME content = Blocks(1, expected - 1)
        PROVE  disk'[t] = Blocks(1, e - 1)
    <3> DEFINE new == [i \in 1..(e - expected) |-> <<1, (expected - 1) + i>>]
    <3>1. \A i \in 1..(e - expected) : <<buf[expected + i - 1], expected + i - 1>> = <<1, (expected - 1) + i>>
      BY <1>2, <1>4, ServerAssumption DEF StopsAt
    <3>2. [i \in 1..(e - expected) |-> <<buf[expected + i - 1], expected + i - 1>>] = new
      BY <3>1
    <3>3. disk'[t] = Blocks(1, expected - 1) \o new
      BY <1>4, <2>3, <3>2 DEF TypeOK, ServerTypeOK
    <3>4. expected - 1 \in Nat /\ e - expected \in Nat /\ (expected - 1) + (e - expected) = e - 1
      BY <1>4, ServerAssumption
    <3>5. Blocks(1, expected - 1) \o new = Blocks(1, (expected - 1) + (e - expected))
      BY <3>4, BlocksConcat
    <3> QED BY <3>3, <3>4, <3>5
  <2> QED BY <2>1, <2>2, <2>3
<1> HIDE DEF buf, rec
<1>5. \/ /\ ~isOpen
         /\ received' = [received EXCEPT ![t] = rec]
         /\ UNCHANGED <<expected_seq, disk>>
      \/ \E e \in expected..MaxSeqNum :
           /\ StopsAt(e, expected, rec)
           /\ expected_seq' = [expected_seq EXCEPT ![t] = e]
           /\ received' = [received EXCEPT ![t] = rec \ (expected..(e - 1))]
           /\ disk' = [disk EXCEPT ![t] = content \o
                         [i \in 1..(e - expected) |->
                             <<buf[expected + i - 1], expected + i - 1>>]]
  BY DEF StoreWriteAck, rec, buf
<1> QED BY <1>3, <1>4, <1>5

(* Whatever was stored stays stored when another packet is, and a number   *)
(* is acknowledged only when it is stored.  Needs nothing of the path.     *)
LEMMA StoreKeeps ==
  ASSUME TypeOK, NEW t \in Threads, NEW h \in SeqNums, h = HeadSeq(t),
         NEW content, NEW isOpen, NEW firstAcks,
         StoreWriteAck(t, expected_seq[t], content, isOpen, firstAcks)
  PROVE  /\ expected_seq'[t] \in 1..MaxSeqNum
         /\ \/ expected_seq'[t] = expected_seq[t]
            \/ expected_seq'[t] - 1 \in received[t] \cup {h}
         /\ received'[t] \subseteq received[t] \cup {h}
         /\ \A n \in Nat : Stored(t, n) => Stored(t, n)'
         /\ \/ TakePacket(t, firstAcks)
            \/ TakePacket(t, Append(firstAcks, h)) /\ Stored(t, h)'
<1> DEFINE expected == expected_seq[t]
           rec == received[t] \cup {HeadSeq(t)}
<1>1. /\ expected \in 1..MaxSeqNum /\ rec \subseteq SeqNums /\ h \in rec
      /\ \A n \in rec : n \in Nat
  <2>1. expected_seq[t] \in 1..MaxSeqNum /\ received[t] \subseteq SeqNums
    BY DEF TypeOK, ServerTypeOK
  <2>2. \A n \in SeqNums : n \in Nat
    BY ServerAssumption DEF SeqNums
  <2> QED BY <2>1, <2>2
<1>2. CASE /\ received' = [received EXCEPT ![t] = rec]
           /\ TakePacket(t, firstAcks)
           /\ UNCHANGED <<expected_seq, disk>>
  <2>1. received'[t] = rec
    BY <1>2 DEF TypeOK, ServerTypeOK
  <2> QED BY <1>1, <1>2, <2>1 DEF Stored
<1>3. ASSUME NEW e \in expected..MaxSeqNum,
             StopsAt(e, expected, rec),
             expected_seq' = [expected_seq EXCEPT ![t] = e],
             received' = [received EXCEPT ![t] = rec \ (expected..(e - 1))],
             TakePacket(t, Append(firstAcks, h))
      PROVE  /\ expected_seq'[t] \in 1..MaxSeqNum
             /\ \/ expected_seq'[t] = expected_seq[t]
                \/ expected_seq'[t] - 1 \in rec
             /\ received'[t] \subseteq rec
             /\ \A n \in Nat : Stored(t, n) => Stored(t, n)'
             /\ Stored(t, h)'
  <2> HIDE DEF expected, rec
  <2>1. /\ expected_seq'[t] = e
        /\ received'[t] = rec \ (expected..(e - 1))
        /\ e \in 1..MaxSeqNum /\ e \in Nat
    BY <1>1, <1>3, ServerAssumption DEF TypeOK, ServerTypeOK
  <2>2. e = expected \/ e - 1 \in rec
    BY <1>1, <1>3 DEF StopsAt
  <2>3. \A n \in Nat : n \in rec \/ n < expected => n < e \/ (n \in received'[t] /\ n # e)
    BY <1>1, <1>3, <2>1 DEF StopsAt
  <2>4. \A n \in Nat : Stored(t, n) => Stored(t, n)'
    BY <2>1, <2>3 DEF Stored, rec, expected
  <2>5. Stored(t, h)'
    <3>1. h < e \/ (h \in received'[t] /\ h # e)
      BY <1>1, <2>3
    <3> QED BY <2>1, <3>1 DEF Stored
  <2> QED BY <2>1, <2>2, <2>4, <2>5 DEF expected
<1>4. \/ /\ received' = [received EXCEPT ![t] = rec]
         /\ TakePacket(t, firstAcks)
         /\ UNCHANGED <<expected_seq, disk>>
      \/ /\ \E e \in expected..MaxSeqNum :
              /\ StopsAt(e, expected, rec)
              /\ expected_seq' = [expected_seq EXCEPT ![t] = e]
              /\ received' = [received EXCEPT ![t] = rec \ (expected..(e - 1))]
         /\ TakePacket(t, Append(firstAcks, HeadSeq(t)))
  BY DEF StoreWriteAck
<1> HIDE DEF expected, rec
<1> QED BY <1>2, <1>3, <1>4 DEF expected, rec

(* On a path that keeps order, where all numbers are below next_sn, the    *)
(* file moreover ends where expected_seq says, below next_sn.              *)
LEMMA StoreDelivers ==
  ASSUME TypeOK, NEW t \in Threads, ServerInv(t), toServer[t] # <<>>,
         NEW h \in SeqNums, h = HeadSeq(t), h < next_sn[t],
         NEW isOpen, NEW firstAcks,
         StoreWriteAck(t, expected_seq[t], disk[t], isOpen, firstAcks)
  PROVE  /\ expected_seq'[t] \in 1..MaxSeqNum /\ expected_seq'[t] <= next_sn[t]
         /\ \/ expected_seq'[t] = expected_seq[t]
            \/ expected_seq'[t] - 1 \in received[t] \cup {h}
         /\ received'[t] \subseteq received[t] \cup {h}
         /\ \A n \in received'[t] : buffer'[t][n] = 1
         /\ disk'[t] = Blocks(1, expected_seq'[t] - 1)
         /\ \A n \in Nat : Stored(t, n) => Stored(t, n)'
         /\ \/ TakePacket(t, firstAcks)
            \/ TakePacket(t, Append(firstAcks, h)) /\ Stored(t, h)'
<1>1. /\ expected_seq'[t] \in 1..MaxSeqNum
      /\ \/ expected_seq'[t] = expected_seq[t]
         \/ expected_seq'[t] - 1 \in received[t] \cup {h}
      /\ received'[t] \subseteq received[t] \cup {h}
      /\ \A n \in Nat : Stored(t, n) => Stored(t, n)'
      /\ \/ TakePacket(t, firstAcks)
         \/ TakePacket(t, Append(firstAcks, h)) /\ Stored(t, h)'
  BY StoreKeeps
<1>2. expected_seq[t] \in 1..MaxSeqNum
  BY DEF TypeOK, ServerTypeOK
<1>3. /\ \A n \in received'[t] : buffer'[t][n] = 1
      /\ disk'[t] = Blocks(1, expected_seq'[t] - 1)
  <2>1. Head(toServer[t]) = toServer[t][1] /\ 1 \in InFlight(t)
    BY DEF TypeOK, UdpTypeOK, InFlight
  <2>2. Head(toServer[t]).run = 1
    BY <2>1 DEF ServerInv
  <2>3. (\A n \in received[t] : buffer[t][n] = 1) /\ disk[t] = Blocks(1, expected_seq[t] - 1)
    BY DEF ServerInv
  <2> QED BY <1>2, <2>2, <2>3, StoreInOrder
<1>4. expected_seq'[t] <= next_sn[t]
  <2>1. expected_seq[t] <= next_sn[t] /\ \A n \in received[t] \cup {h} : n < next_sn[t]
    BY DEF ServerInv
  <2>2. next_sn[t] \in Int /\ expected_seq'[t] \in Int
    BY <1>1, ClientAssumption, ServerAssumption DEF TypeOK, ClientTypeOK
  <2>3. CASE expected_seq'[t] = expected_seq[t]
    BY <2>1, <2>3
  <2>4. CASE expected_seq'[t] - 1 \in received[t] \cup {h}
    <3>1. expected_seq'[t] - 1 < next_sn[t]
      BY <2>1, <2>4
    <3> QED BY <2>2, <3>1
  <2> QED BY <1>1, <2>3, <2>4
<1> QED BY <1>1, <1>3, <1>4

(* ThreadInv without WindowInv: what depends on the server and the path. *)
DeliveryInv(t) == NamesFirst(t) /\ ServerInv(t) /\ AcksSound(t) /\ ClientSound(t)

(* Taking a packet off the queue keeps NamesFirst.                         *)
LEMMA TailNames ==
  ASSUME TypeOK, NEW t \in Threads, NamesFirst(t), toServer[t] # <<>>,
         toServer'[t] = Tail(toServer[t]), UNCHANGED clientVars,
         HeadSeq(t) = 0 /\ expected_seq[t] = 1 /\ received[t] \subseteq {0}
           => expected_seq'[t] = 1 /\ received'[t] \subseteq {0}
  PROVE  NamesFirst(t)'
<1> DEFINE q == toServer[t]
<1>1. q \in Seq(Packets) /\ q # <<>>
  BY DEF TypeOK, UdpTypeOK, Packets
<1>2. /\ Len(q) \in Nat \ {0}
      /\ Len(Tail(q)) = Len(q) - 1
      /\ \A k \in 1..(Len(q) - 1) : Tail(q)[k] = q[k + 1]
      /\ Head(q) = q[1]
  BY <1>1
<1>3. /\ InFlight(t)' = 1..(Len(q) - 1)
      /\ \A k \in InFlight(t)' : k + 1 \in InFlight(t) /\ SeqAt(t, k)' = SeqAt(t, k + 1)
  BY <1>2 DEF InFlight, SeqAt
<1>4. UNCHANGED <<next_sn[t], Naming(t)>>
  BY DEF clientVars, Naming
<1>5. \A k \in InFlight(t)' : SeqAt(t, k)' < next_sn'[t]
  BY <1>3, <1>4 DEF NamesFirst
<1>6. Naming(t)' => \A k \in InFlight(t)' : SeqAt(t, k)' = 0
  BY <1>3, <1>4 DEF NamesFirst
<1>7. \A j, k \in InFlight(t)' : j < k /\ SeqAt(t, k)' = 0 => SeqAt(t, j)' = 0
  <2>1. \A j, k \in InFlight(t)' : j \in Int /\ k \in Int
    BY <1>2, <1>3
  <2> QED BY <1>3, <2>1 DEF NamesFirst
<1>8. ASSUME NEW k \in InFlight(t)', SeqAt(t, k)' = 0
      PROVE  expected_seq'[t] = 1 /\ received'[t] \subseteq {0}
  <2>1. k + 1 \in InFlight(t) /\ SeqAt(t, k + 1) = 0 /\ 1 \in InFlight(t) /\ 1 < k + 1
    BY <1>2, <1>3, <1>8 DEF InFlight
  <2>2. SeqAt(t, 1) = 0 /\ expected_seq[t] = 1 /\ received[t] \subseteq {0}
    BY <2>1 DEF NamesFirst
  <2>3. HeadSeq(t) = 0
    BY <1>2, <2>2 DEF HeadSeq, SeqAt
  <2> QED BY <2>2, <2>3
<1> QED BY <1>5, <1>6, <1>7, <1>8 DEF NamesFirst

(* Sound acks added to sound acks are sound.                               *)
LEMMA MoreAcks ==
  ASSUME TypeOK, NEW t \in Threads, AcksSound(t),
         NEW acks \in Seq(Nat), toClient'[t] = toClient[t] \o acks,
         \A k \in 1..Len(acks) : AckSound(t, acks[k])',
         \A n \in Nat : AckSound(t, n) => AckSound(t, n)'
  PROVE  AcksSound(t)'
<1> DEFINE q == toClient[t]
<1>1. q \in Seq(Nat)
  <2>1. q \in Seq(0..NumPackets) /\ 0..NumPackets \subseteq Nat
    BY DEF TypeOK, UdpTypeOK
  <2> QED BY <2>1, SeqMonotonic
<1>2. \A k \in 1..Len(q) : q[k] \in Nat /\ AckSound(t, q[k])
  BY <1>1 DEF AcksSound
<1> HIDE DEF q
<1>3. /\ Len(q) \in Nat /\ Len(acks) \in Nat
      /\ Len(q \o acks) = Len(q) + Len(acks)
      /\ \A k \in 1..(Len(q) + Len(acks)) :
            (q \o acks)[k] = IF k <= Len(q) THEN q[k] ELSE acks[k - Len(q)]
  BY <1>1, ConcatProperties
<1>4. Len(toClient'[t]) = Len(q) + Len(acks)
  BY <1>3 DEF q
<1> SUFFICES ASSUME NEW k \in 1..(Len(q) + Len(acks)), NEW a, a = toClient'[t][k]
             PROVE  AckSound(t, a)'
  BY <1>4 DEF AcksSound, AckSound, Stored
<1>5. CASE k <= Len(q)
  <2>1. a = q[k] /\ k \in 1..Len(q)
    BY <1>3, <1>5 DEF q
  <2> QED BY <1>2, <2>1
<1>6. CASE k > Len(q)
  <2>1. a = acks[k - Len(q)] /\ k - Len(q) \in 1..Len(acks)
    BY <1>3, <1>6 DEF q
  <2> QED BY <2>1
<1>7. k <= Len(q) \/ k > Len(q)
  BY <1>3
<1> QED BY <1>5, <1>6, <1>7

(* The server variables DeliveryInv reads. *)
ServerVarsAt(t) == <<expected_seq[t], received[t], buffer[t], disk[t]>>

(* What TakePacket does to the queues of the client it takes from.         *)
LEMMA TakeTakes ==
  ASSUME TypeOK, NEW t \in Threads, NEW acks, TakePacket(t, acks)
  PROVE  toServer'[t] = Tail(toServer[t]) /\ toClient'[t] = toClient[t] \o acks
  BY DEF TakePacket, TypeOK, UdpTypeOK

(* A server step that keeps what is stored, and acknowledges only that,    *)
(* keeps DeliveryInv.                                                      *)
LEMMA TakeDelivers ==
  ASSUME TypeOK, NEW t \in Threads, DeliveryInv(t), UNCHANGED clientVars,
         toServer[t] # <<>>, toServer'[t] = Tail(toServer[t]),
         NEW acks \in Seq(Nat), toClient'[t] = toClient[t] \o acks,
         \A k \in 1..Len(acks) : AckSound(t, acks[k])',
         \A n \in Nat : Stored(t, n) => Stored(t, n)',
         expected_seq'[t] <= next_sn[t],
         \A n \in received'[t] : n < next_sn[t] /\ buffer'[t][n] = 1,
         disk'[t] = Blocks(1, expected_seq'[t] - 1),
         HeadSeq(t) = 0 /\ expected_seq[t] = 1 /\ received[t] \subseteq {0}
           => expected_seq'[t] = 1 /\ received'[t] \subseteq {0}
  PROVE  DeliveryInv(t)'
<1>2. NamesFirst(t)'
  BY TailNames DEF DeliveryInv
<1>3. AcksSound(t)'
  <2>1. \A n \in Nat : AckSound(t, n) => AckSound(t, n)'
    BY DEF AckSound, clientVars, Stored
  <2> QED BY <2>1, MoreAcks DEF DeliveryInv
<1>4. ServerInv(t)'
  <2>1. \A k \in InFlight(t)' : toServer'[t][k].run = 1
    <3> DEFINE q == toServer[t]
    <3>1. q \in Seq(Packets) /\ q # <<>>
      BY DEF TypeOK, UdpTypeOK, Packets
    <3>2. /\ Len(q) \in Nat \ {0}
          /\ Len(Tail(q)) = Len(q) - 1
          /\ \A k \in 1..(Len(q) - 1) : Tail(q)[k] = q[k + 1]
      BY <3>1
    <3>3. \A k \in 1..Len(q) : q[k].run = 1
      BY DEF DeliveryInv, ServerInv, InFlight
    <3> QED BY <3>2, <3>3 DEF InFlight
  <2> QED BY <2>1 DEF ServerInv, clientVars
<1>5. ClientSound(t)'
  <2>1. \A n \in 1..NumPackets : n \in Nat /\ (Delivers(t, n)' => Delivers(t, n))
    BY ClientAssumption DEF Delivers, Outstanding, clientVars
  <2>2. \A n \in 1..NumPackets : Delivers(t, n) => Stored(t, n)
    BY DEF DeliveryInv, ClientSound
  <2>3. \A n \in 1..NumPackets : Delivers(t, n)' => Stored(t, n)'
    BY <2>1, <2>2
  <2> QED BY <2>3 DEF ClientSound
<1> QED BY <1>2, <1>3, <1>4, <1>5 DEF DeliveryInv

(* A datagram that is taken and ignored keeps DeliveryInv.                 *)
LEMMA QuietTake ==
  ASSUME TypeOK, NEW t \in Threads, DeliveryInv(t), UNCHANGED clientVars,
         toServer[t] # <<>>, toServer'[t] = Tail(toServer[t]), toClient'[t] = toClient[t] \o <<>>,
         UNCHANGED ServerVarsAt(t)
  PROVE  DeliveryInv(t)'
<1>1. <<>> \in Seq(Nat) /\ Len(<<>>) = 0
  OBVIOUS
<1>2. /\ expected_seq'[t] <= next_sn[t]
      /\ \A n \in received'[t] : n < next_sn[t] /\ buffer'[t][n] = 1
      /\ disk'[t] = Blocks(1, expected_seq'[t] - 1)
      /\ \A n \in Nat : Stored(t, n) => Stored(t, n)'
  BY DEF DeliveryInv, ServerInv, Stored, ServerVarsAt
<1>3. \A k \in 1..Len(<<>>) : AckSound(t, (<<>>)[k])'
  BY <1>1
<1>4. HeadSeq(t) = 0 /\ expected_seq[t] = 1 /\ received[t] \subseteq {0}
        => expected_seq'[t] = 1 /\ received'[t] \subseteq {0}
  BY DEF ServerVarsAt
<1> QED BY <1>1, <1>2, <1>3, <1>4, TakeDelivers

(* A packet that is stored, written and acknowledged keeps DeliveryInv.    *)
LEMMA StoreStep ==
  ASSUME TypeOK, NEW t \in Threads, DeliveryInv(t), UNCHANGED clientVars,
         toServer[t] # <<>>, NEW h \in SeqNums, h = HeadSeq(t), h < next_sn[t],
         NEW isOpen, NEW firstAcks \in Seq({0}),
         StoreWriteAck(t, expected_seq[t], disk[t], isOpen, firstAcks)
  PROVE  DeliveryInv(t)'
<1>1. /\ expected_seq'[t] \in 1..MaxSeqNum /\ expected_seq'[t] <= next_sn[t]
      /\ \/ expected_seq'[t] = expected_seq[t]
         \/ expected_seq'[t] - 1 \in received[t] \cup {h}
      /\ received'[t] \subseteq received[t] \cup {h}
      /\ \A n \in received'[t] : buffer'[t][n] = 1
      /\ disk'[t] = Blocks(1, expected_seq'[t] - 1)
      /\ \A n \in Nat : Stored(t, n) => Stored(t, n)'
      /\ \/ TakePacket(t, firstAcks)
         \/ TakePacket(t, Append(firstAcks, h)) /\ Stored(t, h)'
  BY StoreDelivers DEF DeliveryInv
<1>2. \A n \in received'[t] : n < next_sn[t] /\ buffer'[t][n] = 1
  BY <1>1 DEF DeliveryInv, ServerInv
<1>3. h = 0 /\ expected_seq[t] = 1 /\ received[t] \subseteq {0}
        => expected_seq'[t] = 1 /\ received'[t] \subseteq {0}
  BY <1>1
<1>4. h \in Nat /\ next_sn'[t] = next_sn[t] /\ 0 < next_sn[t]
  BY ClientAssumption DEF clientVars, SeqNums, TypeOK, ClientTypeOK
<1>5. firstAcks \in Seq(Nat) /\ \A k \in 1..Len(firstAcks) : AckSound(t, firstAcks[k])'
  BY <1>4, SeqMonotonic DEF AckSound
<1>6. CASE TakePacket(t, firstAcks)
  <2>1. toServer'[t] = Tail(toServer[t]) /\ toClient'[t] = toClient[t] \o firstAcks
    BY <1>6, TakeTakes
  <2> QED BY <1>1, <1>2, <1>3, <1>5, <2>1, TakeDelivers
<1>7. CASE TakePacket(t, Append(firstAcks, h)) /\ Stored(t, h)'
  <2>1. Append(firstAcks, h) \in Seq(Nat)
    BY <1>4, <1>5
  <2>2. \A k \in 1..Len(Append(firstAcks, h)) : AckSound(t, Append(firstAcks, h)[k])'
    <3> SUFFICES ASSUME NEW k \in 1..Len(Append(firstAcks, h)), NEW a, a = Append(firstAcks, h)[k]
                 PROVE  AckSound(t, a)'
      BY DEF AckSound, Stored
    <3>1. CASE k = Len(firstAcks) + 1
      <4>1. a = h
        BY <1>5, <3>1
      <4> QED BY <1>4, <1>7, <4>1 DEF AckSound
    <3>2. CASE k \in 1..Len(firstAcks)
      <4>1. a = firstAcks[k]
        BY <1>5, <3>2
      <4> QED BY <1>5, <3>2, <4>1
    <3>3. k = Len(firstAcks) + 1 \/ k \in 1..Len(firstAcks)
      BY <1>5
    <3> QED BY <3>1, <3>2, <3>3
  <2>3. toServer'[t] = Tail(toServer[t]) /\ toClient'[t] = toClient[t] \o Append(firstAcks, h)
    BY <1>7, TakeTakes
  <2> QED BY <1>1, <1>2, <1>3, <2>1, <2>2, <2>3, TakeDelivers
<1> QED BY <1>1, <1>6, <1>7

(* Every datagram a server handles keeps DeliveryInv of its sender.        *)
LEMMA ServerDelivery ==
  ASSUME TypeOK, NEW t \in Threads, DeliveryInv(t), ServerReceive(t), UNCHANGED clientVars
  PROVE  DeliveryInv(t)'
<1>1. CASE RefuseClient(t)
  BY <1>1, TakeTakes, QuietTake DEF RefuseClient, Arrives, serverVars, ServerVarsAt
<1>2. CASE ReceiveEof(t)
  BY <1>2, TakeTakes, QuietTake DEF ReceiveEof, Arrives, ServerVarsAt
<1>3. CASE ReceiveOutOfRange(t)
  BY <1>3, TakeTakes, QuietTake DEF ReceiveOutOfRange, Arrives, ServerVarsAt
<1>4. toServer[t] # <<>> => 1 \in InFlight(t) /\ HeadSeq(t) = SeqAt(t, 1) /\ HeadSeq(t) < next_sn[t]
  <2> SUFFICES ASSUME toServer[t] # <<>>
               PROVE  1 \in InFlight(t) /\ HeadSeq(t) = SeqAt(t, 1) /\ HeadSeq(t) < next_sn[t]
    OBVIOUS
  <2>1. toServer[t] \in Seq(Packets)
    BY DEF TypeOK, UdpTypeOK, Packets
  <2>2. 1 \in InFlight(t) /\ HeadSeq(t) = SeqAt(t, 1)
    BY <2>1 DEF InFlight, SeqAt, HeadSeq
  <2> QED BY <2>2 DEF DeliveryInv, NamesFirst
<1>5. CASE ReceiveFilename(t)
  <2>1. toServer[t] # <<>> /\ HeadSeq(t) = 0
    BY <1>5 DEF ReceiveFilename, Arrives
  <2>2. expected_seq[t] = 1 /\ received[t] \subseteq {0}
    BY <1>4, <2>1 DEF DeliveryInv, NamesFirst
  <2>3. disk[t] = <<>>
    BY <2>2 DEF DeliveryInv, ServerInv, Blocks
  <2>4. CASE StoreWriteAck(t, 1, <<>>, TRUE, <<0>>)
    <3>1. StoreWriteAck(t, expected_seq[t], disk[t], TRUE, <<0>>)
      BY <2>2, <2>3, <2>4
    <3>2. 0 \in SeqNums /\ <<0>> \in Seq({0})
      BY ServerAssumption DEF SeqNums
    <3> QED BY <1>4, <2>1, <3>1, <3>2, StoreStep
  <2>5. CASE TakePacket(t, <<>>) /\ UNCHANGED <<expected_seq, received, buffer, disk, spinning>>
    BY <2>1, <2>5, TakeTakes, QuietTake DEF ServerVarsAt
  <2> QED BY <1>5, <2>4, <2>5 DEF ReceiveFilename
<1>6. CASE ReceiveData(t)
  <2>1. /\ toServer[t] # <<>> /\ HeadSeq(t) \in SeqNums
        /\ StoreWriteAck(t, expected_seq[t], disk[t], file_open[t], <<>>)
    BY <1>6 DEF ReceiveData, Arrives, SeqNums
  <2>2. <<>> \in Seq({0})
    OBVIOUS
  <2> QED BY <1>4, <2>1, <2>2, StoreStep
<1> QED BY <1>1, <1>2, <1>3, <1>5, <1>6 DEF ServerReceive

(* Sending a packet keeps DeliveryInv when it is the name and the thread   *)
(* is still naming, or neither.                                            *)
LEMMA AppendDelivers ==
  ASSUME TypeOK, NEW t \in Threads, WindowInv(t), DeliveryInv(t), UNCHANGED ServerVarsAt(t),
         NEW p \in Packets, p.run = 1, toServer'[t] = Append(toServer[t], p),
         UNCHANGED toClient[t],
         next_sn[t] <= next_sn'[t], next_sn'[t] \in Nat, p.seq < next_sn'[t],
         p.seq = 0 => Naming(t),
         Naming(t)' => p.seq = 0,
         \A n \in 1..NumPackets : Delivers(t, n)' => Delivers(t, n)
  PROVE  DeliveryInv(t)'
<1> DEFINE q == toServer[t]
           r == toServer'[t]
<1>1. q \in Seq(Packets) /\ r = Append(q, p)
  BY DEF TypeOK, UdpTypeOK, Packets
<1> HIDE DEF q, r
<1>3. /\ Len(q) \in Nat
      /\ Len(r) = Len(q) + 1
      /\ \A k \in 1..Len(q) : r[k] = q[k]
      /\ r[Len(q) + 1] = p
  BY <1>1
<1>4. \A k \in 1..(Len(q) + 1) : k \in 1..Len(q) \/ k = Len(q) + 1
  BY <1>3
<1>5. \A k \in 1..Len(q) : q[k].seq \in Int /\ q[k].seq < next_sn[t] /\ q[k].run = 1
  <2>0. \A k \in 1..Len(q) : q[k] \in Packets
    BY <1>1
  <2>1. \A k \in 1..Len(q) : q[k].seq \in Int
    BY <2>0 DEF Packets
  <2> QED BY <2>1 DEF q, DeliveryInv, NamesFirst, ServerInv, InFlight, SeqAt
<1>6. next_sn[t] \in Nat
  BY ClientAssumption DEF TypeOK, ClientTypeOK
<1>7. Naming(t) => \A k \in 1..Len(q) : q[k].seq = 0
  BY DEF q, DeliveryInv, NamesFirst, InFlight, SeqAt
<1>8. Naming(t) => expected_seq[t] = 1 /\ received[t] \subseteq {0}
  <2> SUFFICES ASSUME Naming(t)
               PROVE  expected_seq[t] = 1 /\ received[t] \subseteq {0}
    OBVIOUS
  <2>1. next_sn[t] = 1
    BY DEF WindowInv
  <2>2. expected_seq[t] \in 1..MaxSeqNum /\ received[t] \in SUBSET SeqNums
    BY DEF TypeOK, ServerTypeOK
  <2> QED BY <2>1, <2>2, ServerAssumption DEF DeliveryInv, ServerInv, SeqNums
<1>9. NamesFirst(t)'
  <2>1. ASSUME NEW k \in 1..(Len(q) + 1)
        PROVE  r[k].seq < next_sn'[t]
    <3>1. CASE k \in 1..Len(q)
      BY <1>3, <1>5, <1>6, <3>1
    <3>2. CASE k = Len(q) + 1
      BY <1>3, <3>2
    <3> QED BY <1>4, <3>1, <3>2
  <2>2. ASSUME Naming(t)', NEW k \in 1..(Len(q) + 1)
        PROVE  r[k].seq = 0
    <3>1. p.seq = 0 /\ Naming(t)
      BY <2>2
    <3> QED BY <1>3, <1>4, <1>7, <3>1
  <2>3. ASSUME NEW j \in 1..(Len(q) + 1), NEW k \in 1..(Len(q) + 1), j < k, r[k].seq = 0
        PROVE  r[j].seq = 0
    <3>1. j \in 1..Len(q)
      BY <1>3, <2>3
    <3>2. CASE k \in 1..Len(q)
      <4>1. q[k].seq = 0
        BY <1>3, <2>3, <3>2
      <4>2. q[j].seq = 0
        BY <2>3, <3>1, <3>2, <4>1 DEF q, DeliveryInv, NamesFirst, InFlight, SeqAt
      <4> QED BY <1>3, <3>1, <4>2
    <3>3. CASE k = Len(q) + 1
      BY <1>3, <1>7, <2>3, <3>1, <3>3
    <3> QED BY <1>4, <3>2, <3>3
  <2>4. ASSUME NEW k \in 1..(Len(q) + 1), r[k].seq = 0
        PROVE  expected_seq'[t] = 1 /\ received'[t] \subseteq {0}
    <3>1. CASE k \in 1..Len(q)
      <4>1. q[k].seq = 0
        BY <1>3, <2>4, <3>1
      <4>2. expected_seq[t] = 1 /\ received[t] \subseteq {0}
        BY <3>1, <4>1 DEF q, DeliveryInv, NamesFirst, InFlight, SeqAt
      <4> QED BY <4>2 DEF ServerVarsAt
    <3>2. CASE k = Len(q) + 1
      BY <1>3, <1>8, <2>4, <3>2 DEF ServerVarsAt
    <3> QED BY <1>4, <3>1, <3>2
  <2> QED BY <1>3, <2>1, <2>2, <2>3, <2>4 DEF NamesFirst, InFlight, SeqAt, r
<1>10. ServerInv(t)'
  <2>1. \A k \in InFlight(t)' : toServer'[t][k].run = 1
    <3>1. \A k \in 1..(Len(q) + 1) : r[k].run = 1
      BY <1>3, <1>4, <1>5
    <3> QED BY <1>3, <3>1 DEF InFlight, r
  <2>2. expected_seq[t] \in Nat /\ \A n \in received[t] : n \in Nat
    BY ServerAssumption DEF TypeOK, ServerTypeOK, SeqNums
  <2>3. /\ expected_seq[t] <= next_sn[t]
        /\ \A n \in received[t] : n < next_sn[t] /\ buffer[t][n] = 1
        /\ disk[t] = Blocks(1, expected_seq[t] - 1)
    BY DEF DeliveryInv, ServerInv
  <2>4. /\ expected_seq'[t] <= next_sn'[t]
        /\ \A n \in received'[t] : n < next_sn'[t] /\ buffer'[t][n] = 1
        /\ disk'[t] = Blocks(1, expected_seq'[t] - 1)
    BY <1>6, <2>2, <2>3 DEF ServerVarsAt
  <2> QED BY <2>1, <2>4 DEF ServerInv
<1>11. AcksSound(t)'
  <2>1. toClient[t] \in Seq(0..NumPackets)
    BY DEF TypeOK, UdpTypeOK
  <2>2. \A k \in 1..Len(toClient[t]) : toClient[t][k] \in 0..NumPackets
    BY <2>1, SeqElements
  <2> QED BY <1>6, <2>2 DEF DeliveryInv, AcksSound, AckSound, Stored, ServerVarsAt
<1>12. ClientSound(t)'
  BY DEF DeliveryInv, ClientSound, Stored, ServerVarsAt
<1> QED BY <1>9, <1>10, <1>11, <1>12 DEF DeliveryInv

(* A step that sends nothing keeps DeliveryInv when what the window counts *)
(* as delivered is stored.                                                 *)
LEMMA StillDelivers ==
  ASSUME TypeOK, NEW t \in Threads, DeliveryInv(t), UNCHANGED ServerVarsAt(t),
         UNCHANGED <<toServer[t], next_sn[t]>>,
         \/ UNCHANGED toClient[t]
         \/ toClient[t] # <<>> /\ toClient'[t] = Tail(toClient[t]),
         Naming(t)' => Naming(t),
         ClientSound(t)'
  PROVE  DeliveryInv(t)'
<1>1. NamesFirst(t)' /\ ServerInv(t)'
  BY DEF DeliveryInv, NamesFirst, ServerInv, InFlight, SeqAt, ServerVarsAt
<1>2. AcksSound(t)'
  <2> DEFINE q == toClient[t]
  <2>1. q \in Seq(0..NumPackets)
    BY DEF TypeOK, UdpTypeOK
  <2>2. CASE UNCHANGED toClient[t]
    BY <2>2 DEF DeliveryInv, AcksSound, AckSound, Stored, ServerVarsAt
  <2>3. CASE q # <<>> /\ toClient'[t] = Tail(q)
    <3>1. /\ Len(Tail(q)) = Len(q) - 1 /\ Len(q) \in Nat
          /\ \A k \in 1..(Len(q) - 1) : Tail(q)[k] = q[k + 1] /\ k + 1 \in 1..Len(q)
      BY <2>1, <2>3
    <3> QED BY <2>3, <3>1 DEF DeliveryInv, AcksSound, AckSound, Stored, ServerVarsAt
  <2> QED BY <2>2, <2>3
<1> QED BY <1>1, <1>2 DEF DeliveryInv

(* Moving base_sn over packets that are stored.                            *)
LEMMA SlideDelivers ==
  ASSUME TypeOK, NEW t \in Threads, WindowInv(t), ClientSound(t), UNCHANGED ServerVarsAt(t),
         NEW nowAcked \in [Slots -> BOOLEAN], NEW nowRetries,
         Slide(t, nowAcked, nowRetries), UNCHANGED next_sn,
         \A n \in Outstanding(t) : nowAcked[Slot(n)] => Stored(t, n)
  PROVE  ClientSound(t)'
<1>1. PICK b \in base_sn[t]..next_sn[t] : Slide(t, nowAcked, nowRetries)!(b)
  BY DEF Slide
<1>2. /\ base_sn'[t] = b
      /\ base_sn[t] \in Nat \ {0} /\ next_sn[t] \in Nat /\ b \in Nat
  BY <1>1, ClientAssumption DEF TypeOK, ClientTypeOK
<1> SUFFICES ASSUME NEW n \in 1..NumPackets, Delivers(t, n)'
             PROVE  Stored(t, n)
  BY DEF ClientSound, Stored, ServerVarsAt
<1>3. CASE n \in 1..(base_sn[t] - 1)
  BY <1>3 DEF ClientSound, Delivers
<1>4. CASE n \in base_sn[t]..(b - 1)
  BY <1>1, <1>2, <1>4 DEF Outstanding
<1>5. CASE n \in Outstanding(t)' /\ acked'[t][Slot(n)]
  <2>1. n \in Outstanding(t)
    BY <1>2, <1>5 DEF Outstanding
  <2>2. nowAcked[Slot(n)]
    <3>1. Slot(n) \in Slots
      BY SlotType
    <3>2. acked \in [Threads -> [Slots -> BOOLEAN]]
      BY DEF TypeOK, ClientTypeOK
    <3> DEFINE freed == {Slot(m) : m \in base_sn[t]..(b - 1)}
    <3>3. acked' = [acked EXCEPT ![t] = [i \in Slots |-> nowAcked[i] /\ i \notin freed]]
      BY <1>1
    <3> HIDE DEF freed
    <3>4. acked'[t][Slot(n)] = (nowAcked[Slot(n)] /\ Slot(n) \notin freed)
      BY <3>1, <3>2, <3>3
    <3> QED BY <1>5, <3>4
  <2> QED BY <2>1, <2>2
<1>6. n \in 1..(base_sn[t] - 1) \/ n \in base_sn[t]..(b - 1) \/ ~(n \in 1..(base_sn'[t] - 1))
  BY <1>2
<1> QED BY <1>3, <1>4, <1>5, <1>6 DEF Delivers

(* A new number finds its slot not marked.                                 *)
LEMMA SendDataUnmarked ==
  ASSUME TypeOK, NEW t \in Threads, WindowInv(t), SendData(t)
  PROVE  \A k \in 1..NumPackets : Delivers(t, k)' => Delivers(t, k)
<1> DEFINE n == next_sn[t]
<1>1. ClientTypeOK
  BY DEF TypeOK
<1>2. /\ n \in 1..NumPackets /\ n < base_sn[t] + WinSize /\ next_sn'[t] = n + 1
      /\ UNCHANGED <<base_sn, acked>>
  BY <1>1, ClientAssumption DEF SendData, CanSend, Feof, ClientTypeOK
<1>3. ~acked[t][Slot(n)]
  <2> SUFFICES ASSUME acked[t][Slot(n)]
               PROVE  FALSE
    OBVIOUS
  <2>1. PICK m \in Outstanding(t) : Slot(n) = Slot(m)
    BY <1>2, SlotType DEF WindowInv
  <2>2. m \in Nat /\ m < n /\ n < m + WinSize
    BY <1>1, <1>2, <2>1, ClientAssumption DEF Outstanding, ClientTypeOK
  <2> QED BY <1>2, <2>1, <2>2, SlotsDistinct
<1>4. base_sn[t] \in Int /\ n \in Int
  BY <1>1, <1>2 DEF ClientTypeOK
<1>5. Outstanding(t)' \subseteq Outstanding(t) \cup {n}
  BY <1>2, <1>4 DEF Outstanding
<1> QED BY <1>2, <1>3, <1>5 DEF Delivers

(* An ack marks the slot of its own number, which is stored.               *)
LEMMA RecvAckKeeps ==
  ASSUME TypeOK, NEW t \in Threads, WindowInv(t), AcksKept(t), ClientSound(t),
         RecvAck(t), UNCHANGED serverVars
  PROVE  ClientSound(t)'
<1> DEFINE ack == Head(toClient[t])
           fresh == NewAck(t, ack)
           nowAcked == [i \in Slots |-> acked[t][i] \/ (fresh /\ i = Slot(ack))]
           nowRetries == [i \in Slots |->
                           IF fresh /\ i = Slot(ack) THEN 0 ELSE retries[t][i]]
<1>1. Slide(t, nowAcked, nowRetries) /\ UNCHANGED next_sn /\ toClient[t] # <<>>
  BY DEF RecvAck
<1>2. nowAcked \in [Slots -> BOOLEAN] /\ ClientTypeOK /\ next_sn[t] \in 1..(NumPackets + 1)
  BY DEF TypeOK, ClientTypeOK
<1>3. ack \in Nat /\ (ack # 0 => Stored(t, ack))
  <2>1. toClient[t] \in Seq(0..NumPackets)
    BY DEF TypeOK, UdpTypeOK
  <2>2. ack = toClient[t][1] /\ 1 \in 1..Len(toClient[t])
    BY <1>1, <2>1
  <2>3. ack \in 0..NumPackets
    BY <2>1, <2>2, SeqElements
  <2> QED BY <2>2, <2>3, ClientAssumption DEF AcksKept
<1>4. ASSUME NEW n \in Outstanding(t), nowAcked[Slot(n)]
      PROVE  Stored(t, n)
  <2>1. n \in 1..NumPackets /\ n \in Nat /\ Slot(n) \in Slots
    BY <1>2, SlotType, ClientAssumption DEF Outstanding, ClientTypeOK
  <2>2. CASE acked[t][Slot(n)]
    BY <2>1, <2>2 DEF ClientSound, Delivers
  <2>3. CASE fresh /\ Slot(n) = Slot(ack)
    <3>1. ack \in Outstanding(t) /\ ack # 0
      BY <1>2, <2>3, ClientAssumption DEF NewAck, Outstanding, ClientTypeOK
    <3>2. n = ack
      BY <1>2, <1>3, <2>1, <2>3, <3>1, SlotsDistinct, ClientAssumption
         DEF Outstanding, WindowInv, ClientTypeOK
    <3> QED BY <1>3, <3>1, <3>2
  <2> QED BY <1>4, <2>1, <2>2, <2>3
<1>5. UNCHANGED ServerVarsAt(t)
  BY DEF serverVars, ServerVarsAt
<1> HIDE DEF nowAcked, nowRetries
<1> QED BY <1>1, <1>2, <1>4, <1>5, SlideDelivers

(* Every step of a sender thread keeps what its window counts as delivered *)
(* stored, if the acks on their way say the truth.                         *)
LEMMA ClientKeeps ==
  ASSUME TypeOK, NEW t \in Threads, WindowInv(t), AcksKept(t), ClientSound(t),
         ClientStep(t), UNCHANGED serverVars
  PROVE  ClientSound(t)'
<1>1. UNCHANGED ServerVarsAt(t)
  BY DEF serverVars, ServerVarsAt
<1>2. ASSUME \A n \in 1..NumPackets : Delivers(t, n)' => Delivers(t, n)
      PROVE  ClientSound(t)'
  BY <1>1, <1>2 DEF ClientSound, Stored, ServerVarsAt
<1>3. CASE SendData(t)
  BY <1>2, <1>3, SendDataUnmarked
<1>4. CASE RecvAck(t)
  BY <1>4, RecvAckKeeps
<1>5. CASE ResendDone(t)
  <2>1. Slide(t, acked[t], retries[t]) /\ UNCHANGED next_sn
    BY <1>5 DEF ResendDone
  <2>2. acked[t] \in [Slots -> BOOLEAN] /\ base_sn[t] \in 1..(NumPackets + 1)
        /\ next_sn[t] \in 1..(NumPackets + 1)
    BY DEF TypeOK, ClientTypeOK
  <2>3. \A n \in Outstanding(t) : acked[t][Slot(n)] => Stored(t, n)
    BY <2>2, ClientAssumption DEF ClientSound, Delivers, Outstanding
  <2> QED BY <1>1, <2>1, <2>2, <2>3, SlideDelivers
<1>6. CASE \/ StartThread(t) \/ SendFilename(t) \/ RecvFilenameAck(t) \/ FilenameTimeout(t)
           \/ SelectTimeout(t) \/ Resend(t) \/ SendEof(t) \/ ExitProcess(t)
  <2>1. UNCHANGED <<base_sn, next_sn, acked>>
    BY <1>6 DEF StartThread, SendFilename, RecvFilenameAck, FilenameTimeout, SelectTimeout,
       Resend, SendEof, ExitProcess, windowVars
  <2> QED BY <1>2, <2>1 DEF Delivers, Outstanding
<1> QED BY <1>3, <1>4, <1>5, <1>6 DEF ClientStep

(* Every step of a sender thread keeps its DeliveryInv.                    *)
LEMMA ClientDelivery ==
  ASSUME TypeOK, NEW t \in Threads, run[ProcOf[t]] = 1, WindowInv(t), WindowInv(t)',
         DeliveryInv(t), ClientStep(t), UNCHANGED serverVars
  PROVE  DeliveryInv(t)'
<1> USE ClientAssumption DEF windowVars, netVars, At
<1>1. UNCHANGED ServerVarsAt(t)
  BY DEF serverVars, ServerVarsAt
<1>2. ClientTypeOK /\ ClientSound(t) /\ AcksKept(t)
  BY DEF TypeOK, DeliveryInv, AcksSound, AckSound, AcksKept
<1>3. ASSUME UNCHANGED <<base_sn, next_sn, acked>>
      PROVE  /\ ClientSound(t)'
             /\ \A n \in 1..NumPackets : Delivers(t, n)' => Delivers(t, n)
  BY <1>1, <1>2, <1>3 DEF ClientSound, Delivers, Outstanding, Stored, ServerVarsAt
<1>4. ASSUME UNCHANGED <<base_sn, next_sn, acked>>, UNCHANGED <<toServer, toClient>>,
             Naming(t)' => Naming(t)
      PROVE  DeliveryInv(t)'
  BY <1>1, <1>3, <1>4, StillDelivers
<1>5. \A n \in -1..NumPackets : Packet(t, n) \in Packets /\ Packet(t, n).run = 1 /\ Packet(t, n).seq = n
  BY <1>2, PacketType DEF Packet
<1>6. ASSUME NEW n \in -1..NumPackets, SendPacket(t, Packet(t, n))
      PROVE  toServer'[t] = Append(toServer[t], Packet(t, n)) /\ UNCHANGED toClient[t]
  BY <1>6 DEF SendPacket, TypeOK, UdpTypeOK
<1>7. next_sn[t] \in 1..(NumPackets + 1) /\ next_sn[t] \in Nat
  BY <1>2, ClientAssumption DEF ClientTypeOK
<1>8. CASE StartThread(t)
  BY <1>2, <1>4, <1>8 DEF StartThread, Goto, Naming, ClientTypeOK
<1>9. CASE SendFilename(t)
  <2>1. /\ SendPacket(t, Packet(t, 0)) /\ Naming(t) /\ 0 \in -1..NumPackets
        /\ UNCHANGED <<base_sn, next_sn, acked>>
    BY <1>7, <1>9 DEF SendFilename, Naming
  <2> QED BY <1>1, <1>3, <1>5, <1>6, <1>7, <2>1, AppendDelivers
<1>10. CASE RecvFilenameAck(t)
  <2>1. /\ Naming(t) /\ UNCHANGED <<base_sn, next_sn, acked, toServer>>
        /\ toClient[t] # <<>> /\ toClient'[t] = Tail(toClient[t])
    BY <1>10 DEF RecvFilenameAck, TakeAck, Naming, TypeOK, UdpTypeOK
  <2> QED BY <1>1, <1>3, <2>1, StillDelivers
<1>11. CASE FilenameTimeout(t)
  BY <1>4, <1>11 DEF FilenameTimeout, Naming
<1>12. CASE SendData(t)
  <2> DEFINE n == next_sn[t]
  <2>1. /\ n \in 1..NumPackets /\ n < base_sn[t] + WinSize /\ pc[t] = "window"
        /\ SendPacket(t, Packet(t, n)) /\ next_sn'[t] = n + 1
        /\ UNCHANGED <<pc, base_sn, acked>>
    BY <1>2, <1>12 DEF SendData, CanSend, Feof, ClientTypeOK
  <2>3. \A k \in 1..NumPackets : Delivers(t, k)' => Delivers(t, k)
    BY <1>12, SendDataUnmarked
  <2>4. ~Naming(t)'
    BY <2>1 DEF Naming
  <2>5. n \in -1..NumPackets /\ n # 0 /\ n < n + 1 /\ n <= n + 1 /\ n + 1 \in Nat
    BY <2>1
  <2> HIDE DEF n
  <2>6. Packet(t, n) \in Packets /\ Packet(t, n).run = 1 /\ Packet(t, n).seq = n
    BY <1>5, <2>5
  <2>7. toServer'[t] = Append(toServer[t], Packet(t, n)) /\ UNCHANGED toClient[t]
    BY <1>6, <2>1, <2>5
  <2>8. next_sn[t] = n
    BY DEF n
  <2> QED BY <1>1, <2>1, <2>3, <2>4, <2>5, <2>6, <2>7, <2>8, AppendDelivers
<1>13. CASE RecvAck(t)
  <2>1. /\ UNCHANGED <<pc, next_sn, toServer>>
        /\ toClient[t] # <<>> /\ toClient'[t] = Tail(toClient[t])
    BY <1>13 DEF RecvAck, TakeAck, TypeOK, UdpTypeOK
  <2>2. Naming(t)' => Naming(t)
    BY <2>1 DEF Naming
  <2> QED BY <1>1, <1>2, <2>1, <2>2, ClientKeeps, StillDelivers
<1>14. CASE SelectTimeout(t)
  BY <1>2, <1>4, <1>14 DEF SelectTimeout, Goto, Naming, ClientTypeOK
<1>15. CASE Resend(t)
  <2> DEFINE i == Slot(cursor[t])
  <2>1. /\ UNCHANGED <<pc, base_sn, next_sn, acked>> /\ pc[t] = "resend"
        /\ cursor[t] \in Outstanding(t)
    BY <1>2, <1>15 DEF Resend, WindowInv, Outstanding, ClientTypeOK
  <2>2. CASE Resendable(t, i)
    <3>1. SendPacket(t, Packet(t, window[t][i]))
      BY <1>15, <2>2 DEF Resend
    <3>2. window[t][i] = cursor[t]
      BY <2>1 DEF WindowInv
    <3>3. cursor[t] \in 1..NumPackets /\ cursor[t] < next_sn[t]
      BY <1>2, <1>7, <2>1 DEF Outstanding, ClientTypeOK
    <3>4. ~Naming(t)'
      BY <2>1 DEF Naming
    <3> DEFINE n == cursor[t]
    <3>5. n \in -1..NumPackets /\ n # 0 /\ n < next_sn[t]
      BY <3>3
    <3>6. Packet(t, n) \in Packets /\ Packet(t, n).run = 1 /\ Packet(t, n).seq = n
      BY <1>5, <3>5
    <3>7. toServer'[t] = Append(toServer[t], Packet(t, n)) /\ UNCHANGED toClient[t]
      BY <1>6, <3>1, <3>2, <3>5
    <3> HIDE DEF n
    <3> QED BY <1>1, <1>3, <1>7, <2>1, <3>4, <3>5, <3>6, <3>7, AppendDelivers
  <2>3. CASE ~Resendable(t, i)
    <3>1. UNCHANGED <<toServer, toClient>>
      BY <1>15, <2>3 DEF Resend
    <3> QED BY <1>4, <2>1, <3>1 DEF Naming
  <2> QED BY <2>2, <2>3
<1>16. CASE ResendDone(t)
  <2>1. UNCHANGED <<next_sn, toServer, toClient>> /\ pc'[t] = "window"
    BY <1>2, <1>16 DEF ResendDone, Goto, ClientTypeOK
  <2>2. Naming(t)' => Naming(t)
    BY <2>1 DEF Naming
  <2> QED BY <1>1, <1>2, <2>1, <2>2, ClientKeeps, StillDelivers
<1>17. CASE SendEof(t)
  <2>1. SendPacket(t, Packet(t, -1)) /\ UNCHANGED <<base_sn, next_sn, acked>> /\ pc'[t] = "exit"
    BY <1>2, <1>17 DEF SendEof, Goto, EofSeq, ClientTypeOK
  <2>2. ~Naming(t)' /\ -1 \in -1..NumPackets
    BY <1>7, <2>1 DEF Naming
  <2>3. Packet(t, -1) \in Packets /\ Packet(t, -1).run = 1 /\ Packet(t, -1).seq = -1
    BY <1>5, <2>2
  <2>4. toServer'[t] = Append(toServer[t], Packet(t, -1)) /\ UNCHANGED toClient[t]
    BY <1>6, <2>1, <2>2
  <2>5. next_sn[t] <= next_sn'[t] /\ next_sn'[t] \in Nat /\ -1 < next_sn'[t] /\ -1 # 0
    BY <1>7, <2>1
  <2> QED BY <1>1, <1>3, <2>1, <2>2, <2>3, <2>4, <2>5, AppendDelivers
<1>18. CASE ExitProcess(t)
  BY <1>4, <1>18 DEF ExitProcess, Naming
<1> QED
  BY <1>8, <1>9, <1>10, <1>11, <1>12, <1>13, <1>14, <1>15, <1>16, <1>17, <1>18 DEF ClientStep

(* A lost datagram keeps DeliveryInv.                                      *)
LEMMA LossDelivery ==
  ASSUME TypeOK, NEW t \in Threads, DeliveryInv(t), Loss(t)
  PROVE  DeliveryInv(t)'
<1>1. CASE DropData(t) /\ UNCHANGED clientVars
  <2>1. toServer[t] # <<>> /\ toServer'[t] = Tail(toServer[t]) /\ UNCHANGED ServerVarsAt(t)
    BY <1>1 DEF DropData, Arrives, TypeOK, UdpTypeOK, serverVars, ServerVarsAt
  <2>2. toClient'[t] = toClient[t] \o <<>>
    <3>1. toClient[t] \in Seq(0..NumPackets) /\ toClient'[t] = toClient[t]
      BY <1>1 DEF DropData, TypeOK, UdpTypeOK
    <3> QED BY <3>1, ConcatEmptySeq
  <2> QED BY <1>1, <2>1, <2>2, QuietTake
<1>2. CASE LoseAck(t) /\ UNCHANGED <<clientVars, serverVars>>
  <2>1. /\ toClient[t] # <<>> /\ toClient'[t] = Tail(toClient[t])
        /\ UNCHANGED <<toServer[t], next_sn[t], ServerVarsAt(t)>>
    BY <1>2 DEF LoseAck, TypeOK, UdpTypeOK, clientVars, serverVars, ServerVarsAt
  <2>2. Naming(t)' => Naming(t)
    BY <1>2 DEF Naming, clientVars
  <2>3. ClientSound(t)'
    BY <1>2 DEF DeliveryInv, ClientSound, Delivers, Outstanding, Stored, clientVars, serverVars
  <2> QED BY <2>1, <2>2, <2>3, StillDelivers
<1> QED BY <1>1, <1>2 DEF Loss

AllVarsAt(t) == <<WindowVarsAt(t), ServerVarsAt(t), toServer[t], toClient[t]>>

(* DeliveryInv of a thread depends on nothing but its own variables.       *)
LEMMA DeliveryFrame ==
  ASSUME NEW t \in Threads, DeliveryInv(t), UNCHANGED AllVarsAt(t)
  PROVE  DeliveryInv(t)'
<1> USE DEF AllVarsAt, WindowVarsAt, ServerVarsAt
<1>1. NamesFirst(t)'
  BY DEF DeliveryInv, NamesFirst, InFlight, SeqAt, Naming
<1>2. ServerInv(t)'
  BY DEF DeliveryInv, ServerInv, InFlight
<1>3. AcksSound(t)'
  BY DEF DeliveryInv, AcksSound, AckSound, Stored
<1>4. ClientSound(t)'
  BY DEF DeliveryInv, ClientSound, Delivers, Outstanding, Stored
<1> QED BY <1>1, <1>2, <1>3, <1>4 DEF DeliveryInv

(* Handling a datagram leaves the entries and queues of the other clients  *)
(* alone.                                                                  *)
LEMMA OtherClients ==
  ASSUME TypeOK, NEW t \in Threads, ServerReceive(t), NEW u \in Threads, u # t
  PROVE  UNCHANGED <<ServerVarsAt(u), toServer[u], toClient[u]>>
<1> USE DEF TypeOK, ServerTypeOK, UdpTypeOK, ServerVarsAt
<1>0. ASSUME NEW acks, TakePacket(t, acks)
      PROVE  UNCHANGED <<toServer[u], toClient[u]>>
  BY <1>0 DEF TakePacket
<1>1. ASSUME NEW expected, NEW content, NEW isOpen, NEW firstAcks,
             StoreWriteAck(t, expected, content, isOpen, firstAcks)
      PROVE  UNCHANGED <<ServerVarsAt(u), toServer[u], toClient[u]>>
  <2>1. UNCHANGED <<toServer[u], toClient[u]>>
    BY <1>0, <1>1 DEF StoreWriteAck
  <2>2. UNCHANGED buffer[u]
    BY <1>1 DEF StoreWriteAck
  <2>3. UNCHANGED <<received[u], expected_seq[u], disk[u]>>
    BY <1>1 DEF StoreWriteAck
  <2> QED BY <2>1, <2>2, <2>3
<1>2. CASE RefuseClient(t)
  BY <1>0, <1>2 DEF RefuseClient, serverVars
<1>3. CASE ReceiveEof(t)
  BY <1>0, <1>3 DEF ReceiveEof
<1>4. CASE ReceiveOutOfRange(t)
  BY <1>0, <1>4 DEF ReceiveOutOfRange
<1>5. CASE ReceiveFilename(t)
  BY <1>0, <1>1, <1>5 DEF ReceiveFilename
<1>6. CASE ReceiveData(t)
  BY <1>1, <1>6 DEF ReceiveData
<1> QED BY <1>2, <1>3, <1>4, <1>5, <1>6 DEF ServerReceive

(* Without RunAgain a process runs once.                                   *)
LEMMA RunUnchanged ==
  ASSUME Next
  PROVE  UNCHANGED run
  BY DEF Next, Thread, Server, Loss, clientVars, ClientStep, StartThread, SendFilename,
         RecvFilenameAck, FilenameTimeout, SendData, RecvAck, SelectTimeout, Resend,
         ResendDone, SendEof, ExitProcess

(* The invariant is inductive.                                             *)
LEMMA IInvStep ==
  ASSUME IInv, TypeOK', [Next]_vars
  PROVE  IInv'
<1> USE DEF IInv
<1>1. ASSUME NEW t \in Threads
      PROVE  WindowInv(t) /\ DeliveryInv(t)
  BY <1>1 DEF ThreadInv, DeliveryInv
<1>2. \A t \in Threads : WindowInv(t)'
  <2>1. [Next \/ DisorderStep \/ RestartStep \/ RunAgainStep]_vars
    OBVIOUS
  <2> QED BY <1>1, <2>1, WindowNext DEF WindowInvs
<1>3. \A t \in Threads : DeliveryInv(t)'
  <2>1. ASSUME NEW t \in Threads, Thread(t), NEW u \in Threads
        PROVE  DeliveryInv(u)'
    <3>1. CASE u = t
      BY <1>1, <1>2, <2>1, <3>1, ClientDelivery, ClientAssumption DEF Thread
    <3>2. CASE u # t
      BY <1>1, <2>1, <3>2, OtherThreads, DeliveryFrame
         DEF Thread, AllVarsAt, serverVars, ServerVarsAt, TypeOK
    <3> QED BY <3>1, <3>2
  <2>2. ASSUME NEW t \in Threads, Server(t), NEW u \in Threads
        PROVE  DeliveryInv(u)'
    <3>1. CASE u = t
      BY <1>1, <2>2, <3>1, ServerDelivery DEF Server
    <3>2. CASE u # t
      BY <1>1, <2>2, <3>2, OtherClients, DeliveryFrame
         DEF Server, AllVarsAt, clientVars, WindowVarsAt
    <3> QED BY <3>1, <3>2
  <2>3. ASSUME NEW t \in Threads, Loss(t), NEW u \in Threads
        PROVE  DeliveryInv(u)'
    <3>1. CASE u = t
      BY <1>1, <2>3, <3>1, LossDelivery
    <3>2. CASE u # t
      <4>1. UNCHANGED <<toServer[u], toClient[u]>>
        BY <2>3, <3>2 DEF Loss, DropData, LoseAck, TypeOK, UdpTypeOK
      <4> QED BY <1>1, <2>3, <4>1, DeliveryFrame
              DEF Loss, DropData, AllVarsAt, clientVars, serverVars, WindowVarsAt, ServerVarsAt
    <3> QED BY <3>1, <3>2
  <2>4. CASE UNCHANGED vars
    BY <1>1, <2>4, DeliveryFrame
       DEF vars, AllVarsAt, clientVars, serverVars, netVars, WindowVarsAt, ServerVarsAt
  <2> QED BY <2>1, <2>2, <2>3, <2>4 DEF Next
<1>4. \A p \in Processes : run'[p] = 1
  BY RunUnchanged DEF vars, clientVars
<1> QED BY <1>2, <1>3, <1>4 DEF ThreadInv, DeliveryInv

(* The invariant holds initially.                                          *)
LEMMA IInvInit == Init => IInv
<1> SUFFICES ASSUME Init
             PROVE  IInv
  OBVIOUS
<1>1. TypeOK
  BY InitType
<1>2. ASSUME NEW t \in Threads
      PROVE  DeliveryInv(t)
  <2> USE <1>2 DEF Init, ClientInit, ServerInit, UdpInit
  <2>1. NamesFirst(t)
    BY DEF NamesFirst, InFlight
  <2>2. ServerInv(t)
    BY DEF ServerInv, InFlight, Blocks
  <2>3. AcksSound(t)
    BY DEF AcksSound
  <2>4. ClientSound(t)
    BY DEF ClientSound, Delivers, Outstanding
  <2> QED BY <2>1, <2>2, <2>3, <2>4 DEF DeliveryInv
<1>3. \A t \in Threads : WindowInv(t)
  BY WindowInit DEF WindowInvs
<1>4. \A p \in Processes : run[p] = 1
  BY DEF Init, ClientInit
<1> QED BY <1>1, <1>2, <1>3, <1>4 DEF IInv, ThreadInv, DeliveryInv

(* On a path that loses datagrams and keeps the order of the others, IInv  *)
(* is an invariant.                                                        *)
THEOREM InvariantHolds == Spec => []IInv
<1>1. Spec => SpecAll
  <2>1. [Next]_vars => [Next \/ DisorderStep \/ RestartStep \/ RunAgainStep]_vars
    OBVIOUS
  <2> QED BY <2>1, PTL DEF Spec, SpecAll
<1>2. IInv /\ TypeOK' /\ [Next]_vars => IInv'
  BY IInvStep
<1> QED BY <1>1, <1>2, IInvInit, TypeCorrect, PTL DEF Spec

(* What a sender thread of lab4 counts as delivered is in the server's     *)
(* output file or in its buffer, for every number of threads, processes    *)
(* and servers, every win_size, file length and number of losses.          *)
THEOREM AckedIsStoredCorrect == Spec => []AckedIsStored
<1>1. IInv => AckedIsStored
  BY DEF IInv, ThreadInv, ClientSound, AckedIsStored
<1> QED BY <1>1, InvariantHolds, PTL

(* When the window has passed the last packet the server has the whole     *)
(* file in its output file: nothing is left behind a missing packet.       *)
LEMMA AllPassed ==
  ASSUME IInv, NEW t \in Threads, base_sn[t] = NumPackets + 1
  PROVE  WholeFile(t)
<1>1. base_sn[t] = NumPackets + 1 /\ next_sn[t] = NumPackets + 1
  BY ClientAssumption DEF IInv, ThreadInv, WindowInv, TypeOK, ClientTypeOK
<1>2. \A n \in 1..NumPackets : Stored(t, n)
  BY <1>1, ClientAssumption DEF IInv, ThreadInv, ClientSound, Delivers
<1>3. expected_seq[t] \in Nat /\ expected_seq[t] >= 1 /\ expected_seq[t] <= NumPackets + 1
  BY <1>1, ServerAssumption DEF IInv, ThreadInv, ServerInv, TypeOK, ServerTypeOK
<1>4. expected_seq[t] = NumPackets + 1
  <2> SUFFICES ASSUME expected_seq[t] # NumPackets + 1
               PROVE  FALSE
    OBVIOUS
  <2>1. expected_seq[t] \in 1..NumPackets
    BY <1>3, ClientAssumption
  <2> QED BY <1>2, <1>3, <2>1 DEF Stored
<1>5. disk[t] = Blocks(1, expected_seq[t] - 1)
  BY DEF IInv, ThreadInv, ServerInv
<1>6. run[ProcOf[t]] = 1
  BY ClientAssumption DEF IInv
<1> QED BY <1>4, <1>5, <1>6, ClientAssumption DEF WholeFile

(* A sender thread that has sent the EOF packet, the last thing before     *)
(* exit(0), leaves the whole file on its server.                           *)
THEOREM DeliveredCorrect == Spec => []Delivered
<1>1. IInv => Delivered
  BY AllPassed DEF IInv, ThreadInv, WindowInv, Delivered
<1> QED BY <1>1, InvariantHolds, PTL
=============================================================================
