------------------------------ MODULE Lab3Proofs ------------------------------
(***************************************************************************)
(* lab3, on a path that keeps order and on one that does not: what the     *)
(* client counts as delivered was received, a client that ends with status *)
(* 0 leaves a whole, closed file (unless a late name opened it anew), the  *)
(* server touches no file that is not open (unless an EOF packet comes     *)
(* twice), and on a path that keeps order the whole implements the         *)
(* reliable transfer of FileTransfer.                                      *)
(*                                                                         *)
(* PathInv is kept by every step on any path; EofOnce by every step but a  *)
(* second copy of an EOF packet, Intact by every step but a name that      *)
(* reopens the file; and NamesFirst, on a path that keeps order, says that *)
(* neither happens.  A step of one client, of the server on one client's   *)
(* datagram or of the path changes nothing of another client's part        *)
(* (Frame, OtherClients); for the client itself there is one lemma per     *)
(* action, which names what the action changes.                            *)
(***************************************************************************)
EXTENDS Lab3Faults, UdpProofs, FiniteSetTheorems

Packets == [seq : Nat, empty : BOOLEAN]

ClientVarsAt(t) ==
    <<pc[t], retries[t], base[t], next_seq_num[t], acked[t], feof[t]>>
ServerVarsAt(t) == <<file[t], expected_seq[t], received[t], disk[t]>>
QueuesAt(t) == <<toServer[t], toClient[t]>>

(* A client's parts depend on nothing but its own variables.               *)
LEMMA Frame ==
  ASSUME NEW t \in Threads, UNCHANGED <<ClientVarsAt(t), ServerVarsAt(t), QueuesAt(t)>>
  PROVE  /\ PathInv(t) => PathInv(t)'
         /\ EofOnce(t) => EofOnce(t)'
         /\ Intact(t) => Intact(t)'
         /\ NamesFirst(t) => NamesFirst(t)'
<1> USE DEF ClientVarsAt, ServerVarsAt, QueuesAt
<1>1. ASSUME PathInv(t)
      PROVE  PathInv(t)'
  <2>1. Flight(t)'
    <3>1. Flight(t) /\ UNCHANGED <<pc[t], next_seq_num[t], toServer[t]>>
      BY <1>1 DEF PathInv
    <3> QED BY <3>1 DEF Flight, InFlight, SeqAt, Started, AtEof
  <2>2. RetriesLeft(t)' /\ WindowInv(t)'
    BY <1>1 DEF PathInv, RetriesLeft, WindowInv, Started, AtEof
  <2>3. ServerInv(t)' /\ FileInv(t)'
    BY <1>1 DEF PathInv, ServerInv, FileInv, Started, AtEof
  <2>4. AcksSound(t)'
    BY <1>1 DEF PathInv, AcksSound, Acks, AtEof
  <2>5. ClientSound(t)'
    BY <1>1 DEF PathInv, ClientSound, Delivers
  <2> QED BY <2>1, <2>2, <2>3, <2>4, <2>5 DEF PathInv
<1>2. Intact(t) => Intact(t)'
  BY DEF Intact, EofAcked
<1>3. NamesFirst(t) => NamesFirst(t)'
  BY DEF NamesFirst, InFlight, SeqAt
<1>4. EofOnce(t) => EofOnce(t)'
  BY DEF EofOnce, InFlight
<1> QED BY <1>1, <1>2, <1>3, <1>4

(* The first blocks of a file, as a sequence.                              *)
LEMMA BlocksSeq ==
  ASSUME NEW a \in Nat
  PROVE  Blocks(a) \in Seq(Nat \ {0}) /\ Len(Blocks(a)) = a
<1>1. Blocks(a) \in [1..a -> Nat \ {0}]
  BY DEF Blocks
<1>2. Blocks(a) \in Seq(Nat \ {0})
  BY <1>1, FunctionIsSeq
<1> QED BY <1>1, <1>2 DEF Blocks

(* Writing the next k blocks of the file behind its first a blocks.        *)
LEMMA BlocksConcat ==
  ASSUME NEW a \in Nat, NEW k \in Nat, NEW s, s = [i \in 1..k |-> a + i]
  PROVE  Blocks(a) \o s = Blocks(a + k)
<1> DEFINE S == Nat \ {0}
           p == Blocks(a)
<1>1. p \in Seq(S) /\ Len(p) = a
  BY BlocksSeq
<1>2. s \in Seq(S) /\ Len(s) = k
  <2>1. s \in [1..k -> S]
    OBVIOUS
  <2>2. s \in Seq(S)
    BY <2>1, FunctionIsSeq
  <2> QED BY <2>1, <2>2
<1> HIDE DEF p, S
<1>3. /\ p \o s \in [1..(Len(p) + Len(s)) -> S]
      /\ \A i \in 1..(Len(p) + Len(s)) :
            (p \o s)[i] = IF i <= Len(p) THEN p[i] ELSE s[i - Len(p)]
  BY <1>1, <1>2, ConcatElements
<1> DEFINE c == p \o s
<1>4. c \in [1..(a + k) -> S] /\ \A i \in 1..(a + k) : c[i] = IF i <= a THEN p[i] ELSE s[i - a]
  BY <1>1, <1>2, <1>3
<1> HIDE DEF c
<1>5. ASSUME NEW i \in 1..(a + k)
      PROVE  c[i] = i
  <2>1. CASE i <= a
    <3>1. i \in 1..a
      BY <2>1
    <3> QED BY <1>4, <2>1, <3>1 DEF p, Blocks
  <2>2. CASE i > a
    <3>1. i - a \in 1..k
      BY <2>2
    <3>2. s[i - a] = a + (i - a) /\ ~(i <= a)
      BY <2>2, <3>1
    <3> QED BY <1>4, <3>2
  <2> QED BY <2>1, <2>2
<1>6. c = Blocks(a + k)
  BY <1>4, <1>5 DEF Blocks
<1> QED BY <1>6 DEF c, p

(* The types of one client's state.                                        *)
LEMMA Types ==
  ASSUME TypeOK, NEW t \in Threads
  PROVE  /\ base[t] \in Nat \ {0} /\ next_seq_num[t] \in Nat \ {0}
         /\ NumPackets[t] \in Nat /\ next_seq_num[t] <= NumPackets[t] + 1
         /\ acked[t] \in [Slots -> BOOLEAN] /\ feof[t] \in BOOLEAN
         /\ expected_seq[t] \in Nat \ {0} /\ received[t] \in SUBSET (Nat \ {0})
         /\ toServer[t] \in Seq(Packets) /\ toClient[t] \in Seq(Nat)
  BY ClientAssumption DEF TypeOK, ClientTypeOK, ServerTypeOK, UdpTypeOK, Packets

(* The packet at the head of a queue, and what the invariant says of it.   *)
LEMMA HeadPacket ==
  ASSUME TypeOK, NEW t \in Threads, PathInv(t), toServer[t] # <<>>
  PROVE  /\ Head(toServer[t]) \in Packets /\ HeadSeq(t) \in Nat
         /\ 1 \in InFlight(t) /\ HeadSeq(t) = SeqAt(t, 1)
         /\ Head(toServer[t]) = toServer[t][1]
         /\ HeadSeq(t) # 0 => Started(t) /\ file[t] # "null"
         /\ IF Head(toServer[t]).empty
              THEN AtEof(t) /\ HeadSeq(t) = next_seq_num[t]
              ELSE HeadSeq(t) < next_seq_num[t]
<1>1. toServer[t] \in Seq(Packets)
  BY Types
<1>2. Head(toServer[t]) = toServer[t][1] /\ Head(toServer[t]) \in Packets /\ 1 \in InFlight(t)
  BY <1>1, TailElements DEF InFlight
<1>3. HeadSeq(t) \in Nat /\ HeadSeq(t) = SeqAt(t, 1)
  BY <1>2 DEF HeadSeq, SeqAt, Packets
<1>4. /\ HeadSeq(t) # 0 => Started(t)
      /\ IF Head(toServer[t]).empty
           THEN AtEof(t) /\ HeadSeq(t) = next_seq_num[t]
           ELSE HeadSeq(t) < next_seq_num[t]
  BY <1>2, <1>3 DEF PathInv, Flight
<1> QED BY <1>2, <1>3, <1>4 DEF PathInv, FileInv

(* A queue without its head.                                               *)
LEMMA TailQueue ==
  ASSUME TypeOK, NEW t \in Threads, toServer[t] # <<>>, toServer'[t] = Tail(toServer[t])
  PROVE  /\ Len(toServer[t]) \in Nat \ {0} /\ 1 \in InFlight(t)
         /\ InFlight(t)' = 1..(Len(toServer[t]) - 1)
         /\ Len(toServer'[t]) = Len(toServer[t]) - 1
         /\ \A k \in InFlight(t)' :
               /\ k \in Nat \ {0} /\ k + 1 \in InFlight(t) /\ SeqAt(t, k)' = SeqAt(t, k + 1)
               /\ toServer'[t][k].empty = toServer[t][k + 1].empty
<1> DEFINE q == toServer[t]
<1>1. /\ Len(Tail(q)) = Len(q) - 1 /\ Len(q) \in Nat \ {0}
      /\ \A k \in 1..(Len(q) - 1) : Tail(q)[k] = q[k + 1] /\ k + 1 \in 1..Len(q)
      /\ 1 \in 1..Len(q)
  <2>1. q \in Seq(Packets)
    BY Types
  <2> QED BY <2>1, TailElements
<1> QED BY <1>1 DEF InFlight, SeqAt

(* Taking a packet off the queue keeps Flight.                             *)
LEMMA TailFlight ==
  ASSUME TypeOK, NEW t \in Threads, PathInv(t), toServer[t] # <<>>,
         toServer'[t] = Tail(toServer[t]), UNCHANGED <<pc, next_seq_num>>
  PROVE  Flight(t)'
<1>1. \A k \in InFlight(t)' :
         /\ k \in Nat \ {0} /\ k + 1 \in InFlight(t) /\ SeqAt(t, k)' = SeqAt(t, k + 1)
         /\ toServer'[t][k].empty = toServer[t][k + 1].empty
  BY TailQueue
<1>2. Started(t)' = Started(t) /\ AtEof(t)' = AtEof(t) /\ Flight(t)
  BY DEF Started, AtEof, PathInv
<1> QED BY <1>1, <1>2 DEF Flight

(* It keeps EofOnce, if the EOF packet alone closes the file.              *)
LEMMA TailEofOnce ==
  ASSUME TypeOK, NEW t \in Threads, EofOnce(t), toServer[t] # <<>>,
         toServer'[t] = Tail(toServer[t]),
         toServer[t][1].empty \/ (file[t] = "open" => file'[t] = "open")
  PROVE  EofOnce(t)'
<1>1. /\ 1 \in InFlight(t)
      /\ \A k \in InFlight(t)' :
            /\ k \in Nat \ {0} /\ k + 1 \in InFlight(t)
            /\ toServer'[t][k].empty = toServer[t][k + 1].empty
  BY TailQueue
<1>2. ASSUME NEW k \in InFlight(t)', toServer'[t][k].empty
      PROVE  file'[t] = "open"
  <2>1. file[t] = "open"
    BY <1>1, <1>2 DEF EofOnce
  <2>2. ASSUME toServer[t][1].empty
        PROVE  FALSE
    <3>1. k + 1 = 1
      BY <1>1, <1>2, <2>2 DEF EofOnce
    <3> QED BY <1>1, <3>1
  <2> QED BY <2>1, <2>2
<1>3. ASSUME NEW j \in InFlight(t)', NEW k \in InFlight(t)',
             toServer'[t][j].empty, toServer'[t][k].empty
      PROVE  j = k
  <2>1. j + 1 = k + 1
    BY <1>1, <1>3 DEF EofOnce
  <2> QED BY <1>1, <2>1
<1> QED BY <1>2, <1>3 DEF EofOnce

(* Taking a packet off the queue keeps NamesFirst, if a name changes       *)
(* nothing of what was received and the last packet alone closes the file. *)
LEMMA TailNames ==
  ASSUME TypeOK, NEW t \in Threads, NamesFirst(t), toServer[t] # <<>>,
         toServer'[t] = Tail(toServer[t]),
         SeqAt(t, 1) = 0 => received'[t] = received[t],
         file'[t] = "closed" => file[t] = "closed" \/ toServer[t][1].empty
  PROVE  NamesFirst(t)'
<1>1. /\ Len(toServer[t]) \in Nat \ {0} /\ 1 \in InFlight(t)
      /\ InFlight(t)' = 1..(Len(toServer[t]) - 1)
      /\ Len(toServer'[t]) = Len(toServer[t]) - 1
      /\ \A k \in InFlight(t)' :
            /\ k \in Nat \ {0} /\ k + 1 \in InFlight(t) /\ SeqAt(t, k)' = SeqAt(t, k + 1)
            /\ toServer'[t][k].empty = toServer[t][k + 1].empty
  BY TailQueue
<1>2. ASSUME NEW k \in InFlight(t)'
      PROVE  /\ SeqAt(t, k)' = 0 => received'[t] = {}
             /\ toServer'[t][k].empty => k = Len(toServer'[t])
  <2>1. k + 1 \in InFlight(t) /\ 1 < k + 1
    BY <1>1
  <2>2. SeqAt(t, k + 1) = 0 => SeqAt(t, 1) = 0 /\ received[t] = {}
    BY <1>1, <2>1 DEF NamesFirst
  <2>3. toServer[t][k + 1].empty => k + 1 = Len(toServer[t])
    BY <2>1 DEF NamesFirst
  <2> QED BY <1>1, <2>2, <2>3
<1>3. \A j, k \in InFlight(t)' : j < k /\ SeqAt(t, k)' = 0 => SeqAt(t, j)' = 0
  <2> SUFFICES ASSUME NEW j \in InFlight(t)', NEW k \in InFlight(t)', j < k, SeqAt(t, k)' = 0
               PROVE  SeqAt(t, j)' = 0
    OBVIOUS
  <2>1. j + 1 < k + 1 /\ j + 1 \in InFlight(t) /\ k + 1 \in InFlight(t) /\ SeqAt(t, k + 1) = 0
    BY <1>1
  <2> QED BY <1>1, <2>1 DEF NamesFirst
<1>4. file'[t] = "closed" => toServer'[t] = <<>>
  <2> SUFFICES ASSUME file'[t] = "closed"
               PROVE  toServer'[t] = <<>>
    OBVIOUS
  <2>1. Len(toServer[t]) = 1
    BY <1>1 DEF NamesFirst
  <2>2. toServer[t] \in Seq(Packets)
    BY Types
  <2>3. Tail(toServer[t]) \in Seq(Packets) /\ Len(Tail(toServer[t])) = 0
    BY <2>1, <2>2, TailElements
  <2> QED BY <2>3, EmptySeq
<1> QED BY <1>2, <1>3, <1>4 DEF NamesFirst

(* Received numbers are finitely many. *)
LEMMA FiniteReceived ==
  ASSUME TypeOK, NEW t \in Threads, PathInv(t), NEW n \in Nat
  PROVE  Cardinality(received[t] \cup {n}) \in Nat
<1>1. IsFiniteSet(1..(next_seq_num[t] - 1))
  BY Types, FS_Interval
<1>2. IsFiniteSet(received[t])
  BY <1>1, FS_Subset DEF PathInv, ServerInv
<1>3. IsFiniteSet(received[t] \cup {n})
  BY <1>2, FS_AddElement
<1> QED BY <1>3, FS_CardinalityType

(* When the window has passed every packet, all of them were received.     *)
LEMMA AllReceived ==
  ASSUME TypeOK, NEW t \in Threads, PathInv(t), AtEof(t)
  PROVE  /\ next_seq_num[t] = NumPackets[t] + 1 /\ expected_seq[t] = NumPackets[t] + 1
         /\ \A n \in 1..NumPackets[t] : n \in received[t]
<1>1. base[t] = NumPackets[t] + 1 /\ next_seq_num[t] = NumPackets[t] + 1
  BY DEF PathInv, WindowInv
<1>2. \A n \in 1..NumPackets[t] : n \in received[t]
  BY <1>1, Types DEF PathInv, ClientSound, Delivers
<1>3. expected_seq[t] \in Nat \ {0} /\ NumPackets[t] \in Nat
  BY Types
<1>4. ~(expected_seq[t] \in 1..NumPackets[t])
  BY <1>2 DEF PathInv, ServerInv
<1>5. ~(NumPackets[t] + 1 \in 1..(expected_seq[t] - 1))
  BY <1>1, <1>3 DEF PathInv, ServerInv
<1> QED BY <1>1, <1>2, <1>3, <1>4, <1>5

(* What a data packet does: it is stored, the file, which is open if there *)
(* is something to write, grows by the run of packets that was waiting,    *)
(* and only stored packets are acknowledged.                               *)
LEMMA DataEffect ==
  ASSUME TypeOK, NEW t \in Threads, PathInv(t), ReceiveData(t)
  PROVE  /\ HeadSeq(t) \in 1..(next_seq_num[t] - 1) /\ HeadSeq(t) # 0
         /\ UNCHANGED <<server, file>>
         /\ received' = [received EXCEPT ![t] = @ \cup {HeadSeq(t)}]
         /\ \E e \in Nat \ {0}, written \in Seq(Nat \ {0}) :
               /\ expected_seq[t] <= e
               /\ expected_seq' = [expected_seq EXCEPT ![t] = e]
               /\ disk' = [disk EXCEPT ![t] = @ \o written]
               /\ Blocks(expected_seq[t] - 1) \o written = Blocks(e - 1)
               /\ e \notin received'[t]
               /\ \A m \in 1..(e - 1) : m \in received'[t]
         /\ \E acks \in Seq(received'[t]) : TakePacket(t, acks)
<1> DEFINE n == HeadSeq(t)
           rec == received[t] \cup {n}
           acks == IF n \in received[t] THEN <<>> ELSE <<n>>
           first == expected_seq[t]
<1>1. toServer[t] # <<>> /\ n # 0 /\ ~Head(toServer[t]).empty
  BY DEF ReceiveData, Arrives
<1>2. n \in Nat /\ n < next_seq_num[t] /\ file[t] \in {"open", "closed"}
  BY <1>1, HeadPacket DEF TypeOK, ServerTypeOK
<1>3. n \in 1..(next_seq_num[t] - 1)
  BY <1>1, <1>2, Types
<1>4. UNCHANGED file /\ received' = [received EXCEPT ![t] = rec] /\ received'[t] = rec
  BY DEF ReceiveData, TypeOK, ServerTypeOK
<1>5. first \notin rec \/ file[t] = "open"
  <2> SUFFICES ASSUME file[t] = "closed"
               PROVE  first \notin rec
    BY <1>2
  <2>1. AtEof(t)
    BY DEF PathInv, FileInv
  <2>2. n \in received[t]
    BY <1>3, <2>1, AllReceived, Types
  <2> QED BY <2>2 DEF PathInv, ServerInv
<1>6. PICK e \in first..(first + Cardinality(rec)) :
        /\ StopsAt(e, first, rec)
        /\ expected_seq' = [expected_seq EXCEPT ![t] = e]
        /\ disk' = [disk EXCEPT ![t] = @ \o [i \in 1..(e - first) |-> first + i - 1]]
        /\ TakePacket(t, acks \o [i \in 1..(e - first) |-> first + i - 1])
        /\ UNCHANGED server
  BY <1>5 DEF ReceiveData
<1> DEFINE written == [i \in 1..(e - first) |-> first + i - 1]
<1>7. first \in Nat \ {0} /\ e \in Nat \ {0} /\ first <= e /\ e - first \in Nat
  <2>1. first \in Nat \ {0} /\ Cardinality(rec) \in Nat
    BY <1>2, Types, FiniteReceived
  <2> QED BY <1>6, <2>1
<1>8. e \notin rec /\ \A m \in 1..(e - 1) : m \in rec
  <2>1. \A m \in first..(e - 1) : m \in rec
    BY <1>6 DEF StopsAt
  <2>2. \A m \in 1..(first - 1) : m \in rec
    BY DEF PathInv, ServerInv
  <2>3. e \notin rec
    BY <1>6 DEF StopsAt
  <2> QED BY <1>7, <2>1, <2>2, <2>3
<1> HIDE DEF rec, first
<1>9. written \in Seq(Nat \ {0})
  <2>1. written \in [1..(e - first) -> Nat \ {0}]
    BY <1>7
  <2> QED BY <1>7, <2>1, FunctionIsSeq
<1>10. Blocks(first - 1) \o written = Blocks(e - 1)
  <2>1. written = [i \in 1..(e - first) |-> (first - 1) + i]
    BY <1>7
  <2>2. first - 1 \in Nat /\ (first - 1) + (e - first) = e - 1
    BY <1>7
  <2> HIDE DEF written
  <2>3. Blocks(first - 1) \o written = Blocks((first - 1) + (e - first))
    BY <1>7, <2>1, <2>2, BlocksConcat
  <2> QED BY <2>2, <2>3
<1>11. acks \o written \in Seq(rec)
  <2>1. written \in [1..(e - first) -> rec]
    <3>1. \A i \in 1..(e - first) : first + i - 1 \in 1..(e - 1)
      BY <1>7
    <3> QED BY <1>8, <3>1
  <2>2. written \in Seq(rec)
    BY <1>7, <2>1, FunctionIsSeq
  <2>3. acks \in Seq(rec)
    <3>1. n \in rec
      BY DEF rec
    <3> HIDE DEF n
    <3>2. <<>> \in Seq(rec) /\ <<n>> \in Seq(rec)
      BY <3>1
    <3> QED BY <3>2
  <2> HIDE DEF written, acks
  <2> QED BY <2>2, <2>3, ConcatProperties
<1>12. received' = [received EXCEPT ![t] = @ \cup {HeadSeq(t)}] /\ received'[t] = rec
  BY <1>4 DEF rec
<1>13. \E f \in Nat \ {0}, w \in Seq(Nat \ {0}) :
         /\ expected_seq[t] <= f
         /\ expected_seq' = [expected_seq EXCEPT ![t] = f]
         /\ disk' = [disk EXCEPT ![t] = @ \o w]
         /\ Blocks(expected_seq[t] - 1) \o w = Blocks(f - 1)
         /\ f \notin received'[t]
         /\ \A m \in 1..(f - 1) : m \in received'[t]
  <2>1. disk' = [disk EXCEPT ![t] = @ \o written]
    BY <1>6
  <2> HIDE DEF written
  <2> QED BY <1>6, <1>7, <1>8, <1>9, <1>10, <1>12, <2>1 DEF first
<1>14. TakePacket(t, acks \o written)
  BY <1>6
<1> HIDE DEF written, acks
<1> QED BY <1>1, <1>3, <1>4, <1>6, <1>11, <1>12, <1>13, <1>14

(* What TakePacket does to the queues of the client it takes from.         *)
LEMMA TakeTakes ==
  ASSUME TypeOK, NEW t \in Threads, NEW acks, TakePacket(t, acks)
  PROVE  toServer'[t] = Tail(toServer[t]) /\ toClient'[t] = toClient[t] \o acks
  BY DEF TakePacket, TypeOK, UdpTypeOK

(* Acks that were sound stay sound when more may be acknowledged, and so   *)
(* do sound acks added to them.                                            *)
LEMMA MoreAcks ==
  ASSUME NEW t \in Threads, AcksSound(t), Acks(t) \subseteq Acks(t)',
         NEW acks \in Seq(Acks(t)'), toClient'[t] = toClient[t] \o acks
  PROVE  AcksSound(t)'
<1> DEFINE q == toClient[t]
           A == Acks(t)'
<1>1. q \in Seq(A)
  BY SeqMonotonic DEF AcksSound
<1>2. acks \in Seq(A)
  OBVIOUS
<1> HIDE DEF q, A
<1>3. q \o acks \in Seq(A)
  BY <1>1, <1>2, ConcatProperties
<1> QED BY <1>3 DEF AcksSound, q, A

(* A datagram that is taken and ignored.                                   *)
LEMMA IgnoredPacket ==
  ASSUME TypeOK, NEW t \in Threads, UNCHANGED clientVars,
         UNCHANGED ServerVarsAt(t), toServer[t] # <<>>,
         toServer'[t] = Tail(toServer[t]), toClient'[t] = toClient[t]
  PROVE  /\ PathInv(t) => PathInv(t)'
         /\ EofOnce(t) => EofOnce(t)'
         /\ Intact(t) => Intact(t)'
         /\ NamesFirst(t) => NamesFirst(t)'
<1> USE DEF clientVars, ServerVarsAt
<1>1. ASSUME PathInv(t)
      PROVE  PathInv(t)'
  <2>1. RetriesLeft(t)' /\ WindowInv(t)' /\ ClientSound(t)'
    BY <1>1 DEF PathInv, RetriesLeft, WindowInv, Started, AtEof, ClientSound, Delivers
  <2>2. Flight(t)'
    BY <1>1, TailFlight
  <2>3. ServerInv(t)' /\ FileInv(t)'
    BY <1>1 DEF PathInv, ServerInv, FileInv, Started, AtEof
  <2>4. AcksSound(t)'
    BY <1>1 DEF PathInv, AcksSound, Acks, AtEof
  <2> QED BY <2>1, <2>2, <2>3, <2>4 DEF PathInv
<1>2. Intact(t) => Intact(t)'
  BY DEF Intact, EofAcked
<1>3. NamesFirst(t) => NamesFirst(t)'
  BY TailNames
<1>4. EofOnce(t) => EofOnce(t)'
  BY TailEofOnce
<1> QED BY <1>1, <1>2, <1>3, <1>4

(* A filename packet that creates no file takes the server down with it;   *)
(* otherwise the file is empty and open.                                   *)
LEMMA FilenameEffect ==
  ASSUME TypeOK, NEW t \in Threads, ReceiveFilename(t)
  PROVE  /\ toServer[t] # <<>> /\ HeadSeq(t) = 0 /\ server = "up"
         /\ UNCHANGED <<expected_seq, received>> /\ toServer'[t] = Tail(toServer[t])
         /\ \/ server' = "exited" /\ UNCHANGED <<file, disk>> /\ toClient'[t] = toClient[t]
            \/ /\ server' = "up" /\ file'[t] = "open" /\ disk'[t] = <<>>
               /\ toClient'[t] = toClient[t] \o <<0>>
<1>1. toServer[t] # <<>> /\ HeadSeq(t) = 0 /\ server = "up" /\ UNCHANGED <<expected_seq, received>>
  BY DEF ReceiveFilename, Arrives
<1>2. CASE TakePacket(t, <<>>) /\ UNCHANGED <<file, disk>> /\ server' = "exited"
  <2>1. toServer'[t] = Tail(toServer[t]) /\ toClient'[t] = toClient[t] \o <<>>
    BY <1>2, TakeTakes
  <2>2. toClient[t] \o <<>> = toClient[t]
    BY Types, ConcatEmptySeq
  <2> QED BY <1>1, <1>2, <2>1, <2>2
<1>3. CASE /\ file' = [file EXCEPT ![t] = "open"]
           /\ disk' = [disk EXCEPT ![t] = <<>>]
           /\ TakePacket(t, <<0>>)
           /\ UNCHANGED server
  <2>1. toServer'[t] = Tail(toServer[t]) /\ toClient'[t] = toClient[t] \o <<0>>
    BY <1>3, TakeTakes
  <2>2. file'[t] = "open" /\ disk'[t] = <<>>
    BY <1>3 DEF TypeOK, ServerTypeOK
  <2> QED BY <1>1, <1>3, <2>1, <2>2
<1> QED BY <1>2, <1>3 DEF ReceiveFilename

(* A filename packet, early or late, keeps what holds on any path.         *)
LEMMA FilenamePath ==
  ASSUME TypeOK, NEW t \in Threads, PathInv(t), UNCHANGED clientVars, ReceiveFilename(t)
  PROVE  PathInv(t)' /\ server' # "crashed"
<1>1. /\ toServer[t] # <<>> /\ UNCHANGED <<expected_seq, received>>
      /\ toServer'[t] = Tail(toServer[t])
      /\ \/ server' = "exited" /\ UNCHANGED <<file, disk>> /\ toClient'[t] = toClient[t]
         \/ server' = "up" /\ file'[t] = "open" /\ toClient'[t] = toClient[t] \o <<0>>
  BY FilenameEffect
<1>2. CASE server' = "exited" /\ UNCHANGED <<file, disk>> /\ toClient'[t] = toClient[t]
  BY <1>1, <1>2, IgnoredPacket DEF ServerVarsAt
<1>3. CASE server' = "up" /\ file'[t] = "open" /\ toClient'[t] = toClient[t] \o <<0>>
  <2> USE DEF clientVars
  <2>1. RetriesLeft(t)' /\ WindowInv(t)' /\ ClientSound(t)'
    BY <1>1 DEF PathInv, RetriesLeft, WindowInv, Started, AtEof, ClientSound, Delivers
  <2>2. Flight(t)'
    BY <1>1, <1>3, TailFlight
  <2>3. ServerInv(t)' /\ FileInv(t)'
    BY <1>1, <1>3 DEF PathInv, ServerInv, FileInv, Started, AtEof
  <2>4. AcksSound(t)'
    <3>1. Acks(t) \subseteq Acks(t)' /\ 0 \in Acks(t)'
      BY <1>1, <1>3 DEF Acks, AtEof
    <3>2. <<0>> \in Seq(Acks(t)')
      BY <3>1
    <3> QED BY <1>3, <3>1, <3>2, MoreAcks DEF PathInv
  <2> QED BY <1>3, <2>1, <2>2, <2>3, <2>4 DEF PathInv
<1> QED BY <1>1, <1>2, <1>3

(* What an EOF packet does: it finds the file open and closes it, or finds *)
(* it closed already.                                                      *)
LEMMA EofEffect ==
  ASSUME TypeOK, NEW t \in Threads, PathInv(t), ReceiveEof(t)
  PROVE  /\ toServer[t] # <<>> /\ toServer[t][1].empty /\ 1 \in InFlight(t)
         /\ AtEof(t) /\ SeqAt(t, 1) # 0
         /\ UNCHANGED <<expected_seq, received, disk>>
         /\ server = "up" /\ file'[t] = "closed"
         /\ toServer'[t] = Tail(toServer[t])
         /\ \/ /\ file[t] = "open" /\ UNCHANGED server
               /\ toClient'[t] = toClient[t] \o <<next_seq_num[t]>>
            \/ /\ file[t] = "closed" /\ server' = "crashed"
               /\ toClient'[t] = toClient[t]
<1>1. /\ toServer[t] # <<>> /\ Head(toServer[t]).empty /\ server = "up"
      /\ UNCHANGED <<expected_seq, received, disk>>
  BY DEF ReceiveEof, Arrives
<1>2. /\ AtEof(t) /\ HeadSeq(t) = next_seq_num[t] /\ 1 \in InFlight(t)
      /\ HeadSeq(t) = SeqAt(t, 1) /\ Head(toServer[t]) = toServer[t][1]
      /\ HeadSeq(t) # 0 => file[t] # "null"
  BY <1>1, HeadPacket
<1>3. HeadSeq(t) # 0 /\ file[t] \in {"open", "closed"}
  BY <1>2, Types DEF TypeOK, ServerTypeOK
<1>4. CASE file[t] = "open"
  <2>1. /\ file' = [file EXCEPT ![t] = "closed"]
        /\ TakePacket(t, <<HeadSeq(t)>>)
        /\ UNCHANGED server
    BY <1>4 DEF ReceiveEof
  <2>2. file'[t] = "closed"
    BY <2>1 DEF TypeOK, ServerTypeOK
  <2> QED BY <1>1, <1>2, <1>3, <1>4, <2>1, <2>2, TakeTakes
<1>5. CASE file[t] = "closed"
  <2>1. server' = "crashed" /\ TakePacket(t, <<>>) /\ UNCHANGED file
    BY <1>5 DEF ReceiveEof
  <2>2. toServer'[t] = Tail(toServer[t]) /\ toClient'[t] = toClient[t] \o <<>>
    BY <2>1, TakeTakes
  <2>3. toClient[t] \o <<>> = toClient[t]
    BY Types, ConcatEmptySeq
  <2> QED BY <1>1, <1>2, <1>3, <1>5, <2>1, <2>2, <2>3
<1> QED BY <1>3, <1>4, <1>5

(* An EOF packet keeps what holds on any path.                             *)
LEMMA EofPath ==
  ASSUME TypeOK, NEW t \in Threads, PathInv(t), UNCHANGED clientVars, ReceiveEof(t)
  PROVE  PathInv(t)' /\ (EofOnce(t) => server' # "crashed")
<1> USE DEF clientVars
<1>1. /\ toServer[t] # <<>> /\ toServer[t][1].empty /\ 1 \in InFlight(t)
      /\ AtEof(t) /\ UNCHANGED <<expected_seq, received>>
      /\ server = "up" /\ file'[t] = "closed"
      /\ toServer'[t] = Tail(toServer[t])
      /\ \/ /\ file[t] = "open" /\ UNCHANGED server
            /\ toClient'[t] = toClient[t] \o <<next_seq_num[t]>>
         \/ /\ file[t] = "closed" /\ server' = "crashed"
            /\ toClient'[t] = toClient[t]
  BY EofEffect
<1>2. RetriesLeft(t)' /\ WindowInv(t)' /\ ClientSound(t)'
  BY <1>1 DEF PathInv, RetriesLeft, WindowInv, Started, AtEof, ClientSound, Delivers
<1>3. Flight(t)'
  BY <1>1, TailFlight
<1>4. ServerInv(t)' /\ FileInv(t)'
  BY <1>1 DEF PathInv, ServerInv, FileInv, AtEof
<1>5. AcksSound(t)'
  <2>1. Acks(t) \subseteq Acks(t)' /\ next_seq_num[t] \in Acks(t)'
    BY <1>1 DEF Acks, AtEof
  <2>2. <<next_seq_num[t]>> \in Seq(Acks(t)')
    BY <2>1
  <2>3. CASE toClient'[t] = toClient[t] \o <<next_seq_num[t]>>
    BY <2>1, <2>2, <2>3, MoreAcks DEF PathInv
  <2>4. CASE toClient'[t] = toClient[t]
    BY <2>1, <2>4, SeqMonotonic DEF PathInv, AcksSound
  <2> QED BY <1>1, <2>3, <2>4
<1>6. EofOnce(t) => server' # "crashed"
  BY <1>1 DEF EofOnce
<1> QED BY <1>2, <1>3, <1>4, <1>5, <1>6 DEF PathInv

(* A data packet keeps what holds on any path.                             *)
LEMMA DataPath ==
  ASSUME TypeOK, NEW t \in Threads, PathInv(t), UNCHANGED clientVars, ReceiveData(t)
  PROVE  PathInv(t)' /\ UNCHANGED server
<1> USE DEF clientVars
<1>1. /\ HeadSeq(t) \in 1..(next_seq_num[t] - 1) /\ HeadSeq(t) # 0
      /\ UNCHANGED <<server, file>>
      /\ received' = [received EXCEPT ![t] = @ \cup {HeadSeq(t)}]
  BY DataEffect
<1>2. PICK e \in Nat \ {0} :
         /\ expected_seq' = [expected_seq EXCEPT ![t] = e]
         /\ e \notin received'[t]
         /\ \A m \in 1..(e - 1) : m \in received'[t]
  BY DataEffect
<1>3. PICK acks \in Seq(received'[t]) : TakePacket(t, acks)
  BY DataEffect
<1>4. received'[t] = received[t] \cup {HeadSeq(t)} /\ expected_seq'[t] = e
  BY <1>1, <1>2 DEF TypeOK, ServerTypeOK
<1>5. toServer[t] # <<>> /\ toServer'[t] = Tail(toServer[t]) /\ toClient'[t] = toClient[t] \o acks
  BY <1>3, TakeTakes DEF ReceiveData, Arrives
<1>6. RetriesLeft(t)' /\ WindowInv(t)'
  BY DEF PathInv, RetriesLeft, WindowInv, Started, AtEof
<1>7. ClientSound(t)'
  BY <1>4 DEF PathInv, ClientSound, Delivers
<1>8. Flight(t)'
  BY <1>1, <1>5, TailFlight
<1>9. ServerInv(t)'
  <2>1. received'[t] \subseteq 1..(next_seq_num[t] - 1)
    BY <1>1, <1>4 DEF PathInv, ServerInv
  <2> QED BY <1>2, <1>4, <2>1 DEF ServerInv
<1>10. FileInv(t)'
  BY <1>1 DEF PathInv, FileInv, Started, AtEof
<1>11. AcksSound(t)'
  <2>1. Acks(t) \subseteq Acks(t)' /\ received'[t] \subseteq Acks(t)'
    BY <1>1, <1>4 DEF Acks, AtEof
  <2>2. acks \in Seq(Acks(t)')
    BY <2>1, SeqMonotonic
  <2> QED BY <1>5, <2>1, <2>2, MoreAcks DEF PathInv
<1> QED BY <1>1, <1>6, <1>7, <1>8, <1>9, <1>10, <1>11 DEF PathInv

(* A refused client's datagram is taken and ignored.                       *)
LEMMA RefusedPacket ==
  ASSUME TypeOK, NEW t \in Threads, UNCHANGED clientVars, RefuseClient(t)
  PROVE  /\ PathInv(t) => PathInv(t)'
         /\ EofOnce(t) => EofOnce(t)'
         /\ Intact(t) => Intact(t)'
         /\ NamesFirst(t) => NamesFirst(t)'
         /\ UNCHANGED <<server, disk, file>>
<1>1. toServer[t] # <<>> /\ toServer'[t] = Tail(toServer[t]) /\ toClient'[t] = toClient[t] \o <<>>
  BY TakeTakes DEF RefuseClient, Arrives
<1>2. toClient[t] \o <<>> = toClient[t]
  BY Types, ConcatEmptySeq
<1>3. UNCHANGED serverVars
  BY DEF RefuseClient
<1> QED BY <1>1, <1>2, <1>3, IgnoredPacket DEF serverVars, ServerVarsAt

(* Every datagram the server handles keeps PathInv of its sender, and      *)
(* meets an open file if it needs one, unless a second EOF packet is       *)
(* behind the first.                                                       *)
LEMMA ServerPath ==
  ASSUME TypeOK, NEW t \in Threads, PathInv(t), Server(t)
  PROVE  PathInv(t)' /\ (EofOnce(t) => server' # "crashed")
<1>1. server = "up"
  BY DEF Server, ServerReceive, RefuseClient, ReceiveFilename, ReceiveEof, ReceiveData, Arrives
<1> QED BY <1>1, RefusedPacket, FilenamePath, EofPath, DataPath DEF Server, ServerReceive

(* It adds no EOF packet, and only an EOF packet closes the file.          *)
LEMMA ServerEofOnce ==
  ASSUME TypeOK, NEW t \in Threads, PathInv(t), EofOnce(t), Server(t)
  PROVE  EofOnce(t)'
<1> USE DEF Server
<1>1. CASE RefuseClient(t)
  BY <1>1, RefusedPacket
<1>2. CASE ReceiveFilename(t)
  <2>1. /\ toServer[t] # <<>> /\ toServer'[t] = Tail(toServer[t])
        /\ file' = file \/ file'[t] = "open"
    BY <1>2, FilenameEffect
  <2> QED BY <2>1, TailEofOnce
<1>3. CASE ReceiveEof(t)
  <2>1. toServer[t] # <<>> /\ toServer[t][1].empty /\ toServer'[t] = Tail(toServer[t])
    BY <1>3, EofEffect
  <2> QED BY <2>1, TailEofOnce
<1>4. CASE ReceiveData(t)
  <2>1. UNCHANGED file /\ \E acks : TakePacket(t, acks)
    BY <1>4, DataEffect
  <2>2. toServer[t] # <<>> /\ toServer'[t] = Tail(toServer[t])
    BY <1>4, <2>1, TakeTakes DEF ReceiveData, Arrives
  <2> QED BY <2>1, <2>2, TailEofOnce
<1> QED BY <1>1, <1>2, <1>3, <1>4 DEF ServerReceive

(* While names come first, nothing is behind the EOF packet.               *)
LEMMA OrderedEofOnce ==
  ASSUME TypeOK, NEW t \in Threads, PathInv(t), NamesFirst(t)
  PROVE  EofOnce(t)
<1>1. ASSUME NEW k \in InFlight(t), toServer[t][k].empty
      PROVE  file[t] = "open"
  <2>1. AtEof(t)
    BY <1>1 DEF PathInv, Flight
  <2>2. file[t] # "null"
    BY <2>1 DEF PathInv, FileInv, Started, AtEof
  <2>3. toServer[t] # <<>>
    BY <1>1 DEF InFlight
  <2> QED BY <2>2, <2>3 DEF NamesFirst, TypeOK, ServerTypeOK
<1>2. \A j, k \in InFlight(t) : toServer[t][j].empty /\ toServer[t][k].empty => j = k
  BY DEF NamesFirst
<1> QED BY <1>1, <1>2 DEF EofOnce

(* What the tail of a queue of acks holds, the queue held.                 *)
LEMMA AckedInTail ==
  ASSUME TypeOK, NEW t \in Threads, toClient[t] # <<>>,
         NEW n, NEW k \in 1..Len(Tail(toClient[t])), Tail(toClient[t])[k] = n
  PROVE  \E j \in 1..Len(toClient[t]) : toClient[t][j] = n
<1>1. toClient[t] \in Seq(Nat)
  BY Types
<1>2. Tail(toClient[t])[k] = toClient[t][k + 1] /\ k + 1 \in 1..Len(toClient[t])
  BY <1>1, TailElements
<1> QED BY <1>2

(* What neither of two sequences of acks holds, their concatenation lacks. *)
LEMMA AckedBefore ==
  ASSUME NEW S, NEW q \in Seq(S), NEW acks \in Seq(S), NEW x, x \notin S
  PROVE  ~\E k \in 1..Len(q \o acks) : (q \o acks)[k] = x
<1>1. q \o acks \in Seq(S)
  BY ConcatProperties
<1> DEFINE c == q \o acks
<1>2. c \in Seq(S)
  BY <1>1
<1> HIDE DEF c
<1>3. \A k \in 1..Len(c) : c[k] \in S
  BY <1>2, SeqElements
<1> QED BY <1>3 DEF c

(* Every datagram but a name that opens the file anew keeps it.            *)
LEMMA ServerIntact ==
  ASSUME TypeOK, NEW t \in Threads, PathInv(t), Intact(t), Server(t), ~Reopens(t)
  PROVE  Intact(t)'
<1> USE DEF Server, clientVars
<1>1. CASE RefuseClient(t)
  BY <1>1, RefusedPacket
<1>2. CASE ReceiveEof(t)
  <2>1. UNCHANGED <<expected_seq, disk>> /\ file'[t] = "closed"
    BY <1>2, EofEffect
  <2> QED BY <2>1 DEF Intact
<1>3. CASE ReceiveFilename(t)
  <2>1. /\ HeadSeq(t) = 0 /\ UNCHANGED <<expected_seq, received>>
        /\ \/ server' = "exited" /\ UNCHANGED <<file, disk>> /\ toClient'[t] = toClient[t]
           \/ /\ server' = "up" /\ file'[t] = "open" /\ disk'[t] = <<>>
              /\ toClient'[t] = toClient[t] \o <<0>>
    BY <1>3, FilenameEffect
  <2>2. CASE server' = "exited" /\ UNCHANGED <<file, disk>> /\ toClient'[t] = toClient[t]
    BY <2>1, <2>2 DEF Intact, EofAcked
  <2>3. CASE /\ server' = "up" /\ file'[t] = "open" /\ disk'[t] = <<>>
             /\ toClient'[t] = toClient[t] \o <<0>>
    <3>1. disk[t] = <<>> /\ file[t] # "closed"
      BY <2>1, <2>3 DEF Reopens
    <3>2. disk'[t] = Blocks(expected_seq'[t] - 1)
      BY <2>1, <2>3, <3>1 DEF Intact
    <3>3. ~EofAcked(t)
      BY <3>1 DEF Intact
    <3>4. ~EofAcked(t)'
      <4> DEFINE S == Nat \ {next_seq_num[t]}
                 q == toClient[t]
      <4>1. q \in Seq(Nat) /\ next_seq_num[t] \in Nat \ {0}
        BY Types
      <4>2. \A k \in 1..Len(q) : q[k] # next_seq_num[t]
        BY <3>3 DEF EofAcked
      <4>3. Len(q) \in Nat /\ q \in [1..Len(q) -> S]
        BY <4>1, <4>2
      <4>4. q \in Seq(S)
        BY <4>3, FunctionIsSeq
      <4>5. <<0>> \in Seq(S)
        <5>1. 0 \in S
          BY <4>1
        <5> HIDE DEF S
        <5> QED BY <5>1
      <4>6. next_seq_num[t] \notin S
        OBVIOUS
      <4> HIDE DEF S
      <4>7. ~\E k \in 1..Len(q \o <<0>>) : (q \o <<0>>)[k] = next_seq_num[t]
        BY <4>4, <4>5, <4>6, AckedBefore
      <4>8. pc'[t] # "done" /\ next_seq_num'[t] = next_seq_num[t]
        BY <3>3 DEF EofAcked
      <4> QED BY <2>3, <4>7, <4>8 DEF EofAcked
    <3> QED BY <3>2, <3>4 DEF Intact
  <2> QED BY <2>1, <2>2, <2>3
<1>4. CASE ReceiveData(t)
  <2>1. PICK e \in Nat \ {0}, w \in Seq(Nat \ {0}) :
           /\ expected_seq' = [expected_seq EXCEPT ![t] = e]
           /\ disk' = [disk EXCEPT ![t] = @ \o w]
           /\ Blocks(expected_seq[t] - 1) \o w = Blocks(e - 1)
    BY <1>4, DataEffect
  <2>2. disk'[t] = Blocks(expected_seq'[t] - 1)
    BY <2>1 DEF Intact, TypeOK, ServerTypeOK
  <2>3. UNCHANGED file /\ received' = [received EXCEPT ![t] = @ \cup {HeadSeq(t)}]
        /\ HeadSeq(t) \in 1..(next_seq_num[t] - 1)
    BY <1>4, DataEffect
  <2>4. EofAcked(t)' => EofAcked(t)
    <3> SUFFICES ASSUME ~EofAcked(t)
                 PROVE  ~EofAcked(t)'
      OBVIOUS
    <3> DEFINE S == Nat \ {next_seq_num[t]}
               q == toClient[t]
    <3>1. PICK acks \in Seq(received'[t]) : TakePacket(t, acks)
      BY <1>4, DataEffect
    <3>2. toClient'[t] = q \o acks
      BY <3>1, TakeTakes
    <3>3. q \in Seq(Nat) /\ next_seq_num[t] \in Nat
      BY Types
    <3>4. \A k \in 1..Len(q) : q[k] # next_seq_num[t]
      BY DEF EofAcked
    <3>5. Len(q) \in Nat /\ q \in [1..Len(q) -> S]
      BY <3>3, <3>4
    <3>6. q \in Seq(S)
      BY <3>5, FunctionIsSeq
    <3>7. received'[t] \subseteq S
      <4>1. received[t] \subseteq 1..(next_seq_num[t] - 1) /\ received'[t] = received[t] \cup {HeadSeq(t)}
        BY <2>3 DEF PathInv, ServerInv, TypeOK, ServerTypeOK
      <4> QED BY <2>3, <3>3, <4>1
    <3>8. next_seq_num[t] \notin S
      OBVIOUS
    <3> HIDE DEF S
    <3>9. acks \in Seq(S)
      BY <3>1, <3>7, SeqMonotonic
    <3>10. ~\E k \in 1..Len(q \o acks) : (q \o acks)[k] = next_seq_num[t]
      BY <3>6, <3>8, <3>9, AckedBefore
    <3>11. pc'[t] # "done" /\ next_seq_num'[t] = next_seq_num[t]
      BY DEF EofAcked
    <3> QED BY <3>2, <3>10, <3>11 DEF EofAcked
  <2> QED BY <2>2, <2>3, <2>4 DEF Intact
<1> QED BY <1>1, <1>2, <1>3, <1>4 DEF ServerReceive

(* On a path that keeps order no name meets a file with blocks, or one     *)
(* that was closed.                                                        *)
LEMMA NameInTime ==
  ASSUME TypeOK, NEW t \in Threads, ThreadInv(t), Server(t)
  PROVE  ~Reopens(t)
<1> SUFFICES ASSUME HeadSeq(t) = 0
             PROVE  disk[t] = <<>> /\ file[t] # "closed"
  BY DEF Reopens
<1>1. toServer[t] # <<>>
  BY DEF Server, ServerReceive, RefuseClient, ReceiveFilename, ReceiveEof, ReceiveData, Arrives
<1>2. file[t] # "closed"
  BY <1>1 DEF ThreadInv, NamesFirst
<1>3. received[t] = {}
  <2>1. 1 \in InFlight(t) /\ SeqAt(t, 1) = 0
    BY <1>1, HeadPacket DEF ThreadInv
  <2> QED BY <2>1 DEF ThreadInv, NamesFirst
<1>4. disk[t] = <<>>
  <2>1. expected_seq[t] \in Nat \ {0} /\ ~(1 \in 1..(expected_seq[t] - 1))
    BY <1>3, Types DEF ThreadInv, PathInv, ServerInv
  <2>2. expected_seq[t] = 1
    BY <2>1
  <2>3. Blocks(0) = <<>>
    BY DEF Blocks
  <2> QED BY <2>2, <2>3 DEF ThreadInv, Intact
<1> QED BY <1>2, <1>4

(* The server's steps keep the names first.                                *)
LEMMA ServerNames ==
  ASSUME TypeOK, NEW t \in Threads, ThreadInv(t), Server(t)
  PROVE  NamesFirst(t)'
<1> USE DEF Server, ThreadInv
<1>1. CASE RefuseClient(t)
  BY <1>1, RefusedPacket
<1>2. CASE ReceiveFilename(t)
  <2>1. /\ toServer[t] # <<>> /\ UNCHANGED received /\ toServer'[t] = Tail(toServer[t])
        /\ file' = file \/ file'[t] = "open"
    BY <1>2, FilenameEffect
  <2> QED BY <2>1, TailNames
<1>3. CASE ReceiveEof(t)
  <2>1. /\ toServer[t] # <<>> /\ toServer[t][1].empty /\ UNCHANGED received
        /\ toServer'[t] = Tail(toServer[t])
    BY <1>3, EofEffect
  <2> QED BY <2>1, TailNames
<1>4. CASE ReceiveData(t)
  <2>1. UNCHANGED file /\ HeadSeq(t) # 0 /\ \E acks : TakePacket(t, acks)
    BY <1>4, DataEffect
  <2>2. toServer[t] # <<>> /\ toServer'[t] = Tail(toServer[t])
    BY <1>4, <2>1, TakeTakes DEF ReceiveData, Arrives
  <2>3. SeqAt(t, 1) # 0
    BY <2>1, <2>2, HeadPacket
  <2> QED BY <2>1, <2>2, <2>3, TailNames
<1> QED BY <1>1, <1>2, <1>3, <1>4 DEF ServerReceive

(* A lost datagram keeps all parts of the invariants.                      *)
LEMMA LossStep ==
  ASSUME TypeOK, NEW t \in Threads, Loss(t)
  PROVE  /\ PathInv(t) => PathInv(t)'
         /\ EofOnce(t) => EofOnce(t)'
         /\ Intact(t) => Intact(t)'
         /\ NamesFirst(t) => NamesFirst(t)'
<1>1. UNCHANGED <<clientVars, serverVars>>
  BY DEF Loss, DropData, DropAck
<1>2. CASE DropData(t)
  <2>1. /\ toServer[t] # <<>> /\ toServer'[t] = Tail(toServer[t])
        /\ toClient'[t] = toClient[t]
    BY <1>2 DEF DropData, Arrives, TypeOK, UdpTypeOK
  <2> QED BY <1>1, <2>1, IgnoredPacket DEF serverVars, ServerVarsAt
<1>3. CASE DropAck(t)
  <2>1. /\ toClient[t] # <<>> /\ toClient'[t] = Tail(toClient[t])
        /\ toServer'[t] = toServer[t]
    BY <1>3 DEF DropAck, LoseAck, TypeOK, UdpTypeOK
  <2> USE DEF clientVars, serverVars
  <2>2. ASSUME PathInv(t)
        PROVE  PathInv(t)'
    <3>1. RetriesLeft(t)' /\ WindowInv(t)' /\ ClientSound(t)'
      BY <1>1, <2>2 DEF PathInv, RetriesLeft, WindowInv, Started, AtEof, ClientSound, Delivers
    <3>2. Flight(t)'
      BY <1>1, <2>1, <2>2 DEF PathInv, Flight, InFlight, SeqAt, Started, AtEof
    <3>3. ServerInv(t)' /\ FileInv(t)'
      BY <1>1, <2>2 DEF PathInv, ServerInv, FileInv, Started, AtEof
    <3>4. AcksSound(t)'
      <4>1. Acks(t)' = Acks(t)
        BY <1>1 DEF Acks, AtEof
      <4>2. Tail(toClient[t]) \in Seq(Acks(t))
        BY <2>1, <2>2, TailElements DEF PathInv, AcksSound
      <4> QED BY <2>1, <4>1, <4>2 DEF AcksSound
    <3> QED BY <3>1, <3>2, <3>3, <3>4 DEF PathInv
  <2>3. EofAcked(t)' => EofAcked(t)
    BY <1>1, <2>1, AckedInTail DEF EofAcked
  <2>4. Intact(t) => Intact(t)'
    BY <1>1, <2>3 DEF Intact
  <2>5. NamesFirst(t) => NamesFirst(t)'
    BY <1>1, <2>1 DEF NamesFirst, InFlight, SeqAt
  <2>6. EofOnce(t) => EofOnce(t)'
    BY <1>1, <2>1 DEF EofOnce, InFlight
  <2> QED BY <2>2, <2>4, <2>5, <2>6
<1> QED BY <1>2, <1>3 DEF Loss

(* Handling a datagram leaves what belongs to other clients alone.         *)
LEMMA OtherClients ==
  ASSUME TypeOK, NEW t \in Threads, PathInv(t), Server(t) \/ Loss(t), NEW u \in Threads, u # t
  PROVE  UNCHANGED <<ClientVarsAt(u), ServerVarsAt(u), QueuesAt(u)>>
<1> USE DEF TypeOK, ServerTypeOK, UdpTypeOK, ServerVarsAt, QueuesAt
<1>1. UNCHANGED ClientVarsAt(u)
  BY DEF Server, Loss, clientVars, ClientVarsAt
<1>2. ASSUME NEW acks, TakePacket(t, acks)
      PROVE  UNCHANGED QueuesAt(u)
  BY <1>2 DEF TakePacket
<1>3. CASE RefuseClient(t)
  BY <1>1, <1>2, <1>3 DEF RefuseClient, serverVars
<1>4. CASE ReceiveFilename(t)
  <2>1. UNCHANGED QueuesAt(u)
    BY <1>2, <1>4 DEF ReceiveFilename
  <2>2. UNCHANGED ServerVarsAt(u)
    BY <1>4 DEF ReceiveFilename
  <2> QED BY <1>1, <2>1, <2>2
<1>5. CASE ReceiveEof(t)
  <2>1. UNCHANGED QueuesAt(u)
    BY <1>2, <1>5 DEF ReceiveEof
  <2>2. UNCHANGED ServerVarsAt(u)
    BY <1>5 DEF ReceiveEof
  <2> QED BY <1>1, <2>1, <2>2
<1>6. CASE ReceiveData(t)
  <2>1. UNCHANGED QueuesAt(u)
    BY <1>2, <1>6, DataEffect
  <2>2. UNCHANGED ServerVarsAt(u)
    BY <1>6, DataEffect
  <2> QED BY <1>1, <2>1, <2>2
<1>7. CASE Loss(t)
  BY <1>1, <1>7 DEF Loss, DropData, DropAck, LoseAck, serverVars
<1> QED BY <1>3, <1>4, <1>5, <1>6, <1>7 DEF Server, ServerReceive

(* Slots of numbers less than win_size apart are distinct. *)
LEMMA SlotsDistinct ==
  ASSUME NEW i \in Nat, NEW j \in Nat, i < j, j < i + WinSize
  PROVE  Slot(i) # Slot(j)
  BY ModDistinct, ClientAssumption DEF Slot

(* An index computed with the window size lies in acked.                   *)
LEMMA SlotType == \A n \in Nat : Slot(n) \in Slots
  BY ClientAssumption DEF Slot, Slots

(* What the invariant says of a client before and after its EOF packet.    *)
LEMMA Window ==
  ASSUME TypeOK, NEW t \in Threads, PathInv(t)
  PROVE  /\ ~Started(t) => /\ base[t] = 1 /\ next_seq_num[t] = 1 /\ ~feof[t] /\ received[t] = {}
                           /\ \A k \in InFlight(t) : SeqAt(t, k) = 0
         /\ ~AtEof(t) => /\ file[t] # "closed"
                         /\ \A k \in InFlight(t) : ~toServer[t][k].empty
<1>1. ASSUME ~Started(t)
      PROVE  base[t] = 1 /\ next_seq_num[t] = 1 /\ ~feof[t] /\ received[t] = {}
  <2>1. next_seq_num[t] = 1 /\ ~feof[t] /\ base[t] <= 1
    BY <1>1 DEF PathInv, WindowInv
  <2>2. base[t] = 1
    BY <2>1, Types
  <2>3. received[t] \subseteq 1..0
    BY <2>1 DEF PathInv, ServerInv
  <2> QED BY <2>1, <2>2, <2>3
<1>2. ~AtEof(t) => file[t] # "closed"
  BY DEF PathInv, FileInv
<1>3. ~AtEof(t) => \A k \in InFlight(t) : ~toServer[t][k].empty
  BY DEF PathInv, Flight
<1>4. ~Started(t) => \A k \in InFlight(t) : SeqAt(t, k) = 0
  BY DEF PathInv, Flight
<1> QED BY <1>1, <1>2, <1>3, <1>4

(* A client step that sends nothing and keeps the window: where it may go. *)
LEMMA QuietClient ==
  ASSUME TypeOK, NEW t \in Threads, PathInv(t), UNCHANGED serverVars,
         UNCHANGED <<toServer[t], base[t], next_seq_num[t], acked[t], feof[t]>>,
         \/ toClient'[t] = toClient[t]
         \/ toClient[t] # <<>> /\ toClient'[t] = Tail(toClient[t]),
         RetriesLeft(t)',
         Started(t) => Started(t)',
         Started(t)' => file[t] # "null",
         AtEof(t)' <=> AtEof(t)
  PROVE  PathInv(t)'
<1> USE DEF PathInv, serverVars
<1>1. WindowInv(t)' /\ ClientSound(t)'
  BY DEF WindowInv, ClientSound, Delivers
<1>2. Flight(t)'
  BY DEF Flight, InFlight, SeqAt
<1>3. ServerInv(t)' /\ FileInv(t)'
  BY DEF ServerInv, FileInv
<1>4. AcksSound(t)'
  <2>1. Acks(t)' = Acks(t)
    BY DEF Acks
  <2>2. toClient[t] # <<>> => Tail(toClient[t]) \in Seq(Acks(t))
    BY TailElements DEF AcksSound
  <2> QED BY <2>1, <2>2 DEF AcksSound
<1> QED BY <1>1, <1>2, <1>3, <1>4

(* What an ack taken off the queue may be.                                 *)
LEMMA HeadAck ==
  ASSUME TypeOK, NEW t \in Threads, PathInv(t), toClient[t] # <<>>, TakeAck(t)
  PROVE  /\ Head(toClient[t]) \in Acks(t) /\ Head(toClient[t]) \in Nat
         /\ Head(toClient[t]) = toClient[t][1] /\ 1 \in 1..Len(toClient[t])
         /\ toClient'[t] = Tail(toClient[t]) /\ toServer'[t] = toServer[t]
         /\ Head(toClient[t]) = 0 => file[t] # "null"
<1>1. /\ Head(toClient[t]) \in Acks(t) /\ Head(toClient[t]) \in Nat
      /\ Head(toClient[t]) = toClient[t][1] /\ 1 \in 1..Len(toClient[t])
  BY Types, TailElements DEF PathInv, AcksSound
<1>2. toClient'[t] = Tail(toClient[t]) /\ toServer'[t] = toServer[t]
  BY DEF TakeAck, TypeOK, UdpTypeOK
<1>3. 0 \notin received[t] /\ next_seq_num[t] # 0
  BY Types DEF PathInv, ServerInv
<1> QED BY <1>1, <1>2, <1>3 DEF Acks

(* A failed attempt for the name: another one, or the client gives up.     *)
LEMMA RetryStep ==
  ASSUME TypeOK, NEW t \in Threads, PathInv(t), pc[t] = "nameWait", RetryFilename(t)
  PROVE  RetriesLeft(t)' /\ pc'[t] \in {"name", "failed"} /\ retries'[t] \in 0..MaxRetries
<1>1. retries[t] < MaxRetries /\ retries[t] \in 0..MaxRetries /\ MaxRetries \in Nat
  BY ClientAssumption DEF PathInv, RetriesLeft, TypeOK, ClientTypeOK
<1>2. retries'[t] = retries[t] + 1
  BY DEF RetryFilename, TypeOK, ClientTypeOK
<1>3. pc'[t] = IF retries[t] + 1 = MaxRetries THEN "failed" ELSE "name"
  BY DEF RetryFilename, Goto, TypeOK, ClientTypeOK
<1> QED BY <1>1, <1>2, <1>3 DEF RetriesLeft

(* The steps of a client that send no data.                                *)
LEMMA NameStep ==
  ASSUME TypeOK, NEW t \in Threads, PathInv(t), UNCHANGED serverVars,
         Start(t) \/ RecvFilenameAck(t) \/ FilenameTimeout(t)
  PROVE  PathInv(t)'
<1> USE DEF windowVars, netVars
<1>0. pc \in [Threads -> {"new", "name", "nameWait", "window", "select", "eofWait", "done", "failed"}]
  BY DEF TypeOK, ClientTypeOK
<1>1. CASE Start(t)
  <2>1. pc[t] = "new" /\ pc'[t] \in {"name", "failed"}
    BY <1>0, <1>1 DEF Start, Goto
  <2>2. RetriesLeft(t)'
    BY <1>1, <2>1 DEF Start, PathInv, RetriesLeft
  <2> QED BY <1>1, <2>1, <2>2, QuietClient DEF Start, Started, AtEof
<1>2. CASE RecvFilenameAck(t)
  <2>1. /\ pc[t] = "nameWait" /\ toClient[t] # <<>> /\ TakeAck(t)
        /\ UNCHANGED windowVars
    BY <1>2 DEF RecvFilenameAck
  <2>2. CASE Head(toClient[t]) = 0
    <3>1. pc'[t] = "window" /\ retries'[t] = retries[t]
      BY <1>0, <1>2, <2>2 DEF RecvFilenameAck, Goto
    <3>2. RetriesLeft(t)'
      BY <2>1, <3>1 DEF PathInv, RetriesLeft
    <3>3. file[t] # "null"
      BY <2>1, <2>2, HeadAck
    <3> QED BY <2>1, <3>1, <3>2, <3>3, HeadAck, QuietClient DEF Started, AtEof
  <2>3. CASE Head(toClient[t]) # 0
    <3>1. RetryFilename(t)
      BY <1>2, <2>3 DEF RecvFilenameAck
    <3> QED BY <2>1, <3>1, RetryStep, HeadAck, QuietClient DEF Started, AtEof
  <2> QED BY <2>2, <2>3
<1>3. CASE FilenameTimeout(t)
  <2>1. pc[t] = "nameWait" /\ RetryFilename(t) /\ UNCHANGED <<windowVars, netVars>>
    BY <1>3 DEF FilenameTimeout
  <2> QED BY <2>1, RetryStep, QuietClient DEF Started, AtEof
<1> QED BY <1>1, <1>2, <1>3

(* A queue with one more packet.                                           *)
LEMMA AppendQueue ==
  ASSUME TypeOK, NEW t \in Threads, NEW p \in Packets, toServer'[t] = Append(toServer[t], p)
  PROVE  /\ Len(toServer[t]) \in Nat /\ Len(toServer'[t]) = Len(toServer[t]) + 1
         /\ InFlight(t)' = 1..(Len(toServer[t]) + 1)
         /\ \A k \in InFlight(t)' :
               \/ /\ k \in InFlight(t) /\ SeqAt(t, k) \in Nat
                  /\ k < Len(toServer[t]) + 1
                  /\ SeqAt(t, k)' = SeqAt(t, k)
                  /\ toServer'[t][k].empty = toServer[t][k].empty
               \/ /\ k = Len(toServer[t]) + 1
                  /\ SeqAt(t, k)' = p.seq
                  /\ toServer'[t][k].empty = p.empty
<1> DEFINE q == toServer[t]
           r == toServer'[t]
<1>1. /\ Len(q) \in Nat /\ Len(r) = Len(q) + 1
      /\ \A k \in 1..Len(q) : r[k] = q[k] /\ q[k].seq \in Nat
      /\ r[Len(q) + 1] = p
  <2>1. q \in Seq(Packets)
    BY Types
  <2>2. r = Append(q, p)
    OBVIOUS
  <2> HIDE DEF q, r
  <2>3. \A k \in 1..Len(q) : q[k] \in Packets
    BY <2>1, SeqElements
  <2>4. \A k \in 1..Len(q) : q[k].seq \in Nat
    BY <2>3 DEF Packets
  <2> QED BY <2>1, <2>2, <2>4, AppendElements
<1> HIDE DEF q, r
<1>2. ASSUME NEW k \in 1..Len(r)
      PROVE  \/ /\ k \in 1..Len(q) /\ q[k].seq \in Nat
                /\ k < Len(q) + 1
                /\ r[k] = q[k]
             \/ k = Len(q) + 1 /\ r[k] = p
  <2>1. k \in 1..Len(q) \/ k = Len(q) + 1
    BY <1>1
  <2> QED BY <1>1, <2>1
<1> QED BY <1>1, <1>2 DEF InFlight, SeqAt, q, r

(* Sending a packet behind those that are under way keeps Flight.          *)
LEMMA AppendFlight ==
  ASSUME TypeOK, NEW t \in Threads, PathInv(t), ~AtEof(t),
         NEW p \in Packets, toServer'[t] = Append(toServer[t], p),
         Started(t) => Started(t)',
         p.seq # 0 => Started(t)',
         next_seq_num[t] <= next_seq_num'[t], next_seq_num'[t] \in Nat,
         IF p.empty THEN AtEof(t)' /\ p.seq = next_seq_num'[t]
                    ELSE p.seq < next_seq_num'[t]
  PROVE  Flight(t)'
<1>1. /\ Len(toServer[t]) \in Nat
      /\ \A k \in InFlight(t)' :
            \/ /\ k \in InFlight(t) /\ SeqAt(t, k) \in Nat
               /\ SeqAt(t, k)' = SeqAt(t, k)
               /\ toServer'[t][k].empty = toServer[t][k].empty
            \/ /\ k = Len(toServer[t]) + 1
               /\ SeqAt(t, k)' = p.seq
               /\ toServer'[t][k].empty = p.empty
  BY AppendQueue
<1>2. next_seq_num[t] \in Nat
  BY Types
<1>3. \A k \in InFlight(t) : /\ SeqAt(t, k) # 0 => Started(t)
                             /\ ~toServer[t][k].empty /\ SeqAt(t, k) < next_seq_num[t]
  BY Window DEF PathInv, Flight
<1>4. ASSUME NEW k \in InFlight(t)'
      PROVE  /\ SeqAt(t, k)' # 0 => Started(t)'
             /\ IF toServer'[t][k].empty
                  THEN AtEof(t)' /\ SeqAt(t, k)' = next_seq_num'[t]
                  ELSE SeqAt(t, k)' < next_seq_num'[t]
  <2>1. CASE /\ k \in InFlight(t) /\ SeqAt(t, k) \in Nat
             /\ SeqAt(t, k)' = SeqAt(t, k)
             /\ toServer'[t][k].empty = toServer[t][k].empty
    BY <1>2, <1>3, <2>1
  <2>2. CASE /\ k = Len(toServer[t]) + 1
             /\ SeqAt(t, k)' = p.seq
             /\ toServer'[t][k].empty = p.empty
    BY <2>2
  <2> QED BY <1>1, <2>1, <2>2
<1> QED BY <1>4 DEF Flight

(* The first EOF packet is sent while the file is open.                    *)
LEMMA AppendEofOnce ==
  ASSUME TypeOK, NEW t \in Threads, PathInv(t), UNCHANGED file, ~AtEof(t),
         NEW p \in Packets, toServer'[t] = Append(toServer[t], p),
         p.empty => Started(t)
  PROVE  EofOnce(t)'
<1>1. /\ Len(toServer[t]) \in Nat
      /\ \A k \in InFlight(t)' :
            \/ /\ k \in InFlight(t)
               /\ toServer'[t][k].empty = toServer[t][k].empty
            \/ /\ k = Len(toServer[t]) + 1
               /\ toServer'[t][k].empty = p.empty
  BY AppendQueue
<1>2. file[t] # "closed" /\ \A k \in InFlight(t) : ~toServer[t][k].empty
  BY Window
<1>3. p.empty => file[t] = "open"
  BY <1>2 DEF PathInv, FileInv, TypeOK, ServerTypeOK
<1>4. \A k \in InFlight(t)' : toServer'[t][k].empty => k = Len(toServer[t]) + 1 /\ p.empty
  BY <1>1, <1>2
<1> QED BY <1>3, <1>4 DEF EofOnce

(* It keeps the names first when it is the name and nothing else was sent, *)
(* or is not the name.                                                     *)
LEMMA AppendNames ==
  ASSUME TypeOK, NEW t \in Threads, PathInv(t), NamesFirst(t), UNCHANGED <<file, received>>,
         ~AtEof(t), NEW p \in Packets, toServer'[t] = Append(toServer[t], p),
         p.seq = 0 => ~Started(t)
  PROVE  NamesFirst(t)'
<1>1. /\ Len(toServer[t]) \in Nat /\ Len(toServer'[t]) = Len(toServer[t]) + 1
      /\ InFlight(t)' = 1..(Len(toServer[t]) + 1)
      /\ \A k \in InFlight(t)' :
            \/ /\ k \in InFlight(t) /\ k < Len(toServer[t]) + 1
               /\ SeqAt(t, k)' = SeqAt(t, k)
               /\ toServer'[t][k].empty = toServer[t][k].empty
            \/ /\ k = Len(toServer[t]) + 1
               /\ SeqAt(t, k)' = p.seq
  BY AppendQueue
<1>2. /\ file[t] # "closed"
      /\ \A k \in InFlight(t) : ~toServer[t][k].empty
      /\ ~Started(t) => received[t] = {} /\ \A k \in InFlight(t) : SeqAt(t, k) = 0
  BY Window
<1>3. \A k \in InFlight(t)' : /\ SeqAt(t, k)' = 0 => received'[t] = {}
                              /\ toServer'[t][k].empty => k = Len(toServer'[t])
  BY <1>1, <1>2 DEF NamesFirst
<1>4. ASSUME NEW j \in InFlight(t)', NEW k \in InFlight(t)', j < k, SeqAt(t, k)' = 0
      PROVE  SeqAt(t, j)' = 0
  <2>1. j \in InFlight(t) /\ SeqAt(t, j)' = SeqAt(t, j)
    BY <1>1, <1>4
  <2>2. CASE k \in InFlight(t) /\ SeqAt(t, k)' = SeqAt(t, k)
    BY <1>4, <2>1, <2>2 DEF NamesFirst
  <2>3. CASE SeqAt(t, k)' = p.seq
    BY <1>2, <1>4, <2>1, <2>3
  <2> QED BY <1>1, <2>2, <2>3
<1>5. \A j, k \in InFlight(t)' : j < k /\ SeqAt(t, k)' = 0 => SeqAt(t, j)' = 0
  BY <1>4
<1>6. file'[t] # "closed"
  BY <1>2
<1> QED BY <1>3, <1>5, <1>6 DEF NamesFirst

(* What SendPacket does to the queues of the client that sends.            *)
LEMMA SendSends ==
  ASSUME TypeOK, NEW t \in Threads, NEW p, SendPacket(t, p)
  PROVE  toServer'[t] = Append(toServer[t], p) /\ toClient'[t] = toClient[t]
  BY DEF SendPacket, TypeOK, UdpTypeOK

(* sendto of the packet with the name.                                     *)
LEMMA SendFilenameStep ==
  ASSUME TypeOK, NEW t \in Threads, PathInv(t), UNCHANGED serverVars, SendFilename(t)
  PROVE  PathInv(t)' /\ (NamesFirst(t) => NamesFirst(t)')
<1> DEFINE p == [seq |-> 0, empty |-> FALSE]
<1>1. /\ pc[t] = "name" /\ pc'[t] = "nameWait" /\ UNCHANGED <<retries, windowVars>>
      /\ toServer'[t] = Append(toServer[t], p) /\ toClient'[t] = toClient[t]
  BY SendSends DEF SendFilename, Goto, TypeOK, ClientTypeOK
<1>2. p \in Packets /\ p.seq = 0 /\ ~p.empty
  BY DEF Packets
<1>3. /\ ~Started(t) /\ ~Started(t)' /\ ~AtEof(t) /\ ~AtEof(t)'
      /\ next_seq_num[t] \in Nat /\ 0 < next_seq_num[t]
  BY <1>1, Types DEF Started, AtEof
<1> HIDE DEF p
<1> USE DEF windowVars, serverVars
<1>4. Flight(t)'
  BY <1>1, <1>2, <1>3, AppendFlight
<1>5. RetriesLeft(t)' /\ WindowInv(t)' /\ ClientSound(t)'
  BY <1>1, <1>3 DEF PathInv, RetriesLeft, WindowInv, ClientSound, Delivers
<1>6. ServerInv(t)' /\ FileInv(t)'
  BY <1>1, <1>3 DEF PathInv, ServerInv, FileInv
<1>7. AcksSound(t)'
  BY <1>1, <1>3 DEF PathInv, AcksSound, Acks
<1>8. NamesFirst(t) => NamesFirst(t)'
  BY <1>1, <1>2, <1>3, AppendNames
<1> QED BY <1>4, <1>5, <1>6, <1>7, <1>8 DEF PathInv

(* sendto of a data packet: its slot is cleared, and no other packet in    *)
(* the window has the same one.                                            *)
LEMMA SendDataStep ==
  ASSUME TypeOK, NEW t \in Threads, PathInv(t), UNCHANGED serverVars, SendData(t)
  PROVE  PathInv(t)' /\ (NamesFirst(t) => NamesFirst(t)')
<1> DEFINE n == next_seq_num[t]
           p == [seq |-> n, empty |-> FALSE]
<1>1. /\ pc[t] = "window" /\ ~feof[t] /\ n < base[t] + WinSize /\ n <= NumPackets[t]
      /\ UNCHANGED <<pc, retries, base>>
      /\ toServer'[t] = Append(toServer[t], p) /\ toClient'[t] = toClient[t]
      /\ next_seq_num'[t] = n + 1
      /\ feof'[t] => n = NumPackets[t]
      /\ acked'[t] = [acked[t] EXCEPT ![Slot(n)] = FALSE]
  BY SendSends DEF SendData, CanRead, TypeOK, ClientTypeOK
<1>2. n \in Nat \ {0} /\ base[t] \in Nat \ {0} /\ NumPackets[t] \in Nat /\ WinSize \in Nat
  BY Types, ClientAssumption
<1>3. p \in Packets /\ p.seq = n /\ ~p.empty
  BY <1>2 DEF Packets
<1>4. Started(t) /\ Started(t)' /\ ~AtEof(t) /\ ~AtEof(t)'
  BY <1>1 DEF Started, AtEof
<1> USE DEF serverVars
<1>5. Flight(t)' /\ (NamesFirst(t) => NamesFirst(t)')
  <2>1. UNCHANGED <<file, received>>
    OBVIOUS
  <2> HIDE DEF p
  <2>2. p.seq # 0 /\ n <= next_seq_num'[t] /\ next_seq_num'[t] \in Nat /\ p.seq < next_seq_num'[t]
    BY <1>1, <1>2, <1>3
  <2>3. Flight(t)'
    BY <1>1, <1>3, <1>4, <2>1, <2>2, AppendFlight
  <2>4. NamesFirst(t) => NamesFirst(t)'
    BY <1>1, <1>3, <1>4, <2>1, <2>2, AppendNames
  <2> QED BY <2>3, <2>4
<1>6. RetriesLeft(t)' /\ WindowInv(t)'
  BY <1>1, <1>2, <1>4 DEF PathInv, RetriesLeft, WindowInv
<1>7. ServerInv(t)' /\ FileInv(t)'
  BY <1>1, <1>2, <1>4 DEF PathInv, ServerInv, FileInv
<1>8. AcksSound(t)'
  <2>1. Acks(t)' = Acks(t)
    BY <1>1, <1>4 DEF Acks
  <2> QED BY <1>1, <2>1 DEF PathInv, AcksSound
<1>9. ClientSound(t)'
  <2> SUFFICES ASSUME NEW m \in 1..NumPackets[t], Delivers(t, m)'
               PROVE  Delivers(t, m)
    BY DEF PathInv, ClientSound
  <2>1. CASE m \in 1..(base[t] - 1)
    BY <2>1 DEF Delivers
  <2>2. CASE m \in base[t]..n /\ acked'[t][Slot(m)]
    <3>1. m # n
      BY <1>1, <1>2, <2>2, SlotType, Types
    <3>2. m \in base[t]..(n - 1) /\ m \in Nat
      BY <1>2, <2>2, <3>1
    <3>3. Slot(m) # Slot(n)
      BY <1>1, <1>2, <3>2, SlotsDistinct
    <3>4. acked[t][Slot(m)]
      BY <1>1, <2>2, <3>2, <3>3, SlotType, Types
    <3> QED BY <3>2, <3>4 DEF Delivers
  <2>3. m \in 1..(base[t] - 1) \/ (m \in base[t]..n /\ acked'[t][Slot(m)])
    BY <1>1, <1>2 DEF Delivers
  <2> QED BY <2>1, <2>2, <2>3
<1> QED BY <1>5, <1>6, <1>7, <1>8, <1>9 DEF PathInv

(* The steps that only move on: feof set by an empty read, select's        *)
(* timeout.                                                                *)
LEMMA WindowMove ==
  ASSUME TypeOK, NEW t \in Threads, PathInv(t), UNCHANGED serverVars,
         ReadNothing(t) \/ SelectTimeout(t)
  PROVE  PathInv(t)'
<1> USE DEF windowVars, netVars, serverVars
<1>1. CASE SelectTimeout(t)
  <2>1. pc[t] = "select" /\ pc'[t] = "window" /\ UNCHANGED <<retries, windowVars, netVars>>
    BY <1>1 DEF SelectTimeout, Goto, TypeOK, ClientTypeOK
  <2>2. RetriesLeft(t)' /\ file[t] # "null"
    BY <2>1 DEF PathInv, RetriesLeft, FileInv, Started
  <2> QED BY <2>1, <2>2, QuietClient DEF Started, AtEof
<1>2. CASE ReadNothing(t)
  <2>1. /\ pc[t] = "window" /\ pc'[t] = "select" /\ next_seq_num[t] > NumPackets[t]
        /\ feof'[t] = TRUE
        /\ UNCHANGED <<retries, base, next_seq_num, acked, netVars>>
    BY <1>2 DEF ReadNothing, Goto, TypeOK, ClientTypeOK
  <2>2. next_seq_num[t] = NumPackets[t] + 1
    BY <2>1, Types
  <2>3. Started(t) /\ Started(t)' /\ ~AtEof(t) /\ ~AtEof(t)'
    BY <2>1 DEF Started, AtEof
  <2>4. RetriesLeft(t)' /\ WindowInv(t)' /\ ClientSound(t)'
    BY <2>1, <2>2, <2>3 DEF PathInv, RetriesLeft, WindowInv, ClientSound, Delivers
  <2>5. Flight(t)'
    BY <2>1, <2>3 DEF PathInv, Flight, InFlight, SeqAt
  <2>6. ServerInv(t)' /\ FileInv(t)' /\ AcksSound(t)'
    BY <2>1, <2>3 DEF PathInv, ServerInv, FileInv, AcksSound, Acks
  <2> QED BY <2>4, <2>5, <2>6 DEF PathInv
<1> QED BY <1>1, <1>2

(* An ack moves the window over packets that were received.                *)
LEMMA RecvAckStep ==
  ASSUME TypeOK, NEW t \in Threads, PathInv(t), UNCHANGED serverVars, RecvAck(t)
  PROVE  PathInv(t)'
<1> DEFINE ack == Head(toClient[t])
           n == next_seq_num[t]
           marked == [acked[t] EXCEPT ![Slot(ack)] = TRUE]
<1>1. /\ pc[t] \in {"window", "select"} /\ pc'[t] = "window"
      /\ toClient[t] # <<>> /\ TakeAck(t) /\ UNCHANGED <<retries, next_seq_num, feof>>
  BY DEF RecvAck, AtSelect, Goto, TypeOK, ClientTypeOK
<1>2. ack \in Acks(t) /\ ack \in Nat /\ toClient'[t] = Tail(toClient[t]) /\ toServer'[t] = toServer[t]
  BY <1>1, HeadAck
<1>3. /\ n \in Nat \ {0} /\ base[t] \in Nat \ {0} /\ NumPackets[t] \in Nat /\ WinSize \in Nat
      /\ acked[t] \in [Slots -> BOOLEAN] /\ n <= base[t] + WinSize
  BY Types, ClientAssumption DEF PathInv, WindowInv
<1>4. Started(t) /\ Started(t)' /\ ~AtEof(t) /\ ~AtEof(t)' /\ file[t] # "null"
  BY <1>1 DEF Started, AtEof, PathInv, FileInv
<1> USE DEF serverVars
<1>5. AcksSound(t)'
  <2>1. Acks(t)' = Acks(t)
    BY <1>1, <1>4 DEF Acks
  <2>2. Tail(toClient[t]) \in Seq(Acks(t))
    BY <1>1, TailElements DEF PathInv, AcksSound
  <2> QED BY <1>2, <2>1, <2>2 DEF AcksSound
<1>6. CASE UNCHANGED <<acked, base>>
  <2>1. RetriesLeft(t)' /\ file[t] # "null"
    BY <1>1, <1>4 DEF PathInv, RetriesLeft
  <2> QED BY <1>1, <1>2, <1>4, <1>6, <2>1, QuietClient
<1>7. ASSUME InWindow(t, ack),
             acked' = [acked EXCEPT ![t] = marked],
             NEW b \in base[t]..n,
             \A m \in base[t]..(b - 1) : marked[Slot(m)],
             base' = [base EXCEPT ![t] = b]
      PROVE  PathInv(t)'
  <2>1. acked'[t] = marked /\ base'[t] = b /\ b \in Nat \ {0}
    BY <1>3, <1>7 DEF TypeOK, ClientTypeOK
  <2>2. ack \in base[t]..(n - 1) /\ ack \in received[t]
    BY <1>2, <1>3, <1>4, <1>7 DEF InWindow, Acks
  <2>3. ASSUME NEW m \in base[t]..(n - 1), marked[Slot(m)]
        PROVE  m \in received[t]
    <3> HIDE DEF ack, n, marked
    <3>0. n <= NumPackets[t] + 1
      BY Types DEF n
    <3>1. m \in Nat /\ m < n /\ n <= m + WinSize /\ m \in 1..NumPackets[t]
      BY <1>3, <2>3, <3>0
    <3> USE DEF ack, n, marked
    <3>2. CASE m = ack
      BY <2>2, <3>2
    <3>3. CASE m # ack
      <4>1. Slot(m) # Slot(ack)
        BY <1>2, <1>3, <2>2, <2>3, <3>1, <3>3, SlotsDistinct
      <4>2. acked[t][Slot(m)]
        BY <1>3, <2>3, <3>1, <4>1, SlotType
      <4> QED BY <2>3, <3>1, <4>2 DEF PathInv, ClientSound, Delivers
    <3> QED BY <3>2, <3>3
  <2> HIDE DEF marked
  <2>4. ClientSound(t)'
    <3> SUFFICES ASSUME NEW m \in 1..NumPackets[t], Delivers(t, m)'
                 PROVE  m \in received[t]
      BY DEF ClientSound
    <3>1. CASE m \in 1..(base[t] - 1)
      BY <3>1 DEF PathInv, ClientSound, Delivers
    <3>2. CASE m \in base[t]..(b - 1)
      BY <1>3, <1>7, <2>1, <2>3, <3>2
    <3>3. CASE m \in b..(n - 1) /\ acked'[t][Slot(m)]
      BY <1>3, <1>7, <2>1, <2>3, <3>3
    <3>4. m \in 1..(base[t] - 1) \/ m \in base[t]..(b - 1) \/ (m \in b..(n - 1) /\ acked'[t][Slot(m)])
      BY <1>1, <1>3, <1>7, <2>1 DEF Delivers
    <3> QED BY <3>1, <3>2, <3>3, <3>4
  <2>5. RetriesLeft(t)' /\ WindowInv(t)'
    BY <1>1, <1>3, <1>4, <2>1 DEF PathInv, RetriesLeft, WindowInv
  <2>6. Flight(t)'
    BY <1>1, <1>2, <1>4 DEF PathInv, Flight, InFlight, SeqAt
  <2>7. ServerInv(t)' /\ FileInv(t)'
    BY <1>1, <1>4 DEF PathInv, ServerInv, FileInv
  <2> QED BY <1>5, <2>4, <2>5, <2>6, <2>7 DEF PathInv
<1>8. \/ UNCHANGED <<acked, base>>
      \/ /\ InWindow(t, ack)
         /\ acked' = [acked EXCEPT ![t] = marked]
         /\ \E b \in base[t]..n :
              /\ \A m \in base[t]..(b - 1) : marked[Slot(m)]
              /\ base' = [base EXCEPT ![t] = b]
  BY DEF RecvAck
<1> QED BY <1>6, <1>7, <1>8

(* sendto of the EOF packet.                                               *)
LEMMA SendEofStep ==
  ASSUME TypeOK, NEW t \in Threads, PathInv(t), UNCHANGED serverVars, SendEof(t)
  PROVE  PathInv(t)' /\ (NamesFirst(t) => NamesFirst(t)')
<1> DEFINE n == next_seq_num[t]
           p == [seq |-> n, empty |-> TRUE]
<1>1. /\ pc[t] = "window" /\ pc'[t] = "eofWait" /\ feof[t] /\ ~(base[t] < n)
      /\ UNCHANGED <<retries, windowVars>>
      /\ toServer'[t] = Append(toServer[t], p) /\ toClient'[t] = toClient[t]
  BY SendSends DEF SendEof, Unfinished, Goto, TypeOK, ClientTypeOK
<1>2. Started(t) /\ Started(t)' /\ ~AtEof(t) /\ AtEof(t)'
  BY <1>1 DEF Started, AtEof
<1>3. n \in Nat \ {0} /\ base[t] = n /\ file[t] = "open"
  <2>1. n \in Nat \ {0} /\ base[t] = n
    BY <1>1, Types DEF PathInv, WindowInv
  <2>2. file[t] \notin {"null", "closed"}
    BY <1>2 DEF PathInv, FileInv
  <2> QED BY <2>1, <2>2 DEF TypeOK, ServerTypeOK
<1>4. p \in Packets /\ p.seq = n /\ p.empty
  BY <1>3 DEF Packets
<1> HIDE DEF p
<1> USE DEF serverVars, windowVars
<1>5. Flight(t)'
  BY <1>1, <1>2, <1>3, <1>4, AppendFlight
<1>6. NamesFirst(t) => NamesFirst(t)'
  BY <1>1, <1>2, <1>3, <1>4, AppendNames
<1>7. RetriesLeft(t)' /\ WindowInv(t)' /\ ClientSound(t)'
  BY <1>1, <1>2, <1>3 DEF PathInv, RetriesLeft, WindowInv, ClientSound, Delivers
<1>8. ServerInv(t)' /\ FileInv(t)'
  BY <1>1, <1>2 DEF PathInv, ServerInv, FileInv
<1>9. AcksSound(t)'
  <2>1. Acks(t) \subseteq Acks(t)'
    BY <1>1, <1>2 DEF Acks
  <2> QED BY <1>1, <2>1, SeqMonotonic DEF PathInv, AcksSound
<1> QED BY <1>5, <1>6, <1>7, <1>8, <1>9 DEF PathInv

(* The ack that ends the client is the EOF packet's.                       *)
LEMMA RecvEofAckStep ==
  ASSUME TypeOK, NEW t \in Threads, PathInv(t), UNCHANGED serverVars, RecvEofAck(t)
  PROVE  PathInv(t)'
<1>1. /\ pc[t] = "eofWait" /\ toClient[t] # <<>> /\ TakeAck(t) /\ UNCHANGED <<retries, windowVars>>
      /\ pc'[t] = IF Head(toClient[t]) = next_seq_num[t] THEN "done" ELSE pc[t]
  BY DEF RecvEofAck, Goto, TypeOK, ClientTypeOK
<1>2. toClient'[t] = Tail(toClient[t]) /\ toServer'[t] = toServer[t]
  BY <1>1, HeadAck
<1>3. RetriesLeft(t)' /\ file[t] # "null"
  BY <1>1 DEF PathInv, RetriesLeft, FileInv, Started
<1> QED BY <1>1, <1>2, <1>3, QuietClient DEF Started, AtEof, windowVars

(* Every step of a client keeps its PathInv.                               *)
LEMMA ClientPath ==
  ASSUME TypeOK, NEW t \in Threads, PathInv(t), Client(t)
  PROVE  PathInv(t)'
  BY NameStep, SendFilenameStep, SendDataStep, WindowMove, RecvAckStep, SendEofStep,
     RecvEofAckStep DEF Client, ClientStep

(* A client ends with status 0 upon the ack of its EOF packet, and         *)
(* numbers no packet after that packet.                                    *)
LEMMA ClientQueues ==
  ASSUME TypeOK, NEW t \in Threads, PathInv(t), Client(t)
  PROVE  /\ \/ toClient'[t] = toClient[t]
            \/ toClient[t] # <<>> /\ toClient'[t] = Tail(toClient[t])
         /\ pc'[t] = "done" => pc[t] = "eofWait" /\ EofAcked(t)
         /\ AtEof(t)' => next_seq_num'[t] = next_seq_num[t]
<1> USE DEF TypeOK, ClientTypeOK, UdpTypeOK, windowVars, netVars, Goto, AtEof
<1>1. CASE Start(t)
  BY <1>1 DEF Start
<1>2. CASE SendFilename(t)
  BY <1>2 DEF SendFilename, SendPacket
<1>3. CASE RecvFilenameAck(t)
  BY <1>3 DEF RecvFilenameAck, RetryFilename, TakeAck
<1>4. CASE FilenameTimeout(t)
  BY <1>4 DEF FilenameTimeout, RetryFilename
<1>5. CASE SendData(t)
  BY <1>5 DEF SendData, SendPacket
<1>6. CASE ReadNothing(t)
  BY <1>6 DEF ReadNothing
<1>7. CASE SelectTimeout(t)
  BY <1>7 DEF SelectTimeout
<1>8. CASE RecvAck(t)
  BY <1>8 DEF RecvAck, TakeAck
<1>9. CASE SendEof(t)
  BY <1>9 DEF SendEof, SendPacket
<1>10. CASE RecvEofAck(t)
  <2>1. toClient[t] # <<>> /\ TakeAck(t) /\ pc[t] = "eofWait" /\ UNCHANGED windowVars
    BY <1>10 DEF RecvEofAck
  <2>2. /\ Head(toClient[t]) = toClient[t][1] /\ 1 \in 1..Len(toClient[t])
        /\ toClient'[t] = Tail(toClient[t])
    BY <2>1, HeadAck
  <2>3. pc'[t] = "done" => Head(toClient[t]) = next_seq_num[t]
    BY <1>10, <2>1 DEF RecvEofAck
  <2> QED BY <2>1, <2>2, <2>3 DEF EofAcked
<1> QED BY <1>1, <1>2, <1>3, <1>4, <1>5, <1>6, <1>7, <1>8, <1>9, <1>10 DEF Client, ClientStep

(* Every step of a client keeps the types.                                 *)
LEMMA ClientType ==
  ASSUME TypeOK, NEW t \in Threads, PathInv(t), Client(t)
  PROVE  TypeOK'
<1> USE ClientAssumption DEF windowVars, netVars, Goto
<1>1. ServerTypeOK'
  BY DEF Client, serverVars, TypeOK, ServerTypeOK
<1>2. ClientTypeOK /\ UdpTypeOK(Packets, Nat)
  BY DEF TypeOK, Packets
<1>3. SUFFICES ClientTypeOK' /\ UdpTypeOK(Packets, Nat)'
  BY <1>1 DEF TypeOK, Packets
<1>4. CASE Start(t)
  BY <1>2, <1>4 DEF Start, ClientTypeOK, UdpTypeOK
<1>5. CASE SendFilename(t)
  <2>1. [seq |-> 0, empty |-> FALSE] \in Packets
    BY DEF Packets
  <2>2. UdpTypeOK(Packets, Nat)'
    BY <1>2, <1>5, <2>1, SendPacketType DEF SendFilename
  <2> QED BY <1>2, <1>5, <2>2 DEF SendFilename, ClientTypeOK
<1>6. ASSUME RetryFilename(t), pc[t] = "nameWait", UNCHANGED windowVars
      PROVE  ClientTypeOK'
  <2>1. retries'[t] \in 0..MaxRetries
    BY <1>6, RetryStep
  <2>2. retries' \in [Threads -> 0..MaxRetries]
    BY <1>2, <1>6, <2>1 DEF RetryFilename, ClientTypeOK
  <2>3. pc' \in [Threads -> {"new", "name", "nameWait", "window", "select", "eofWait", "done", "failed"}]
    BY <1>2, <1>6 DEF RetryFilename, ClientTypeOK
  <2> QED BY <1>2, <1>6, <2>2, <2>3 DEF ClientTypeOK
<1>7. CASE RecvFilenameAck(t)
  <2>1. UdpTypeOK(Packets, Nat)'
    BY <1>2, <1>7, TakeAckType DEF RecvFilenameAck
  <2>2. CASE RetryFilename(t)
    BY <1>6, <1>7, <2>1, <2>2 DEF RecvFilenameAck
  <2>3. CASE Goto(t, "window") /\ UNCHANGED retries
    BY <1>2, <1>7, <2>1, <2>3 DEF RecvFilenameAck, ClientTypeOK
  <2> QED BY <1>7, <2>2, <2>3 DEF RecvFilenameAck
<1>8. CASE FilenameTimeout(t)
  BY <1>2, <1>6, <1>8 DEF FilenameTimeout, UdpTypeOK
<1>9. CASE SendData(t)
  <2>1. next_seq_num[t] \in Nat \ {0} /\ next_seq_num[t] <= NumPackets[t] /\ NumPackets[t] \in Nat
    BY <1>9, Types DEF SendData
  <2>2. [seq |-> next_seq_num[t], empty |-> FALSE] \in Packets
    BY <2>1 DEF Packets
  <2>3. UdpTypeOK(Packets, Nat)'
    BY <1>2, <1>9, <2>2, SendPacketType DEF SendData
  <2>4. acked' \in [Threads -> [Slots -> BOOLEAN]] /\ feof' \in [Threads -> BOOLEAN]
    BY <1>2, <1>9 DEF SendData, ClientTypeOK
  <2>5. next_seq_num' \in [Threads -> Nat \ {0}]
    BY <1>2, <1>9, <2>1 DEF SendData, ClientTypeOK
  <2>6. \A u \in Threads : next_seq_num'[u] <= NumPackets[u] + 1
    BY <1>2, <1>9, <2>1 DEF SendData, ClientTypeOK
  <2> QED BY <1>2, <1>9, <2>3, <2>4, <2>5, <2>6 DEF SendData, ClientTypeOK
<1>10. CASE ReadNothing(t)
  BY <1>2, <1>10 DEF ReadNothing, ClientTypeOK, UdpTypeOK
<1>11. CASE SelectTimeout(t)
  BY <1>2, <1>11 DEF SelectTimeout, ClientTypeOK, UdpTypeOK
<1>12. CASE RecvAck(t)
  <2>1. UdpTypeOK(Packets, Nat)'
    BY <1>2, <1>12, TakeAckType DEF RecvAck
  <2>2. acked' \in [Threads -> [Slots -> BOOLEAN]]
    <3> DEFINE marked == [acked[t] EXCEPT ![Slot(Head(toClient[t]))] = TRUE]
    <3>1. marked \in [Slots -> BOOLEAN]
      BY Types
    <3>2. acked' = [acked EXCEPT ![t] = marked] \/ UNCHANGED acked
      BY <1>12 DEF RecvAck
    <3> HIDE DEF marked
    <3> QED BY <1>2, <3>1, <3>2 DEF ClientTypeOK
  <2>3. base' \in [Threads -> Nat \ {0}]
    BY <1>2, <1>12 DEF RecvAck, ClientTypeOK
  <2> QED BY <1>2, <1>12, <2>1, <2>2, <2>3 DEF RecvAck, ClientTypeOK
<1>13. CASE SendEof(t)
  <2>1. [seq |-> next_seq_num[t], empty |-> TRUE] \in Packets
    BY Types DEF Packets
  <2>2. UdpTypeOK(Packets, Nat)'
    BY <1>2, <1>13, <2>1, SendPacketType DEF SendEof
  <2> QED BY <1>2, <1>13, <2>2 DEF SendEof, ClientTypeOK
<1>14. CASE RecvEofAck(t)
  <2>1. UdpTypeOK(Packets, Nat)'
    BY <1>2, <1>14, TakeAckType DEF RecvEofAck
  <2> QED BY <1>2, <1>14, <2>1 DEF RecvEofAck, ClientTypeOK
<1> QED BY <1>4, <1>5, <1>7, <1>8, <1>9, <1>10, <1>11, <1>12, <1>13, <1>14 DEF Client, ClientStep

(* A client leaves the server's file alone, and gets no ack it was not     *)
(* sent.                                                                   *)
LEMMA ClientIntact ==
  ASSUME TypeOK, NEW t \in Threads, PathInv(t), Intact(t), Client(t)
  PROVE  Intact(t)'
<1>1. UNCHANGED serverVars /\ PathInv(t)'
  BY ClientPath DEF Client
<1>2. /\ \/ toClient'[t] = toClient[t]
         \/ toClient[t] # <<>> /\ toClient'[t] = Tail(toClient[t])
      /\ pc'[t] = "done" => EofAcked(t)
      /\ AtEof(t)' => next_seq_num'[t] = next_seq_num[t]
  BY ClientQueues
<1>3. ASSUME NEW k \in 1..Len(toClient'[t]), toClient'[t][k] = next_seq_num'[t]
      PROVE  EofAcked(t)
  <2>1. AtEof(t)'
    <3>1. toClient'[t] \in Seq(Acks(t)')
      BY <1>1 DEF PathInv, AcksSound
    <3>2. next_seq_num'[t] \in Acks(t)'
      BY <1>3, <3>1, SeqElements
    <3>3. received'[t] \subseteq 1..(next_seq_num'[t] - 1)
      BY <1>1 DEF PathInv, ServerInv
    <3>4. next_seq_num'[t] \in Nat \ {0}
      <4>1. TypeOK'
        BY ClientType
      <4> QED BY <4>1 DEF TypeOK, ClientTypeOK
    <3> QED BY <3>2, <3>3, <3>4 DEF Acks
  <2>2. next_seq_num'[t] = next_seq_num[t]
    BY <1>2, <2>1
  <2>3. \E j \in 1..Len(toClient[t]) : toClient[t][j] = next_seq_num[t]
    <3>1. CASE toClient'[t] = toClient[t]
      BY <1>3, <2>2, <3>1
    <3>2. CASE toClient[t] # <<>> /\ toClient'[t] = Tail(toClient[t])
      BY <1>3, <2>2, <3>2, AckedInTail
    <3> QED BY <1>2, <3>1, <3>2
  <2> QED BY <2>3 DEF EofAcked
<1>4. EofAcked(t)' => EofAcked(t)
  BY <1>2, <1>3 DEF EofAcked
<1> QED BY <1>1, <1>4 DEF Intact, serverVars

(* A client sends one EOF packet, while the file is open.                  *)
LEMMA ClientEofOnce ==
  ASSUME TypeOK, NEW t \in Threads, PathInv(t), EofOnce(t), Client(t)
  PROVE  EofOnce(t)'
<1>1. UNCHANGED file
  BY DEF Client, serverVars
<1>2. ASSUME toServer'[t] = toServer[t]
      PROVE  EofOnce(t)'
  BY <1>1, <1>2 DEF EofOnce, InFlight
<1>3. ASSUME NEW p \in Packets, SendPacket(t, p), ~AtEof(t), p.empty => Started(t)
      PROVE  EofOnce(t)'
  BY <1>1, <1>3, SendSends, AppendEofOnce
<1>4. [seq |-> 0, empty |-> FALSE] \in Packets
  BY DEF Packets
<1>5. /\ [seq |-> next_seq_num[t], empty |-> FALSE] \in Packets
      /\ [seq |-> next_seq_num[t], empty |-> TRUE] \in Packets
  BY Types DEF Packets
<1>6. CASE SendFilename(t)
  BY <1>3, <1>4, <1>6 DEF SendFilename, AtEof
<1>7. CASE SendData(t)
  BY <1>3, <1>5, <1>7 DEF SendData, AtEof
<1>8. CASE SendEof(t)
  BY <1>3, <1>5, <1>8 DEF SendEof, AtEof, Started
<1>9. CASE Start(t) \/ FilenameTimeout(t) \/ ReadNothing(t) \/ SelectTimeout(t)
  BY <1>2, <1>9 DEF Start, FilenameTimeout, ReadNothing, SelectTimeout, netVars
<1>10. CASE RecvFilenameAck(t) \/ RecvAck(t) \/ RecvEofAck(t)
  BY <1>2, <1>10 DEF RecvFilenameAck, RecvAck, RecvEofAck, TakeAck
<1> QED BY <1>6, <1>7, <1>8, <1>9, <1>10 DEF Client, ClientStep

(* A client keeps the names first.                                         *)
LEMMA ClientNames ==
  ASSUME TypeOK, NEW t \in Threads, PathInv(t), NamesFirst(t), Client(t)
  PROVE  NamesFirst(t)'
<1>1. UNCHANGED serverVars
  BY DEF Client
<1>2. ASSUME toServer'[t] = toServer[t]
      PROVE  NamesFirst(t)'
  BY <1>1, <1>2 DEF NamesFirst, InFlight, SeqAt, serverVars
<1>3. CASE SendFilename(t) \/ SendData(t) \/ SendEof(t)
  BY <1>1, <1>3, SendFilenameStep, SendDataStep, SendEofStep
<1>4. CASE Start(t) \/ FilenameTimeout(t) \/ ReadNothing(t) \/ SelectTimeout(t)
  BY <1>2, <1>4 DEF Start, FilenameTimeout, ReadNothing, SelectTimeout, netVars
<1>5. CASE RecvFilenameAck(t) \/ RecvAck(t) \/ RecvEofAck(t)
  BY <1>2, <1>5 DEF RecvFilenameAck, RecvAck, RecvEofAck, TakeAck
<1> QED BY <1>3, <1>4, <1>5 DEF Client, ClientStep

(* A step of a client leaves what belongs to other clients alone.          *)
LEMMA OtherThreads ==
  ASSUME TypeOK, NEW t \in Threads, Client(t), NEW u \in Threads, u # t
  PROVE  UNCHANGED <<ClientVarsAt(u), ServerVarsAt(u), QueuesAt(u)>>
<1> USE DEF TypeOK, ClientTypeOK, UdpTypeOK, ClientVarsAt, QueuesAt, windowVars, netVars, Goto
<1>1. UNCHANGED ServerVarsAt(u)
  BY DEF Client, serverVars, ServerVarsAt
<1>2. CASE Start(t)
  BY <1>1, <1>2 DEF Start
<1>3. CASE SendFilename(t)
  BY <1>1, <1>3 DEF SendFilename, SendPacket
<1>4. CASE RecvFilenameAck(t)
  BY <1>1, <1>4 DEF RecvFilenameAck, RetryFilename, TakeAck
<1>5. CASE FilenameTimeout(t)
  BY <1>1, <1>5 DEF FilenameTimeout, RetryFilename
<1>6. CASE SendData(t)
  BY <1>1, <1>6 DEF SendData, SendPacket
<1>7. CASE ReadNothing(t)
  BY <1>1, <1>7 DEF ReadNothing
<1>8. CASE SelectTimeout(t)
  BY <1>1, <1>8 DEF SelectTimeout
<1>9. CASE RecvAck(t)
  BY <1>1, <1>9 DEF RecvAck, TakeAck
<1>10. CASE SendEof(t)
  BY <1>1, <1>10 DEF SendEof, SendPacket
<1>11. CASE RecvEofAck(t)
  BY <1>1, <1>11 DEF RecvEofAck, TakeAck
<1> QED BY <1>2, <1>3, <1>4, <1>5, <1>6, <1>7, <1>8, <1>9, <1>10, <1>11 DEF Client, ClientStep

(* Every datagram the server handles keeps the types.                      *)
LEMMA ServerType ==
  ASSUME TypeOK, NEW t \in Threads, PathInv(t), Server(t)
  PROVE  TypeOK'
<1>1. ClientTypeOK'
  BY DEF Server, clientVars, TypeOK, ClientTypeOK
<1>2. ServerTypeOK /\ UdpTypeOK(Packets, Nat)
  BY DEF TypeOK, Packets
<1>3. SUFFICES ServerTypeOK' /\ UdpTypeOK(Packets, Nat)'
  BY <1>1 DEF TypeOK, Packets
<1>4. <<>> \in Seq(Nat) /\ <<0>> \in Seq(Nat)
  OBVIOUS
<1>5. CASE RefuseClient(t)
  BY <1>2, <1>4, <1>5, TakePacketType DEF RefuseClient, Arrives, serverVars, ServerTypeOK
<1>6. CASE ReceiveFilename(t)
  <2>1. UdpTypeOK(Packets, Nat)'
    BY <1>2, <1>4, <1>6, TakePacketType DEF ReceiveFilename, Arrives
  <2>2. <<>> \in Seq(Nat \ {0})
    OBVIOUS
  <2> QED BY <1>2, <1>6, <2>1, <2>2 DEF ReceiveFilename, GetClient, ServerTypeOK
<1>7. CASE ReceiveEof(t)
  <2>1. HeadSeq(t) \in Nat /\ <<HeadSeq(t)>> \in Seq(Nat)
    BY <1>7, HeadPacket DEF ReceiveEof, Arrives
  <2>2. UdpTypeOK(Packets, Nat)'
    BY <1>2, <1>4, <1>7, <2>1, TakePacketType DEF ReceiveEof, Arrives
  <2> QED BY <1>2, <1>7, <2>2 DEF ReceiveEof, GetClient, ServerTypeOK
<1>8. CASE ReceiveData(t)
  <2>1. HeadSeq(t) \in Nat \ {0} /\ UNCHANGED <<server, file>>
        /\ received' = [received EXCEPT ![t] = @ \cup {HeadSeq(t)}]
    BY <1>8, HeadPacket, DataEffect DEF ReceiveData, Arrives
  <2>2. received' \in [Threads -> SUBSET (Nat \ {0})]
    BY <1>2, <2>1 DEF ServerTypeOK
  <2>3. PICK acks \in Seq(received'[t]) : TakePacket(t, acks)
    BY <1>8, DataEffect
  <2>4. acks \in Seq(Nat)
    <3>1. received'[t] \subseteq Nat
      BY <2>2
    <3> QED BY <3>1, SeqMonotonic
  <2>5. UdpTypeOK(Packets, Nat)'
    BY <1>2, <1>8, <2>3, <2>4, TakePacketType DEF ReceiveData, Arrives
  <2>6. PICK e \in Nat \ {0}, w \in Seq(Nat \ {0}) :
          /\ expected_seq[t] <= e
          /\ expected_seq' = [expected_seq EXCEPT ![t] = e]
          /\ disk' = [disk EXCEPT ![t] = @ \o w]
          /\ Blocks(expected_seq[t] - 1) \o w = Blocks(e - 1)
          /\ e \notin received'[t]
          /\ \A m \in 1..(e - 1) : m \in received'[t]
    BY <1>8, DataEffect, Zenon
  <2>7. disk[t] \o w \in Seq(Nat \ {0})
    BY <1>2, ConcatProperties DEF ServerTypeOK
  <2>8. expected_seq' \in [Threads -> Nat \ {0}] /\ disk' \in [Threads -> Seq(Nat \ {0})]
    BY <1>2, <2>6, <2>7 DEF ServerTypeOK
  <2>9. known' \in [Threads -> BOOLEAN]
    BY <1>2, <1>8 DEF ReceiveData, GetClient, ServerTypeOK
  <2> QED BY <1>2, <2>1, <2>2, <2>5, <2>8, <2>9 DEF ServerTypeOK
<1> QED BY <1>5, <1>6, <1>7, <1>8 DEF Server, ServerReceive

(* Losing a datagram keeps the types. *)
LEMMA LossType ==
  ASSUME TypeOK, NEW t \in Threads, Loss(t)
  PROVE  TypeOK'
<1>1. ClientTypeOK' /\ ServerTypeOK'
  BY DEF Loss, DropData, DropAck, clientVars, serverVars, TypeOK, ClientTypeOK, ServerTypeOK
<1>2. UdpTypeOK(Packets, Nat)'
  <2>1. CASE DropData(t)
    BY <2>1 DEF DropData, Arrives, TypeOK, UdpTypeOK, Packets
  <2>2. CASE LoseAck(t)
    BY <2>2 DEF LoseAck, TypeOK, UdpTypeOK, Packets
  <2> QED BY <2>1, <2>2 DEF Loss, DropAck
<1> QED BY <1>1, <1>2 DEF TypeOK, Packets

(* A step that changes nothing keeps everything.                           *)
LEMMA NothingChanges ==
  ASSUME TypeOK, UNCHANGED vars
  PROVE  /\ TypeOK' /\ server' = server
         /\ \A t \in Threads : /\ PathInv(t) => PathInv(t)'
                               /\ EofOnce(t) => EofOnce(t)'
                               /\ Intact(t) => Intact(t)'
                               /\ NamesFirst(t) => NamesFirst(t)'
<1> USE DEF vars, clientVars, serverVars, netVars
<1>1. TypeOK' /\ server' = server
  BY DEF TypeOK, ClientTypeOK, ServerTypeOK, UdpTypeOK
<1>2. ASSUME NEW t \in Threads
      PROVE  UNCHANGED <<ClientVarsAt(t), ServerVarsAt(t), QueuesAt(t)>>
  BY DEF ClientVarsAt, ServerVarsAt, QueuesAt
<1> QED BY <1>1, <1>2, Frame

(* The invariant of the path that keeps order is inductive.                *)
LEMMA IInvStep ==
  ASSUME IInv, [Next]_vars
  PROVE  IInv'
<1> USE DEF IInv, ThreadInv
<1>1. ASSUME NEW t \in Threads, Client(t), NEW u \in Threads
      PROVE  ThreadInv(u)'
  <2>1. CASE u = t
    BY <1>1, <2>1, ClientPath, ClientIntact, ClientNames
  <2>2. CASE u # t
    BY <1>1, <2>2, OtherThreads, Frame
  <2> QED BY <2>1, <2>2
<1>2. ASSUME NEW t \in Threads, Server(t), NEW u \in Threads
      PROVE  ThreadInv(u)'
  <2>1. CASE u = t
    BY <1>2, <2>1, ServerPath, ServerIntact, ServerNames, NameInTime
  <2>2. CASE u # t
    BY <1>2, <2>2, OtherClients, Frame
  <2> QED BY <2>1, <2>2
<1>3. ASSUME NEW t \in Threads, Loss(t), NEW u \in Threads
      PROVE  ThreadInv(u)'
  <2>1. CASE u = t
    BY <1>3, <2>1, LossStep
  <2>2. CASE u # t
    BY <1>3, <2>2, OtherClients, Frame
  <2> QED BY <2>1, <2>2
<1>4. CASE UNCHANGED vars
  <2>1. TypeOK' /\ server' = server
    BY <1>4, NothingChanges
  <2>2. \A t \in Threads : PathInv(t)' /\ Intact(t)' /\ NamesFirst(t)'
    BY <1>4, NothingChanges
  <2> QED BY <2>1, <2>2
<1>5. CASE \E t \in Threads : Client(t)
  BY <1>1, <1>5, ClientType DEF Client, serverVars
<1>6. CASE \E t \in Threads : Server(t)
  BY <1>2, <1>6, ServerType, ServerPath, OrderedEofOnce
<1>7. CASE \E t \in Threads : Loss(t)
  BY <1>3, <1>7, LossType DEF Loss, DropData, DropAck, serverVars
<1> QED BY <1>4, <1>5, <1>6, <1>7 DEF Next

(* The invariant holds initially.                                          *)
LEMMA IInvInit == Init => IInv
<1> SUFFICES ASSUME Init
             PROVE  IInv
  OBVIOUS
<1> USE ClientAssumption, ServerAssumption DEF Init, ClientInit, ServerInit, UdpInit
<1>1. TypeOK
  <2>1. <<>> \in Seq(Nat) /\ <<>> \in Seq(Nat \ {0}) /\ <<>> \in Seq(Packets)
    OBVIOUS
  <2>2. ClientTypeOK
    BY DEF ClientTypeOK
  <2>3. ServerTypeOK
    BY <2>1 DEF ServerTypeOK
  <2> QED BY <2>1, <2>2, <2>3 DEF TypeOK, UdpTypeOK, Packets
<1>2. ASSUME NEW t \in Threads
      PROVE  ThreadInv(t)
  <2>1. RetriesLeft(t) /\ WindowInv(t)
    BY DEF RetriesLeft, WindowInv, Started, AtEof
  <2>2. Flight(t) /\ NamesFirst(t)
    BY DEF Flight, NamesFirst, InFlight
  <2>3. ServerInv(t)
    BY DEF ServerInv
  <2>4. FileInv(t)
    BY DEF FileInv, Started, AtEof
  <2>5. AcksSound(t)
    BY DEF AcksSound
  <2>6. ClientSound(t)
    BY DEF ClientSound, Delivers
  <2>7. Intact(t)
    BY DEF Intact, EofAcked, Blocks
  <2> QED BY <2>1, <2>2, <2>3, <2>4, <2>5, <2>6, <2>7 DEF ThreadInv, PathInv
<1> QED BY <1>1, <1>2 DEF IInv

(* A client that ends with status 0 leaves a whole and closed file, if its *)
(* file is what its packets made of it.                                    *)
LEMMA DoneWhole ==
  ASSUME TypeOK, NEW t \in Threads, PathInv(t), Intact(t), pc[t] = "done"
  PROVE  WholeFile(t) /\ file[t] = "closed"
<1>1. expected_seq[t] = NumPackets[t] + 1
  BY AllReceived DEF AtEof
<1>2. NumPackets[t] \in Nat
  BY ClientAssumption
<1> QED BY <1>1, <1>2 DEF Intact, EofAcked, WholeFile

(* On a path that loses datagrams and keeps the order of the others, IInv  *)
(* is an invariant of lab3.                                                *)
THEOREM InvariantHolds == Spec => []IInv
<1>1. IInv /\ [Next]_vars => IInv'
  BY IInvStep
<1> QED BY <1>1, IInvInit, PTL DEF Spec

(* Type correctness: no more than MAX_RETRIES filename attempts, no slot   *)
(* outside acked, no packet number behind the end of the file.             *)
THEOREM TypeCorrect == Spec => []TypeOK
<1>1. IInv => TypeOK
  BY DEF IInv
<1> QED BY <1>1, InvariantHolds, PTL

(* The output file is always the initial part of the input that            *)
(* expected_seq says: a repeated name never empties a file with blocks.    *)
THEOREM InOrderCorrect == Spec => []InOrder
<1>1. IInv => InOrder
  BY DEF IInv, ThreadInv, Intact, InOrder
<1> QED BY <1>1, InvariantHolds, PTL

(* exit(0) of a client means that the whole file is in a closed file.      *)
THEOREM DoneMeansWholeCorrect == Spec => []DoneMeansWhole
<1>1. IInv => DoneMeansWhole
  BY DoneWhole DEF IInv, ThreadInv, DoneMeansWhole
<1> QED BY <1>1, InvariantHolds, PTL

-----------------------------------------------------------------------------
(* What Promise's File stands for. *)
TheFile == [t \in Threads |-> Blocks(NumPackets[t])]

(* Its length and its initial parts.                                       *)
LEMMA FileBlocks ==
  ASSUME NEW t \in Threads
  PROVE  /\ Len(TheFile[t]) = NumPackets[t]
         /\ \A n \in 0..NumPackets[t] : Promise!Prefix(t, n) = Blocks(n)
<1>1. NumPackets[t] \in Nat /\ TheFile[t] = Blocks(NumPackets[t])
  BY ClientAssumption DEF TheFile
<1>2. Len(TheFile[t]) = NumPackets[t]
  BY <1>1, BlocksSeq
<1>3. ASSUME NEW n \in 0..NumPackets[t]
      PROVE  Promise!Prefix(t, n) = Blocks(n)
  <2>1. Promise!Prefix(t, n) = [i \in 1..n |-> TheFile[t][i]]
    BY DEF Promise!Prefix, TheFile
  <2>2. \A i \in 1..n : TheFile[t][i] = i
    BY <1>1, <1>3 DEF Blocks
  <2> QED BY <2>1, <2>2 DEF Blocks
<1> QED BY <1>2, <1>3

(* Every output file is an initial part of the input.                      *)
LEMMA FilesInOrder ==
  ASSUME IInv, NEW t \in Threads
  PROVE  /\ disk[t] = Blocks(expected_seq[t] - 1)
         /\ expected_seq[t] \in Nat \ {0}
         /\ expected_seq[t] - 1 \in 0..NumPackets[t]
<1>1. /\ expected_seq[t] \in Nat \ {0} /\ NumPackets[t] \in Nat
      /\ next_seq_num[t] \in Nat /\ next_seq_num[t] <= NumPackets[t] + 1
  BY Types DEF IInv
<1>2. \A n \in 1..(expected_seq[t] - 1) : n \in 1..(next_seq_num[t] - 1)
  BY DEF IInv, ThreadInv, PathInv, ServerInv
<1>3. expected_seq[t] <= next_seq_num[t]
  <2> SUFFICES ASSUME next_seq_num[t] < expected_seq[t]
               PROVE  FALSE
    BY <1>1
  <2>1. next_seq_num[t] \in Nat \ {0}
    BY Types DEF IInv
  <2>2. next_seq_num[t] \in 1..(expected_seq[t] - 1)
    BY <1>1, <2>1
  <2> QED BY <1>1, <1>2, <2>2
<1> QED BY <1>1, <1>3 DEF IInv, ThreadInv, Intact

(* The server forgets nothing it received, so expected_seq never goes back. *)
LEMMA ExpectedGrows ==
  ASSUME IInv, IInv', NEW u \in Threads, Server(u), NEW t \in Threads
  PROVE  expected_seq'[t] >= expected_seq[t]
<1>1. received[t] \subseteq received'[t]
  <2>1. CASE ReceiveData(u)
    BY <2>1 DEF ReceiveData, IInv, TypeOK, ServerTypeOK
  <2> QED BY <2>1 DEF Server, ServerReceive, RefuseClient, ReceiveFilename, ReceiveEof, serverVars
<1>2. expected_seq[t] \in Nat \ {0} /\ expected_seq'[t] \in Nat \ {0}
  BY DEF IInv, TypeOK, ServerTypeOK
<1>3. \A n \in 1..(expected_seq[t] - 1) : n \in received'[t]
  BY <1>1 DEF IInv, ThreadInv, PathInv, ServerInv
<1>4. expected_seq'[t] \notin received'[t]
  BY DEF IInv, ThreadInv, PathInv, ServerInv
<1> QED BY <1>2, <1>3, <1>4

(* A datagram writes blocks of its sender's file, or nothing.              *)
LEMMA ServerWrites ==
  ASSUME IInv, IInv', NEW u \in Threads, Server(u), disk' # disk
  PROVE  Promise!Write(u)
<1>1. disk \in [Threads -> Seq(Nat \ {0})] /\ disk' \in [Threads -> Seq(Nat \ {0})]
  BY DEF IInv, TypeOK, ServerTypeOK
<1>2. disk' = [disk EXCEPT ![u] = disk'[u]]
  <2>1. \A t \in Threads \ {u} : disk'[t] = disk[t]
    BY OtherClients DEF IInv, ThreadInv, ServerVarsAt
  <2> QED BY <1>1, <2>1
<1>3. disk'[u] # disk[u]
  BY <1>1, <1>2
<1> DEFINE n == expected_seq'[u] - 1
<1>4. NumPackets[u] \in Nat /\ next_seq_num' = next_seq_num
  BY ClientAssumption DEF Server, clientVars
<1>5. /\ disk'[u] = Blocks(n) /\ expected_seq'[u] \in Nat \ {0}
  BY DEF IInv, ThreadInv, Intact, Blocks, TypeOK, ServerTypeOK
<1>6. n \in 0..NumPackets[u]
  <2>1. received'[u] \subseteq 1..(next_seq_num[u] - 1) /\ \A m \in 1..n : m \in received'[u]
    BY <1>4 DEF IInv, ThreadInv, PathInv, ServerInv
  <2>2. next_seq_num[u] \in Nat /\ next_seq_num[u] <= NumPackets[u] + 1
    BY Types DEF IInv
  <2>3. n \in Nat /\ (n # 0 => n \in 1..n)
    BY <1>5
  <2> QED BY <1>4, <2>1, <2>2, <2>3
<1>7. disk[u] = Blocks(expected_seq[u] - 1) /\ expected_seq[u] \in Nat \ {0}
  BY FilesInOrder
<1>8. Len(disk[u]) = expected_seq[u] - 1
  BY <1>7, BlocksSeq
<1>9. n \in (Len(disk[u]) + 1)..Len(TheFile[u])
  <2>1. expected_seq'[u] >= expected_seq[u]
    BY ExpectedGrows
  <2>2. expected_seq'[u] # expected_seq[u]
    BY <1>3, <1>5, <1>7
  <2> QED BY <1>4, <1>5, <1>6, <1>7, <1>8, <2>1, <2>2, FileBlocks
<1>10. disk' = [disk EXCEPT ![u] = Promise!Prefix(u, n)]
  BY <1>2, <1>5, <1>6, FileBlocks
<1>11. TransferStatus' = TransferStatus
  BY DEF Server, clientVars, TransferStatus
<1> QED BY <1>9, <1>10, <1>11 DEF Promise!Write, TheFile

(* A client step completes its transfer, gives it up, or does neither.     *)
LEMMA ClientReports ==
  ASSUME IInv, IInv', NEW u \in Threads, Client(u)
  PROVE  UNCHANGED TransferStatus \/ Promise!Complete(u) \/ Promise!Stop({u})
<1>1. pc \in [Threads -> {"new", "name", "nameWait", "window", "select", "eofWait", "done", "failed"}]
  BY DEF IInv, TypeOK, ClientTypeOK
<1>2. UNCHANGED disk
  BY DEF Client, serverVars
<1>3. pc[u] \notin {"done", "failed"}
  BY DEF Client, ClientStep, Start, SendFilename, RecvFilenameAck, FilenameTimeout, SendData,
     ReadNothing, SelectTimeout, RecvAck, AtSelect, SendEof, RecvEofAck
<1>4. PICK l \in {"new", "name", "nameWait", "window", "select", "eofWait", "done", "failed"} :
        pc' = [pc EXCEPT ![u] = l]
  <2>1. pc' = [pc EXCEPT ![u] = pc'[u]]
    <3>1. \A t \in Threads \ {u} : pc'[t] = pc[t]
      BY OtherThreads DEF IInv, ClientVarsAt
    <3>2. pc' \in [Threads -> {"new", "name", "nameWait", "window", "select", "eofWait", "done", "failed"}]
      BY DEF IInv, TypeOK, ClientTypeOK
    <3> QED BY <1>1, <3>1, <3>2
  <2> QED BY <2>1 DEF IInv, TypeOK, ClientTypeOK
<1>5. TransferStatus[u] = "running"
  BY <1>3 DEF TransferStatus
<1>6. CASE l = "done"
  <2>1. TransferStatus' = [TransferStatus EXCEPT ![u] = "complete"]
    BY <1>1, <1>4, <1>6 DEF TransferStatus
  <2>2. expected_seq[u] = NumPackets[u] + 1
    <3>1. pc'[u] = "done"
      BY <1>1, <1>4, <1>6
    <3>2. pc[u] = "eofWait"
      BY <3>1, ClientQueues DEF IInv, ThreadInv
    <3> QED BY <3>2, AllReceived DEF IInv, ThreadInv, AtEof
  <2>3. disk[u] = Promise!Prefix(u, Len(TheFile[u]))
    BY <2>2, FilesInOrder, FileBlocks, ClientAssumption
  <2> QED BY <1>2, <1>5, <2>1, <2>3 DEF Promise!Complete, TheFile
<1>7. CASE l = "failed"
  <2>1. TransferStatus' = [t \in Threads |-> IF t \in {u} THEN "stopped" ELSE TransferStatus[t]]
    BY <1>1, <1>4, <1>7 DEF TransferStatus
  <2> QED BY <1>2, <1>5, <2>1 DEF Promise!Stop
<1>8. CASE l \notin {"done", "failed"}
  BY <1>1, <1>3, <1>4, <1>8 DEF TransferStatus
<1> QED BY <1>6, <1>7, <1>8

(* Every step is a step of the reliable transfer or changes nothing of it. *)
LEMMA StepRefines ==
  ASSUME IInv, IInv', [Next]_vars
  PROVE  [Promise!Next]_<<disk, TransferStatus>>
<1>1. ASSUME NEW u \in Threads, Client(u)
      PROVE  [Promise!Next]_<<disk, TransferStatus>>
  <2>1. UNCHANGED disk
    BY <1>1 DEF Client, serverVars
  <2> QED BY <1>1, <2>1, ClientReports DEF Promise!Next
<1>2. ASSUME NEW u \in Threads, Server(u)
      PROVE  [Promise!Next]_<<disk, TransferStatus>>
  <2>1. UNCHANGED TransferStatus
    BY <1>2 DEF Server, clientVars, TransferStatus
  <2> QED BY <1>2, <2>1, ServerWrites DEF Promise!Next
<1>3. ASSUME NEW u \in Threads, Loss(u)
      PROVE  UNCHANGED <<disk, TransferStatus>>
  BY <1>3 DEF Loss, DropData, DropAck, clientVars, serverVars, TransferStatus
<1>4. CASE UNCHANGED vars
  BY <1>4 DEF vars, clientVars, serverVars, TransferStatus
<1> QED BY <1>1, <1>2, <1>3, <1>4 DEF Next

(* The initial states map to its initial state.                            *)
LEMMA InitRefines == Init => Promise!Init
  BY DEF Init, ClientInit, ServerInit, TransferStatus, Promise!Init

(* lab3 implements the reliable transfer of FileTransfer, for all files,   *)
(* windows and numbers of clients and losses, and although the server may  *)
(* exit at any filename packet.                                            *)
THEOREM PromiseKept == Spec => ImplementsPromise
<1>1. IInv /\ IInv' /\ [Next]_vars => [Promise!Next]_<<disk, TransferStatus>>
  BY StepRefines
<1> QED BY <1>1, InitRefines, InvariantHolds, PTL DEF Spec, ImplementsPromise, Promise!Spec

-----------------------------------------------------------------------------
(* Datagrams that overtake each other, or come twice, keep what holds on   *)
(* any path; the file is not concerned.                                    *)
LEMMA DisorderKeeps ==
  ASSUME TypeOK, NEW t \in Threads, Reorder(t) \/ Duplicate(t),
         UNCHANGED <<clientVars, serverVars>>
  PROVE  /\ PathInv(t) => PathInv(t)'
         /\ Intact(t) => Intact(t)'
<1> USE DEF clientVars, serverVars
<1>1. UdpTypeOK(Packets, Nat)
  BY DEF TypeOK, Packets
<1>2. /\ UdpTypeOK(Packets, Nat)'
      /\ \A k \in 1..Len(toServer'[t]) :
            \E j \in 1..Len(toServer[t]) : toServer'[t][k] = toServer[t][j]
      /\ \A k \in 1..Len(toClient'[t]) :
            \E j \in 1..Len(toClient[t]) : toClient'[t][k] = toClient[t][j]
  <2>1. UdpTypeOK(Packets, Nat)'
    BY <1>1, ReorderType, DuplicateType
  <2> QED BY <1>1, <2>1, DisorderElements
<1>3. ASSUME PathInv(t)
      PROVE  Flight(t)'
  <2>1. Started(t)' = Started(t) /\ AtEof(t)' = AtEof(t) /\ Flight(t)
    BY <1>3 DEF Started, AtEof, PathInv
  <2>2. ASSUME NEW k \in InFlight(t)'
        PROVE  /\ SeqAt(t, k)' # 0 => Started(t)'
               /\ IF toServer'[t][k].empty
                    THEN AtEof(t)' /\ SeqAt(t, k)' = next_seq_num'[t]
                    ELSE SeqAt(t, k)' < next_seq_num'[t]
    <3>1. PICK j \in InFlight(t) : toServer'[t][k] = toServer[t][j]
      BY <1>2, <2>2 DEF InFlight
    <3> QED BY <2>1, <3>1 DEF Flight, SeqAt
  <2> QED BY <2>2 DEF Flight
<1>4. ASSUME PathInv(t)
      PROVE  AcksSound(t)'
  <2>1. Acks(t)' = Acks(t) /\ toClient[t] \in Seq(Acks(t))
    BY <1>4 DEF Acks, AtEof, PathInv, AcksSound
  <2> DEFINE A == Acks(t)
             r == toClient'[t]
  <2>2. \A k \in 1..Len(r) : r[k] \in A
    <3>1. \A j \in 1..Len(toClient[t]) : toClient[t][j] \in A
      BY <2>1, SeqElements
    <3> QED BY <1>2, <3>1
  <2>3. r \in Seq(Nat)
    BY <1>2 DEF UdpTypeOK
  <2> HIDE DEF A, r
  <2>4. Len(r) \in Nat /\ r \in [1..Len(r) -> A]
    BY <2>2, <2>3
  <2>5. r \in Seq(A)
    BY <2>4, FunctionIsSeq
  <2> QED BY <2>1, <2>5 DEF AcksSound, A, r
<1>5. ASSUME PathInv(t)
      PROVE  PathInv(t)'
  <2>1. RetriesLeft(t)' /\ WindowInv(t)' /\ ClientSound(t)'
    BY <1>5 DEF PathInv, RetriesLeft, WindowInv, Started, AtEof, ClientSound, Delivers
  <2>2. ServerInv(t)' /\ FileInv(t)'
    BY <1>5 DEF PathInv, ServerInv, FileInv, Started, AtEof
  <2> QED BY <1>3, <1>4, <1>5, <2>1, <2>2 DEF PathInv
<1>6. EofAcked(t)' => EofAcked(t)
  BY <1>2 DEF EofAcked
<1>7. Intact(t) => Intact(t)'
  BY <1>6 DEF Intact
<1> QED BY <1>5, <1>7

(* Another order adds no EOF packet, and neither does a second copy of     *)
(* another datagram.                                                       *)
LEMMA DisorderEofOnce ==
  ASSUME TypeOK, NEW t \in Threads, EofOnce(t), UNCHANGED <<clientVars, serverVars>>,
         \/ Reorder(t)
         \/ \E i \in 1..Len(toServer[t]) : DuplicatePacket(t, i) /\ ~toServer[t][i].empty
         \/ \E i \in 1..Len(toClient[t]) : DuplicateAck(t, i)
  PROVE  EofOnce(t)'
<1>1. toServer[t] \in Seq(Packets) /\ UNCHANGED file
  BY Types DEF serverVars
<1>2. \/ toServer'[t] = toServer[t]
      \/ \E i \in 1..(Len(toServer[t]) - 1) : toServer'[t] = SwapAt(toServer[t], i)
      \/ \E i \in 1..Len(toServer[t]) : /\ ~toServer[t][i].empty
                                        /\ toServer'[t] = Append(toServer[t], toServer[t][i])
  BY DEF Reorder, DuplicatePacket, DuplicateAck, TypeOK, UdpTypeOK
<1>3. CASE toServer'[t] = toServer[t]
  BY <1>1, <1>3 DEF EofOnce, InFlight
<1>4. ASSUME NEW i \in 1..(Len(toServer[t]) - 1), toServer'[t] = SwapAt(toServer[t], i)
      PROVE  EofOnce(t)'
  <2>1. /\ \A k \in InFlight(t)' : /\ Moved(k, i) \in InFlight(t)
                                   /\ toServer'[t][k].empty = toServer[t][Moved(k, i)].empty
        /\ \A j, k \in InFlight(t)' : Moved(j, i) = Moved(k, i) => j = k
    BY <1>1, <1>4, SwapElements DEF InFlight
  <2> QED BY <1>1, <2>1 DEF EofOnce
<1>5. ASSUME NEW i \in 1..Len(toServer[t]), ~toServer[t][i].empty,
             toServer'[t] = Append(toServer[t], toServer[t][i])
      PROVE  EofOnce(t)'
  <2>1. toServer[t][i] \in Packets
    BY <1>1, SeqElements
  <2>2. \A k \in InFlight(t)' : toServer'[t][k].empty =>
           k \in InFlight(t) /\ toServer[t][k].empty
    BY <1>5, <2>1, AppendQueue
  <2> QED BY <1>1, <2>2 DEF EofOnce
<1> QED BY <1>2, <1>3, <1>4, <1>5

(* Disorder among one client's datagrams leaves the other clients alone.   *)
LEMMA OthersDisordered ==
  ASSUME TypeOK, NEW t \in Threads, Reorder(t) \/ Duplicate(t),
         UNCHANGED <<clientVars, serverVars>>, NEW u \in Threads, u # t
  PROVE  UNCHANGED <<ClientVarsAt(u), ServerVarsAt(u), QueuesAt(u)>>
<1>1. UNCHANGED QueuesAt(u)
  BY DEF Reorder, Duplicate, DuplicatePacket, DuplicateAck, TypeOK, UdpTypeOK, QueuesAt
<1> QED BY <1>1 DEF clientVars, serverVars, ClientVarsAt, ServerVarsAt

(* The invariant of the path with disorder is inductive.                   *)
LEMMA FaultInvStep ==
  ASSUME FaultInv, [FaultNext]_faultVars
  PROVE  FaultInv'
<1> USE DEF FaultInv, CrashNeedsDoubledEof
<1> DEFINE Part(u) == /\ PathInv(u)
                      /\ u \notin doubled => EofOnce(u)
                      /\ u \notin disturbed => Intact(u)
<1>0. ASSUME NEW t \in Threads
      PROVE  Part(t)
  OBVIOUS
<1>1. ASSUME NEW t \in Threads, Client(t), UNCHANGED <<disturbed, doubled>>
      PROVE  FaultInv'
  <2>1. ASSUME NEW u \in Threads
        PROVE  Part(u)'
    <3>1. CASE u = t
      BY <1>1, <3>1, ClientPath, ClientEofOnce, ClientIntact
    <3>2. CASE u # t
      BY <1>1, <3>2, OtherThreads, Frame
    <3> QED BY <3>1, <3>2
  <2>2. TypeOK' /\ server' = server
    BY <1>1, ClientType DEF Client, serverVars
  <2> QED BY <1>1, <2>1, <2>2
<1>2. ASSUME NEW t \in Threads, Loss(t), UNCHANGED <<disturbed, doubled>>
      PROVE  FaultInv'
  <2>1. ASSUME NEW u \in Threads
        PROVE  Part(u)'
    <3>1. CASE u = t
      BY <1>2, <3>1, LossStep
    <3>2. CASE u # t
      BY <1>2, <3>2, OtherClients, Frame
    <3> QED BY <3>1, <3>2
  <2>2. TypeOK' /\ server' = server
    BY <1>2, LossType DEF Loss, DropData, DropAck, serverVars
  <2> QED BY <1>2, <2>1, <2>2
<1>3. ASSUME NEW t \in Threads, Server(t), disturbed' = disturbed \cup {u \in {t} : Reopens(u)},
             UNCHANGED doubled
      PROVE  FaultInv'
  <2>1. ASSUME NEW u \in Threads
        PROVE  Part(u)'
    <3>1. CASE u = t
      <4>1. PathInv(t)' /\ (t \notin doubled' => EofOnce(t)')
        BY <1>3, ServerPath, ServerEofOnce
      <4>2. ASSUME t \notin disturbed'
            PROVE  Intact(t)'
        <5>1. t \notin disturbed /\ ~Reopens(t)
          BY <1>3, <4>2
        <5> QED BY <1>3, <5>1, ServerIntact
      <4> QED BY <3>1, <4>1, <4>2
    <3>2. CASE u # t
      <4>1. u \in disturbed' <=> u \in disturbed
        BY <1>3, <3>2
      <4> QED BY <1>3, <3>2, <4>1, OtherClients, Frame
    <3> QED BY <3>1, <3>2
  <2>2. server' = "crashed" => t \in doubled
    BY <1>3, ServerPath
  <2>3. TypeOK'
    BY <1>3, ServerType
  <2> QED BY <1>3, <2>1, <2>2, <2>3
<1>4. ASSUME NEW t \in Threads, (Reorder(t) /\ UNCHANGED doubled) \/ DuplicateStep(t),
             UNCHANGED <<clientVars, serverVars, disturbed>>
      PROVE  FaultInv'
  <2>1. Reorder(t) \/ Duplicate(t)
    BY <1>4 DEF DuplicateStep, Duplicate
  <2>2. doubled \subseteq doubled' /\ doubled' \subseteq doubled \cup {t}
    BY <1>4 DEF DuplicateStep
  <2>3. ASSUME NEW u \in Threads
        PROVE  Part(u)'
    <3>1. CASE u = t
      <4>1. PathInv(t)' /\ (t \notin disturbed' => Intact(t)')
        BY <1>4, <2>1, DisorderKeeps
      <4>2. ASSUME t \notin doubled'
            PROVE  EofOnce(t)'
        <5>1. \/ Reorder(t)
              \/ \E i \in 1..Len(toServer[t]) : DuplicatePacket(t, i) /\ ~toServer[t][i].empty
              \/ \E i \in 1..Len(toClient[t]) : DuplicateAck(t, i)
          BY <1>4, <4>2 DEF DuplicateStep
        <5>2. EofOnce(t)
          BY <2>2, <4>2
        <5> QED BY <1>4, <5>1, <5>2, DisorderEofOnce
      <4> QED BY <3>1, <4>1, <4>2
    <3>2. CASE u # t
      <4>1. u \in doubled' <=> u \in doubled
        BY <2>2, <3>2
      <4> QED BY <1>4, <2>1, <3>2, <4>1, OthersDisordered, Frame
    <3> QED BY <3>1, <3>2
  <2>4. TypeOK'
    <3>1. UdpTypeOK(Packets, Nat)'
      BY <2>1, ReorderType, DuplicateType DEF TypeOK, Packets
    <3>2. ClientTypeOK' /\ ServerTypeOK'
      BY <1>4 DEF TypeOK, ClientTypeOK, ServerTypeOK, clientVars, serverVars
    <3> QED BY <3>1, <3>2 DEF TypeOK, Packets
  <2>5. server' = server
    BY <1>4 DEF serverVars
  <2> QED BY <2>2, <2>3, <2>4, <2>5
<1>5. CASE UNCHANGED faultVars
  <2>1. UNCHANGED vars /\ UNCHANGED <<disturbed, doubled>>
    BY <1>5 DEF faultVars
  <2>2. TypeOK' /\ server' = server
    BY <2>1, NothingChanges
  <2>3. \A u \in Threads : Part(u)'
    BY <2>1, NothingChanges
  <2> QED BY <2>1, <2>2, <2>3
<1> QED BY <1>1, <1>2, <1>3, <1>4, <1>5 DEF FaultNext

(* FaultInv is an invariant of lab3 on a path that loses, doubles and      *)
(* reorders datagrams.                                                     *)
THEOREM FaultInvHolds == FaultSpec => []FaultInv
<1>1. FaultInit => FaultInv
  <2> SUFFICES ASSUME FaultInit
               PROVE  FaultInv
    OBVIOUS
  <2>1. IInv
    BY IInvInit DEF FaultInit
  <2>2. \A t \in Threads : EofOnce(t)
    BY <2>1, OrderedEofOnce DEF IInv, ThreadInv
  <2> QED BY <2>1, <2>2 DEF FaultInv, CrashNeedsDoubledEof, IInv, ThreadInv
<1>2. FaultInv /\ [FaultNext]_faultVars => FaultInv'
  BY FaultInvStep
<1> QED BY <1>1, <1>2, PTL DEF FaultSpec

(* What a client counts as delivered was received, for every win_size,     *)
(* file and number of clients, and also when datagrams and acks overtake   *)
(* each other or come twice: marks left in acked by packets the window has *)
(* passed are never read for another packet.                               *)
THEOREM AckedIsStoredCorrect == FaultSpec => []AckedIsStored
<1>1. FaultInv => AckedIsStored
  BY DEF FaultInv, PathInv, ClientSound, AckedIsStored
<1> QED BY <1>1, FaultInvHolds, PTL

(* The server uses a file that is NULL or closed only after the path has   *)
(* delivered an EOF packet twice: whatever else is lost, overtaken,        *)
(* doubled or repeated, each fwrite and each fclose meets an open file.    *)
THEOREM CrashNeedsDoubledEofCorrect == FaultSpec => []CrashNeedsDoubledEof
<1>1. FaultInv => CrashNeedsDoubledEof
  BY DEF FaultInv
<1> QED BY <1>1, FaultInvHolds, PTL

(* A late filename packet is the only event that can make a transfer that  *)
(* ended with status 0 fail, for every win_size, file and number of        *)
(* clients, losses, second copies and reorderings.                         *)
THEOREM DoneUndisturbedCorrect == FaultSpec => []DoneUndisturbed
<1>1. FaultInv => DoneUndisturbed
  BY DoneWhole DEF FaultInv, DoneUndisturbed
<1> QED BY <1>1, FaultInvHolds, PTL
=============================================================================
