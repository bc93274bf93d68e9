------------------------- MODULE Lab4WindowProofs -------------------------
(***************************************************************************)
(* The state of lab4 keeps its types, and the selective-repeat window of   *)
(* send_file_to_server is sound, under every specification of              *)
(* Lab4Transfer.  WindowInv is WindowSound with what each place of the     *)
(* code knows; the argument is that two numbers less than win_size apart   *)
(* have different slots.                                                   *)
(***************************************************************************)
EXTENDS Lab4Invariant, UdpProofs

Packets == [seq : -1..NumPackets, run : 1..MaxRuns]

(* A running process has filename attempts left: the last one exits.       *)
RetriesLeft == \A t \in Threads :
    exit_status[ProcOf[t]] = Running => filename_retries[t] < MaxRetries

(* An index computed with the window size lies in the arrays.              *)
LEMMA SlotType == \A n \in Nat : Slot(n) \in Slots
  BY ClientAssumption DEF Slot, Slots

(* Types hold initially.                                                   *)
LEMMA InitType == Init => TypeOK /\ RetriesLeft
  BY ClientAssumption, ServerAssumption
     DEF Init, ClientInit, ServerInit, UdpInit, TypeOK, ClientTypeOK, ServerTypeOK,
         UdpTypeOK, RetriesLeft, Slots, SeqNums, Running

(* What a thread sends is a packet.                                        *)
LEMMA PacketType ==
  ASSUME ClientTypeOK, NEW t \in Threads, NEW n \in -1..NumPackets
  PROVE Packet(t, n) \in Packets
  BY ClientAssumption DEF ClientTypeOK, Packet, Packets

(* Moving base_sn over the acked packets keeps the types of the window.    *)
LEMMA SlideType ==
  ASSUME ClientTypeOK, NEW t \in Threads, NEW nowAcked \in [Slots -> BOOLEAN],
         NEW nowRetries \in [Slots -> 0..MaxRetries], Slide(t, nowAcked, nowRetries)
  PROVE  /\ acked' \in [Threads -> [Slots -> BOOLEAN]]
         /\ retries' \in [Threads -> [Slots -> 0..MaxRetries]]
         /\ base_sn' \in [Threads -> 1..(NumPackets + 1)]
<1>1. PICK b \in base_sn[t]..next_sn[t] : Slide(t, nowAcked, nowRetries)!(b)
  BY DEF Slide
<1>2. base_sn' \in [Threads -> 1..(NumPackets + 1)]
  BY <1>1, ClientAssumption DEF ClientTypeOK
<1> QED BY <1>1, <1>2, ClientAssumption DEF ClientTypeOK

(* A failed attempt for the name counts, and another follows only while    *)
(* one is left.                                                            *)
LEMMA RetryType ==
  ASSUME ClientTypeOK, RetriesLeft, NEW t \in Threads, exit_status[ProcOf[t]] = Running,
         RetryFilename(t)
  PROVE  /\ exit_status' \in [Processes -> {Running, 0, 1, 3, 4}]
         /\ pc' \in [Threads -> {"new", "name", "nameWait", "window", "resend", "exit"}]
         /\ filename_retries' \in [Threads -> 0..MaxRetries]
         /\ RetriesLeft'
<1> USE ClientAssumption DEF ClientTypeOK
<1>1. filename_retries' \in [Threads -> 0..MaxRetries]
  <2>1. filename_retries[t] + 1 \in 0..MaxRetries
    BY DEF RetriesLeft
  <2> QED BY <2>1 DEF RetryFilename
<1>2. pc' \in [Threads -> {"new", "name", "nameWait", "window", "resend", "exit"}]
  BY DEF RetryFilename, Goto
<1>3. exit_status' \in [Processes -> {Running, 0, 1, 3, 4}]
  BY DEF RetryFilename, Exit
<1>4. ASSUME filename_retries[t] + 1 < MaxRetries, UNCHANGED exit_status
      PROVE  RetriesLeft'
  BY <1>4 DEF RetryFilename, RetriesLeft
<1>5. ASSUME Exit(t, 3) \/ Exit(t, 4)
      PROVE  RetriesLeft'
  <2> SUFFICES ASSUME NEW u \in Threads, exit_status'[ProcOf[u]] = Running
               PROVE  filename_retries'[u] < MaxRetries
    BY DEF RetriesLeft
  <2>1. ProcOf[u] # ProcOf[t]
    BY <1>5 DEF Exit, Running
  <2>2. exit_status[ProcOf[u]] = Running
    BY <1>5, <2>1 DEF Exit
  <2>3. filename_retries'[u] = filename_retries[u]
    BY <2>1 DEF RetryFilename
  <2> QED BY <2>2, <2>3 DEF RetriesLeft
<1> QED BY <1>1, <1>2, <1>3, <1>4, <1>5 DEF RetryFilename

(* Every step of a sender thread keeps the types.                          *)
LEMMA ClientType ==
  ASSUME ClientTypeOK, RetriesLeft, UdpTypeOK(Packets, 0..NumPackets), NEW t \in Threads, ClientStep(t)
  PROVE  ClientTypeOK' /\ RetriesLeft' /\ UdpTypeOK(Packets, 0..NumPackets)'
<1> USE ClientAssumption DEF windowVars, Running
<1>1. CASE StartThread(t)
  <2>1. ClientTypeOK'
    BY <1>1 DEF StartThread, At, Goto, Exit, ClientTypeOK
  <2>3. RetriesLeft'
    BY <1>1 DEF StartThread, At, Goto, Exit, ClientTypeOK, RetriesLeft
  <2>2. UdpTypeOK(Packets, 0..NumPackets)'
    BY <1>1 DEF StartThread, UdpTypeOK, netVars
  <2> QED BY <2>1, <2>2, <2>3
<1>2. CASE SendFilename(t)
  <2>1. ClientTypeOK'
    BY <1>2 DEF SendFilename, At, Goto, Exit, ClientTypeOK
  <2>3. RetriesLeft'
    BY <1>2 DEF SendFilename, At, Goto, Exit, ClientTypeOK, RetriesLeft
  <2>2. UdpTypeOK(Packets, 0..NumPackets)'
    BY <1>2, SendPacketType, PacketType, 0 \in -1..NumPackets DEF SendFilename
  <2> QED BY <2>1, <2>2, <2>3
<1>3. CASE RecvFilenameAck(t)
  <2>1. ClientTypeOK' /\ RetriesLeft'
    <3>1. CASE RetryFilename(t)
      BY <1>3, <3>1, RetryType DEF RecvFilenameAck, At, ClientTypeOK
    <3>2. CASE Goto(t, "window") /\ UNCHANGED <<exit_status, filename_retries>>
      BY <1>3, <3>2 DEF RecvFilenameAck, Goto, ClientTypeOK, RetriesLeft
    <3> QED BY <1>3, <3>1, <3>2 DEF RecvFilenameAck
  <2>2. UdpTypeOK(Packets, 0..NumPackets)'
    BY <1>3, TakeAckType DEF RecvFilenameAck
  <2> QED BY <2>1, <2>2
<1>4. CASE FilenameTimeout(t)
  <2>1. ClientTypeOK' /\ RetriesLeft'
    BY <1>4, RetryType DEF FilenameTimeout, At, ClientTypeOK
  <2>2. UdpTypeOK(Packets, 0..NumPackets)'
    BY <1>4 DEF FilenameTimeout, UdpTypeOK, netVars
  <2> QED BY <2>1, <2>2
<1>5. CASE SendData(t)
  <2>6. next_sn[t] \in 1..NumPackets
    BY <1>5 DEF SendData, CanSend, Feof, ClientTypeOK
  <2>0. next_sn[t] \in 1..NumPackets /\ Slot(next_sn[t]) \in Slots
    BY <2>6, SlotType
  <2>4. next_sn' \in [Threads -> 1..(NumPackets + 1)]
    BY <1>5, <2>0 DEF SendData, ClientTypeOK
  <2>5. window' \in [Threads -> [Slots -> 0..NumPackets]]
    BY <1>5, <2>0 DEF SendData, ClientTypeOK
  <2>1. ClientTypeOK'
    BY <1>5, <2>4, <2>5 DEF SendData, ClientTypeOK
  <2>3. RetriesLeft'
    BY <1>5 DEF SendData, ClientTypeOK, RetriesLeft
  <2>2. UdpTypeOK(Packets, 0..NumPackets)'
    <3>1. next_sn[t] \in -1..NumPackets
      BY <2>0
    <3> QED BY <3>1, <1>5, SendPacketType, PacketType DEF SendData
  <2> QED BY <2>1, <2>2, <2>3
<1>6. CASE RecvAck(t)
  <2> DEFINE nowAcked == [i \in Slots |-> acked[t][i] \/
                             (NewAck(t, Head(toClient[t])) /\ i = Slot(Head(toClient[t])))]
             nowRetries == [i \in Slots |->
                             IF NewAck(t, Head(toClient[t])) /\ i = Slot(Head(toClient[t]))
                               THEN 0 ELSE retries[t][i]]
  <2>0. nowAcked \in [Slots -> BOOLEAN] /\ nowRetries \in [Slots -> 0..MaxRetries]
    BY DEF ClientTypeOK
  <2>3. Slide(t, nowAcked, nowRetries)
    BY <1>6 DEF RecvAck
  <2>4. /\ acked' \in [Threads -> [Slots -> BOOLEAN]]
        /\ retries' \in [Threads -> [Slots -> 0..MaxRetries]]
        /\ base_sn' \in [Threads -> 1..(NumPackets + 1)]
    BY <2>0, <2>3, SlideType
  <2>1. ClientTypeOK'
    BY <1>6, <2>4 DEF RecvAck, ClientTypeOK
  <2>5. RetriesLeft'
    BY <1>6 DEF RecvAck, ClientTypeOK, RetriesLeft
  <2>2. UdpTypeOK(Packets, 0..NumPackets)'
    BY <1>6, TakeAckType DEF RecvAck
  <2> QED BY <2>1, <2>2, <2>5
<1>7. CASE SelectTimeout(t)
  <2>1. ClientTypeOK'
    BY <1>7 DEF SelectTimeout, Goto, ClientTypeOK
  <2>3. RetriesLeft'
    BY <1>7 DEF SelectTimeout, ClientTypeOK, RetriesLeft
  <2>2. UdpTypeOK(Packets, 0..NumPackets)'
    BY <1>7 DEF SelectTimeout, UdpTypeOK, netVars
  <2> QED BY <2>1, <2>2, <2>3
<1>8. CASE Resend(t)
  <2> DEFINE i == Slot(cursor[t])
  <2>0. i \in Slots
    BY SlotType DEF ClientTypeOK
  <2>3. window[t][i] \in -1..NumPackets /\ retries[t][i] \in 0..MaxRetries
    BY <2>0 DEF ClientTypeOK
  <2> HIDE DEF i
  <2>7. ASSUME Resendable(t, i) PROVE retries' \in [Threads -> [Slots -> 0..MaxRetries]]
    <3>1. retries[t][i] + 1 \in 0..MaxRetries
      BY <2>3, <2>7 DEF Resendable
    <3>2. retries' = [retries EXCEPT ![t][i] = @ + 1]
      BY <1>8, <2>7 DEF Resend, i
    <3> QED BY <2>0, <3>1, <3>2 DEF ClientTypeOK
  <2>4. retries' \in [Threads -> [Slots -> 0..MaxRetries]]
    <3>1. CASE ~Resendable(t, i)
      BY <1>8, <3>1 DEF Resend, ClientTypeOK, i
    <3> QED BY <2>7, <3>1
  <2>5. cursor' \in [Threads -> 1..(NumPackets + 1)]
    BY <1>8 DEF Resend, ClientTypeOK
  <2>1. ClientTypeOK'
    BY <1>8, <2>4, <2>5 DEF Resend, ClientTypeOK
  <2>6. RetriesLeft'
    BY <1>8 DEF Resend, ClientTypeOK, RetriesLeft
  <2>2. UdpTypeOK(Packets, 0..NumPackets)'
    <3>1. CASE Resendable(t, i)
      <4>1. SendPacket(t, Packet(t, window[t][i]))
        BY <1>8, <3>1 DEF Resend, i
      <4> QED BY <4>1, <2>3, SendPacketType, PacketType
    <3>2. CASE ~Resendable(t, i)
      BY <3>2, <1>8 DEF Resend, UdpTypeOK, netVars, i
    <3> QED BY <3>1, <3>2
  <2> QED BY <2>1, <2>2, <2>6
<1>9. CASE ResendDone(t)
  <2>0. /\ acked' \in [Threads -> [Slots -> BOOLEAN]]
        /\ retries' \in [Threads -> [Slots -> 0..MaxRetries]]
        /\ base_sn' \in [Threads -> 1..(NumPackets + 1)]
    BY <1>9, SlideType DEF ResendDone, ClientTypeOK
  <2>4. cursor' \in [Threads -> 1..(NumPackets + 1)]
    BY <1>9 DEF ResendDone, ClientTypeOK
  <2>1. ClientTypeOK'
    BY <1>9, <2>0, <2>4 DEF ResendDone, Goto, ClientTypeOK
  <2>3. RetriesLeft'
    BY <1>9 DEF ResendDone, ClientTypeOK, RetriesLeft
  <2>2. UdpTypeOK(Packets, 0..NumPackets)'
    BY <1>9 DEF ResendDone, UdpTypeOK, netVars
  <2> QED BY <2>1, <2>2, <2>3
<1>10. CASE SendEof(t)
  <2>1. ClientTypeOK'
    BY <1>10 DEF SendEof, Goto, ClientTypeOK
  <2>3. RetriesLeft'
    BY <1>10 DEF SendEof, Goto, ClientTypeOK, RetriesLeft
  <2>2. UdpTypeOK(Packets, 0..NumPackets)'
    BY <1>10, SendPacketType, PacketType, EofSeq \in -1..NumPackets DEF SendEof, EofSeq
  <2> QED BY <2>1, <2>2, <2>3
<1>11. CASE ExitProcess(t)
  <2>1. ClientTypeOK'
    BY <1>11 DEF ExitProcess, Exit, ClientTypeOK
  <2>3. RetriesLeft'
    BY <1>11 DEF ExitProcess, Exit, ClientTypeOK, RetriesLeft
  <2>2. UdpTypeOK(Packets, 0..NumPackets)'
    BY <1>11 DEF ExitProcess, UdpTypeOK, netVars
  <2> QED BY <2>1, <2>2, <2>3
<1> QED
  BY <1>1, <1>2, <1>3, <1>4, <1>5, <1>6, <1>7, <1>8, <1>9, <1>10, <1>11 DEF ClientStep

(* Storing, writing and acknowledging a packet keeps the types.            *)
LEMMA StoreWriteAckType ==
  ASSUME ServerTypeOK, UdpTypeOK(Packets, 0..NumPackets), NEW t \in Threads,
         toServer[t] # <<>>, HeadSeq(t) \in SeqNums, HeadSeq(t) >= 0,
         NEW expected \in 1..MaxSeqNum, NEW content \in Seq(Nat \X SeqNums),
         NEW isOpen, NEW firstAcks \in Seq(0..NumPackets),
         StoreWriteAck(t, expected, content, isOpen, firstAcks)
  PROVE  /\ buffer' \in [Threads -> [SeqNums -> Nat]]
         /\ received' \in [Threads -> SUBSET SeqNums]
         /\ expected_seq' \in [Threads -> 1..MaxSeqNum]
         /\ disk' \in [Threads -> Seq(Nat \X SeqNums)]
         /\ spinning' \in [Servers -> BOOLEAN]
         /\ UdpTypeOK(Packets, 0..NumPackets)'
<1> USE ClientAssumption, ServerAssumption
<1> DEFINE n == HeadSeq(t)
           rec == received[t] \cup {n}
           buf == IF n \in received[t] THEN buffer[t]
                  ELSE [buffer[t] EXCEPT ![n] = Head(toServer[t]).run]
<1>1. Head(toServer[t]) \in Packets /\ n \in 0..NumPackets
  <2>1. Head(toServer[t]) \in Packets
    BY DEF UdpTypeOK
  <2> QED BY <2>1 DEF Packets, HeadSeq
<1>2. buf \in [SeqNums -> Nat] /\ rec \in SUBSET SeqNums
  <2>1. Head(toServer[t]).run \in Nat
    BY <1>1 DEF Packets
  <2>2. buffer[t] \in [SeqNums -> Nat] /\ received[t] \in SUBSET SeqNums
    BY DEF ServerTypeOK
  <2> QED BY <2>1, <2>2
<1>3. buffer' = [buffer EXCEPT ![t] = buf]
  BY DEF StoreWriteAck
<1>4. buffer' \in [Threads -> [SeqNums -> Nat]]
  BY <1>2, <1>3 DEF ServerTypeOK
<1>5. CASE /\ expected \in rec /\ ~isOpen
              /\ spinning' = [spinning EXCEPT ![ServerOf[t]] = TRUE]
              /\ received' = [received EXCEPT ![t] = rec]
              /\ TakePacket(t, firstAcks)
              /\ UNCHANGED <<expected_seq, disk>>
  <2>1. UdpTypeOK(Packets, 0..NumPackets)'
    BY <1>5, TakePacketType
  <2> QED BY <1>2, <1>4, <1>5, <2>1 DEF ServerTypeOK
<1>6. ASSUME NEW e \in expected..MaxSeqNum,
             StopsAt(e, expected, rec),
             expected_seq' = [expected_seq EXCEPT ![t] = e],
             received' = [received EXCEPT ![t] = rec \ (expected..(e - 1))],
             disk' = [disk EXCEPT ![t] = content \o
                          [i \in 1..(e - expected) |->
                              <<buf[expected + i - 1], expected + i - 1>>]],
             TakePacket(t, Append(firstAcks, n)),
             UNCHANGED spinning
      PROVE  /\ received' \in [Threads -> SUBSET SeqNums]
             /\ expected_seq' \in [Threads -> 1..MaxSeqNum]
             /\ disk' \in [Threads -> Seq(Nat \X SeqNums)]
             /\ spinning' \in [Servers -> BOOLEAN]
             /\ UdpTypeOK(Packets, 0..NumPackets)'
  <2>1. UdpTypeOK(Packets, 0..NumPackets)'
    <3>1. Append(firstAcks, n) \in Seq(0..NumPackets)
      BY <1>1
    <3> QED BY <1>6, <3>1, TakePacketType
  <2> DEFINE new == [i \in 1..(e - expected) |-> <<buf[expected + i - 1], expected + i - 1>>]
  <2>2. new \in Seq(Nat \X SeqNums)
    <3>1. \A i \in 1..(e - expected) : expected + i - 1 \in SeqNums
      BY DEF SeqNums
    <3>2. \A i \in 1..(e - expected) : <<buf[expected + i - 1], expected + i - 1>> \in Nat \X SeqNums
      BY <1>2, <3>1
    <3>3. e - expected \in Nat
      OBVIOUS
    <3>4. new \in [1..(e - expected) -> Nat \X SeqNums]
      BY <3>2
    <3> QED BY <3>3, <3>4, FunctionIsSeq
  <2>3. content \o new \in Seq(Nat \X SeqNums)
    BY <2>2, ConcatProperties
  <2>4. disk' \in [Threads -> Seq(Nat \X SeqNums)]
    BY <1>6, <2>3 DEF ServerTypeOK
  <2>5. expected_seq' \in [Threads -> 1..MaxSeqNum]
    BY <1>6 DEF ServerTypeOK
  <2>6. received' \in [Threads -> SUBSET SeqNums]
    BY <1>6, <1>2 DEF ServerTypeOK
  <2> QED BY <1>6, <2>1, <2>4, <2>5, <2>6 DEF ServerTypeOK
<1> QED BY <1>4, <1>5, <1>6 DEF StoreWriteAck

(* Every datagram a server handles keeps the types.                        *)
LEMMA ServerType ==
  ASSUME ServerTypeOK, UdpTypeOK(Packets, 0..NumPackets), NEW t \in Threads, ServerReceive(t)
  PROVE  ServerTypeOK' /\ UdpTypeOK(Packets, 0..NumPackets)'
<1> USE ClientAssumption, ServerAssumption
<1>1. <<>> \in Seq(0..NumPackets) /\ <<0>> \in Seq(0..NumPackets)
  OBVIOUS
<1>2. CASE RefuseClient(t)
  BY <1>1, <1>2, TakePacketType DEF RefuseClient, Arrives, serverVars, ServerTypeOK
<1>3. CASE ReceiveEof(t)
  <2>1. UdpTypeOK(Packets, 0..NumPackets)'
    BY <1>1, <1>3, TakePacketType DEF ReceiveEof, Arrives
  <2> QED BY <1>3, <2>1 DEF ReceiveEof, ServerTypeOK
<1>4. CASE ReceiveOutOfRange(t)
  <2>1. UdpTypeOK(Packets, 0..NumPackets)'
    BY <1>1, <1>4, TakePacketType DEF ReceiveOutOfRange, Arrives
  <2> QED BY <1>4, <2>1 DEF ReceiveOutOfRange, GetClient, ServerTypeOK
<1>5. CASE ReceiveFilename(t)
  <2>1. PICK opened \in FopenResults :
          /\ file_open' = [file_open EXCEPT ![t] = opened]
          /\ \/ /\ opened
                /\ StoreWriteAck(t, 1, <<>>, TRUE, <<0>>)
             \/ /\ ~opened
                /\ TakePacket(t, <<>>)
                /\ UNCHANGED <<expected_seq, received, buffer, disk, spinning>>
    BY <1>5 DEF ReceiveFilename
  <2>2. /\ known' \in [Threads -> BOOLEAN]
        /\ active' \in [Threads -> BOOLEAN]
        /\ file_open' \in [Threads -> BOOLEAN]
        /\ restarts' \in Nat
    BY <1>5, <2>1 DEF ReceiveFilename, GetClient, ServerTypeOK
  <2>3. toServer[t] # <<>> /\ HeadSeq(t) \in SeqNums /\ HeadSeq(t) >= 0
    BY <1>5 DEF ReceiveFilename, Arrives, SeqNums
  <2>4. CASE StoreWriteAck(t, 1, <<>>, TRUE, <<0>>)
    <3>1. 1 \in 1..MaxSeqNum /\ <<>> \in Seq(Nat \X SeqNums)
      OBVIOUS
    <3> QED BY <1>1, <2>2, <2>3, <2>4, <3>1, StoreWriteAckType DEF ServerTypeOK
  <2>5. CASE TakePacket(t, <<>>) /\ UNCHANGED <<expected_seq, received, buffer, disk, spinning>>
    BY <1>1, <2>2, <2>3, <2>5, TakePacketType DEF ServerTypeOK
  <2> QED BY <2>1, <2>4, <2>5
<1>6. CASE ReceiveData(t)
  <2>1. StoreWriteAck(t, expected_seq[t], disk[t], file_open[t], <<>>)
    BY <1>6 DEF ReceiveData
  <2>2. /\ known' \in [Threads -> BOOLEAN]
        /\ active' \in [Threads -> BOOLEAN]
        /\ file_open' \in [Threads -> BOOLEAN]
        /\ restarts' \in Nat
    BY <1>6 DEF ReceiveData, GetClient, ServerTypeOK
  <2>3. toServer[t] # <<>> /\ HeadSeq(t) \in SeqNums /\ HeadSeq(t) >= 0
    BY <1>6 DEF ReceiveData, Arrives, SeqNums
  <2>4. /\ expected_seq[t] \in 1..MaxSeqNum
        /\ disk[t] \in Seq(Nat \X SeqNums)
    BY DEF ServerTypeOK
  <2>5. /\ buffer' \in [Threads -> [SeqNums -> Nat]]
        /\ received' \in [Threads -> SUBSET SeqNums]
        /\ expected_seq' \in [Threads -> 1..MaxSeqNum]
        /\ disk' \in [Threads -> Seq(Nat \X SeqNums)]
        /\ spinning' \in [Servers -> BOOLEAN]
        /\ UdpTypeOK(Packets, 0..NumPackets)'
    BY <1>1, <2>1, <2>3, <2>4, StoreWriteAckType
  <2> QED BY <2>2, <2>5 DEF ServerTypeOK
<1> QED BY <1>2, <1>3, <1>4, <1>5, <1>6 DEF ServerReceive

(* Losing a datagram keeps the types of the queues.                        *)
LEMMA LossType ==
  ASSUME NEW P, NEW A, UdpTypeOK(P, A), NEW t \in Threads, DropData(t) \/ LoseAck(t)
  PROVE  UdpTypeOK(P, A)'
<1>1. CASE DropData(t)
  BY <1>1 DEF UdpTypeOK, DropData, Arrives
<1>2. CASE LoseAck(t)
  BY <1>2 DEF UdpTypeOK, LoseAck
<1> QED BY <1>1, <1>2

(* A restarted server has a well-typed state.                              *)
LEMMA RestartType ==
  ASSUME ServerTypeOK, NEW s \in Servers, Restart(s)
  PROVE  ServerTypeOK'
<1> USE ServerAssumption DEF ServerTypeOK, Restart
<1>1. known' \in [Threads -> BOOLEAN] /\ active' \in [Threads -> BOOLEAN]
  OBVIOUS
<1>2. file_open' \in [Threads -> BOOLEAN] /\ received' \in [Threads -> SUBSET SeqNums]
  OBVIOUS
<1>3. expected_seq' \in [Threads -> 1..MaxSeqNum]
  OBVIOUS
<1>4. buffer' \in [Threads -> [SeqNums -> Nat]]
  OBVIOUS
<1>5. spinning' \in [Servers -> BOOLEAN] /\ restarts' \in Nat
  OBVIOUS
<1> QED BY <1>1, <1>2, <1>3, <1>4, <1>5

(* A process that runs again has a well-typed state.                       *)
LEMMA RunAgainType ==
  ASSUME ClientTypeOK, RetriesLeft, NEW p \in Processes, RunAgain(p)
  PROVE  ClientTypeOK' /\ RetriesLeft'
<1>1. ClientTypeOK'
  <2> USE ClientAssumption DEF ClientTypeOK, RunAgain
  <2>1. run' \in [Processes -> 1..MaxRuns]
    OBVIOUS
  <2>2. exit_status' \in [Processes -> {Running, 0, 1, 3, 4}]
    OBVIOUS
  <2>3. pc' \in [Threads -> {"new", "name", "nameWait", "window", "resend", "exit"}]
    OBVIOUS
  <2>4. filename_retries' \in [Threads -> 0..MaxRetries]
    OBVIOUS
  <2>5. /\ base_sn' \in [Threads -> 1..(NumPackets + 1)]
        /\ next_sn' \in [Threads -> 1..(NumPackets + 1)]
        /\ cursor' \in [Threads -> 1..(NumPackets + 1)]
    OBVIOUS
  <2>6. window' \in [Threads -> [Slots -> 0..NumPackets]]
    OBVIOUS
  <2>7. acked' \in [Threads -> [Slots -> BOOLEAN]]
    OBVIOUS
  <2>8. retries' \in [Threads -> [Slots -> 0..MaxRetries]]
    OBVIOUS
  <2> QED BY <2>1, <2>2, <2>3, <2>4, <2>5, <2>6, <2>7, <2>8
<1>2. RetriesLeft'
  BY ClientAssumption DEF ClientTypeOK, RunAgain, RetriesLeft, Running
<1> QED BY <1>1, <1>2

(* Every step, of every specification, keeps the types.                    *)
LEMMA TypeStep ==
  ASSUME TypeOK, RetriesLeft, [Next \/ DisorderStep \/ RestartStep \/ RunAgainStep]_vars
  PROVE  TypeOK' /\ RetriesLeft'
<1> USE DEF Packets, TypeOK
<1>1. ASSUME NEW t \in Threads, Thread(t)
      PROVE  TypeOK' /\ RetriesLeft'
  <2>1. ServerTypeOK'
    BY <1>1 DEF Thread, serverVars, ServerTypeOK
  <2> QED BY <1>1, <2>1, ClientType DEF Thread
<1>2. ASSUME UNCHANGED clientVars
      PROVE  ClientTypeOK' /\ RetriesLeft'
  BY <1>2 DEF clientVars, ClientTypeOK, RetriesLeft
<1>3. ASSUME NEW t \in Threads, Server(t)
      PROVE  TypeOK' /\ RetriesLeft'
  BY <1>2, <1>3, ServerType DEF Server
<1>4. ASSUME UNCHANGED serverVars
      PROVE  ServerTypeOK'
  BY <1>4 DEF serverVars, ServerTypeOK
<1>5. ASSUME NEW t \in Threads, Loss(t)
      PROVE  TypeOK' /\ RetriesLeft'
  BY <1>2, <1>4, <1>5, LossType DEF Loss, DropData
<1>6. CASE DisorderStep
  BY <1>2, <1>4, <1>6, ReorderType, DuplicateType DEF DisorderStep
<1>7. ASSUME UNCHANGED netVars
      PROVE  UdpTypeOK(Packets, 0..NumPackets)'
  BY <1>7 DEF netVars, UdpTypeOK
<1>8. CASE RestartStep
  BY <1>2, <1>7, <1>8, RestartType DEF RestartStep, Restart
<1>9. CASE RunAgainStep
  BY <1>4, <1>7, <1>9, RunAgainType DEF RunAgainStep, RunAgain
<1>10. CASE UNCHANGED vars
  BY <1>2, <1>4, <1>7, <1>10 DEF vars
<1> QED BY <1>1, <1>3, <1>5, <1>6, <1>8, <1>9, <1>10 DEF Next

(* Type correctness: counters stay in their ranges (no more than           *)
(* MAX_RETRIES resends of a packet, no index outside the window, no        *)
(* seq_num the server has no slot for), whatever the path, the servers and *)
(* the processes do.                                                       *)
THEOREM TypeCorrect == SpecAll => []TypeOK
<1>1. Init => TypeOK /\ RetriesLeft
  BY InitType
<1>2. TypeOK /\ RetriesLeft /\ [Next \/ DisorderStep \/ RestartStep \/ RunAgainStep]_vars
        => (TypeOK /\ RetriesLeft)'
  BY TypeStep
<1> QED BY <1>1, <1>2, PTL DEF SpecAll

-----------------------------------------------------------------------------
(* Two numbers less than win_size apart never share a slot of the window:  *)
(* the fact that makes next_sn % win_size a safe index.                    *)
LEMMA SlotsDistinct ==
  ASSUME NEW i \in Nat, NEW j \in Nat, i < j, j < i + WinSize
  PROVE  Slot(i) # Slot(j)
  BY ModDistinct, ClientAssumption DEF Slot

(* Moving base_sn over the acked packets leaves a sound window.            *)
LEMMA SlideWindow ==
  ASSUME ClientTypeOK, NEW t \in Threads, WindowInv(t),
         NEW nowAcked \in [Slots -> BOOLEAN], NEW nowRetries \in [Slots -> 0..MaxRetries],
         \A i \in Slots : nowAcked[i] => \E n \in Outstanding(t) : i = Slot(n),
         Slide(t, nowAcked, nowRetries), UNCHANGED <<next_sn, window>>
  PROVE  /\ base_sn'[t] <= next_sn'[t]
         /\ next_sn'[t] <= base_sn'[t] + WinSize
         /\ \A n \in Outstanding(t)' : window'[t][Slot(n)] = n
         /\ \A i \in Slots : acked'[t][i] => \E n \in Outstanding(t)' : i = Slot(n)
<1>1. PICK b \in base_sn[t]..next_sn[t] : Slide(t, nowAcked, nowRetries)!(b)
  BY DEF Slide
<1>2. base_sn'[t] = b /\ b \in Nat /\ next_sn[t] \in Nat
  BY <1>1, ClientAssumption DEF ClientTypeOK
<1>3. \A n \in Outstanding(t)' : window'[t][Slot(n)] = n
  BY <1>1, <1>2 DEF Outstanding, WindowInv, ClientTypeOK
<1>4. ASSUME NEW i \in Slots, acked'[t][i]
      PROVE  \E n \in Outstanding(t)' : i = Slot(n)
  <2>1. nowAcked[i] /\ i \notin {Slot(n) : n \in base_sn[t]..(b - 1)}
    BY <1>1, <1>4 DEF ClientTypeOK
  <2>2. PICK n \in Outstanding(t) : i = Slot(n)
    BY <2>1
  <2>3. n >= b
    BY <1>2, <2>1, <2>2, ClientAssumption DEF Outstanding, ClientTypeOK
  <2> QED BY <1>2, <2>2, <2>3 DEF Outstanding, ClientTypeOK
<1>5. next_sn'[t] <= base_sn'[t] + WinSize
  BY <1>1, <1>2, ClientAssumption DEF WindowInv, ClientTypeOK
<1> QED BY <1>1, <1>2, <1>3, <1>4, <1>5

(* The client variables WindowInv reads. *)
WindowVarsAt(t) == <<pc[t], base_sn[t], next_sn[t], window[t], acked[t], cursor[t]>>

(* WindowInv of a thread depends on nothing but its own variables.         *)
LEMMA WindowFrame ==
  ASSUME NEW t \in Threads, WindowInv(t), UNCHANGED WindowVarsAt(t)
  PROVE  WindowInv(t)'
  BY DEF WindowInv, WindowVarsAt, Outstanding, Naming

(* A step of a sender thread leaves the others' windows and queues alone.  *)
LEMMA OtherThreads ==
  ASSUME ClientTypeOK, NEW t \in Threads, ClientStep(t), NEW u \in Threads, u # t
  PROVE  UNCHANGED <<WindowVarsAt(u), toServer[u], toClient[u]>>
<1> USE DEF ClientTypeOK, WindowVarsAt, windowVars, netVars, Goto
<1>1. CASE StartThread(t)
  BY <1>1 DEF StartThread
<1>2. CASE SendFilename(t)
  BY <1>2 DEF SendFilename, SendPacket
<1>3. CASE RecvFilenameAck(t)
  BY <1>3 DEF RecvFilenameAck, RetryFilename, TakeAck
<1>4. CASE FilenameTimeout(t)
  BY <1>4 DEF FilenameTimeout, RetryFilename
<1>5. CASE SendData(t)
  BY <1>5 DEF SendData, SendPacket
<1>6. CASE RecvAck(t)
  <2>1. UNCHANGED <<base_sn[u], acked[u]>>
    BY <1>6 DEF RecvAck, Slide
  <2>2. UNCHANGED <<toServer[u], toClient[u]>>
    BY <1>6 DEF RecvAck, TakeAck
  <2> QED BY <1>6, <2>1, <2>2 DEF RecvAck
<1>7. CASE SelectTimeout(t)
  BY <1>7 DEF SelectTimeout
<1>8. CASE Resend(t)
  <2>1. UNCHANGED WindowVarsAt(u)
    BY <1>8 DEF Resend
  <2>2. UNCHANGED <<toServer[u], toClient[u]>>
    <3>1. CASE Resendable(t, Slot(cursor[t]))
      <4>1. SendPacket(t, Packet(t, window[t][Slot(cursor[t])]))
        BY <1>8, <3>1 DEF Resend
      <4> QED BY <4>1 DEF SendPacket
    <3>2. CASE ~Resendable(t, Slot(cursor[t]))
      BY <1>8, <3>2 DEF Resend
    <3> QED BY <3>1, <3>2
  <2> QED BY <2>1, <2>2
<1>9. CASE ResendDone(t)
  BY <1>9 DEF ResendDone, Slide
<1>10. CASE SendEof(t)
  BY <1>10 DEF SendEof, SendPacket
<1>11. CASE ExitProcess(t)
  BY <1>11 DEF ExitProcess
<1> QED
  BY <1>1, <1>2, <1>3, <1>4, <1>5, <1>6, <1>7, <1>8, <1>9, <1>10, <1>11 DEF ClientStep

(* A step of a sender thread keeps its own window sound.                   *)
LEMMA WindowStep ==
  ASSUME ClientTypeOK, NEW t \in Threads, WindowInv(t), ClientStep(t)
  PROVE  WindowInv(t)'
<1> USE ClientAssumption DEF Naming, windowVars, At
<1>1. CASE StartThread(t)
  BY <1>1 DEF StartThread, Goto, WindowInv, Outstanding, ClientTypeOK
<1>2. CASE SendFilename(t)
  BY <1>2 DEF SendFilename, Goto, WindowInv, Outstanding, ClientTypeOK
<1>3. CASE RecvFilenameAck(t)
  BY <1>3 DEF RecvFilenameAck, RetryFilename, Goto, WindowInv, Outstanding, ClientTypeOK
<1>4. CASE FilenameTimeout(t)
  BY <1>4 DEF FilenameTimeout, RetryFilename, Goto, WindowInv, Outstanding, ClientTypeOK
<1>5. CASE SendData(t)
  <2>1. /\ next_sn[t] \in 1..NumPackets
        /\ next_sn'[t] = next_sn[t] + 1
        /\ next_sn[t] < base_sn[t] + WinSize
        /\ pc[t] = "window"
    BY <1>5 DEF SendData, CanSend, Feof, ClientTypeOK
  <2>2. UNCHANGED <<pc, base_sn, acked, cursor>>
    BY <1>5 DEF SendData
  <2>3. ASSUME NEW n \in Outstanding(t)'
        PROVE  window'[t][Slot(n)] = n
    <3>1. CASE n = next_sn[t]
      BY <1>5, <2>1, <3>1, SlotType DEF SendData, ClientTypeOK
    <3>2. CASE n # next_sn[t]
      <4>1. n \in Outstanding(t) /\ n < next_sn[t] /\ next_sn[t] < n + WinSize /\ n \in Nat
        <5>1. base_sn[t] \in Nat /\ next_sn[t] \in Nat /\ base_sn'[t] = base_sn[t]
          BY <2>2 DEF ClientTypeOK
        <5>2. n \in base_sn[t]..next_sn[t]
          BY <2>1, <2>3, <5>1 DEF Outstanding
        <5> QED BY <2>1, <3>2, <5>1, <5>2 DEF Outstanding
      <4>2. Slot(n) # Slot(next_sn[t])
        BY <2>1, <4>1, SlotsDistinct
      <4>3. window'[t][Slot(n)] = window[t][Slot(n)]
        BY <1>5, <4>1, <4>2, SlotType DEF SendData, ClientTypeOK
      <4> QED BY <4>1, <4>3 DEF WindowInv
    <3> QED BY <3>1, <3>2
  <2>4. \A i \in Slots : acked'[t][i] => \E n \in Outstanding(t)' : i = Slot(n)
    BY <2>1, <2>2 DEF WindowInv, Outstanding, ClientTypeOK
  <2>5. base_sn'[t] <= next_sn'[t] /\ next_sn'[t] <= base_sn'[t] + WinSize
    BY <2>1, <2>2 DEF WindowInv, ClientTypeOK
  <2> QED BY <2>1, <2>2, <2>3, <2>4, <2>5 DEF WindowInv
<1>6. CASE RecvAck(t)
  <2> DEFINE ack == Head(toClient[t])
             fresh == NewAck(t, ack)
             nowAcked == [i \in Slots |-> acked[t][i] \/ (fresh /\ i = Slot(ack))]
             nowRetries == [i \in Slots |->
                             IF fresh /\ i = Slot(ack) THEN 0 ELSE retries[t][i]]
  <2>1. Slide(t, nowAcked, nowRetries)
    BY <1>6 DEF RecvAck
  <2>2. nowAcked \in [Slots -> BOOLEAN] /\ nowRetries \in [Slots -> 0..MaxRetries]
    BY DEF ClientTypeOK
  <2>3. \A i \in Slots : nowAcked[i] => \E n \in Outstanding(t) : i = Slot(n)
    BY DEF NewAck, WindowInv, Outstanding
  <2>4. UNCHANGED <<pc, next_sn, window, cursor>> /\ pc[t] = "window"
    BY <1>6 DEF RecvAck, Waiting
  <2> HIDE DEF nowAcked, nowRetries
  <2>5. /\ base_sn'[t] <= next_sn'[t]
        /\ next_sn'[t] <= base_sn'[t] + WinSize
        /\ \A n \in Outstanding(t)' : window'[t][Slot(n)] = n
        /\ \A i \in Slots : acked'[t][i] => \E n \in Outstanding(t)' : i = Slot(n)
    BY <2>1, <2>2, <2>3, <2>4, SlideWindow
  <2> QED BY <2>4, <2>5 DEF WindowInv
<1>7. CASE SelectTimeout(t)
  BY <1>7 DEF SelectTimeout, Waiting, Goto, WindowInv, Outstanding, ClientTypeOK
<1>8. CASE Resend(t)
  <2>1. UNCHANGED <<pc, base_sn, next_sn, window, acked>>
    BY <1>8 DEF Resend
  <2>2. cursor'[t] \in base_sn[t]..next_sn[t]
    BY <1>8 DEF Resend, WindowInv, ClientTypeOK
  <2> QED BY <1>8, <2>1, <2>2 DEF Resend, WindowInv, Outstanding
<1>9. CASE ResendDone(t)
  <2>1. /\ base_sn'[t] <= next_sn'[t]
        /\ next_sn'[t] <= base_sn'[t] + WinSize
        /\ \A n \in Outstanding(t)' : window'[t][Slot(n)] = n
        /\ \A i \in Slots : acked'[t][i] => \E n \in Outstanding(t)' : i = Slot(n)
    <3>1. acked[t] \in [Slots -> BOOLEAN] /\ retries[t] \in [Slots -> 0..MaxRetries]
      BY DEF ClientTypeOK
    <3>2. \A i \in Slots : acked[t][i] => \E n \in Outstanding(t) : i = Slot(n)
      BY DEF WindowInv
    <3>3. Slide(t, acked[t], retries[t]) /\ UNCHANGED <<next_sn, window>>
      BY <1>9 DEF ResendDone
    <3> QED BY <3>1, <3>2, <3>3, SlideWindow
  <2>2. pc'[t] = "window"
    BY <1>9 DEF ResendDone, Goto, ClientTypeOK
  <2> QED BY <2>1, <2>2 DEF WindowInv
<1>10. CASE SendEof(t)
  <2>1. base_sn[t] = NumPackets + 1
    BY <1>10 DEF SendEof, Unfinished, Feof, WindowInv, ClientTypeOK
  <2> QED BY <1>10, <2>1 DEF SendEof, Goto, WindowInv, Outstanding, ClientTypeOK
<1>11. CASE ExitProcess(t)
  BY <1>11 DEF ExitProcess, WindowInv, Outstanding
<1> QED
  BY <1>1, <1>2, <1>3, <1>4, <1>5, <1>6, <1>7, <1>8, <1>9, <1>10, <1>11 DEF ClientStep

(* A process that runs again starts with sound windows.                    *)
LEMMA WindowRunAgain ==
  ASSUME ClientTypeOK, NEW p \in Processes, RunAgain(p), NEW t \in Threads, WindowInv(t)
  PROVE  WindowInv(t)'
<1>1. CASE ProcOf[t] = p
  BY <1>1, ClientAssumption DEF RunAgain, WindowInv, Outstanding, Naming, Slots
<1>2. CASE ProcOf[t] # p
  BY <1>2, WindowFrame DEF RunAgain, WindowVarsAt
<1> QED BY <1>1, <1>2

WindowInvs == \A t \in Threads : WindowInv(t)

(* Every step, of every specification, keeps all windows sound.            *)
LEMMA WindowNext ==
  ASSUME TypeOK, WindowInvs, [Next \/ DisorderStep \/ RestartStep \/ RunAgainStep]_vars
  PROVE  WindowInvs'
<1>1. ASSUME UNCHANGED clientVars
      PROVE  WindowInvs'
  BY <1>1, WindowFrame DEF WindowInvs, clientVars, WindowVarsAt
<1>2. ASSUME NEW t \in Threads, Thread(t)
      PROVE  WindowInvs'
  <2> SUFFICES ASSUME NEW u \in Threads
               PROVE  WindowInv(u)'
    BY DEF WindowInvs
  <2>1. CASE u = t
    BY <1>2, <2>1, WindowStep DEF Thread, WindowInvs, TypeOK
  <2>2. CASE u # t
    BY <1>2, <2>2, OtherThreads, WindowFrame DEF Thread, WindowInvs, TypeOK
  <2> QED BY <2>1, <2>2
<1>3. CASE RunAgainStep
  BY <1>3, WindowRunAgain DEF RunAgainStep, WindowInvs, TypeOK
<1> QED BY <1>1, <1>2, <1>3 DEF Next, Server, Loss, DisorderStep, RestartStep, vars

(* The windows are sound initially.                                        *)
LEMMA WindowInit == Init => WindowInvs
<1> SUFFICES ASSUME Init, NEW t \in Threads
             PROVE  WindowInv(t)
  BY DEF WindowInvs
<1>1. base_sn[t] = 1 /\ next_sn[t] = 1 /\ pc[t] = "new"
  BY DEF Init, ClientInit
<1>2. \A i \in Slots : ~acked[t][i]
  BY DEF Init, ClientInit
<1> QED BY <1>1, <1>2, ClientAssumption DEF WindowInv, Outstanding, Naming

(* The windows stay sound.                                                 *)
LEMMA WindowInvsHold == SpecAll => []WindowInvs
<1>1. TypeOK /\ WindowInvs /\ [Next \/ DisorderStep \/ RestartStep \/ RunAgainStep]_vars
        => WindowInvs'
  BY WindowNext
<1> QED BY <1>1, WindowInit, TypeCorrect, PTL DEF SpecAll

(* The window arithmetic of send_file_to_server is right for every         *)
(* win_size, file length and schedule, whatever acks arrive and in which   *)
(* order: a retransmission sends the packet of its number, and a new       *)
(* packet never inherits an old ack.                                       *)
THEOREM WindowCorrect == SpecAll => []WindowSound
<1>1. WindowInvs => WindowSound
  BY DEF WindowInvs, WindowInv, WindowSound
<1> QED BY <1>1, WindowInvsHold, PTL
=============================================================================
