-------------------------- MODULE Lab4ResultProofs --------------------------
(***************************************************************************)
(* What follows from the inductive invariant of Lab4Proofs:                *)
(*   - output files only grow, and exit(0) means that one is complete;     *)
(*   - lab4 implements the reliable transfer of FileTransfer: a step of a  *)
(*     server writes the next blocks of one file or nothing, sending the   *)
(*     EOF packet completes a transfer whose copy is whole, and an exit    *)
(*     stops the other threads of its process;                             *)
(*   - no server stays in its writing loop, if its fopens succeed;         *)
(*   - of clients that name the same file, the last one to open it leaves  *)
(*     its own file.                                                       *)
(* And, by invariants of their own, what holds on a path that reorders,    *)
(* with servers that are killed: files are in order, and a transfer that   *)
(* none of the two events of Lab4Faults met succeeds.                      *)
(***************************************************************************)
EXTENDS Lab4Proofs, Lab4Files, Lab4Faults

(* expected_seq never goes back: a filename packet sets it to 1 only when  *)
(* it is 1 (NamesFirst).                                                   *)
LEMMA ExpectedGrows ==
  ASSUME IInv, IInv', [Next]_vars, NEW t \in Threads
  PROVE  expected_seq'[t] >= expected_seq[t]
<1>1. expected_seq[t] \in Nat /\ expected_seq[t] >= 1 /\ expected_seq'[t] \in Nat /\ expected_seq'[t] >= 1
  BY ServerAssumption DEF IInv, TypeOK, ServerTypeOK
<1>2. ASSUME NEW u \in Threads, Server(u)
      PROVE  expected_seq'[t] >= expected_seq[t]
  <2>0. expected_seq \in [Threads -> 1..MaxSeqNum]
    BY DEF IInv, TypeOK, ServerTypeOK
  <2>1. CASE ReceiveFilename(u)
    <3>1. u = t => expected_seq[t] = 1
      <4>1. toServer[u] # <<>> /\ HeadSeq(u) = 0
        BY <2>1 DEF ReceiveFilename, Arrives
      <4>2. toServer[u] \in Seq([seq : -1..NumPackets, run : 1..MaxRuns])
        BY DEF IInv, TypeOK, UdpTypeOK
      <4>3. 1 \in InFlight(u) /\ SeqAt(u, 1) = 0
        BY <4>1, <4>2 DEF InFlight, SeqAt, HeadSeq
      <4> QED BY <4>3 DEF IInv, ThreadInv, NamesFirst
    <3>2. u # t => expected_seq'[t] = expected_seq[t]
      BY <2>0, <2>1 DEF ReceiveFilename, StoreWriteAck
    <3> QED BY <1>1, <3>1, <3>2
  <2>2. CASE ReceiveData(u)
    <3>1. \/ UNCHANGED expected_seq
          \/ \E e \in expected_seq[u]..MaxSeqNum : expected_seq' = [expected_seq EXCEPT ![u] = e]
      BY <2>2 DEF ReceiveData, StoreWriteAck
    <3> QED BY <1>1, <2>0, <3>1, ServerAssumption
  <2>3. CASE RefuseClient(u) \/ ReceiveEof(u) \/ ReceiveOutOfRange(u)
    BY <1>1, <2>3 DEF RefuseClient, ReceiveEof, ReceiveOutOfRange, serverVars
  <2> QED BY <1>2, <2>1, <2>2, <2>3 DEF Server, ServerReceive
<1>3. ASSUME NEW u \in Threads, Thread(u) \/ Loss(u)
      PROVE  expected_seq'[t] >= expected_seq[t]
  BY <1>1, <1>3 DEF Thread, Loss, DropData, serverVars
<1>4. CASE UNCHANGED vars
  BY <1>1, <1>4 DEF vars, serverVars
<1> QED BY <1>2, <1>3, <1>4 DEF Next

(* No step takes blocks out of an output file: fopen with "wb" only meets  *)
(* an empty one, although the name may be sent several times.              *)
THEOREM NeverTruncatedCorrect == Spec => NeverTruncated
<1>1. ASSUME IInv, IInv', [Next]_vars, NEW t \in Threads
      PROVE  /\ Len(disk[t]) <= Len(disk'[t])
             /\ \A i \in 1..Len(disk[t]) : disk'[t][i] = disk[t][i]
  <2>1. /\ expected_seq[t] \in Int /\ expected_seq[t] - 1 \in Nat
        /\ expected_seq'[t] \in Int /\ expected_seq'[t] - 1 \in Nat
    BY <1>1, ServerAssumption DEF IInv, TypeOK, ServerTypeOK
  <2>2. disk[t] = Blocks(1, expected_seq[t] - 1) /\ disk'[t] = Blocks(1, expected_seq'[t] - 1)
    BY <1>1 DEF IInv, ThreadInv, ServerInv, Blocks
  <2>3. Len(disk[t]) = expected_seq[t] - 1 /\ Len(disk'[t]) = expected_seq'[t] - 1
    BY <2>1, <2>2 DEF Blocks
  <2>4. expected_seq'[t] >= expected_seq[t]
    BY <1>1, ExpectedGrows
  <2>5. \A i \in 1..(expected_seq[t] - 1) : disk[t][i] = <<1, i>>
    BY <2>1, <2>2 DEF Blocks
  <2>6. \A i \in 1..(expected_seq'[t] - 1) : disk'[t][i] = <<1, i>>
    BY <2>1, <2>2 DEF Blocks
  <2>7. Len(disk[t]) <= Len(disk'[t])
    BY <2>1, <2>3, <2>4
  <2>8. ASSUME NEW i \in 1..Len(disk[t])
        PROVE  disk'[t][i] = disk[t][i]
    <3>1. i \in 1..(expected_seq[t] - 1)
      BY <2>3
    <3>2. i \in 1..(expected_seq'[t] - 1)
      BY <2>1, <2>4, <3>1
    <3> QED BY <2>5, <2>6, <3>1, <3>2
  <2> QED BY <2>7, <2>8
<1>2. IInv /\ IInv' /\ [Next]_vars => [\A t \in Threads :
         /\ Len(disk[t]) <= Len(disk'[t])
         /\ \A i \in 1..Len(disk[t]) : disk'[t][i] = disk[t][i]]_disk
  BY <1>1
<1> QED BY <1>2, InvariantHolds, PTL DEF Spec, NeverTruncated

(* A process that exited with status 0 has a thread that sent EOF.         *)
ExitedByThread == \A p \in Processes : exit_status[p] = 0 =>
    \E t \in Threads : ProcOf[t] = p /\ pc[t] = "exit"

(* Only ExitProcess exits with 0, and a thread that is there stays there.  *)
LEMMA ExitedByThreadHolds == Spec => []ExitedByThread
<1>1. Init => ExitedByThread
  BY DEF Init, ClientInit, Running, ExitedByThread
<1>2. ASSUME TypeOK, ExitedByThread, [Next]_vars
      PROVE  ExitedByThread'
  <2>1. /\ pc \in [Threads -> {"new", "name", "nameWait", "window", "resend", "exit"}]
        /\ exit_status \in [Processes -> {Running, 0, 1, 3, 4}]
    BY <1>2 DEF TypeOK, ClientTypeOK
  <2>2. ASSUME NEW u \in Threads, Thread(u)
        PROVE  /\ \A t \in Threads : pc[t] = "exit" => pc'[t] = "exit"
               /\ \A p \in Processes : exit_status'[p] = 0 =>
                     exit_status[p] = 0 \/ (ProcOf[u] = p /\ pc[u] = "exit")
    <3>1. \/ UNCHANGED pc
          \/ pc[u] # "exit" /\ \E l : pc' = [pc EXCEPT ![u] = l]
          \/ SendEof(u)
      BY <2>2 DEF Thread, ClientStep, At, Goto, StartThread, SendFilename, RecvFilenameAck,
         FilenameTimeout, RetryFilename, SendData, RecvAck, SelectTimeout, Waiting, Resend,
         ResendDone, ExitProcess
    <3>2. \A t \in Threads : pc[t] = "exit" => pc'[t] = "exit"
      BY <2>1, <3>1 DEF SendEof, Goto
    <3>3. \/ UNCHANGED exit_status
          \/ \E v \in {1, 3, 4} : exit_status' = [exit_status EXCEPT ![ProcOf[u]] = v]
          \/ pc[u] = "exit" /\ exit_status' = [exit_status EXCEPT ![ProcOf[u]] = 0]
      BY <2>2 DEF Thread, ClientStep, At, Exit, StartThread, SendFilename, RecvFilenameAck,
         FilenameTimeout, RetryFilename, SendData, RecvAck, SelectTimeout, Resend,
         ResendDone, SendEof, ExitProcess
    <3>4. \A p \in Processes : exit_status'[p] = 0 =>
            exit_status[p] = 0 \/ (ProcOf[u] = p /\ pc[u] = "exit")
      <4> SUFFICES ASSUME NEW p \in Processes, exit_status'[p] = 0, exit_status[p] # 0
                   PROVE  ProcOf[u] = p /\ pc[u] = "exit"
        OBVIOUS
      <4>1. ~UNCHANGED exit_status
        OBVIOUS
      <4>2. ASSUME NEW v, exit_status' = [exit_status EXCEPT ![ProcOf[u]] = v]
            PROVE  ProcOf[u] = p /\ v = 0
        BY <2>1, <4>2
      <4> QED BY <3>3, <4>1, <4>2
    <3> QED BY <3>2, <3>4
  <2>3. CASE UNCHANGED clientVars
    BY <1>2, <2>3 DEF ExitedByThread, clientVars
  <2>4. CASE \E u \in Threads : Thread(u)
    BY <1>2, <2>2, <2>4 DEF ExitedByThread
  <2> QED BY <1>2, <2>3, <2>4 DEF Next, vars, Server, Loss
<1>3. Spec => []TypeOK
  <2>1. IInv => TypeOK
    BY DEF IInv
  <2> QED BY <2>1, InvariantHolds, PTL
<1> QED BY <1>1, <1>2, <1>3, PTL DEF Spec

(* exit(0) of a process with any number of replicas and threads: at least  *)
(* one replica has the whole file.                                         *)
THEOREM ExitZeroCorrect == Spec => []ExitZeroMeansOneReplica
<1>1. Delivered /\ ExitedByThread => ExitZeroMeansOneReplica
  BY DEF Delivered, ExitedByThread, ExitZeroMeansOneReplica
<1> QED BY <1>1, DeliveredCorrect, ExitedByThreadHolds, PTL

-----------------------------------------------------------------------------
(* What Promise's File stands for. *)
TheFile == [t \in Threads |-> Blocks(1, NumPackets)]

(* Its length and its initial parts. *)
LEMMA FileBlocks ==
  ASSUME NEW t \in Threads
  PROVE  /\ Len(TheFile[t]) = NumPackets
         /\ \A n \in 0..NumPackets : Promise!Prefix(t, n) = Blocks(1, n)
<1>1. NumPackets \in Nat /\ TheFile[t] = Blocks(1, NumPackets)
  BY ClientAssumption DEF TheFile
<1>2. Len(TheFile[t]) = NumPackets
  BY <1>1 DEF Blocks
<1>3. ASSUME NEW n \in 0..NumPackets
      PROVE  Promise!Prefix(t, n) = Blocks(1, n)
  <2>1. Promise!Prefix(t, n) = [i \in 1..n |-> TheFile[t][i]]
    BY DEF Promise!Prefix, TheFile
  <2>2. \A i \in 1..n : TheFile[t][i] = <<1, i>>
    BY <1>1, <1>3 DEF Blocks
  <2> QED BY <2>1, <2>2 DEF Blocks
<1> QED BY <1>2, <1>3

(* Every output file is an initial part of the input, of the length       *)
(* expected_seq says.                                                      *)
LEMMA FilesInOrder ==
  ASSUME IInv, NEW t \in Threads
  PROVE  /\ disk[t] = Blocks(1, expected_seq[t] - 1)
         /\ expected_seq[t] \in Int
         /\ expected_seq[t] - 1 \in 0..NumPackets
<1>1. disk[t] = Blocks(1, expected_seq[t] - 1) /\ expected_seq[t] <= next_sn[t]
  BY DEF IInv, ThreadInv, ServerInv
<1>2. expected_seq[t] \in 1..MaxSeqNum /\ next_sn[t] \in 1..(NumPackets + 1)
  BY DEF IInv, TypeOK, ServerTypeOK, ClientTypeOK
<1> QED BY <1>1, <1>2, ClientAssumption, ServerAssumption

(* A server's datagram writes blocks of its sender's file, or nothing.     *)
LEMMA ServerWrites ==
  ASSUME IInv, IInv', [Next]_vars, NEW u \in Threads, Server(u), disk' # disk
  PROVE  Promise!Write(u)
<1>1. /\ disk \in [Threads -> Seq(Nat \X SeqNums)]
      /\ disk' \in [Threads -> Seq(Nat \X SeqNums)]
  BY DEF IInv, TypeOK, ServerTypeOK
<1>2. disk' = [disk EXCEPT ![u] = disk'[u]]
  <2>1. \A t \in Threads \ {u} : disk'[t] = disk[t]
    BY <1>1 DEF Server, ServerReceive, RefuseClient, ReceiveEof, ReceiveOutOfRange,
       ReceiveFilename, ReceiveData, StoreWriteAck, serverVars
  <2> QED BY <1>1, <2>1
<1>3. disk'[u] # disk[u]
  BY <1>1, <1>2
<1>4. expected_seq'[u] # expected_seq[u]
  <2>1. disk'[u] = Blocks(1, expected_seq'[u] - 1)
    BY FilesInOrder DEF IInv, ThreadInv, ServerInv, Blocks
  <2> QED BY <1>3, <2>1, FilesInOrder
<1> DEFINE n == expected_seq'[u] - 1
<1>5. /\ disk'[u] = Blocks(1, n)
      /\ expected_seq'[u] \in Int
      /\ n \in 0..NumPackets
  <2>1. disk'[u] = Blocks(1, n) /\ expected_seq'[u] <= next_sn'[u]
    BY DEF IInv, ThreadInv, ServerInv, Blocks
  <2>2. expected_seq'[u] \in 1..MaxSeqNum /\ next_sn'[u] \in 1..(NumPackets + 1)
    BY DEF IInv, TypeOK, ServerTypeOK, ClientTypeOK
  <2> QED BY <2>1, <2>2, ClientAssumption, ServerAssumption
<1>6. Len(disk[u]) = expected_seq[u] - 1
  <2>1. disk[u] = Blocks(1, expected_seq[u] - 1) /\ expected_seq[u] - 1 \in Nat
    BY FilesInOrder, ClientAssumption
  <2> QED BY <2>1 DEF Blocks
<1>7. n \in (Len(disk[u]) + 1)..Len(TheFile[u])
  BY <1>4, <1>5, <1>6, ExpectedGrows, FilesInOrder, FileBlocks, ClientAssumption
<1>8. disk' = [disk EXCEPT ![u] = Promise!Prefix(u, n)]
  BY <1>2, <1>5, FileBlocks
<1>9. TransferStatus' = TransferStatus
  BY DEF Server, clientVars, TransferStatus
<1> QED BY <1>7, <1>8, <1>9 DEF Promise!Write, TheFile

(* A client step completes one transfer, stops those of one process, or    *)
(* does neither.                                                           *)
LEMMA ClientReports ==
  ASSUME IInv, IInv', NEW u \in Threads, Thread(u)
  PROVE  UNCHANGED TransferStatus \/ Promise!Complete(u) \/ \E S \in SUBSET Threads : Promise!Stop(S)
<1>1. /\ pc \in [Threads -> {"new", "name", "nameWait", "window", "resend", "exit"}]
      /\ exit_status \in [Processes -> {Running, 0, 1, 3, 4}]
      /\ ProcOf[u] \in Processes
  BY ClientAssumption DEF IInv, TypeOK, ClientTypeOK
<1>2. UNCHANGED disk
  BY DEF Thread, serverVars
<1>3. CASE SendEof(u)
  <2>1. /\ pc[u] = "window" /\ exit_status[ProcOf[u]] = Running
        /\ pc' = [pc EXCEPT ![u] = "exit"] /\ exit_status' = exit_status
    BY <1>3 DEF SendEof, At, Goto
  <2>2. TransferStatus[u] = "running"
    BY <2>1 DEF TransferStatus
  <2>3. TransferStatus' = [TransferStatus EXCEPT ![u] = "complete"]
    BY <1>1, <2>1 DEF TransferStatus
  <2>4. disk[u] = Promise!Prefix(u, Len(TheFile[u]))
    <3>1. base_sn[u] = NumPackets + 1
      BY <1>3, ClientAssumption DEF SendEof, Unfinished, Feof, IInv, TypeOK, ClientTypeOK
    <3>2. run[ProcOf[u]] = 1
      BY <1>1 DEF IInv
    <3>3. disk[u] = Blocks(1, NumPackets)
      BY <3>1, <3>2, AllPassed DEF WholeFile
    <3> QED BY <3>3, FileBlocks, ClientAssumption
  <2> QED BY <1>2, <2>2, <2>3, <2>4 DEF Promise!Complete, TheFile
<1>4. CASE ~SendEof(u) /\ exit_status' = exit_status
  <2>1. \/ UNCHANGED pc
        \/ /\ pc[u] # "exit"
           /\ \E l \in {"new", "name", "nameWait", "window", "resend"} : pc' = [pc EXCEPT ![u] = l]
    BY <1>4 DEF Thread, ClientStep, At, Goto, StartThread, SendFilename, RecvFilenameAck,
       FilenameTimeout, RetryFilename, SendData, RecvAck, SelectTimeout, Waiting, Resend,
       ResendDone, ExitProcess
  <2>2. \A t \in Threads : pc'[t] = "exit" <=> pc[t] = "exit"
    BY <1>1, <2>1
  <2> QED BY <1>4, <2>2 DEF TransferStatus
<1>5. CASE exit_status' # exit_status
  <2>1. exit_status[ProcOf[u]] = Running
    BY DEF Thread, ClientStep, At, StartThread, SendFilename, RecvFilenameAck,
       FilenameTimeout, RetryFilename, SendData, RecvAck, SelectTimeout, Waiting, Resend,
       ResendDone, SendEof, ExitProcess
  <2>2. /\ UNCHANGED pc
        /\ \E v \in {0, 1, 3, 4} : exit_status' = [exit_status EXCEPT ![ProcOf[u]] = v]
    BY <1>5 DEF Thread, ClientStep, Exit, StartThread, SendFilename, RecvFilenameAck,
       FilenameTimeout, RetryFilename, SendData, RecvAck, SelectTimeout, Resend,
       ResendDone, SendEof, ExitProcess
  <2>3. exit_status'[ProcOf[u]] # Running
    BY <1>1, <2>2 DEF Running
  <2>4. \A p \in Processes : p # ProcOf[u] => exit_status'[p] = exit_status[p]
    BY <1>1, <2>2
  <2> DEFINE S == {t \in Threads : ProcOf[t] = ProcOf[u] /\ pc[t] # "exit"}
  <2>5. \A t \in S : TransferStatus[t] = "running"
    BY <2>1 DEF TransferStatus
  <2>6. TransferStatus' = [t \in Threads |-> IF t \in S THEN "stopped" ELSE TransferStatus[t]]
    BY <2>2, <2>3, <2>4, ClientAssumption DEF TransferStatus
  <2> QED BY <1>2, <2>5, <2>6 DEF Promise!Stop
<1> QED BY <1>3, <1>4, <1>5

(* Every step is a step of the reliable transfer or changes nothing of it. *)
LEMMA StepRefines ==
  ASSUME IInv, IInv', [Next]_vars
  PROVE  [Promise!Next]_<<disk, TransferStatus>>
<1>1. ASSUME NEW u \in Threads, Thread(u)
      PROVE  [Promise!Next]_<<disk, TransferStatus>>
  <2>1. UNCHANGED disk
    BY <1>1 DEF Thread, serverVars
  <2> QED BY <1>1, <2>1, ClientReports DEF Promise!Next
<1>2. ASSUME NEW u \in Threads, Server(u)
      PROVE  [Promise!Next]_<<disk, TransferStatus>>
  <2>1. UNCHANGED TransferStatus
    BY <1>2 DEF Server, clientVars, TransferStatus
  <2> QED BY <1>2, <2>1, ServerWrites DEF Promise!Next
<1>3. ASSUME NEW u \in Threads, Loss(u)
      PROVE  UNCHANGED <<disk, TransferStatus>>
  BY <1>3 DEF Loss, DropData, LoseAck, clientVars, serverVars, TransferStatus
<1>4. CASE UNCHANGED vars
  BY <1>4 DEF vars, clientVars, serverVars, TransferStatus
<1> QED BY <1>1, <1>2, <1>3, <1>4 DEF Next

(* The initial states map to its initial state. *)
LEMMA InitRefines == Init => Promise!Init
  BY ClientAssumption DEF Running, Init, ClientInit, ServerInit, TransferStatus, Promise!Init

(* Spec implements the reliable transfer, for all files, windows, numbers  *)
(* of threads, processes, servers, losses and retries.                     *)
THEOREM PromiseKept == Spec => ImplementsPromise
<1>1. IInv /\ IInv' /\ [Next]_vars => [Promise!Next]_<<disk, TransferStatus>>
  BY StepRefines
<1> QED BY <1>1, InitRefines, InvariantHolds, PTL DEF Spec, ImplementsPromise, Promise!Spec

-----------------------------------------------------------------------------
(* What a client step puts on the path is a packet of its run.             *)
LEMMA ClientSends ==
  ASSUME \A p \in Processes : run[p] = 1, NEW t \in Threads, ClientStep(t)
  PROVE  \/ UNCHANGED toServer
         \/ \E p : p.run = 1 /\ SendPacket(t, p)
<1>1. \A n : Packet(t, n).run = 1
  BY ClientAssumption DEF Packet
<1>2. CASE SendFilename(t)
  BY <1>1, <1>2 DEF SendFilename
<1>3. CASE SendData(t)
  BY <1>1, <1>3 DEF SendData
<1>4. CASE Resend(t)
  BY <1>1, <1>4 DEF Resend, netVars
<1>5. CASE SendEof(t)
  BY <1>1, <1>5 DEF SendEof
<1>6. CASE \/ StartThread(t) \/ RecvFilenameAck(t) \/ FilenameTimeout(t) \/ RecvAck(t)
           \/ SelectTimeout(t) \/ ResendDone(t) \/ ExitProcess(t)
  BY <1>6 DEF StartThread, RecvFilenameAck, FilenameTimeout, RecvAck, SelectTimeout,
     ResendDone, ExitProcess, TakeAck, netVars
<1> QED BY <1>2, <1>3, <1>4, <1>5, <1>6 DEF ClientStep

(* A step of a thread keeps every HostileInv.                              *)
LEMMA ClientHostile ==
  ASSUME TypeOK, HostileIInv, NEW t \in Threads, Thread(t), NEW u \in Threads
  PROVE  HostileInv(u)'
<1>1. UNCHANGED <<received[u], buffer[u], file_open[u], disk[u], expected_seq[u]>>
  BY DEF Thread, serverVars
<1>2. \A k \in InFlight(u)' : toServer'[u][k].run = 1
  <2> DEFINE q == toServer[u]
  <2>1. q \in Seq(Packets) /\ \A k \in 1..Len(q) : q[k].run = 1
    BY DEF TypeOK, UdpTypeOK, Packets, HostileIInv, HostileInv, InFlight
  <2>2. CASE UNCHANGED toServer
    BY <2>1, <2>2 DEF InFlight
  <2>3. ASSUME NEW p, p.run = 1, SendPacket(t, p)
        PROVE  \A k \in InFlight(u)' : toServer'[u][k].run = 1
    <3>1. toServer'[u] = q \/ toServer'[u] = Append(q, p)
      BY <2>3 DEF SendPacket, TypeOK, UdpTypeOK
    <3>2. /\ Len(Append(q, p)) = Len(q) + 1 /\ Len(q) \in Nat
          /\ \A k \in 1..Len(q) : Append(q, p)[k] = q[k]
          /\ Append(q, p)[Len(q) + 1] = p
      BY <2>1
    <3>3. \A k \in 1..(Len(q) + 1) : Append(q, p)[k].run = 1
      <4> SUFFICES ASSUME NEW k \in 1..(Len(q) + 1)
                   PROVE  Append(q, p)[k].run = 1
        OBVIOUS
      <4>1. k \in 1..Len(q) \/ k = Len(q) + 1
        BY <3>2
      <4> QED BY <2>1, <2>3, <3>2, <4>1
    <3> QED BY <2>1, <3>1, <3>2, <3>3 DEF InFlight
  <2> QED BY <2>2, <2>3, ClientSends DEF HostileIInv, Thread
<1> QED BY <1>1, <1>2 DEF HostileIInv, HostileInv

(* A datagram that is handled keeps HostileInv of its sender, be it an old *)
(* name that opens the file once more, or data for a server that restarted.*)
LEMMA ServerHostile ==
  ASSUME TypeOK, NEW t \in Threads, HostileInv(t), ServerReceive(t)
  PROVE  HostileInv(t)'
<1>1. toServer[t] # <<>> /\ \E acks : TakePacket(t, acks)
  BY DEF ServerReceive, RefuseClient, ReceiveEof, ReceiveOutOfRange, ReceiveFilename,
     ReceiveData, StoreWriteAck, Arrives
<1>2. /\ Head(toServer[t]).run = 1
      /\ \A k \in InFlight(t)' : toServer'[t][k].run = 1
  <2>1. toServer[t] \in Seq(Packets) /\ \A k \in 1..Len(toServer[t]) : toServer[t][k].run = 1
    BY DEF TypeOK, UdpTypeOK, Packets, HostileInv, InFlight
  <2>2. toServer'[t] = Tail(toServer[t])
    BY <1>1, TakeTakes
  <2> QED BY <1>1, <2>1, <2>2, TailElements DEF InFlight
<1>3. /\ expected_seq[t] \in 1..MaxSeqNum /\ 1 \in 1..MaxSeqNum
      /\ \A n \in received[t] : buffer[t][n] = 1
      /\ file_open[t] => disk[t] = Blocks(1, expected_seq[t] - 1)
  BY ServerAssumption DEF TypeOK, ServerTypeOK, HostileInv
<1>4. CASE RefuseClient(t) \/ ReceiveOutOfRange(t)
  BY <1>2, <1>3, <1>4 DEF RefuseClient, ReceiveOutOfRange, serverVars, HostileInv
<1>5. CASE ReceiveEof(t)
  BY <1>2, <1>3, <1>5 DEF ReceiveEof, TypeOK, ServerTypeOK, HostileInv
<1>6. CASE ReceiveFilename(t)
  <2>1. PICK opened \in FopenResults :
          /\ file_open' = [file_open EXCEPT ![t] = opened]
          /\ \/ opened /\ StoreWriteAck(t, 1, <<>>, TRUE, <<0>>)
             \/ ~opened /\ UNCHANGED <<expected_seq, received, buffer, disk, spinning>>
    BY <1>6 DEF ReceiveFilename
  <2>2. file_open'[t] = opened
    BY <2>1 DEF TypeOK, ServerTypeOK
  <2>3. HeadSeq(t) \in SeqNums
    BY <1>6, ServerAssumption DEF ReceiveFilename, SeqNums
  <2>4. Blocks(1, 1 - 1) = <<>>
    BY DEF Blocks
  <2>5. CASE StoreWriteAck(t, 1, <<>>, TRUE, <<0>>)
    BY <1>2, <1>3, <2>3, <2>4, <2>5, StoreInOrder DEF HostileInv
  <2>6. CASE ~opened /\ UNCHANGED <<expected_seq, received, buffer, disk, spinning>>
    BY <1>2, <1>3, <2>2, <2>6 DEF HostileInv
  <2> QED BY <2>1, <2>5, <2>6
<1>7. CASE ReceiveData(t)
  <2>1. HeadSeq(t) \in SeqNums /\ UNCHANGED file_open
    BY <1>7 DEF ReceiveData, SeqNums
  <2>2. StoreWriteAck(t, expected_seq[t], disk[t], file_open[t], <<>>)
    BY <1>7 DEF ReceiveData
  <2>3. /\ \A n \in received'[t] : buffer'[t][n] = 1
        /\ disk[t] = Blocks(1, expected_seq[t] - 1) => disk'[t] = Blocks(1, expected_seq'[t] - 1)
    BY <1>2, <1>3, <2>1, <2>2, StoreInOrder
  <2> QED BY <1>2, <1>3, <2>1, <2>3 DEF HostileInv
<1> QED BY <1>4, <1>5, <1>6, <1>7 DEF ServerReceive

(* HostileInv of a thread reads nothing but this.                          *)
LEMMA HostileFrame ==
  ASSUME NEW t \in Threads, HostileInv(t),
         UNCHANGED <<ServerVarsAt(t), file_open[t], toServer[t]>>
  PROVE  HostileInv(t)'
  BY DEF HostileInv, ServerVarsAt, InFlight

(* A datagram opens and closes the file of its sender only.                *)
LEMMA OtherFiles ==
  ASSUME TypeOK, NEW t \in Threads, ServerReceive(t), NEW u \in Threads, u # t
  PROVE  UNCHANGED file_open[u]
  BY DEF ServerReceive, RefuseClient, ReceiveEof, ReceiveOutOfRange, ReceiveFilename,
     ReceiveData, serverVars, TypeOK, ServerTypeOK

(* The invariant of the hostile path is inductive.                         *)
LEMMA HostileStep ==
  ASSUME TypeOK, HostileIInv, [Next \/ DisorderStep \/ RestartStep]_vars
  PROVE  HostileIInv'
<1>1. \A t \in Threads : HostileInv(t)
  BY DEF HostileIInv
<1>2. \A p \in Processes : run'[p] = 1
  BY RunUnchanged DEF HostileIInv, DisorderStep, RestartStep, clientVars, vars
<1>3. ASSUME NEW t \in Threads, Server(t), NEW u \in Threads
      PROVE  HostileInv(u)'
  <2>1. CASE u = t
    BY <1>1, <1>3, <2>1, ServerHostile DEF Server
  <2>2. CASE u # t
    <3>1. UNCHANGED file_open[u]
      BY <1>3, <2>2, OtherFiles DEF Server
    <3> QED BY <1>1, <1>3, <2>2, <3>1, OtherClients, HostileFrame DEF Server
  <2> QED BY <2>1, <2>2
<1>4. ASSUME NEW t \in Threads, Loss(t), NEW u \in Threads
      PROVE  HostileInv(u)'
  <2>1. UNCHANGED <<ServerVarsAt(u), file_open[u]>>
    BY <1>4 DEF Loss, DropData, serverVars, ServerVarsAt
  <2>2. toServer'[u] = toServer[u] \/ (toServer[u] # <<>> /\ toServer'[u] = Tail(toServer[u]))
    BY <1>4 DEF Loss, DropData, LoseAck, Arrives, TypeOK, UdpTypeOK
  <2>3. toServer[u] \in Seq(Packets) /\ \A k \in 1..Len(toServer[u]) : toServer[u][k].run = 1
    BY <1>1 DEF TypeOK, UdpTypeOK, Packets, HostileInv, InFlight
  <2>4. \A k \in InFlight(u)' : toServer'[u][k].run = 1
    <3>1. CASE toServer'[u] = toServer[u]
      BY <2>3, <3>1 DEF InFlight
    <3>2. CASE toServer[u] # <<>> /\ toServer'[u] = Tail(toServer[u])
      BY <2>3, <3>2, TailElements DEF InFlight
    <3> QED BY <2>2, <3>1, <3>2
  <2> QED BY <1>1, <2>1, <2>4 DEF HostileInv, ServerVarsAt
<1>5. ASSUME NEW t \in Threads, Reorder(t) \/ Duplicate(t), UNCHANGED serverVars, NEW u \in Threads
      PROVE  HostileInv(u)'
  <2>1. UdpTypeOK(Packets, 0..NumPackets)
    BY DEF TypeOK, Packets
  <2>2. \A k \in 1..Len(toServer'[u]) :
           \E j \in 1..Len(toServer[u]) : toServer'[u][k] = toServer[u][j]
    BY <1>5, <2>1, DisorderElements
  <2>3. \A k \in InFlight(u)' : toServer'[u][k].run = 1
    BY <1>1, <2>2 DEF HostileInv, InFlight
  <2> QED BY <1>1, <1>5, <2>3 DEF serverVars, HostileInv
<1>6. ASSUME NEW s \in Servers, Restart(s), NEW u \in Threads
      PROVE  HostileInv(u)'
  <2>1. UNCHANGED toServer[u] /\ UNCHANGED disk[u]
    BY <1>6 DEF Restart, netVars
  <2>2. CASE ServerOf[u] = s
    <3>1. received'[u] = {} /\ ~file_open'[u]
      BY <1>6, <2>2 DEF Restart
    <3> QED BY <1>1, <2>1, <3>1 DEF HostileInv, InFlight
  <2>3. CASE ServerOf[u] # s
    <3>1. UNCHANGED <<expected_seq[u], received[u], buffer[u], file_open[u]>>
      BY <1>6, <2>3 DEF Restart
    <3> QED BY <1>1, <2>1, <3>1, HostileFrame DEF ServerVarsAt
  <2> QED BY <2>2, <2>3
<1>7. ASSUME UNCHANGED vars, NEW u \in Threads
      PROVE  HostileInv(u)'
  BY <1>1, <1>7, HostileFrame DEF vars, serverVars, netVars, ServerVarsAt
<1>8. ASSUME NEW u \in Threads
      PROVE  HostileInv(u)'
  <2>1. CASE Next
    BY <1>3, <1>4, <2>1, ClientHostile DEF Next
  <2>2. CASE DisorderStep
    BY <1>5, <2>2 DEF DisorderStep
  <2>3. CASE RestartStep
    BY <1>6, <2>3 DEF RestartStep
  <2> QED BY <1>7, <2>1, <2>2, <2>3
<1>9. (\A p \in Processes : run'[p] = 1) /\ \A u \in Threads : HostileInv(u)'
  BY <1>2, <1>8
<1> QED BY <1>9 DEF HostileIInv

(* A hostile path is one of those that Lab4WindowProofs allows.            *)
LEMMA HostileIsAll == SpecHostile => SpecAll
<1>1. [Next \/ DisorderStep \/ RestartStep]_vars
        => [Next \/ DisorderStep \/ RestartStep \/ RunAgainStep]_vars
  OBVIOUS
<1> QED BY <1>1, PTL DEF SpecHostile, SpecAll

LEMMA HostileHolds == SpecHostile => []HostileIInv
<1>1. Init => HostileIInv
  <2> SUFFICES ASSUME Init, NEW t \in Threads
               PROVE  HostileInv(t)
    BY DEF HostileIInv, Init, ClientInit
  <2> QED BY DEF Init, ServerInit, UdpInit, HostileInv, InFlight
<1>2. TypeOK /\ HostileIInv /\ [Next \/ DisorderStep \/ RestartStep]_vars => HostileIInv'
  BY HostileStep
<1> QED BY <1>1, <1>2, HostileIsAll, TypeCorrect, PTL DEF SpecHostile

(* Whatever is lost, overtaken, doubled or forgotten in a restart, and     *)
(* however many clients and servers there are, an open output file holds   *)
(* an initial part of the input.                                           *)
THEOREM InOrderCorrect == SpecHostile => []InOrder
<1>1. HostileIInv => InOrder
  BY ClientAssumption DEF HostileIInv, HostileInv, InOrder
<1> QED BY <1>1, HostileHolds, PTL

-----------------------------------------------------------------------------
(* What is left of a queue has its EOF packet last, if it had.             *)
LEMMA TailEofLast ==
  ASSUME TypeOK, NEW t \in Threads, EofLast(t), toServer[t] # <<>>,
         toServer'[t] = Tail(toServer[t]), UNCHANGED pc[t]
  PROVE  EofLast(t)'
<1> DEFINE q == toServer[t]
<1>1. q \in Seq(Packets)
  BY DEF TypeOK, UdpTypeOK, Packets
<1>2. /\ Len(Tail(q)) = Len(q) - 1 /\ Len(q) \in Nat \ {0}
      /\ \A k \in 1..(Len(q) - 1) : Tail(q)[k] = q[k + 1] /\ k + 1 \in 1..Len(q)
  BY <1>1, TailElements
<1>3. \A k \in 1..Len(q) : q[k].seq = EofSeq => k = Len(q) /\ pc[t] = "exit"
  BY DEF EofLast, InFlight, SeqAt
<1> HIDE DEF q
<1>4. ASSUME NEW k \in 1..(Len(q) - 1), Tail(q)[k].seq = EofSeq
      PROVE  k = Len(q) - 1 /\ pc[t] = "exit"
  <2>1. k + 1 \in 1..Len(q) /\ q[k + 1].seq = EofSeq
    BY <1>2, <1>4
  <2>2. k + 1 = Len(q) /\ pc[t] = "exit"
    BY <1>3, <2>1
  <2>3. k \in Int /\ Len(q) \in Int
    BY <1>2
  <2> QED BY <2>2, <2>3
<1>5. toServer'[t] = Tail(q) /\ Len(toServer'[t]) = Len(q) - 1
  BY <1>2 DEF q
<1> QED BY <1>4, <1>5 DEF EofLast, InFlight, SeqAt

(* A packet that is sent is the EOF packet only as the last thing.         *)
LEMMA AppendEofLast ==
  ASSUME TypeOK, NEW t \in Threads, EofLast(t), pc[t] # "exit",
         NEW n \in -1..NumPackets, SendPacket(t, Packet(t, n)),
         n = EofSeq => pc'[t] = "exit"
  PROVE  EofLast(t)'
<1> DEFINE q == toServer[t]
           r == Append(q, Packet(t, n))
<1>1. q \in Seq(Packets) /\ Packet(t, n) \in Packets /\ Packet(t, n).seq = n
  BY PacketType DEF TypeOK, UdpTypeOK, Packets, Packet
<1>2. /\ Len(r) = Len(q) + 1 /\ Len(q) \in Nat
      /\ \A k \in 1..Len(q) : r[k] = q[k]
      /\ r[Len(q) + 1] = Packet(t, n)
  BY <1>1, AppendElements
<1>3. \A k \in 1..Len(q) : q[k].seq # EofSeq
  BY DEF EofLast, InFlight, SeqAt
<1>4. toServer'[t] = r
  BY DEF SendPacket, TypeOK, UdpTypeOK
<1> HIDE DEF q, r
<1>5. ASSUME NEW k \in 1..(Len(q) + 1), r[k].seq = EofSeq
      PROVE  k = Len(q) + 1 /\ pc'[t] = "exit"
  <2>1. k \in 1..Len(q) \/ k = Len(q) + 1
    BY <1>2
  <2> QED BY <1>1, <1>2, <1>3, <1>5, <2>1
<1> QED BY <1>2, <1>4, <1>5 DEF EofLast, InFlight, SeqAt

(* A thread's own step: its file stays open, or it still has no ack.       *)
LEMMA ClientServed ==
  ASSUME IInv, NEW t \in Threads, Served(t), EofLast(t), Thread(t)
  PROVE  Served(t)' /\ EofLast(t)'
<1> USE DEF IInv, Thread
<1>1. /\ TypeOK /\ pc \in [Threads -> {"new", "name", "nameWait", "window", "resend", "exit"}]
      /\ UNCHANGED file_open
  BY DEF TypeOK, ClientTypeOK, serverVars
<1>2. ASSUME UNCHANGED <<toServer, toClient>>, Naming(t) => Naming(t)',
             pc[t] = "exit" <=> pc'[t] = "exit"
      PROVE  Served(t)' /\ EofLast(t)'
  BY <1>1, <1>2 DEF Served, EofLast, InFlight, SeqAt
<1>3. CASE StartThread(t)
  BY <1>1, <1>2, <1>3 DEF StartThread, At, Goto, netVars, Naming
<1>4. CASE SendFilename(t)
  <2>1. /\ pc[t] = "name" /\ pc'[t] = "nameWait" /\ UNCHANGED toClient
        /\ SendPacket(t, Packet(t, 0))
    BY <1>1, <1>4 DEF SendFilename, At, Goto, SendPacket
  <2>2. 0 \in -1..NumPackets /\ 0 # EofSeq
    BY ClientAssumption DEF EofSeq
  <2>3. EofLast(t)'
    BY <1>1, <2>1, <2>2, AppendEofLast
  <2> QED BY <1>1, <2>1, <2>3 DEF Served, Naming
<1>5. CASE RecvFilenameAck(t)
  <2>1. toClient[t] # <<>> /\ pc[t] = "nameWait" /\ UNCHANGED toServer /\ pc'[t] # "exit"
    BY <1>1, <1>5 DEF RecvFilenameAck, At, Goto, RetryFilename, TakeAck
  <2> QED BY <1>1, <2>1 DEF Served, EofLast, InFlight, SeqAt
<1>6. CASE FilenameTimeout(t)
  BY <1>1, <1>2, <1>6 DEF FilenameTimeout, RetryFilename, At, Goto, netVars, Naming
<1>7. CASE SendData(t)
  <2>1. /\ pc[t] = "window" /\ pc'[t] = "window"
        /\ SendPacket(t, Packet(t, next_sn[t])) /\ next_sn[t] \in 1..NumPackets
    <3>1. /\ pc[t] = "window" /\ UNCHANGED pc /\ ~(next_sn[t] > NumPackets)
          /\ SendPacket(t, Packet(t, next_sn[t]))
      BY <1>7 DEF SendData, At, CanSend, Feof
    <3>2. next_sn[t] \in 1..(NumPackets + 1) /\ NumPackets \in Nat
      BY <1>1, ClientAssumption DEF TypeOK, ClientTypeOK
    <3> QED BY <3>1, <3>2
  <2>2. next_sn[t] \in -1..NumPackets /\ next_sn[t] # EofSeq
    BY <2>1, ClientAssumption DEF EofSeq
  <2>3. EofLast(t)'
    BY <1>1, <2>1, <2>2, AppendEofLast
  <2> QED BY <1>1, <2>1, <2>3 DEF Served, Naming
<1>8. CASE RecvAck(t)
  <2>1. pc[t] = "window" /\ UNCHANGED <<pc, toServer>>
    BY <1>8 DEF RecvAck, Waiting, At, TakeAck
  <2> QED BY <1>1, <2>1 DEF Served, Naming, EofLast, InFlight, SeqAt
<1>9. CASE SelectTimeout(t)
  BY <1>1, <1>2, <1>9 DEF SelectTimeout, Waiting, At, Goto, netVars, Naming
<1>10. CASE Resend(t)
  <2>1. pc[t] = "resend" /\ UNCHANGED pc
    BY <1>10 DEF Resend, At
  <2>2. CASE UNCHANGED netVars
    BY <1>1, <1>2, <2>1, <2>2 DEF netVars, Naming
  <2>3. CASE SendPacket(t, Packet(t, window[t][Slot(cursor[t])]))
    <3> DEFINE n == window[t][Slot(cursor[t])]
    <3>1. n \in 0..NumPackets
      BY SlotType DEF TypeOK, ClientTypeOK
    <3>2. n \in -1..NumPackets /\ n # EofSeq
      BY <3>1, ClientAssumption DEF EofSeq
    <3> HIDE DEF n
    <3>3. EofLast(t)'
      BY <1>1, <2>1, <2>3, <3>2, AppendEofLast DEF n
    <3> QED BY <1>1, <2>1, <3>3 DEF Served, Naming
  <2> QED BY <1>10, <2>2, <2>3 DEF Resend, netVars
<1>11. CASE ResendDone(t)
  BY <1>1, <1>2, <1>11 DEF ResendDone, At, Goto, netVars, Naming
<1>12. CASE SendEof(t)
  <2>1. pc[t] = "window" /\ pc'[t] = "exit" /\ SendPacket(t, Packet(t, EofSeq))
    BY <1>1, <1>12 DEF SendEof, At, Goto
  <2>2. EofSeq \in -1..NumPackets
    BY ClientAssumption DEF EofSeq
  <2>3. EofLast(t)'
    BY <1>1, <2>1, <2>2, AppendEofLast
  <2> QED BY <1>1, <2>1, <2>3 DEF Served, Naming
<1>13. CASE ExitProcess(t)
  BY <1>1, <1>2, <1>13 DEF ExitProcess, netVars, Naming
<1> QED
  BY <1>3, <1>4, <1>5, <1>6, <1>7, <1>8, <1>9, <1>10, <1>11, <1>12, <1>13 DEF ClientStep

(* A data packet that reaches the server finds its file open.              *)
LEMMA DataHasFile ==
  ASSUME IInv, NEW t \in Threads, Served(t), toServer[t] # <<>>, HeadSeq(t) # 0
  PROVE  file_open[t]
<1>1. toServer[t] \in Seq(Packets)
  BY DEF IInv, TypeOK, UdpTypeOK, Packets
<1>2. 1 \in InFlight(t) /\ SeqAt(t, 1) = HeadSeq(t)
  BY <1>1, TailElements DEF InFlight, SeqAt, HeadSeq
<1>3. ~Naming(t)
  BY <1>2 DEF IInv, ThreadInv, NamesFirst
<1> QED BY <1>3 DEF Served

(* A datagram that is handled, where every fopen succeeds.                 *)
LEMMA ServerServed ==
  ASSUME FopenResults = {TRUE}, IInv, NEW t \in Threads, Served(t), EofLast(t), Server(t)
  PROVE  Served(t)' /\ EofLast(t)' /\ (ServerResponsive => ServerResponsive')
<1> USE DEF IInv, Server
<1>1. /\ TypeOK /\ toServer[t] \in Seq(Packets) /\ toClient[t] \in Seq(0..NumPackets)
      /\ file_open \in [Threads -> BOOLEAN] /\ UNCHANGED pc
  BY DEF TypeOK, ServerTypeOK, UdpTypeOK, Packets, clientVars
<1>2. toServer[t] # <<>> /\ \E acks : TakePacket(t, acks)
  BY DEF ServerReceive, RefuseClient, ReceiveEof, ReceiveOutOfRange, ReceiveFilename,
     ReceiveData, StoreWriteAck, Arrives
<1>3. toServer'[t] = Tail(toServer[t])
  BY <1>1, <1>2, TakeTakes
<1>4. EofLast(t)'
  BY <1>1, <1>2, <1>3, TailEofLast
<1>5. ASSUME UNCHANGED <<file_open, spinning>>, TakePacket(t, <<>>)
      PROVE  Served(t)' /\ (ServerResponsive => ServerResponsive')
  <2>1. toClient'[t] = toClient[t] \o <<>>
    BY <1>1, <1>5, TakeTakes
  <2>2. toClient'[t] = toClient[t]
    BY <1>1, <2>1, ConcatEmptySeq
  <2> QED BY <1>1, <1>2, <1>5, <2>2 DEF Served, Naming, ServerResponsive
<1>6. CASE RefuseClient(t) \/ ReceiveOutOfRange(t)
  BY <1>4, <1>5, <1>6 DEF RefuseClient, ReceiveOutOfRange, serverVars
<1>7. CASE ReceiveEof(t)
  <2>1. /\ 1 \in InFlight(t) /\ SeqAt(t, 1) = EofSeq
        /\ Len(Tail(toServer[t])) = Len(toServer[t]) - 1 /\ Tail(toServer[t]) \in Seq(Packets)
    BY <1>1, <1>2, <1>7, TailElements DEF ReceiveEof, HeadSeq, InFlight, SeqAt, EofSeq
  <2>2. Len(toServer[t]) = 1 /\ pc[t] = "exit"
    BY <2>1 DEF EofLast
  <2>3. Len(Tail(toServer[t])) = 0
    BY <2>1, <2>2
  <2>4. toServer'[t] = <<>>
    BY <1>3, <2>1, <2>3, EmptySeq
  <2> QED BY <1>1, <1>4, <1>7, <2>2, <2>4 DEF ReceiveEof, Served, ServerResponsive
<1>8. CASE ReceiveFilename(t)
  <2>1. file_open' = [file_open EXCEPT ![t] = TRUE] /\ StoreWriteAck(t, 1, <<>>, TRUE, <<0>>)
    BY <1>8 DEF ReceiveFilename
  <2>2. UNCHANGED spinning
    BY <2>1 DEF StoreWriteAck
  <2> QED BY <1>1, <1>4, <2>1, <2>2 DEF Served, ServerResponsive
<1>9. CASE ReceiveData(t)
  <2>1. file_open[t]
    BY <1>2, <1>9, DataHasFile DEF ReceiveData
  <2>2. UNCHANGED <<file_open, spinning>>
    BY <1>9, <2>1 DEF ReceiveData, StoreWriteAck
  <2> QED BY <1>4, <2>1, <2>2 DEF Served, ServerResponsive
<1> QED BY <1>4, <1>6, <1>7, <1>8, <1>9 DEF ServerReceive

(* ServedInv of a thread reads nothing but this.                           *)
LEMMA ServedFrame ==
  ASSUME NEW t \in Threads, Served(t), EofLast(t),
         UNCHANGED <<pc[t], file_open[t], toServer[t], toClient[t]>>
  PROVE  Served(t)' /\ EofLast(t)'
  BY DEF Served, EofLast, Naming, InFlight, SeqAt

(* Every step keeps the servers responsive.                                *)
LEMMA ServedStep ==
  ASSUME FopenResults = {TRUE}, IInv, ServedInv, ServerResponsive, [Next]_vars
  PROVE  ServedInv' /\ ServerResponsive'
<1>1. \A t \in Threads : Served(t) /\ EofLast(t)
  BY DEF ServedInv
<1>2. TypeOK
  BY DEF IInv
<1>3. ASSUME NEW t \in Threads, Thread(t)
      PROVE  ServedInv' /\ ServerResponsive'
  <2>1. ASSUME NEW u \in Threads, u # t
        PROVE  UNCHANGED <<pc[u], file_open[u], toServer[u], toClient[u]>>
    BY <1>2, <1>3, <2>1, OtherThreads DEF Thread, WindowVarsAt, serverVars, TypeOK
  <2>2. ServerResponsive'
    BY <1>3 DEF Thread, serverVars, ServerResponsive
  <2> QED BY <1>1, <1>3, <2>1, <2>2, ClientServed, ServedFrame DEF ServedInv
<1>4. ASSUME NEW t \in Threads, Server(t)
      PROVE  ServedInv' /\ ServerResponsive'
  <2>1. ASSUME NEW u \in Threads, u # t
        PROVE  UNCHANGED <<pc[u], file_open[u], toServer[u], toClient[u]>>
    <3>1. UNCHANGED file_open[u]
      BY <1>2, <1>4, <2>1 DEF Server, ServerReceive, RefuseClient, ReceiveEof, ReceiveOutOfRange,
         ReceiveFilename, ReceiveData, serverVars, TypeOK, ServerTypeOK
    <3> QED BY <1>2, <1>4, <2>1, <3>1, OtherClients DEF Server, clientVars
  <2> QED BY <1>1, <1>4, <2>1, ServerServed, ServedFrame DEF ServedInv
<1>5. ASSUME NEW t \in Threads, Loss(t)
      PROVE  ServedInv' /\ ServerResponsive'
  <2>1. UNCHANGED <<pc, file_open, spinning>>
    BY <1>5 DEF Loss, DropData, clientVars, serverVars
  <2>2. ASSUME NEW u \in Threads, u # t
        PROVE  UNCHANGED <<toServer[u], toClient[u]>>
    BY <1>2, <1>5, <2>2 DEF Loss, DropData, LoseAck, TypeOK, UdpTypeOK
  <2>3. Served(t)' /\ EofLast(t)'
    <3>1. CASE DropData(t)
      <4>1. toServer[t] # <<>> /\ toServer'[t] = Tail(toServer[t]) /\ UNCHANGED toClient
        BY <1>2, <3>1 DEF DropData, Arrives, TypeOK, UdpTypeOK
      <4>2. EofLast(t)'
        BY <1>1, <1>2, <2>1, <4>1, TailEofLast
      <4> QED BY <1>1, <2>1, <4>1, <4>2 DEF Served, Naming
    <3>2. CASE LoseAck(t)
      BY <1>1, <2>1, <3>2 DEF LoseAck, Served, EofLast, InFlight, SeqAt
    <3> QED BY <1>5, <3>1, <3>2 DEF Loss
  <2>4. ASSUME NEW u \in Threads
        PROVE  Served(u)' /\ EofLast(u)'
    BY <1>1, <2>1, <2>2, <2>3, ServedFrame
  <2> QED BY <2>1, <2>4 DEF ServedInv, ServerResponsive
<1>6. CASE UNCHANGED vars
  BY <1>1, <1>6, ServedFrame DEF vars, clientVars, serverVars, netVars, ServedInv, ServerResponsive
<1> QED BY <1>3, <1>4, <1>5, <1>6 DEF Next

(* "Skipping write.": a server whose fopens succeed comes back to recvfrom *)
(* after every packet, because no data packet ever meets a NULL file.      *)
THEOREM ServerResponsiveCorrect == FopenResults = {TRUE} => (Spec => []ServerResponsive)
<1> SUFFICES ASSUME FopenResults = {TRUE}
             PROVE  Spec => []ServerResponsive
  OBVIOUS
<1>1. Init => ServedInv /\ ServerResponsive
  BY DEF Init, ClientInit, ServerInit, UdpInit, ServedInv, ServerResponsive, Served, EofLast,
     Naming, InFlight
<1>2. IInv /\ ServedInv /\ ServerResponsive /\ [Next]_vars => ServedInv' /\ ServerResponsive'
  BY ServedStep
<1> QED BY <1>1, <1>2, InvariantHolds, PTL DEF Spec

-----------------------------------------------------------------------------
(* Clients that name the same file (Lab4Files).  As long as no other       *)
(* thread opens the file, it is what the stream of the last opener wrote:  *)
(* the blocks of that process in order, up to expected_seq.                *)
FileWritten(t) ==
    content[PathOf[t]] = [i \in 1..(expected_seq[t] - 1) |-> <<ProcOf[t], i>>]
SoleWriter(t) ==
    opener[PathOf[t]] = {t} /\ ~overlapped[PathOf[t]] =>
        /\ FileWritten(t)
        /\ \A u \in Threads \ {t} : PathOf[u] = PathOf[t] => ~file_open[u]
FilesInv ==
    /\ DOMAIN content = Paths
    /\ opener \in [Paths -> SUBSET Threads]
    /\ overlapped \in [Paths -> BOOLEAN]
    /\ \A t \in Threads : SoleWriter(t)

(* fwrite of the blocks after the first a of a file that has these.        *)
LEMMA WriteExtends ==
  ASSUME NEW p, NEW a \in Nat, NEW b \in Nat, a <= b,
         NEW file, file = [i \in 1..a |-> <<p, i>>]
  PROVE  WriteAt(file, a, BlocksOf(p, SubSeq(Blocks(1, b), a + 1, b))) = [i \in 1..b |-> <<p, i>>]
<1> DEFINE s == SubSeq(Blocks(1, b), a + 1, b)
           w == BlocksOf(p, s)
<1>1. \A i \in 1..b : Blocks(1, b)[i] = <<1, i>>
  BY DEF Blocks
<1>2. /\ Len(s) = b - a
      /\ \A i \in 1..(b - a) : s[i] = <<1, a + i>>
  <2> DEFINE c == Blocks(1, b)
             S == Nat \X Nat
  <2>1. ASSUME NEW i \in (a + 1)..b
        PROVE  c[i] \in S
    <3>1. i \in 1..b /\ i \in Nat
      OBVIOUS
    <3>2. c[i] = <<1, i>>
      BY <1>1, <3>1
    <3> HIDE DEF c
    <3> QED BY <3>1, <3>2
  <2> HIDE DEF c, S
  <2>2. /\ Len(SubSeq(c, a + 1, b)) = IF a + 1 <= b THEN b - (a + 1) + 1 ELSE 0
        /\ \A i \in 1..(b - (a + 1) + 1) : SubSeq(c, a + 1, b)[i] = c[(a + 1) + i - 1]
    BY <2>1, SubSeqProperties
  <2>3. Len(SubSeq(c, a + 1, b)) = b - a
    BY <2>2
  <2>4. ASSUME NEW i \in 1..(b - a)
        PROVE  SubSeq(c, a + 1, b)[i] = <<1, a + i>>
    <3>1. i \in 1..(b - (a + 1) + 1) /\ (a + 1) + i - 1 = a + i /\ a + i \in 1..b
      OBVIOUS
    <3>2. SubSeq(c, a + 1, b)[i] = c[a + i]
      BY <2>2, <3>1
    <3> QED BY <1>1, <3>1, <3>2 DEF c
  <2> QED BY <2>3, <2>4 DEF c, s
<1> HIDE DEF s
<1>3. w = [i \in 1..(b - a) |-> <<p, a + i>>]
  <2>1. \A i \in 1..(b - a) : s[i][2] = a + i
    BY <1>2
  <2> QED BY <1>2, <2>1 DEF BlocksOf
<1> HIDE DEF w
<1>4. Len(w) = b - a /\ (b > a => w # <<>>)
  BY <1>3
<1>5. Len(file) = a
  OBVIOUS
<1>6. WriteAt(file, a, w) =
        [i \in 1..b |-> IF i \in (a + 1)..b THEN w[i - a] ELSE IF i <= a THEN file[i] ELSE Hole]
  <2>1. a + Len(w) = b /\ (IF w # <<>> /\ b > a THEN b ELSE a) = b
    BY <1>4
  <2> QED BY <1>5, <2>1 DEF WriteAt
<1>7. ASSUME NEW i \in 1..b
      PROVE  (IF i \in (a + 1)..b THEN w[i - a] ELSE IF i <= a THEN file[i] ELSE Hole) = <<p, i>>
  <2>1. CASE i \in (a + 1)..b
    <3>1. i - a \in 1..(b - a) /\ a + (i - a) = i
      BY <2>1
    <3> QED BY <1>3, <2>1, <3>1
  <2>2. CASE i \notin (a + 1)..b
    BY <2>2
  <2> QED BY <2>1, <2>2
<1> QED BY <1>6, <1>7 DEF w, s

(* What the stream of t writes in a step of its server makes its file what *)
(* SoleWriter says, if the file was that before or is opened now.          *)
LEMMA StreamWrites ==
  ASSUME IInv, IInv', [Next]_vars, NEW t \in Threads, Server(t), NEW file,
         Opens(t) \/ file = [i \in 1..(expected_seq[t] - 1) |-> <<ProcOf[t], i>>]
  PROVE  WriteThrough(t, file) = [i \in 1..(expected_seq'[t] - 1) |-> <<ProcOf[t], i>>]
<1> DEFINE a == expected_seq[t] - 1
           b == expected_seq'[t] - 1
<1>1. disk[t] = Blocks(1, a) /\ a \in Nat
  BY FilesInOrder, ClientAssumption
<1>2. disk'[t] = Blocks(1, b) /\ b \in Nat
  <2>1. disk'[t] = Blocks(1, b)
    BY DEF IInv, ThreadInv, ServerInv, Blocks
  <2>2. expected_seq'[t] \in 1..MaxSeqNum
    BY DEF IInv, TypeOK, ServerTypeOK
  <2> QED BY <2>1, <2>2, ServerAssumption
<1>3. a <= b
  <2>1. expected_seq'[t] >= expected_seq[t]
    BY ExpectedGrows
  <2>2. expected_seq'[t] \in 1..MaxSeqNum /\ expected_seq[t] \in 1..MaxSeqNum
    BY DEF IInv, TypeOK, ServerTypeOK
  <2> QED BY <2>1, <2>2, ServerAssumption
<1> HIDE DEF a, b
<1>4. Len(disk[t]) = a /\ Len(disk'[t]) = b
  BY <1>1, <1>2 DEF Blocks
<1>5. CASE Opens(t)
  <2>1. <<>> = [i \in 1..0 |-> <<ProcOf[t], i>>]
    OBVIOUS
  <2>2. WriteThrough(t, file) =
          WriteAt(<<>>, 0, BlocksOf(ProcOf[t], SubSeq(Blocks(1, b), 0 + 1, b)))
    BY <1>2, <1>4, <1>5 DEF WriteThrough, Written
  <2>3. WriteAt(<<>>, 0, BlocksOf(ProcOf[t], SubSeq(Blocks(1, b), 0 + 1, b))) =
          [i \in 1..b |-> <<ProcOf[t], i>>]
    <3> DEFINE zero == 0
               empty == <<>>
    <3>1. zero \in Nat /\ zero <= b
      BY <1>2
    <3>2. empty = [i \in 1..zero |-> <<ProcOf[t], i>>]
      BY <2>1
    <3> HIDE DEF zero, empty
    <3>3. WriteAt(empty, zero, BlocksOf(ProcOf[t], SubSeq(Blocks(1, b), zero + 1, b))) =
            [i \in 1..b |-> <<ProcOf[t], i>>]
      BY <1>2, <3>1, <3>2, WriteExtends
    <3> QED BY <3>3 DEF zero, empty
  <2> QED BY <2>2, <2>3 DEF b
<1>6. CASE ~Opens(t)
  <2>1. WriteThrough(t, file) =
          WriteAt(file, a, BlocksOf(ProcOf[t], SubSeq(Blocks(1, b), a + 1, b)))
    BY <1>2, <1>4, <1>6 DEF WriteThrough, Written
  <2>2. file = [i \in 1..a |-> <<ProcOf[t], i>>]
    BY <1>6 DEF a
  <2>3. WriteAt(file, a, BlocksOf(ProcOf[t], SubSeq(Blocks(1, b), a + 1, b))) =
          [i \in 1..b |-> <<ProcOf[t], i>>]
    BY <1>1, <1>2, <1>3, <2>2, WriteExtends
  <2> QED BY <2>1, <2>3 DEF b
<1> QED BY <1>5, <1>6

(* A server step without a stream leaves the file alone.                   *)
LEMMA ClosedLeavesFile ==
  ASSUME TypeOK, NEW u \in Threads, Server(u), ~file_open[u], ~Opens(u)
  PROVE  disk'[u] = disk[u] /\ ~file_open'[u]
<1>1. /\ file_open \in [Threads -> BOOLEAN]
      /\ expected_seq \in [Threads -> 1..MaxSeqNum]
      /\ disk \in [Threads -> Seq(Nat \X SeqNums)]
      /\ MaxSeqNum \in Nat
  BY ServerAssumption DEF TypeOK, ServerTypeOK
<1>2. CASE RefuseClient(u) \/ ReceiveEof(u) \/ ReceiveOutOfRange(u)
  BY <1>1, <1>2 DEF RefuseClient, ReceiveEof, ReceiveOutOfRange, serverVars
<1>3. CASE ReceiveFilename(u)
  BY <1>1, <1>3 DEF ReceiveFilename, Opens
<1>4. CASE ReceiveData(u)
  <2>1. StoreWriteAck(u, expected_seq[u], disk[u], FALSE, <<>>) /\ UNCHANGED file_open
    BY <1>1, <1>4 DEF ReceiveData
  <2> DEFINE rec == received[u] \cup {HeadSeq(u)}
             buf == IF HeadSeq(u) \in received[u] THEN buffer[u]
                    ELSE [buffer[u] EXCEPT ![HeadSeq(u)] = Head(toServer[u]).run]
             Run(e) == [i \in 1..(e - expected_seq[u]) |->
                           <<buf[expected_seq[u] + i - 1], expected_seq[u] + i - 1>>]
  <2>2. CASE UNCHANGED disk
    BY <2>1, <2>2
  <2>3. ASSUME expected_seq[u] \notin rec, NEW e \in expected_seq[u]..MaxSeqNum,
               StopsAt(e, expected_seq[u], rec), disk' = [disk EXCEPT ![u] = disk[u] \o Run(e)]
        PROVE  disk'[u] = disk[u]
    <3> HIDE DEF rec, buf
    <3>1. expected_seq[u] \in Int /\ e \in Int /\ expected_seq[u] <= e
      BY <1>1
    <3>2. e = expected_seq[u]
      BY <2>3, <3>1 DEF StopsAt
    <3>3. Run(e) = <<>>
      BY <3>1, <3>2
    <3>4. disk'[u] = disk[u] \o <<>>
      <4> HIDE DEF Run
      <4> QED BY <1>1, <2>3, <3>3
    <3> QED BY <1>1, <3>4, ConcatEmptySeq
  <2>4. disk'[u] = disk[u]
    BY <2>1, <2>2, <2>3 DEF StoreWriteAck
  <2> QED BY <2>1, <2>4
<1> QED BY <1>2, <1>3, <1>4 DEF Server, ServerReceive

(* A stream that is not open and not opened writes nothing.                *)
LEMMA ClosedWritesNothing ==
  ASSUME IInv, NEW u \in Threads, Server(u), ~file_open[u], ~Opens(u),
         NEW file, NEW n \in Nat, Len(file) = n, file = [i \in 1..n |-> file[i]]
  PROVE  WriteThrough(u, file) = file
<1>1. /\ file_open \in [Threads -> BOOLEAN]
      /\ expected_seq \in [Threads -> 1..MaxSeqNum]
      /\ disk \in [Threads -> Seq(Nat \X SeqNums)]
      /\ MaxSeqNum \in Nat
  BY ServerAssumption DEF IInv, TypeOK, ServerTypeOK
<1>2. disk'[u] = disk[u]
  BY ClosedLeavesFile DEF IInv
<1>3. Len(disk[u]) \in Nat
  BY <1>1
<1>4. SubSeq(disk'[u], Len(disk[u]) + 1, Len(disk'[u])) = <<>>
  BY <1>2, <1>3, SubSeqEmpty
<1>5. Written(u, Len(disk[u])) = <<>>
  <2>1. BlocksOf(ProcOf[u], <<>>) = <<>>
    BY DEF BlocksOf
  <2> QED BY <1>4, <2>1 DEF Written
<1>6. WriteThrough(u, file) = WriteAt(file, Len(disk[u]), <<>>)
  BY <1>5 DEF WriteThrough
<1>7. \A i \in 1..n : i \notin (Len(disk[u]) + 1)..(Len(disk[u]) + Len(<<>>))
  BY <1>3
<1> QED BY <1>6, <1>7 DEF WriteAt

(* Every step keeps SoleWriter, of the thread that writes and of the ones  *)
(* whose file it writes.                                                   *)
LEMMA FilesStep ==
  ASSUME IInv, IInv', FilesInv, [FilesNext]_filesVars
  PROVE  FilesInv'
<1>1. /\ DOMAIN content = Paths
      /\ opener \in [Paths -> SUBSET Threads]
      /\ overlapped \in [Paths -> BOOLEAN]
      /\ \A t \in Threads : SoleWriter(t)
  BY DEF FilesInv
<1>2. /\ file_open \in [Threads -> BOOLEAN]
      /\ expected_seq \in [Threads -> 1..MaxSeqNum]
  BY DEF IInv, TypeOK, ServerTypeOK
<1>3. \A t \in Threads : PathOf[t] \in Paths
  BY DEF Paths
<1>4. CASE UNCHANGED <<fileVars, file_open, expected_seq>>
  BY <1>1, <1>4 DEF fileVars, FilesInv, SoleWriter, FileWritten
<1>5. ASSUME NEW u \in Threads, ServerOnFiles(u)
      PROVE  FilesInv'
  <2> DEFINE f == PathOf[u]
  <2>1. /\ Server(u)
        /\ content' = [content EXCEPT ![f] = WriteThrough(u, content[f])]
        /\ opener' = IF Opens(u) THEN [opener EXCEPT ![f] = {u}] ELSE opener
        /\ overlapped' = [overlapped EXCEPT ![f] = overlapped[f] \/
              (Opens(u) /\ \E v \in Threads \ {u} : PathOf[v] = f /\ file_open[v])]
    BY <1>5 DEF ServerOnFiles
  <2>2. f \in Paths /\ [Next]_vars
    BY <1>3, <2>1 DEF Next
  <2>3. /\ DOMAIN content' = Paths
        /\ opener' \in [Paths -> SUBSET Threads]
        /\ overlapped' \in [Paths -> BOOLEAN]
    BY <1>1, <2>1, <2>2
  <2>4. \A v \in Threads \ {u} : file_open'[v] = file_open[v] /\ expected_seq'[v] = expected_seq[v]
    BY <1>2, <2>1 DEF Server, ServerReceive, RefuseClient, ReceiveEof, ReceiveOutOfRange,
       ReceiveFilename, ReceiveData, StoreWriteAck, serverVars
  <2>5. file_open'[u] => file_open[u] \/ Opens(u)
    BY <1>2, <2>1 DEF Server, ServerReceive, RefuseClient, ReceiveEof, ReceiveOutOfRange,
       ReceiveFilename, ReceiveData, serverVars, Opens
  <2>6. ASSUME NEW t \in Threads, opener'[PathOf[t]] = {t}, ~overlapped'[PathOf[t]]
        PROVE  /\ content'[PathOf[t]] = [i \in 1..(expected_seq'[t] - 1) |-> <<ProcOf[t], i>>]
               /\ \A v \in Threads \ {t} : PathOf[v] = PathOf[t] => ~file_open'[v]
    <3>1. CASE PathOf[t] # f
      <4>1. /\ content'[PathOf[t]] = content[PathOf[t]]
            /\ opener[PathOf[t]] = {t} /\ ~overlapped[PathOf[t]]
        BY <1>1, <1>3, <2>1, <2>2, <2>6, <3>1
      <4>2. t # u
        BY <3>1
      <4> QED BY <1>1, <2>4, <3>1, <4>1, <4>2 DEF SoleWriter, FileWritten
    <3>2. CASE PathOf[t] = f /\ t = u
      <4>1. \A v \in Threads \ {u} : PathOf[v] = f => ~file_open[v]
        BY <1>1, <2>1, <2>2, <2>6, <3>2 DEF SoleWriter
      <4>2. Opens(u) \/ content[f] = [i \in 1..(expected_seq[u] - 1) |-> <<ProcOf[u], i>>]
        BY <1>1, <2>1, <2>2, <2>6, <3>2 DEF SoleWriter, FileWritten
      <4>3. WriteThrough(u, content[f]) = [i \in 1..(expected_seq'[u] - 1) |-> <<ProcOf[u], i>>]
        BY <2>1, <2>2, <4>2, StreamWrites
      <4>4. content'[f] = WriteThrough(u, content[f])
        BY <1>1, <2>1, <2>2
      <4> QED BY <2>4, <3>2, <4>1, <4>3, <4>4
    <3>3. CASE PathOf[t] = f /\ t # u
      <4>1. ~Opens(u) /\ opener[f] = {t} /\ ~overlapped[f]
        BY <1>1, <2>1, <2>2, <2>6, <3>3
      <4>2. /\ content[f] = [i \in 1..(expected_seq[t] - 1) |-> <<ProcOf[t], i>>]
            /\ \A v \in Threads \ {t} : PathOf[v] = f => ~file_open[v]
        BY <1>1, <3>3, <4>1 DEF SoleWriter, FileWritten
      <4>3. ~file_open[u]
        BY <3>3, <4>2
      <4>4. WriteThrough(u, content[f]) = content[f]
        <5> DEFINE n == expected_seq[t] - 1
                   file == content[f]
        <5>1. n \in Nat
          BY <1>2, ServerAssumption
        <5> HIDE DEF n
        <5>2. Len(file) = n /\ file = [i \in 1..n |-> file[i]]
          BY <4>2, <5>1 DEF n
        <5> HIDE DEF file
        <5>3. WriteThrough(u, file) = file
          BY <2>1, <4>1, <4>3, <5>1, <5>2, ClosedWritesNothing
        <5> QED BY <5>3 DEF file
      <4>5. content'[f] = content[f]
        BY <1>1, <2>1, <2>2, <4>4
      <4>6. \A v \in Threads \ {t} : PathOf[v] = f => ~file_open'[v]
        BY <1>2, <2>4, <2>5, <4>1, <4>2, <4>3
      <4> QED BY <2>4, <3>3, <4>2, <4>5, <4>6
    <3> QED BY <3>1, <3>2, <3>3
  <2>7. \A t \in Threads : SoleWriter(t)'
    BY <2>6 DEF SoleWriter, FileWritten
  <2> QED BY <2>3, <2>7 DEF FilesInv
<1>6. ASSUME NEW u \in Threads, Thread(u) \/ Loss(u), UNCHANGED fileVars
      PROVE  UNCHANGED <<fileVars, file_open, expected_seq>>
  BY <1>6 DEF Thread, Loss, DropData, serverVars
<1>7. CASE UNCHANGED filesVars
  BY <1>4, <1>7 DEF filesVars, vars, serverVars
<1> QED BY <1>4, <1>5, <1>6, <1>7 DEF FilesNext

(* With the files shared, the protocol still takes the steps of Spec.      *)
LEMMA FilesSpecIsSpec == FilesSpec => Spec
<1>1. FilesInit => Init
  BY DEF FilesInit
<1>2. [FilesNext]_filesVars => [Next]_vars
  BY DEF FilesNext, ServerOnFiles, Next, filesVars
<1> QED BY <1>1, <1>2, PTL DEF FilesSpec, Spec

(* Transfers to the same name replace each other: unless two of them had   *)
(* the file open at once, the last one to open it leaves its own file,     *)
(* whole and nothing else.                                                 *)
THEOREM LastWriterWholeCorrect == FilesSpec => []LastWriterWhole
<1>1. FilesInit => FilesInv
  <2> SUFFICES ASSUME FilesInit
               PROVE  FilesInv
    OBVIOUS
  <2>1. \A t \in Threads : PathOf[t] \in Paths
    BY DEF Paths
  <2>2. \A t \in Threads : opener[PathOf[t]] # {t}
    BY <2>1 DEF FilesInit
  <2> QED BY <2>2 DEF FilesInit, FilesInv, SoleWriter
<1>2. IInv /\ IInv' /\ FilesInv /\ [FilesNext]_filesVars => FilesInv'
  BY FilesStep
<1>3. ASSUME IInv, Delivered, FilesInv
      PROVE  LastWriterWhole
  <2> SUFFICES ASSUME NEW t \in Threads, pc[t] = "exit", opener[PathOf[t]] = {t},
                      ~overlapped[PathOf[t]]
               PROVE  content[PathOf[t]] = [n \in 1..NumPackets |-> <<ProcOf[t], n>>]
    BY DEF LastWriterWhole
  <2>1. content[PathOf[t]] = [i \in 1..(expected_seq[t] - 1) |-> <<ProcOf[t], i>>]
    BY <1>3 DEF FilesInv, SoleWriter, FileWritten
  <2>2. disk[t] = Blocks(1, expected_seq[t] - 1) /\ expected_seq[t] - 1 \in 0..NumPackets
    BY <1>3, FilesInOrder
  <2>3. disk[t] = Blocks(run[ProcOf[t]], NumPackets)
    BY <1>3 DEF Delivered, WholeFile
  <2>4. Len(Blocks(1, expected_seq[t] - 1)) = expected_seq[t] - 1
        /\ Len(Blocks(run[ProcOf[t]], NumPackets)) = NumPackets
    BY <2>2, ClientAssumption DEF Blocks
  <2>5. expected_seq[t] - 1 = NumPackets
    BY <2>2, <2>3, <2>4
  <2> QED BY <2>1, <2>5
<1>4. FilesSpec => []IInv /\ []Delivered
  BY FilesSpecIsSpec, InvariantHolds, DeliveredCorrect, PTL
<1> QED BY <1>1, <1>2, <1>3, <1>4, PTL DEF FilesSpec
-----------------------------------------------------------------------------
(* Intact of a thread reads nothing but this.                              *)
LEMMA IntactFrame ==
  ASSUME NEW t \in Threads, Intact(t),
         UNCHANGED <<WindowVarsAt(t), ServerVarsAt(t), toClient[t]>>
  PROVE  Intact(t)'
<1>1. UNCHANGED <<disk[t], expected_seq[t], received[t]>>
  BY DEF ServerVarsAt
<1>2. AcksKept(t)'
  BY DEF Intact, AcksKept, Stored, ServerVarsAt
<1>3. ClientSound(t)'
  BY DEF Intact, ClientSound, Delivers, Outstanding, Stored, ServerVarsAt, WindowVarsAt
<1> QED BY <1>1, <1>2, <1>3 DEF Intact

(* A queue of acks with nothing new in it still says the truth.            *)
LEMMA FewerAcks ==
  ASSUME NEW t \in Threads, AcksKept(t), UNCHANGED ServerVarsAt(t),
         \A k \in 1..Len(toClient'[t]) : \E j \in 1..Len(toClient[t]) :
            toClient'[t][k] = toClient[t][j]
  PROVE  AcksKept(t)'
<1> SUFFICES ASSUME NEW k \in 1..Len(toClient'[t]), toClient'[t][k] # 0
             PROVE  Stored(t, toClient'[t][k])
  BY DEF AcksKept, Stored, ServerVarsAt
<1>1. PICK j \in 1..Len(toClient[t]) : toClient'[t][k] = toClient[t][j]
  OBVIOUS
<1> QED BY <1>1 DEF AcksKept

(* recvfrom of an ack, or its loss, leaves acks that were there before.    *)
LEMMA TailAcks ==
  ASSUME TypeOK, NEW t \in Threads,
         \/ UNCHANGED toClient[t]
         \/ toClient[t] # <<>> /\ toClient'[t] = Tail(toClient[t])
  PROVE  \A k \in 1..Len(toClient'[t]) : \E j \in 1..Len(toClient[t]) :
            toClient'[t][k] = toClient[t][j]
<1> DEFINE q == toClient[t]
<1>1. q \in Seq(0..NumPackets)
  BY DEF TypeOK, UdpTypeOK
<1>2. CASE UNCHANGED q
  BY <1>2
<1>3. CASE q # <<>> /\ toClient'[t] = Tail(q)
  <2>1. /\ Len(Tail(q)) = Len(q) - 1
        /\ \A k \in 1..(Len(q) - 1) : Tail(q)[k] = q[k + 1] /\ k + 1 \in 1..Len(q)
    BY <1>1, <1>3, TailElements
  <2> QED BY <1>3, <2>1
<1> QED BY <1>2, <1>3

(* A thread's own step keeps it intact.                                    *)
LEMMA ClientIntact ==
  ASSUME TypeOK, NEW t \in Threads, WindowInv(t), Intact(t), Thread(t)
  PROVE  Intact(t)'
<1>1. UNCHANGED ServerVarsAt(t) /\ UNCHANGED serverVars /\ ClientStep(t)
  BY DEF Thread, serverVars, ServerVarsAt
<1>2. ClientSound(t)'
  BY <1>1, ClientKeeps DEF Intact
<1>3. \/ UNCHANGED toClient[t]
      \/ toClient[t] # <<>> /\ toClient'[t] = Tail(toClient[t])
  <2>1. UNCHANGED toClient \/ (toClient[t] # <<>> /\ TakeAck(t))
    BY <1>1 DEF ClientStep, StartThread, SendFilename, RecvFilenameAck, FilenameTimeout,
       SendData, RecvAck, SelectTimeout, Resend, ResendDone, SendEof, ExitProcess,
       SendPacket, netVars
  <2> QED BY <2>1 DEF TakeAck, TypeOK, UdpTypeOK
<1>4. AcksKept(t)'
  BY <1>1, <1>3, TailAcks, FewerAcks DEF Intact
<1> QED BY <1>1, <1>2, <1>4 DEF Intact, ServerVarsAt

(* Acks that say the truth, behind others that do.                         *)
LEMMA AcksKeptConcat ==
  ASSUME TypeOK, NEW t \in Threads, AcksKept(t), NEW acks \in Seq(Nat),
         toClient'[t] = toClient[t] \o acks,
         \A k \in 1..Len(acks) : acks[k] # 0 => Stored(t, acks[k])',
         \A n \in Nat : Stored(t, n) => Stored(t, n)'
  PROVE  AcksKept(t)'
<1> DEFINE q == toClient[t]
<1>1. q \in Seq(Nat)
  <2>1. q \in Seq(0..NumPackets) /\ 0..NumPackets \subseteq Nat
    BY DEF TypeOK, UdpTypeOK
  <2> QED BY <2>1, SeqMonotonic
<1>2. \A k \in 1..Len(q) : \A a : a = q[k] /\ a # 0 => Stored(t, a)'
  <2>1. \A k \in 1..Len(q) : q[k] \in Nat
    BY <1>1, SeqElements
  <2> QED BY <2>1 DEF AcksKept
<1>3. /\ Len(q) \in Nat /\ Len(acks) \in Nat
      /\ Len(q \o acks) = Len(q) + Len(acks)
      /\ \A k \in 1..(Len(q) + Len(acks)) :
            (q \o acks)[k] = IF k <= Len(q) THEN q[k] ELSE acks[k - Len(q)]
  BY <1>1, ConcatProperties
<1> HIDE DEF q
<1>4. ASSUME NEW k \in 1..(Len(q) + Len(acks)), NEW a, a = (q \o acks)[k], a # 0
      PROVE  Stored(t, a)'
  <2>1. \/ a = q[k] /\ k \in 1..Len(q)
        \/ a = acks[k - Len(q)] /\ k - Len(q) \in 1..Len(acks)
    BY <1>3, <1>4
  <2>2. CASE a = q[k] /\ k \in 1..Len(q)
    BY <1>2, <1>4, <2>2
  <2>3. ASSUME NEW j \in 1..Len(acks), a = acks[j]
        PROVE  Stored(t, a)'
    BY <1>4, <2>3
  <2> QED BY <2>1, <2>2, <2>3
<1>5. toClient'[t] = q \o acks
  BY DEF q
<1> QED BY <1>3, <1>4, <1>5 DEF AcksKept

(* A packet that is stored, with the acks sent for it, keeps its sender    *)
(* intact: the file grows by what was waiting.                             *)
LEMMA StoreIntact ==
  ASSUME TypeOK, NEW t \in Threads, HostileInv(t), Intact(t), UNCHANGED clientVars,
         toServer[t] # <<>>, NEW h \in SeqNums, h = HeadSeq(t),
         NEW isOpen, NEW firstAcks \in Seq({0}),
         StoreWriteAck(t, expected_seq[t], disk[t], isOpen, firstAcks)
  PROVE  Intact(t)'
<1> DEFINE e == expected_seq[t]
<1>1. /\ e \in 1..MaxSeqNum /\ e <= NumPackets + 1 /\ received[t] \subseteq 0..NumPackets
      /\ disk[t] = Blocks(1, e - 1) /\ AcksKept(t) /\ ClientSound(t)
  BY DEF Intact, TypeOK, ServerTypeOK
<1>2. toServer[t] \in Seq(Packets) /\ Head(toServer[t]) = toServer[t][1] /\ 1 \in InFlight(t)
  BY TailElements DEF TypeOK, UdpTypeOK, Packets, InFlight
<1>3. Head(toServer[t]).run = 1 /\ h \in 0..NumPackets
  <2>1. Head(toServer[t]).seq \in -1..NumPackets
    <3>1. Head(toServer[t]) \in Packets
      BY <1>2, TailElements
    <3> QED BY <3>1 DEF Packets
  <2>2. h \in Nat
    BY ServerAssumption DEF SeqNums
  <2> QED BY <1>2, <2>1, <2>2, ClientAssumption DEF HostileInv, HeadSeq
<1>4. /\ expected_seq'[t] \in 1..MaxSeqNum
      /\ \/ expected_seq'[t] = expected_seq[t]
         \/ expected_seq'[t] - 1 \in received[t] \cup {h}
      /\ received'[t] \subseteq received[t] \cup {h}
      /\ \A n \in Nat : Stored(t, n) => Stored(t, n)'
      /\ \/ TakePacket(t, firstAcks)
         \/ TakePacket(t, Append(firstAcks, h)) /\ Stored(t, h)'
  BY StoreKeeps
<1>5. disk'[t] = Blocks(1, expected_seq'[t] - 1)
  BY <1>1, <1>3, StoreInOrder DEF HostileInv
<1>6. received'[t] \subseteq 0..NumPackets
  BY <1>1, <1>3, <1>4
<1>7. expected_seq'[t] <= NumPackets + 1
  BY <1>1, <1>3, <1>4, ClientAssumption, ServerAssumption
<1>8. ClientSound(t)'
  BY <1>1, <1>4 DEF ClientSound, Delivers, Outstanding, clientVars
<1>9. AcksKept(t)'
  <2>1. \E acks \in Seq(Nat) :
           /\ TakePacket(t, acks)
           /\ \A k \in 1..Len(acks) : acks[k] # 0 => Stored(t, acks[k])'
    <3>0. firstAcks \in Seq(Nat) /\ h \in Nat
      BY <1>3, SeqMonotonic
    <3>1. \A k \in 1..Len(firstAcks) : firstAcks[k] = 0
      BY SeqElements
    <3>2. CASE TakePacket(t, firstAcks)
      BY <3>0, <3>1, <3>2
    <3>3. CASE TakePacket(t, Append(firstAcks, h)) /\ Stored(t, h)'
      <4> DEFINE acks == Append(firstAcks, h)
      <4>1. /\ acks \in Seq(Nat) /\ Len(acks) = Len(firstAcks) + 1 /\ Len(firstAcks) \in Nat
            /\ \A k \in 1..Len(firstAcks) : acks[k] = firstAcks[k]
            /\ acks[Len(firstAcks) + 1] = h
        BY <3>0, AppendElements
      <4> HIDE DEF acks
      <4>2. \A k \in 1..Len(acks) : k \in 1..Len(firstAcks) \/ k = Len(firstAcks) + 1
        BY <4>1
      <4>3. \A k \in 1..Len(acks) : acks[k] = 0 \/ acks[k] = h
        BY <3>1, <4>1, <4>2
      <4>4. \A k \in 1..Len(acks) : acks[k] # 0 => Stored(t, acks[k])'
        BY <3>3, <4>3
      <4>5. TakePacket(t, acks)
        BY <3>3 DEF acks
      <4> QED BY <4>1, <4>4, <4>5
    <3> QED BY <1>4, <3>2, <3>3
  <2>2. PICK acks \in Seq(Nat) :
           /\ TakePacket(t, acks)
           /\ \A k \in 1..Len(acks) : acks[k] # 0 => Stored(t, acks[k])'
    BY <2>1
  <2>3. toClient'[t] = toClient[t] \o acks
    BY <2>2, TakeTakes
  <2> QED BY <1>1, <1>4, <2>2, <2>3, AcksKeptConcat
<1> QED BY <1>5, <1>6, <1>7, <1>8, <1>9 DEF Intact

(* Taking a datagram without an answer or an effect on the entry.          *)
LEMMA QuietIntact ==
  ASSUME TypeOK, NEW t \in Threads, Intact(t), UNCHANGED clientVars,
         toClient'[t] = toClient[t] \o <<>>, UNCHANGED ServerVarsAt(t)
  PROVE  Intact(t)'
<1>1. UNCHANGED toClient[t]
  <2>1. toClient[t] \in Seq(0..NumPackets)
    BY DEF TypeOK, UdpTypeOK
  <2> QED BY <2>1, ConcatEmptySeq
<1>2. UNCHANGED WindowVarsAt(t)
  BY DEF clientVars, WindowVarsAt
<1> QED BY <1>1, <1>2, IntactFrame

(* Only an empty file is the first 0 blocks.                               *)
LEMMA BlocksEmpty ==
  ASSUME NEW n \in Nat
  PROVE  Blocks(1, n) = <<>> <=> n = 0
<1>1. Len(Blocks(1, n)) = n
  BY BlocksSeq
<1>2. Blocks(1, 0) = <<>>
  BY DEF Blocks
<1> QED BY <1>1, <1>2

(* Whatever datagram arrives, a thread stays intact unless it opens a file *)
(* that has blocks.                                                        *)
LEMMA ServerIntact ==
  ASSUME TypeOK, NEW t \in Threads, HostileInv(t), Intact(t), Server(t), ~Reopens(t)
  PROVE  Intact(t)'
<1>1. UNCHANGED clientVars /\ toServer[t] # <<>>
  BY DEF Server, ServerReceive, RefuseClient, ReceiveEof, ReceiveOutOfRange, ReceiveFilename,
     ReceiveData, Arrives
<1>2. ASSUME UNCHANGED ServerVarsAt(t), TakePacket(t, <<>>)
      PROVE  Intact(t)'
  BY <1>1, <1>2, TakeTakes, QuietIntact
<1>3. CASE RefuseClient(t) \/ ReceiveEof(t) \/ ReceiveOutOfRange(t)
  BY <1>2, <1>3 DEF RefuseClient, ReceiveEof, ReceiveOutOfRange, serverVars, ServerVarsAt
<1>4. CASE ReceiveFilename(t)
  <2>1. PICK opened \in FopenResults :
          /\ file_open' = [file_open EXCEPT ![t] = opened]
          /\ \/ opened /\ StoreWriteAck(t, 1, <<>>, TRUE, <<0>>)
             \/ /\ TakePacket(t, <<>>)
                /\ UNCHANGED <<expected_seq, received, buffer, disk, spinning>>
    BY <1>4 DEF ReceiveFilename
  <2>2. HeadSeq(t) = 0 /\ 0 \in SeqNums
    BY <1>4, ServerAssumption DEF ReceiveFilename, SeqNums
  <2>3. CASE opened /\ StoreWriteAck(t, 1, <<>>, TRUE, <<0>>)
    <3>1. disk[t] = <<>>
      BY <2>1, <2>2, <2>3 DEF Reopens, TypeOK, ServerTypeOK
    <3>2. expected_seq[t] - 1 \in Nat /\ expected_seq[t] \in Int /\ disk[t] = Blocks(1, expected_seq[t] - 1)
      BY ServerAssumption DEF Intact, TypeOK, ServerTypeOK
    <3>3. expected_seq[t] = 1
      BY <3>1, <3>2, BlocksEmpty
    <3>4. StoreWriteAck(t, expected_seq[t], disk[t], TRUE, <<0>>)
      BY <2>3, <3>1, <3>3
    <3>5. <<0>> \in Seq({0})
      OBVIOUS
    <3> QED BY <1>1, <2>2, <3>4, <3>5, StoreIntact
  <2>4. CASE TakePacket(t, <<>>) /\ UNCHANGED <<expected_seq, received, buffer, disk, spinning>>
    BY <1>2, <2>4 DEF ServerVarsAt
  <2> QED BY <2>1, <2>3, <2>4
<1>5. CASE ReceiveData(t)
  <2>1. HeadSeq(t) \in SeqNums /\ <<>> \in Seq({0})
    BY <1>5 DEF ReceiveData, SeqNums
  <2>2. StoreWriteAck(t, expected_seq[t], disk[t], file_open[t], <<>>)
    BY <1>5 DEF ReceiveData
  <2> QED BY <1>1, <2>1, <2>2, StoreIntact
<1> QED BY <1>3, <1>4, <1>5 DEF Server, ServerReceive

(* Nothing is written without a stream: a whole file stays whole.          *)
LEMMA ServerFinished ==
  ASSUME TypeOK, NEW t \in Threads, Finished(t), Server(t), ~Reopens(t)
  PROVE  Finished(t)'
<1>1. UNCHANGED run /\ ~file_open[t] /\ disk[t] = Blocks(run[ProcOf[t]], NumPackets)
  BY DEF Server, clientVars, Finished, WholeFile
<1>2. disk[t] # <<>>
  <2>1. 1 \in DOMAIN disk[t]
    BY <1>1, ClientAssumption DEF Blocks
  <2> QED BY <2>1
<1>3. disk'[t] = disk[t] /\ ~file_open'[t]
  BY <1>1, <1>2, ClosedLeavesFile DEF Opens, Reopens
<1> QED BY <1>1, <1>3 DEF Finished, WholeFile

(* A kill leaves a thread intact that the entry stood for nothing of, and  *)
(* a file that is whole, closed.                                           *)
LEMMA RestartIntact ==
  ASSUME TypeOK, NEW t \in Threads, Intact(t), NEW s \in Servers, Restart(s),
         UNCHANGED clientVars, ServerOf[t] = s => ~Interrupted(t)
  PROVE  Intact(t)' \/ Finished(t)'
<1>1. UNCHANGED <<disk, toClient, WindowVarsAt(t), run>>
  BY DEF Restart, netVars, clientVars, WindowVarsAt
<1>2. CASE ServerOf[t] # s
  <2>1. UNCHANGED ServerVarsAt(t)
    BY <1>1, <1>2 DEF Restart, ServerVarsAt
  <2> QED BY <1>1, <2>1, IntactFrame
<1>3. CASE ServerOf[t] = s /\ WholeFile(t)
  <2>1. ~file_open'[t]
    BY <1>3 DEF Restart
  <2> QED BY <1>1, <1>3, <2>1 DEF Finished, WholeFile
<1>4. CASE ServerOf[t] = s /\ ~WholeFile(t)
  <2>1. \A n \in 1..NumPackets : ~Stored(t, n)
    BY <1>4 DEF Interrupted
  <2>2. expected_seq[t] = 1
    <3>1. 1 \in 1..NumPackets /\ expected_seq[t] \in Int /\ expected_seq[t] >= 1
      BY ClientAssumption, ServerAssumption DEF TypeOK, ServerTypeOK
    <3> QED BY <2>1, <3>1 DEF Stored
  <2>3. expected_seq'[t] = 1 /\ received'[t] = {}
    BY <1>4 DEF Restart
  <2>4. disk'[t] = Blocks(1, expected_seq'[t] - 1)
    BY <1>1, <2>2, <2>3 DEF Intact
  <2>5. AcksKept(t)'
    <3>1. toClient[t] \in Seq(0..NumPackets)
      BY DEF TypeOK, UdpTypeOK
    <3>2. \A k \in 1..Len(toClient[t]) : toClient[t][k] \in 0..NumPackets
      BY <3>1, SeqElements
    <3>3. \A k \in 1..Len(toClient[t]) : toClient[t][k] = 0
      BY <2>1, <3>2, ClientAssumption DEF Intact, AcksKept
    <3> QED BY <1>1, <3>3 DEF AcksKept
  <2>6. ClientSound(t)'
    BY <1>1, <2>1 DEF Intact, ClientSound, Delivers, Outstanding, WindowVarsAt
  <2> QED BY <2>2, <2>3, <2>4, <2>5, <2>6, ClientAssumption DEF Intact
<1> QED BY <1>2, <1>3, <1>4

(* A kill does nothing to a file that nobody has open.                     *)
LEMMA RestartFinished ==
  ASSUME NEW t \in Threads, Finished(t), NEW s \in Servers, Restart(s), UNCHANGED clientVars
  PROVE  Finished(t)'
<1>1. UNCHANGED disk /\ UNCHANGED run
  BY DEF Restart, clientVars
<1>2. ~file_open'[t]
  BY DEF Restart, Finished
<1> QED BY <1>1, <1>2 DEF Finished, WholeFile

(* Neither a loss nor another order nor a second copy adds a new ack.      *)
LEMMA PathIntact ==
  ASSUME TypeOK, NEW t \in Threads, Intact(t), NEW u \in Threads,
         Loss(u) \/ ((Reorder(u) \/ Duplicate(u)) /\ UNCHANGED <<clientVars, serverVars>>)
  PROVE  Intact(t)'
<1>1. UNCHANGED ServerVarsAt(t) /\ UNCHANGED WindowVarsAt(t)
  BY DEF Loss, DropData, clientVars, serverVars, ServerVarsAt, WindowVarsAt
<1>2. toClient[t] \in Seq(0..NumPackets)
  BY DEF TypeOK, UdpTypeOK
<1>3. \A k \in 1..Len(toClient'[t]) : \E j \in 1..Len(toClient[t]) :
         toClient'[t][k] = toClient[t][j]
  <2>1. CASE Loss(u)
    <3>1. \/ UNCHANGED toClient[t]
          \/ toClient[t] # <<>> /\ toClient'[t] = Tail(toClient[t])
      BY <2>1 DEF Loss, DropData, LoseAck, TypeOK, UdpTypeOK
    <3> QED BY <3>1, TailAcks
  <2>2. CASE Reorder(u) \/ Duplicate(u)
    <3>1. UdpTypeOK(Packets, 0..NumPackets)
      BY DEF TypeOK, Packets
    <3> QED BY <2>2, <3>1, DisorderElements
  <2> QED BY <2>1, <2>2
<1>4. AcksKept(t)'
  BY <1>1, <1>3, FewerAcks DEF Intact
<1>5. ClientSound(t)'
  BY <1>1 DEF Intact, ClientSound, Delivers, Outstanding, Stored, ServerVarsAt, WindowVarsAt
<1> QED BY <1>1, <1>4, <1>5 DEF Intact, ServerVarsAt

(* The invariant of undisturbed threads is inductive.                      *)
LEMMA FaultStep ==
  ASSUME TypeOK, WindowInvs, HostileIInv, FaultInv, [FaultNext]_faultVars
  PROVE  FaultInv'
<1> SUFFICES ASSUME NEW t \in Threads, t \notin disturbed'
             PROVE  Intact(t)' \/ Finished(t)'
  BY DEF FaultInv
<1>1. t \notin disturbed
  BY DEF FaultNext, Disturb, faultVars
<1>2. (Intact(t) \/ Finished(t)) /\ WindowInv(t) /\ HostileInv(t)
  BY <1>1 DEF FaultInv, WindowInvs, HostileIInv
<1>3. ASSUME Finished(t), UNCHANGED <<disk[t], file_open[t], run>>
      PROVE  Finished(t)'
  BY <1>3 DEF Finished, WholeFile
<1>4. ASSUME NEW u \in Threads, Thread(u)
      PROVE  Intact(t)' \/ Finished(t)'
  <2>1. CASE Finished(t)
    <3>1. Next
      BY <1>4 DEF Next
    <3> QED BY <1>3, <1>4, <2>1, <3>1, RunUnchanged DEF Thread, serverVars
  <2>2. CASE Intact(t) /\ u = t
    BY <1>2, <1>4, <2>2, ClientIntact
  <2>3. CASE Intact(t) /\ u # t
    <3>1. UNCHANGED ServerVarsAt(t)
      BY <1>4 DEF Thread, serverVars, ServerVarsAt
    <3>2. UNCHANGED <<WindowVarsAt(t), toClient[t]>>
      BY <1>4, <2>3, OtherThreads DEF Thread, TypeOK
    <3> QED BY <2>3, <3>1, <3>2, IntactFrame
  <2> QED BY <1>2, <2>1, <2>2, <2>3
<1>5. ASSUME NEW u \in Threads, Server(u), Reopens(u) => t # u
      PROVE  Intact(t)' \/ Finished(t)'
  <2>1. CASE u = t
    BY <1>2, <1>5, <2>1, ServerIntact, ServerFinished
  <2>2. CASE u # t
    <3>1. UNCHANGED <<ServerVarsAt(t), toClient[t], file_open[t]>>
      BY <1>5, <2>2, OtherClients, OtherFiles DEF Server
    <3>2. UNCHANGED <<WindowVarsAt(t), run, disk[t]>>
      BY <1>5, <3>1 DEF Server, clientVars, WindowVarsAt, ServerVarsAt
    <3> QED BY <1>2, <1>3, <3>1, <3>2, IntactFrame
  <2> QED BY <2>1, <2>2
<1>6. ASSUME NEW u \in Threads,
             Loss(u) \/ ((Reorder(u) \/ Duplicate(u)) /\ UNCHANGED <<clientVars, serverVars>>)
      PROVE  Intact(t)' \/ Finished(t)'
  <2>1. UNCHANGED <<disk[t], file_open[t], run>>
    BY <1>6 DEF Loss, DropData, clientVars, serverVars
  <2> QED BY <1>2, <1>3, <1>6, <2>1, PathIntact
<1>7. ASSUME NEW s \in Servers, Restart(s), UNCHANGED clientVars, ServerOf[t] = s => ~Interrupted(t)
      PROVE  Intact(t)' \/ Finished(t)'
  BY <1>2, <1>7, RestartIntact, RestartFinished
<1>8. CASE UNCHANGED faultVars
  <2>1. UNCHANGED <<WindowVarsAt(t), ServerVarsAt(t), toClient[t], disk[t], file_open[t], run>>
    BY <1>8 DEF faultVars, vars, clientVars, serverVars, netVars, WindowVarsAt, ServerVarsAt
  <2> QED BY <1>2, <1>3, <2>1, IntactFrame
<1>9. CASE FaultNext
  <2>1. ASSUME NEW u \in Threads, Server(u), Disturb(IF Reopens(u) THEN {u} ELSE {})
        PROVE  Reopens(u) => t # u
    BY <2>1 DEF Disturb
  <2>2. ASSUME NEW s \in Servers, Disturb({r \in Threads : ServerOf[r] = s /\ Interrupted(r)})
        PROVE  ServerOf[t] = s => ~Interrupted(t)
    BY <2>2 DEF Disturb
  <2> QED BY <1>4, <1>5, <1>6, <1>7, <1>9, <2>1, <2>2 DEF FaultNext, DisorderStep
<1> QED BY <1>8, <1>9

(* FaultSpec adds to SpecHostile a variable that limits nothing.           *)
LEMMA FaultSpecIsHostile == FaultSpec => SpecHostile
<1>1. FaultInit => Init
  BY DEF FaultInit
<1>2. [FaultNext]_faultVars => [Next \/ DisorderStep \/ RestartStep]_vars
  BY DEF FaultNext, faultVars, Next, RestartStep
<1> QED BY <1>1, <1>2, PTL DEF FaultSpec, SpecHostile

(* The invariant of the faults holds whatever the path and the servers do. *)
LEMMA FaultInvHolds == FaultSpec => []FaultInv
<1>1. FaultInit => FaultInv
  <2> SUFFICES ASSUME Init, NEW t \in Threads
               PROVE  Intact(t)
    BY DEF FaultInit, FaultInv
  <2>1. IInv
    BY IInvInit
  <2>2. AcksKept(t) /\ ClientSound(t)
    BY <2>1 DEF IInv, ThreadInv, AcksSound, AckSound, AcksKept
  <2>3. disk[t] = Blocks(1, expected_seq[t] - 1) /\ expected_seq[t] = 1 /\ received[t] = {}
    BY <2>1 DEF IInv, ThreadInv, ServerInv, Init, ServerInit
  <2> QED BY <2>2, <2>3, ClientAssumption DEF Intact
<1>2. TypeOK /\ WindowInvs /\ HostileIInv /\ FaultInv /\ [FaultNext]_faultVars => FaultInv'
  BY FaultStep
<1> QED BY <1>1, <1>2, FaultSpecIsHostile, HostileIsAll, TypeCorrect, WindowInvsHold, HostileHolds, PTL
        DEF FaultSpec

(* On every path, with servers that are killed at any moment: unless one   *)
(* of the two events met the thread, its server has what it acknowledged.  *)
THEOREM AckedIsKeptCorrect == FaultSpec => []AckedIsKept
<1>1. FaultInv => AckedIsKept
  BY DEF FaultInv, Intact, Finished, ClientSound, AckedIsKept
<1> QED BY <1>1, FaultInvHolds, PTL

(* The two events are the only ones that can make lab4 fail: a transfer    *)
(* that neither met, and that came to its end, left the whole file, for    *)
(* any number of clients, servers, losses, reorderings and kills.          *)
THEOREM DeliveredUndisturbedCorrect == FaultSpec => []DeliveredUndisturbed
<1>1. ASSUME TypeOK, WindowInvs, HostileIInv, FaultInv, NEW t \in Threads \ disturbed, pc[t] = "exit"
      PROVE  WholeFile(t)
  <2>1. CASE Finished(t)
    BY <2>1 DEF Finished
  <2>2. CASE Intact(t)
    <3>1. base_sn[t] = NumPackets + 1
      BY <1>1 DEF WindowInvs, WindowInv
    <3>2. \A n \in 1..NumPackets : Stored(t, n)
      BY <2>2, <3>1, ClientAssumption DEF Intact, ClientSound, Delivers
    <3>3. expected_seq[t] \in Nat /\ expected_seq[t] >= 1 /\ expected_seq[t] <= NumPackets + 1
      BY <1>1, <2>2, ServerAssumption DEF Intact, TypeOK, ServerTypeOK
    <3>4. ~(expected_seq[t] \in 1..NumPackets)
      BY <3>2, <3>3 DEF Stored
    <3>5. expected_seq[t] = NumPackets + 1
      BY <3>3, <3>4, ClientAssumption
    <3>6. disk[t] = Blocks(1, NumPackets)
      BY <2>2, <3>5, ClientAssumption DEF Intact
    <3>7. run[ProcOf[t]] = 1
      BY <1>1, ClientAssumption DEF HostileIInv
    <3> QED BY <3>6, <3>7 DEF WholeFile
  <2> QED BY <1>1, <2>1, <2>2 DEF FaultInv
<1>2. TypeOK /\ WindowInvs /\ HostileIInv /\ FaultInv => DeliveredUndisturbed
  BY <1>1 DEF DeliveredUndisturbed
<1> QED BY <1>2, FaultInvHolds, FaultSpecIsHostile, HostileIsAll, TypeCorrect, WindowInvsHold,
           HostileHolds, PTL
=============================================================================
