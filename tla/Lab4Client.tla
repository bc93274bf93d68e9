----------------------------- MODULE Lab4Client -----------------------------
(***************************************************************************)
(* lab4/src/myclient.c: client processes, each with one sender thread per  *)
(* replica server (send_file_to_server).  A thread announces the output    *)
(* file name, sends the data packets with a selective-repeat window, sends *)
(* the EOF packet and calls exit(0), which ends its whole process.         *)
(*                                                                         *)
(* The file is abstracted to its packets 1..NumPackets (file size divided  *)
(* by mss, plus one: the last fread is the short one that sets feof, so    *)
(* feof holds exactly when next_sn > NumPackets).  A packet is [seq, run]: *)
(* its payload is block seq of the file that run of the program sends.     *)
(* main does not compare winsz with MAX_WINDOW_SIZE; a window larger than  *)
(* the arrays has no defined behaviour and is outside the model.           *)
(***************************************************************************)
EXTENDS Udp

CONSTANTS
    Processes,   \* client processes
    ProcOf,      \* ProcOf[t]: the process of thread t
    NumPackets,  \* data packets of a file
    WinSize,     \* targs->win_size
    MaxRetries,  \* MAX_RETRIES
    MaxRuns      \* bound: runs of one process slot (a later run reuses its ports)

ASSUME ClientAssumption ==
    /\ ProcOf \in [Threads -> Processes]
    /\ NumPackets \in Nat \ {0}
    /\ WinSize \in Nat \ {0}
    /\ MaxRetries \in Nat \ {0}
    /\ MaxRuns \in Nat \ {0}

VARIABLES
    run,               \* run[p]: how many times process slot p was started
    exit_status,       \* exit_status[p]: -1 while running, else exit's argument
    pc,                \* where thread t is in send_file_to_server
    filename_retries,
    base_sn, next_sn,
    window,            \* window[t][i]: seq_num of the packet kept in slot i
    acked, retries,
    cursor             \* the loop variable i of the retransmission loop

clientVars == <<run, exit_status, pc, filename_retries, base_sn, next_sn,
                window, acked, retries, cursor>>

Slots == 0..(WinSize - 1)
Slot(n) == n % WinSize
EofSeq == -1
Running == -1

ClientInit ==
    /\ run = [p \in Processes |-> 1]
    /\ exit_status = [p \in Processes |-> Running]
    /\ pc = [t \in Threads |-> "new"]
    /\ filename_retries = [t \in Threads |-> 0]
    /\ base_sn = [t \in Threads |-> 1]
    /\ next_sn = [t \in Threads |-> 1]
    /\ window = [t \in Threads |-> [i \in Slots |-> 0]]
    /\ acked = [t \in Threads |-> [i \in Slots |-> FALSE]]
    /\ retries = [t \in Threads |-> [i \in Slots |-> 0]]
    /\ cursor = [t \in Threads |-> 1]

ClientTypeOK ==
    /\ run \in [Processes -> 1..MaxRuns]
    /\ exit_status \in [Processes -> {Running, 0, 1, 3, 4}]
    /\ pc \in [Threads -> {"new", "name", "nameWait", "window", "resend", "exit"}]
    /\ filename_retries \in [Threads -> 0..MaxRetries]
    /\ base_sn \in [Threads -> 1..(NumPackets + 1)]
    /\ next_sn \in [Threads -> 1..(NumPackets + 1)]
    /\ window \in [Threads -> [Slots -> 0..NumPackets]]
    /\ acked \in [Threads -> [Slots -> BOOLEAN]]
    /\ retries \in [Threads -> [Slots -> 0..MaxRetries]]
    /\ cursor \in [Threads -> 1..(NumPackets + 1)]

-----------------------------------------------------------------------------
(* A thread runs only while its process does. *)
At(t, label) == pc[t] = label /\ exit_status[ProcOf[t]] = Running
Goto(t, label) == pc' = [pc EXCEPT ![t] = label]
Exit(t, status) == exit_status' = [exit_status EXCEPT ![ProcOf[t]] = status]
Packet(t, n) == [seq |-> n, run |-> run[ProcOf[t]]]

windowVars == <<base_sn, next_sn, window, acked, retries, cursor>>

(* main's pthread_create; the thread starts with fopen of the input file. *)
StartThread(t) ==
    /\ At(t, "new")
    /\ \/ Goto(t, "name") /\ UNCHANGED exit_status
       \/ Exit(t, 1) /\ UNCHANGED pc
    /\ UNCHANGED <<run, filename_retries, windowVars, netVars>>

SendFilename(t) ==
    /\ At(t, "name")
    /\ SendPacket(t, Packet(t, 0))
    /\ Goto(t, "nameWait")
    /\ UNCHANGED <<run, exit_status, filename_retries, windowVars>>

RetryFilenameProceeding(t) ==
    /\ filename_retries' = [filename_retries EXCEPT ![t] = @ + 1]
    /\ \/ filename_retries[t] + 1 = MaxRetries /\ Goto(t, "window")
       \/ filename_retries[t] + 1 < MaxRetries /\ Goto(t, "name")
    /\ UNCHANGED exit_status
RetryFilenameExitingZero(t) ==
    /\ filename_retries' = [filename_retries EXCEPT ![t] = @ + 1]
    /\ \/ filename_retries[t] + 1 = MaxRetries /\ Exit(t, 0) /\ UNCHANGED pc
       \/ filename_retries[t] + 1 < MaxRetries /\ Goto(t, "name") /\ UNCHANGED exit_status
(* Another attempt, exit(4) after the last one, or exit(3) once 30 seconds *)
(* have passed; time is not modelled, so exit(3) may follow any attempt.   *)
RetryFilename(t) ==
    /\ filename_retries' = [filename_retries EXCEPT ![t] = @ + 1]
    /\ \/ Exit(t, 3) /\ UNCHANGED pc
       \/ filename_retries[t] + 1 = MaxRetries /\ Exit(t, 4) /\ UNCHANGED pc
       \/ filename_retries[t] + 1 < MaxRetries /\ Goto(t, "name") /\ UNCHANGED exit_status

RecvFilenameAck(t) ==
    /\ At(t, "nameWait")
    /\ toClient[t] # <<>>
    /\ IF Head(toClient[t]) = 0
         THEN Goto(t, "window") /\ UNCHANGED <<exit_status, filename_retries>>
         ELSE RetryFilename(t)
    /\ TakeAck(t)
    /\ UNCHANGED <<run, windowVars>>

FilenameTimeout(t) ==
    /\ At(t, "nameWait")
    /\ RetryFilename(t)
    /\ UNCHANGED <<run, windowVars, netVars>>

-----------------------------------------------------------------------------
Feof(t) == next_sn[t] > NumPackets

CanSendOneTooMany(t) == ~Feof(t) /\ next_sn[t] <= base_sn[t] + WinSize
CanSend(t) == ~Feof(t) /\ next_sn[t] < base_sn[t] + WinSize

UnfinishedUntilFeof(t) == ~Feof(t)
UnfinishedOffByOne(t) == ~Feof(t) \/ base_sn[t] < next_sn[t] - 1
Unfinished(t) == ~Feof(t) \/ base_sn[t] < next_sn[t]

Waiting(t) == At(t, "window") /\ ~CanSend(t) /\ Unfinished(t)

SendData(t) ==
    /\ At(t, "window")
    /\ CanSend(t)
    /\ window' = [window EXCEPT ![t][Slot(next_sn[t])] = next_sn[t]]
    /\ SendPacket(t, Packet(t, next_sn[t]))
    /\ next_sn' = [next_sn EXCEPT ![t] = @ + 1]
    /\ UNCHANGED <<run, exit_status, pc, filename_retries, base_sn, acked, retries, cursor>>

Slide(t, nowAcked, nowRetries) ==
    \E b \in base_sn[t]..next_sn[t] :
        /\ \A n \in base_sn[t]..(b - 1) : nowAcked[Slot(n)]
        /\ b = next_sn[t] \/ ~nowAcked[Slot(b)]
        /\ LET freed == {Slot(n) : n \in base_sn[t]..(b - 1)} IN
             /\ acked' = [acked EXCEPT ![t] =
                            [i \in Slots |-> nowAcked[i] /\ i \notin freed]]
             /\ retries' = [retries EXCEPT ![t] =
                            [i \in Slots |-> IF i \in freed THEN 0 ELSE nowRetries[i]]]
        /\ base_sn' = [base_sn EXCEPT ![t] = b]

(* The test an ack must pass before its slot is marked. *)
NewAckBelowNext(t, ack) == ack < next_sn[t] /\ ~acked[t][Slot(ack)]
NewAck(t, ack) == ack \in base_sn[t]..(next_sn[t] - 1) /\ ~acked[t][Slot(ack)]

(* select finds the socket readable, recvfrom takes one ack. *)
RecvAck(t) ==
    /\ Waiting(t)
    /\ toClient[t] # <<>>
    /\ LET ack == Head(toClient[t])
           fresh == NewAck(t, ack)
       IN Slide(t, [i \in Slots |-> acked[t][i] \/ (fresh /\ i = Slot(ack))],
                   [i \in Slots |-> IF fresh /\ i = Slot(ack) THEN 0 ELSE retries[t][i]])
    /\ TakeAck(t)
    /\ UNCHANGED <<run, exit_status, pc, filename_retries, next_sn, window, cursor>>

(* select times out: one pass over the window, slot by slot. *)
SelectTimeout(t) ==
    /\ Waiting(t)
    /\ Goto(t, "resend")
    /\ cursor' = [cursor EXCEPT ![t] = base_sn[t]]
    /\ UNCHANGED <<run, exit_status, filename_retries, base_sn, next_sn, window,
                   acked, retries, netVars>>

ResendableOnceMore(t, i) == ~acked[t][i] /\ retries[t][i] <= MaxRetries
ResendableAcked(t, i) == acked[t][i] /\ retries[t][i] < MaxRetries
Resendable(t, i) == ~acked[t][i] /\ retries[t][i] < MaxRetries

Resend(t) ==
    /\ At(t, "resend")
    /\ cursor[t] < next_sn[t]
    /\ LET i == Slot(cursor[t]) IN
         IF Resendable(t, i)
           THEN /\ SendPacket(t, Packet(t, window[t][i]))
                /\ retries' = [retries EXCEPT ![t][i] = @ + 1]
           ELSE UNCHANGED <<retries, netVars>>
    /\ cursor' = [cursor EXCEPT ![t] = @ + 1]
    /\ UNCHANGED <<run, exit_status, pc, filename_retries, base_sn, next_sn, window, acked>>

ResendDone(t) ==
    /\ At(t, "resend")
    /\ cursor[t] = next_sn[t]
    /\ Slide(t, acked[t], retries[t])
    /\ Goto(t, "window")
    /\ cursor' = [cursor EXCEPT ![t] = 1]
    /\ UNCHANGED <<run, exit_status, filename_retries, next_sn, window, netVars>>

SendEof(t) ==
    /\ At(t, "window")
    /\ ~Unfinished(t)
    /\ SendPacket(t, Packet(t, EofSeq))
    /\ Goto(t, "exit")
    /\ UNCHANGED <<run, exit_status, filename_retries, windowVars>>

(* exit(0) in the thread ends the process and every other thread of it. *)
ExitProcess(t) ==
    /\ At(t, "exit")
    /\ Exit(t, 0)
    /\ UNCHANGED <<run, pc, filename_retries, windowVars, netVars>>

ClientStep(t) ==
    \/ StartThread(t)
    \/ SendFilename(t)
    \/ RecvFilenameAck(t)
    \/ FilenameTimeout(t)
    \/ SendData(t)
    \/ RecvAck(t)
    \/ SelectTimeout(t)
    \/ Resend(t)
    \/ ResendDone(t)
    \/ SendEof(t)
    \/ ExitProcess(t)

(* A later process sends another file from the same ports. *)
RunAgain(p) ==
    /\ exit_status[p] # Running
    /\ run[p] < MaxRuns
    /\ run' = [run EXCEPT ![p] = @ + 1]
    /\ exit_status' = [exit_status EXCEPT ![p] = Running]
    /\ LET Fresh(f, v) == [t \in Threads |-> IF ProcOf[t] = p THEN v ELSE f[t]] IN
         /\ pc' = Fresh(pc, "new")
         /\ filename_retries' = Fresh(filename_retries, 0)
         /\ base_sn' = Fresh(base_sn, 1)
         /\ next_sn' = Fresh(next_sn, 1)
         /\ window' = Fresh(window, [i \in Slots |-> 0])
         /\ acked' = Fresh(acked, [i \in Slots |-> FALSE])
         /\ retries' = Fresh(retries, [i \in Slots |-> 0])
         /\ cursor' = Fresh(cursor, 1)
    /\ UNCHANGED netVars
=============================================================================
