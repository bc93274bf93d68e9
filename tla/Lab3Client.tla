----------------------------- MODULE Lab3Client -----------------------------
(***************************************************************************)
(* lab3/src/myclient.c: client processes that each send one file.  A       *)
(* client repeats the packet with the output file's name until it is       *)
(* acknowledged, sends the data packets with a window that slides over     *)
(* acknowledged ones (nothing is ever sent again), sends an EOF packet and *)
(* waits for its ack.                                                      *)
(*                                                                         *)
(* A client is single-threaded and is named by its thread.  Its file has   *)
(* NumPackets[t] packets of at most mss bytes; when the last one is full   *)
(* feof is not set by reading it, but by a further read that returns 0.    *)
(* win_size is assumed to fit MAX_WINDOW_SIZE, which main does not check.  *)
(***************************************************************************)
EXTENDS Udp

CONSTANTS
    NumPackets,     \* NumPackets[t]: packets of t's file, 0 when it is empty
    LastIsShort,    \* LastIsShort[t]: whether the last packet has less than mss bytes
    WinSize,        \* win_size
    MaxRetries      \* MAX_RETRIES

ASSUME ClientAssumption ==
    /\ NumPackets \in [Threads -> Nat]
    /\ LastIsShort \in [Threads -> BOOLEAN]
    /\ \A t \in Threads : NumPackets[t] = 0 => ~LastIsShort[t]
    /\ WinSize \in Nat \ {0}
    /\ MaxRetries \in Nat \ {0}

VARIABLES
    pc,             \* where client t is in send_file; "done" is exit(0)
    retries,
    base, next_seq_num,
    acked,
    feof

clientVars == <<pc, retries, base, next_seq_num, acked, feof>>

Slots == 0..(WinSize - 1)
Slot(n) == n % WinSize

ClientInit ==
    /\ pc = [t \in Threads |-> "new"]
    /\ retries = [t \in Threads |-> 0]
    /\ base = [t \in Threads |-> 1]
    /\ next_seq_num = [t \in Threads |-> 1]
    /\ acked = [t \in Threads |-> [i \in Slots |-> FALSE]]
    /\ feof = [t \in Threads |-> FALSE]

ClientTypeOK ==
    /\ pc \in [Threads -> {"new", "name", "nameWait", "window", "select",
                           "eofWait", "done", "failed"}]
    /\ retries \in [Threads -> 0..MaxRetries]
    /\ base \in [Threads -> Nat \ {0}]
    /\ next_seq_num \in [Threads -> Nat \ {0}]
    /\ acked \in [Threads -> [Slots -> BOOLEAN]]
    /\ feof \in [Threads -> BOOLEAN]
    /\ \A t \in Threads : next_seq_num[t] <= NumPackets[t] + 1

Goto(t, label) == pc' = [pc EXCEPT ![t] = label]

windowVars == <<base, next_seq_num, acked, feof>>

-----------------------------------------------------------------------------
(* fopen of the input file. *)
Start(t) ==
    /\ pc[t] = "new"
    /\ Goto(t, "name") \/ Goto(t, "failed")
    /\ UNCHANGED <<retries, windowVars, netVars>>

SendFilename(t) ==
    /\ pc[t] = "name"
    /\ SendPacket(t, [seq |-> 0, empty |-> FALSE])
    /\ Goto(t, "nameWait")
    /\ UNCHANGED <<retries, windowVars>>

RetryFilenameOnceMore(t) ==
    /\ retries' = [retries EXCEPT ![t] = @ + 1]
    /\ IF retries[t] = MaxRetries THEN Goto(t, "failed") ELSE Goto(t, "name")
RetryFilename(t) ==
    /\ retries' = [retries EXCEPT ![t] = @ + 1]
    /\ IF retries[t] + 1 = MaxRetries THEN Goto(t, "failed") ELSE Goto(t, "name")

RecvFilenameAck(t) ==
    /\ pc[t] = "nameWait"
    /\ toClient[t] # <<>>
    /\ IF Head(toClient[t]) = 0
         THEN Goto(t, "window") /\ UNCHANGED retries
         ELSE RetryFilename(t)
    /\ TakeAck(t)
    /\ UNCHANGED windowVars

FilenameTimeout(t) ==
    /\ pc[t] = "nameWait"
    /\ RetryFilename(t)
    /\ UNCHANGED <<windowVars, netVars>>

-----------------------------------------------------------------------------
CanRead(t) == ~feof[t] /\ next_seq_num[t] < base[t] + WinSize

UnfinishedUntilFeof(t) == ~feof[t]
UnfinishedOffByOne(t) == ~feof[t] \/ base[t] < next_seq_num[t] - 1
Unfinished(t) == ~feof[t] \/ base[t] < next_seq_num[t]

SendData(t) ==
    /\ pc[t] = "window"
    /\ CanRead(t)
    /\ next_seq_num[t] <= NumPackets[t]
    /\ acked' = [acked EXCEPT ![t][Slot(next_seq_num[t])] = FALSE]
    /\ SendPacket(t, [seq |-> next_seq_num[t], empty |-> FALSE])
    /\ feof' = [feof EXCEPT ![t] = next_seq_num[t] = NumPackets[t] /\ LastIsShort[t]]
    /\ next_seq_num' = [next_seq_num EXCEPT ![t] = @ + 1]
    /\ UNCHANGED <<pc, retries, base>>

(* fread returns 0: the sending loop breaks and select follows, even when  *)
(* there is no ack left to wait for.                                       *)
ReadNothing(t) ==
    /\ pc[t] = "window"
    /\ CanRead(t)
    /\ next_seq_num[t] > NumPackets[t]
    /\ feof' = [feof EXCEPT ![t] = TRUE]
    /\ Goto(t, "select")
    /\ UNCHANGED <<retries, base, next_seq_num, acked, netVars>>

AtSelect(t) ==
    \/ pc[t] = "select"
    \/ pc[t] = "window" /\ Unfinished(t) /\ ~CanRead(t)

(* After a second without an ack the loop goes round; nothing is resent. *)
SelectTimeout(t) ==
    /\ pc[t] = "select"
    /\ Goto(t, "window")
    /\ UNCHANGED <<retries, windowVars, netVars>>

InWindowBelowNext(t, ack) == ack < next_seq_num[t]
InWindowAboveBase(t, ack) == ack \in (base[t] + 1)..(next_seq_num[t] - 1)
InWindow(t, ack) == ack \in base[t]..(next_seq_num[t] - 1)

RecvAck(t) ==
    /\ AtSelect(t)
    /\ toClient[t] # <<>>
    /\ LET ack == Head(toClient[t])
           marked == [acked[t] EXCEPT ![Slot(ack)] = TRUE]
       IN \/ /\ InWindow(t, ack)
             /\ acked' = [acked EXCEPT ![t] = marked]
             /\ \E b \in base[t]..next_seq_num[t] :
                  /\ \A n \in base[t]..(b - 1) : marked[Slot(n)]
                  /\ b = next_seq_num[t] \/ ~marked[Slot(b)]
                  /\ base' = [base EXCEPT ![t] = b]
          \/ /\ ~InWindow(t, ack)
             /\ UNCHANGED <<acked, base>>
    /\ TakeAck(t)
    /\ Goto(t, "window")
    /\ UNCHANGED <<retries, next_seq_num, feof>>

SendEof(t) ==
    /\ pc[t] = "window"
    /\ ~Unfinished(t)
    /\ SendPacket(t, [seq |-> next_seq_num[t], empty |-> TRUE])
    /\ Goto(t, "eofWait")
    /\ UNCHANGED <<retries, windowVars>>

RecvEofAckResending(t) ==
    /\ pc[t] = "eofWait"
    /\ toClient[t] # <<>>
    /\ TakeAck(t)
    /\ IF Head(toClient[t]) = next_seq_num[t] THEN Goto(t, "done") ELSE Goto(t, "window")
    /\ UNCHANGED <<retries, windowVars>>
(* Other acks are skipped; a timeout of recvfrom changes nothing. *)
RecvEofAck(t) ==
    /\ pc[t] = "eofWait"
    /\ toClient[t] # <<>>
    /\ TakeAck(t)
    /\ IF Head(toClient[t]) = next_seq_num[t] THEN Goto(t, "done") ELSE UNCHANGED pc
    /\ UNCHANGED <<retries, windowVars>>

ClientStep(t) ==
    \/ Start(t)
    \/ SendFilename(t)
    \/ RecvFilenameAck(t)
    \/ FilenameTimeout(t)
    \/ SendData(t)
    \/ ReadNothing(t)
    \/ SelectTimeout(t)
    \/ RecvAck(t)
    \/ SendEof(t)
    \/ RecvEofAck(t)
=============================================================================
