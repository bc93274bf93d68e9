------------------------------ MODULE Lab4Files ------------------------------
(***************************************************************************)
(* lab4 with the output files as the file systems of the servers have      *)
(* them: clients that name the same file on one server write one file,     *)
(* each through a stream of its own (the FILE* in its entry of clients[])  *)
(* with an offset of its own.  fopen(..., "wb") empties the file for all   *)
(* of them; every fwrite is flushed at once.                               *)
(*                                                                         *)
(* disk[t] of Lab4Server is what t's stream wrote since it was opened.     *)
(***************************************************************************)
EXTENDS Lab4Transfer, Stdio

CONSTANT PathOf     \* PathOf[t]: the file t names on its server

VARIABLES
    content,        \* content[f]: blocks of file f, Hole where none was written
    opener,         \* history: the thread that opened f last
    overlapped      \* history: f was opened while another stream had it open

fileVars == <<content, opener, overlapped>>
filesVars == <<vars, fileVars>>

Paths == {PathOf[t] : t \in Threads}
BlocksOf(p, blocks) == [i \in 1..Len(blocks) |-> <<p, blocks[i][2]>>]

FilesInit ==
    /\ Init
    /\ content = [f \in Paths |-> <<>>]
    /\ opener = [f \in Paths |-> {}]
    /\ overlapped = [f \in Paths |-> FALSE]

(* The datagram of this step makes the server open t's file. *)
Opens(t) == HeadSeq(t) = 0 /\ Admitted(t) /\ file_open'[t]

(* What t's stream writes in this step, and where: fopen with "ab" instead *)
(* of "wb" would write at the end.                                         *)
Written(t, at) == BlocksOf(ProcOf[t], SubSeq(disk'[t], at + 1, Len(disk'[t])))
WriteAppending(t, file) ==
    file \o Written(t, IF Opens(t) THEN 0 ELSE Len(disk[t]))
WriteThrough(t, file) ==
    IF Opens(t) THEN WriteAt(<<>>, 0, Written(t, 0))
                ELSE WriteAt(file, Len(disk[t]), Written(t, Len(disk[t])))

ServerOnFiles(t) ==
    /\ Server(t)
    /\ LET f == PathOf[t] IN
         /\ content' = [content EXCEPT ![f] = WriteThrough(t, @)]
         /\ opener' = IF Opens(t) THEN [opener EXCEPT ![f] = {t}] ELSE opener
         /\ overlapped' = [overlapped EXCEPT ![f] = @ \/
               (Opens(t) /\ \E u \in Threads \ {t} : PathOf[u] = f /\ file_open[u])]

FilesNext ==
    \E t \in Threads :
        \/ (Thread(t) \/ Loss(t)) /\ UNCHANGED fileVars
        \/ ServerOnFiles(t)

FilesSpec == FilesInit /\ [][FilesNext]_filesVars

-----------------------------------------------------------------------------
(* Transfers to the same name replace each other: unless two of them had   *)
(* the file open at once, the last one to open it leaves its own file,     *)
(* whole and nothing else.  (The client knows an answer, ack -20, for a    *)
(* "File is in progress by another client."; the server never sends it.)   *)
LastWriterWhole ==
    \A t \in Threads :
        LET f == PathOf[t] IN
        pc[t] = "exit" /\ opener[f] = {t} /\ ~overlapped[f] =>
            content[f] = [n \in 1..NumPackets |-> <<ProcOf[t], n>>]
=============================================================================
