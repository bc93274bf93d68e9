# Verification of the network-programming labs

TLA+ models, model-checking runs and proofs for the C programs of this
repository: the HTTP client of lab1, the echo transfer of lab2, the reliable
file transfers over UDP of lab3 and lab4, and the filtering web proxy. Every
definition is translated from the source; `PROJECT.json` maps it to its lines.

## 1. Inventory

| Part | Source | State | Operations | Hard behaviour |
|---|---|---|---|---|
| lab4 client | `lab4/src/myclient.c` | per thread: `base_sn`, `next_sn`, the slots `window`/`acked`/`retries` (number modulo `winsz`), file name retries; per process: the exit status | start a thread per server, announce the name, fill the window, take acks, time out and resend, EOF, `exit(0)` | loss, duplicates, late acks, slots shared by numbers `winsz` apart, threads that share one `exit` |
| lab4 server | `lab4/src/myserver.c` | per client address: entry of `clients[]`, `file`, `expected_seq`, `received[]`, `buffer[]` | drop, admit or refuse, open on name, store, write in order, ack, close on EOF; restart | repeated names and data, full table, failing `fopen`, numbers past `MAX_SEQ_NUM` |
| lab3 client | `lab3/src/myclient.c` | `base`, `next_seq_num`, `acked[]`, retries of the name | as lab4 without resending data, waits for an EOF ack | loss, zero-length last read |
| lab3 server | `lab3/src/myserver.c` | table, `file`, `expected_seq`, `received[]`, `packet_buffer[]` | as lab4; `exit(1)` when a file cannot be created | files used while not open |
| proxy filter | `WebProxy/src/filtering.c`, `handle_sigint` | `forbidden_sites[]`, `num_forbidden_sites` | load, sort, search; reload by SIGINT | searched without a lock while it is reloaded |
| proxy handler | `WebProxy/src/connection.c`, accept loop of `myproxy.c` | per thread: two descriptors, the host; shared: the result of `gethostbyname`, `active_connections[]` | accept, receive, check, connect, handshake, forward, log, clean up | threads, early returns, running out of descriptors |
| proxy log | `WebProxy/src/logging.c` | the log file | append an entry | opening it may fail |
| lab2 client | `lab2/src/myclient.c` | `seq_num`, `received_seq[]`, `total_packets`, the output file | send the whole file and an EOF marker, then write each echo at its offset, and validate | loss, duplicates, reordering, full socket buffers; nothing is sent twice |
| lab2 server | `lab2/src/myserver.c` | one socket | echo each datagram until an EOF marker or 30 s of silence, then end | the first marker of any client ends the service for all |
| lab1 client | `lab1/src/myweb.c` | one connection, `O_NONBLOCK`, `output.dat` | connect with a time limit, GET or HEAD, save | failures at every step, of writing too; pieces of a response |

Interaction: lab3 and lab4 clients and servers exchange datagrams only, the
sender's address is the key of the server's table. lab4's threads share their
process. The proxy's handler threads share the list, the descriptors and libc's
static data with each other and with the signal handler, which runs in
whichever thread takes the signal.

What makes each correct:

* lab3, lab4: the output file is an initial part of the input at all times, an
  acknowledged packet is kept, a client that reports success leaves the whole
  file on the server, and clients end (lab4) unless a packet never gets through.
* proxy: an undisturbed check follows the list, a refused request contacts
  nobody, a reload leaves nothing of the old list, each way out gives back what
  it opened, and accepted requests end.
* lab2: a client that reports success has an initial part of its own file,
  without holes; it has all of it when it got its EOF marker back; an alarm is
  never caused by other clients; both programs end.
* lab1: a complete response is saved, or a failure to receive it is reported; `output.dat`
  is touched by requests that went out only; the client ends.

## 2. Modules

| Module | Stands for |
|---|---|
| `Udp` | external: the datagrams between socket pairs, one queue per direction; losses and duplicates are counted, reordering and duplication are actions of their own |
| `FileTransfer` | abstract specification: copies are initial parts that only grow; success means the copy is whole |
| `Lab4Client`, `Lab4Server` | the two programs, one action per select/recvfrom turn, per packet sent, and per received datagram |
| `Lab4Transfer` | their composition, the fairness, the properties, the refinement of `FileTransfer` |
| `Lab4Invariant`, `Lab3Invariant`, `Lab2Invariant`, `ProxyInvariant` | the inductive invariants, one named conjunct per idea |
| `UdpProofs` | lemmas that the proofs about UDP programs share: remainders, sequences, queues |
| `Lab4WindowProofs` | lab4's types and window, on every path |
| `Lab4Proofs` | the inductive invariant of lab4, `AckedIsStored`, `Delivered` |
| `Lab4ResultProofs` | what follows for lab4's files, exit status and servers, the refinement, and the paths that reorder and duplicate |
| `Lab3Proofs`, `Lab2Proofs`, `Lab1Proofs`, `ProxyProofs` | the theorems of the other programs (lab1's invariant is in `Lab1Proofs`) |
| `Lab3Client`, `Lab3Server`, `Lab3Transfer` | the same for lab3 |
| `ProxyFilter` | list, loader steps (open and clear, begin and end a copy, count it, begin and end the sort), one step per access |
| `ProxyHandler` | accept and the stages of `handle_client`, with the loop of `is_site_blocked` split into test and comparison |
| `Proxy` | their composition, fairness, properties |
| `Lab4Faults` | lab4 on a path that reorders and duplicates, with servers that are killed: which events can make which transfers fail |
| `Lab3Faults` | lab3 on a path that reorders and duplicates: when a finished transfer can fail, and when the server crashes |
| `Lab4Files` | lab4 with output files that clients of one server may share by name: one stream per client, one content per name |
| `Lab2Client`, `Lab2Server`, `Lab2Echo` | lab2's programs, and their composition with a path that loses, doubles and reorders |
| `Lab1Client` | lab1's client, with the server and TCP as its environment |
| `Stdio` | external: what `fwrite` at an offset makes of a file |
| `MCLab4`, `MCLab4Faults`, `MCLab4Files`, `MCLab3`, `MCLab3Faults`, `MCLab2`, `MCLab1`, `MCProxy` | instances for TLC |

How state and actions correspond:

* **A packet** is its number (and the run of the program that sent it); its
  payload is the block of that number. Byte counts, `mss` and offsets are not
  modelled. In lab4 a file has `size / mss + 1` packets, because `feof` is set
  by a short read; lab3 also has the read that returns 0 (`ReadNothing`).
* **lab4 client.** `pc` is the place in `send_file_to_server`: `"name"` and
  `"nameWait"` are the loop that announces the name, `"window"` is the top of the sending loop,
  `"resend"` the retransmission loop after a timeout (one action per slot, so
  that acks arrive in between), `"exit"` the point after the EOF packet.
  `exit_status[p] = -1` while process p runs; any `exit` in a thread sets it and
  stops every thread of p, which is what `At` tests.
* **lab4 server.** A received datagram is one action: the loop of
  `receive_packets` is sequential and shares nothing. `StoreWriteAck` is the
  part that name and data packets share, with the ack at its end; `StopsAt` is
  the number where the writing loop stops. `spinning` is the loop that
  `continue`s without advancing on a NULL file. `Restart` forgets the table and
  keeps the output files.
* **lab4 files.** `disk[t]` is what t's stream wrote since `fopen`, so its
  length is the stream's offset. `Lab4Files` adds the content of each named
  file: an open empties it for all streams, a write goes to the stream's own
  offset. Streams that overlap may leave holes and mixtures.
* **lab4 faults.** `disturbed` is history and limits nothing: the threads that
  met one of the two events that take packets away, `Reopens` (the name comes
  again when its file has blocks) and the kill of an `Interrupted` transfer.
* **lab2.** Files are sequences of bytes, each named by its owner and position;
  a packet has `mtu - 4` of them or, at the end, fewer. A receive timeout may
  happen whenever nothing waits in the socket: at a client its own queue, at
  the server all of them. `ended` and `disturbed` are history: what ended a
  client's loop, and whose datagrams the path did not deliver once each and in
  order. A client that cannot send or receive is `"aborted"`.
* **lab1.** `pc` follows `main` call by call. `connection` is what TCP made of
  `connect`, `peer` what the server did; bytes are positions and matter only as
  NUL or not. `recv` may return any part of what is there. A failing `fprintf`
  writes a part of what it was given, a failing `fclose` (or the flush at the end
  of a HEAD) loses the end of the output; `write_failed` is the error nobody reads.
* **lab3 server.** `file` distinguishes NULL, open and closed-but-not-NULL;
  a use of a file that is not open leads to `"crashed"`.
* **lab3 faults.** `disturbed` is history again: the clients whose filename
  packet came when their file had blocks or was closed (`Reopens`). So is
  `doubled`: the clients of whose EOF packet the path made a second copy.
* **Proxy.** A site is its rank in `strcmp` order, and names that differ by a
  leading `www.` are one site. `SIGINT` may arrive at any time, up to
  `MaxSignals`. `Forward` stands for sending the request and copying the response.
  `strncpy` and `qsort` take time (`loader` is `"copy"`, `"sort"`), and so does
  a comparison (`pc` is `"compare"`): when a row is written at any time while it
  is compared, `torn[r]` is set and the comparison may say either. `tls` is what
  `ssl_ctx` and `ssl` hold. A SIGINT that
  interrupts a handler's `recv` (`SA_RESTART` is not set) makes it end without
  a reply, one of `Receive`'s outcomes.

Operators whose names say what is wrong with them (`...OffByOne`,
`...KeepingFile`, `RefuseAndGoOn`) are mutations: replacing the original by one
of them makes TLC report the property listed with it in `PROJECT.json`, which
shows that each property can fail.

## 3. Runs

States are distinct states. `MaxLosses` bounds lost, dropped or doubled datagrams,
`MaxRestarts` server restarts, `MaxRuns` runs from the same ports, `MaxSignals`
SIGINTs; all other constants are the program's own limits made small.

| Run | Instance | Shows |
|---|---|---|
| `lab4_fifo` | one thread, 4 packets, window 3, 2 retries, 3 losses, fairness (278 k states) | `InOrder`, `Delivered`, `NeverTruncated`, and that the protocol implements `FileTransfer` on a path that keeps order; the server answers, the file is closed unless the EOF packet is lost, and a client ends or waits for ever for a packet that lost all its resends (`EndsOrStarves`) |
| `lab4_hostile` | 3 packets, window 2, 1 retry, a datagram lost or doubled, reordering, a restart, `fopen` may fail (3.1 M) | `InOrder` needs no help from the path or the server; `AckedIsKept`, `DeliveredUndisturbed`: a transfer fails only by one of the two events of `Lab4Faults` (all proved in this form) |
| `lab4_fleet` | 2 processes, 3 threads, 2 servers, one name on the server they share, files of one packet (1.6 M) | exit(0) means that one replica's stream wrote everything; `LastWriterWhole`: transfers to one name that do not overlap replace each other |
| `lab4_limits` | 2 clients with 3 packets, window 2, a table of one, numbers below 3, 1 loss, `fopen` may fail (252 k) | `TypeOK`, `WindowSound`; refused, out of retries, or with a file too long for `MAX_SEQ_NUM`: acks still promise only what is stored (`AckedIsStored`), and a client that does not end waits for a number past `MAX_SEQ_NUM` or for a server that no longer answers (`EndsOrStarves`) |
| `lab3_fifo` | 3 clients with 3, 1 and 0 packets, 1 loss, a table of 2 (314 k) | `InOrder`, `DoneMeansWhole`, the refinement, and that without losses all end or the server has exited |
| `lab3_reorder` | 2 clients with 3 and 0 packets, window 2, a datagram lost or doubled, reordering in both directions (5.7 M) | `AckedIsStored` needs no help from the path; `CrashNeedsDoubledEof`: the server uses a file that is not open only after the path doubled an EOF packet; `DoneUndisturbed`: only a late name spoils a finished transfer |
| `proxy_reload` | 2 requests for 3 sites, a reload, 3 descriptors (1.3 M) | `ListIsFile`, `CheckIsRight`, `RefusedWasListed`, `ContactsOnlyAdmitted`, `ClientSettled`, `ServerSettled`, `AcceptedEnds` |
| `lab2_echo` | 2 clients with 5 and 4 bytes in packets of 2, 2 losses, 1 datagram doubled or overtaken (423 k) | `PrefixOnSuccess`, `AlarmNeedsFault`, `EofMeansWhole`, and that all programs end |
| `lab1_get` | responses of up to 4 bytes in pieces of up to 2, writes that fail (5 k) | `WholeOrComplained`, `CreatedMeansRequested`, and that the client ends |
| `lab4_x_reuse`, `lab3_x_hang`, `proxy_x_window` | small | each finds the disagreement of section 5 with its name |

Why the bounds are enough: in all runs of lab3 and lab4 but `lab4_fleet` and
`lab4_x_reuse` a window is smaller than a file, so that each slot is used by
several numbers and a window slides in the middle of a file. `lab4_fifo` has one
loss more than a packet has resends, so that a packet, an ack or all copies of
one of them can be lost. In `lab4_hostile` and `lab3_reorder` reordering is
unlimited and one datagram is lost or doubled; resends add further copies in
lab4. `lab4_fleet` is about whole files and the threads of a process, and
`lab4_x_reuse` about what a table entry keeps: a block in two places is all they
need, and their files have one packet and two. In `lab4_limits` a
number past `MAX_SEQ_NUM` is dropped at every attempt, so that resends run out
without a loss; its table and that of `lab3_fifo` are smaller than the number of
clients. In lab2 one file ends with a short packet and one
with a full one, a client's tail or EOF marker can be lost while the other ends
the server, and a duplicate can meet a loss; `recv` can cut lab1's responses
in every way, with NUL anywhere. In
the proxy, three descriptors for two requests make `socket` and `accept` fail,
a comparison can meet a copy or the sort, and
the sites of `MCProxy` are one that both files list, one that only the
reloaded file lists and one never listed, with a reloaded file out of order, so
that the sort moves rows under a search. `CHECK_DEADLOCK FALSE` is set because
all clients may have ended.

**Fairness.** lab4: each thread is scheduled, each datagram not lost is
received in the end, and each server's loop goes on (weak fairness). Taking an
ack is strongly fair: `select` reports a waiting datagram, but the thread may
leave and enter the waiting state around it, so that weak fairness says too
little. lab3: weak fairness only. lab2: weak fairness of the server and of each client,
whose receive timeouts are part of their steps; the path need not deliver.
lab1: weak fairness of the client, whose `select` is limited, and of the server
closing a connection it accepted (the request asks for it; `recv` has no
timeout). A pending connection need never be decided. Proxy: weak fairness of the accept loop, of
threads and of loaders; it assumes that peers answer or close in the end, which
the code does not enforce (it sets no timeout). Signals are never forced.

## 4. Proofs

Checked by TLAPS for all numbers of clients, threads, servers, packets, windows,
retries, losses, requests, sites and file sizes. They use the assumptions the
modules name (positive sizes, finitely many threads, functions with the right
domain), which TLC evaluates on every run. Every safety invariant, action
property and refinement that a passing run checks has a theorem.

| Module | Theorem | Statement |
|---|---|---|
| `Lab4WindowProofs` | `TypeCorrect`, `WindowCorrect` | `SpecAll => []TypeOK`, `SpecAll => []WindowSound`: loss, reordering, duplicates, restarts and reruns included |
| `Lab4Proofs` | `InvariantHolds` | `Spec => []IInv` |
| | `AckedIsStoredCorrect`, `DeliveredCorrect` | `Spec => []AckedIsStored`, `Spec => []Delivered` |
| `Lab4ResultProofs` | `InOrderCorrect` | `SpecHostile => []InOrder`: reordering, duplicates and restarts included |
| | `AckedIsKeptCorrect`, `DeliveredUndisturbedCorrect` | `FaultSpec => []` of each: what reordering, duplicates and kills leave of the two properties above |
| | `NeverTruncatedCorrect`, `ExitZeroCorrect` | `Spec => NeverTruncated`, `Spec => []ExitZeroMeansOneReplica` |
| | `PromiseKept` | `Spec => ImplementsPromise`: lab4 refines `FileTransfer` |
| | `ServerResponsiveCorrect` | `FopenResults = {TRUE} => (Spec => []ServerResponsive)` |
| | `LastWriterWholeCorrect` | `FilesSpec => []LastWriterWhole` |
| `Lab3Proofs` | `InvariantHolds`, `TypeCorrect` | `Spec => []IInv`, `Spec => []TypeOK` |
| | `InOrderCorrect`, `DoneMeansWholeCorrect` | `Spec => []` of each property |
| | `FaultInvHolds`, `AckedIsStoredCorrect`, `CrashNeedsDoubledEofCorrect`, `DoneUndisturbedCorrect` | `FaultSpec => []` of each: reordering and duplicates included |
| | `PromiseKept` | lab3 refines `FileTransfer` |
| `Lab2Proofs` | `InvariantHolds`, `TypeCorrect` | `Spec => []IInv`, `Spec => []TypeOK` |
| | `PrefixOnSuccessCorrect`, `AlarmNeedsFaultCorrect`, `EofMeansWholeCorrect` | `Spec => []` of each property |
| `Lab1Proofs` | `WholeOrComplainedCorrect`, `CreatedMeansRequestedCorrect` | `Spec => []` of each property |
| `ProxyProofs` | `InvariantHolds` | `Spec => []IInv`, for any number of loaders |
| | `CheckIsRightCorrect`, `ContactsOnlyAdmittedCorrect`, `ClientSettledCorrect`, `ServerSettledCorrect` | `Spec => []` of each property, for any number of loaders |
| | `ListInvariantHolds`, `ListIsFileCorrect`, `RefusedWasListedCorrect`, `TypeCorrect` | `OneLoader => (Spec => [] ...)` |

Two hypotheses restrict theorems to less than the model allows:

* `FopenResults = {TRUE}` of `ServerResponsiveCorrect`: after an `fopen` that
  fails, a server does stay in its writing loop (section 5).
* `OneLoader`, that no SIGINT is handled while another one is. With two handlers
  at once, in two threads, the list is not the file: both append at the same
  index (`filtering.c:21`). That is a fault of the code, listed as a hazard; the
  theorems say what holds when it does not happen. The run `proxy_reload` has
  one loader.

**lab4.** `TypeOK` is inductive with the fact that an unfinished thread has
retries left. `WindowInv` is about one client alone: numbers in flight differ
by less than `WinSize`, so that their slots differ (`SlotsDistinct`, from
division with remainder), and a slot given back is cleared. `AckedIsStored` is
not inductive: an ack under way must mean that its packet is stored
(`AcksSound`), and nothing may take a stored packet away. The only step that
could is a filename packet, which sets `expected_seq` back to 1 and truncates.
It does no harm because a path that keeps order delivers all names before the
first data packet (`NamesFirst`), so that `expected_seq` is 1 then. `ServerInv`
ties the output file to `expected_seq`. `IInv` is the conjunction per thread;
the step lemma splits into a thread's own step, its server's, the path's, and
the steps of others, which leave its part alone. `Delivered` follows because at
EOF the window has passed all packets and none can wait behind a missing one.
For the refinement a server step is `Write` or a stutter, `SendEof` is
`Complete`, and an exit is `Stop` of the process's other threads.

`InOrder` needs none of the order: `HostileInv` only says that everything under
way or stored belongs to the one run, and that an *open* file ends at
`expected_seq`; the lemma about the writing loop, `StoreInOrder`, is shared by
both invariants.

`AckedIsStored` and `Delivered` are false on a path that reorders and with
servers that are killed. `Lab4Faults` names what breaks them, per thread, and
its `FaultInv` shows that nothing else does: an undisturbed thread is `Intact`
(file, marks and acks are what its packets made of them, with no use of
`NamesFirst`) or `Finished` (its file is whole and has no stream, so that what
is left of its datagrams writes nothing, `ClosedLeavesFile`). A kill turns the
first into the second when the file is whole, and keeps the first when nothing
was stored; `StoreKeeps` and `ClientKeeps`, about the writing loop and the
window, serve both specifications. Each event does make transfers fail
(section 5).

`ServerResponsive` needs to know when the server has no file for a
thread (`Served`): before the name is acknowledged, or after the EOF packet,
which is the last one the thread sends (`EofLast`). `LastWriterWhole` has an
invariant per thread, `SoleWriter`: while it opened the file last and nobody
overlapped, the content is what its stream wrote, and no other stream is open,
so that none can write (`ClosedWritesNothing`).

**lab3.** The server never takes a number out of `received[]`, so that stored
means received, on every path. The invariants therefore come in four parts per
client. `PathInv` is kept by every step on any path: the window, the acks,
what is under way (`Flight`), and that an open file waits for the EOF packet.
The second copy of an EOF packet does crash the server, and `CrashNeedsDoubledEof`
says that nothing else does. It needs that a client whose EOF packet was not
doubled has one copy under way or none, and none once the file is closed
(`EofOnce`), and a detour: a data packet may overtake so much that it finds
the file closed, but EOF was sent after the window had passed everything, so
that a late or doubled packet has nothing to write (`AllReceived`, `DataEffect`). `Intact`
relates the file to `expected_seq`, and an acknowledged EOF to a closed file;
only a name that `Reopens` the file breaks it (`ServerIntact`). `NamesFirst`
says that on a path that keeps order none does (`NameInTime`). `IInv` is all
of them, `FaultInv` the first and, for clients that were not doubled or not
disturbed, the other two, and the lemmas per action serve both. Marks in `acked[]` that belong to earlier numbers
are never read for another, which `ClientSound` says by being about the numbers
the window treats as delivered only.

**lab2.** The client's check looks only at numbers below `total_packets`, the
number of packets that came, duplicates included. `CountInv` says that at
most as many numbers are marked as were counted, `OutputInv` that the bytes of
every marked packet are in the file and that the file ends with a marked one.
If no number below the count is missing, then the marked numbers are all of
them and no others (cardinality), and an initial part of the file without
holes is what they make. For `AlarmNeedsFault` and `EofMeansWhole`, `OrderInv`
says that on an undisturbed path the two queues are one run of consecutive
numbers that begins at `total_packets` and ends with the marker.

**Proxy.** `IInv` is per request: `Settled` lists what is open, answered and logged at
each place, descriptors and TLS state together (`Released`); `Searched` says that
a check no signal disturbed has passed only rows that differ, and that no row is
written while it is compared; `Resolved` says that each name that was ever resolved, and
with it the shared `hostent`, was let through. None of it limits the list, so
it holds for any number of loaders. `ListInv` follows a load step by step
(`LoadInv`) up to the sort; that a lone loader leaves what it writes is
`WritingAlone`. It says of a thread that its index stays inside the array and that it
refuses only what a file lists, unless its comparison was torn. It needs that the sorted list of a set is the only
one (`Below` counts the sites before a site; the smallest index at which two
sorted lists differ gives the contradiction).

**lab1.** By place in the program: only a socket that blocks again is read, so
that `recv` fails for a reset only; the loop ends with everything read or with
a complaint; what was read is saved as long as no write failed; the file is opened behind the request.

Only model-checked: liveness (`EndsOrStarves`, `FileClosed`, `EndsWithoutLoss`,
`EchoEnds`, `Ends`, `AcceptedEnds`). Liveness under fairness and `ENABLED` are
outside what the proof system can do. So is induction over data with an
operator as parameter, which is why the lemma on sorted lists goes through a
well-founded minimum.

## 5. Where code and documentation disagree

Each of the first three has a run whose counterexample is the scenario.

1. `lab4_x_reuse`: a later transfer from the same address inherits `received[]`
   and `buffer[]`, and a block of the old file is written into the new one.
2. `lab3_x_hang`: lab3 never resends data or EOF; one lost data packet, EOF packet
   or EOF ack hangs the client.
3. `proxy_x_window`: during a reload the list is empty, and sites that the old
   and the new file forbid are let through.

Seen while modelling, described here without a run of their own:

* lab4: `exit(0)` at the end of a sender thread ends the process while other
  replicas are incomplete, although `main` joins all threads
  (`ExitZeroMeansOneReplica` is what still holds).
* lab4: with a NULL file, after a failed `fopen`, the server's writing loop
  never ends ("Skipping write." does not skip, `myserver.c:164`); hence
  `ServerResponsive` is checked where every `fopen` succeeds.
* lab4: the client knows a refusal for a name in use (ack -20), which the server
  never sends; two overlapping transfers to one name leave a mixture.
* lab4: a client whose resends of one packet run out stays in its loop for ever:
  `myclient.c:136` stops resending and nothing leaves the loop at `:100`. It takes
  more losses than resends, a file of `MAX_SEQ_NUM` packets or more, or a server
  that no longer answers, and nothing else does it (`EndsOrStarves`).
* lab4: on a path that reorders, a late copy of the filename packet truncates a
  file with acknowledged blocks; a restarted server loses what it acknowledged,
  and acknowledges further blocks without a file to write them to. Nothing else
  makes a finished transfer fail (`DeliveredUndisturbed`).
* lab3: on such a path a late copy of the filename packet empties the file, or
  opens it again after EOF, and the client may still report success. Nothing
  else spoils a finished transfer (`DoneUndisturbed`).
* lab3: an EOF packet that the path delivers twice runs `fclose` a second time on
  the same stream (`myserver.c:180`, which does not reset `file`); nothing else
  makes the server use a file that is not open (`CrashNeedsDoubledEof`).
* lab4: entries of the client table are never given back, so that after
  `MAX_CLIENTS` clients all further ones are refused.
* lab2: "File successfully reconstructed." is printed for a copy that lacks its
  tail, because the validation stops at the number of packets that came; a
  datagram that comes twice raises a false alarm.
* lab2: the first EOF marker of any client ends the server. `PrefixOnSuccess`,
  `AlarmNeedsFault` and `EofMeansWhole` together say what is left to rely on.
* lab1: a response cut off by a reset ends with status 0, and bytes between a
  NUL and the end of a `recv` are not saved (`fprintf` with `%s`). Neither
  `fprintf` nor `fclose` is checked: a full disk ends with status 0 and no message
  (`WholeOrComplained` makes the exception).
* proxy: the result of `gethostbyname` is shared, so that a thread can connect
  to another request's host (`ContactsOnlyAdmitted` is what still holds).
* proxy: `-untrusted` is parsed and stored, and `connect_to_server` is called
  with 0 (`connection.c:338`).
* proxy: a 501 leaves the connection to the server and its TLS session, and a 502
  for lack of CA certificates the connection and the context; every other way
  out, each other 502 included, releases both (`ServerSettled`).
* proxy: a row is compared while `strncpy` or `qsort` writes it, so that during a
  reload a request can be refused for a name that neither file has, or admitted
  against its row. A search that compared whole rows refuses listed sites only,
  wherever the entries move under its index (`RefusedWasListed`).

## 6. Not modelled

* Memory outside arrays: `winsz` above `MAX_WINDOW_SIZE`, `mss` above the
  payload, lab3 numbers from `MAX_PACKETS`, lab2 numbers from 100000, more than 100 sites, and two signal
  handlers that append at once. Nothing can be said of the outcome.
* lab3 clients that name the same output file: the server opens it once per client
  (`myserver.c:169`) and their streams overwrite each other's blocks; the model
  gives each client a file of its own. `Lab4Files` models the same fault of lab4.
* What the bytes of a torn row spell: a comparison that overlaps a write may say
  anything.
* libc's locks, and thus a signal handler that waits for a lock its own thread holds.
* `active_connections[]`, written and never read; unused functions.
* lab2 with one name for input and output (the input is emptied first), and a
  lab2 server that is started a second time.
* lab4 output files across a restart or a second run of a client (`Lab4Files`
  extends the specification without them).
* Bytes of HTTP requests and responses, TLS, log wording, argument parsing, the
  clock (timeouts may happen at any time).

## 7. Plan

Order: lab4 first (the largest protocol, threads and failures), then lab3, the
proxy, lab2 and lab1. All components with behaviour are modelled, and every
safety property that a run checks is proved. What is left:

1. lab3 and lab2 with servers that are started again.
2. Proxy: what remains of `ListIsFile` when two SIGINTs are handled at once.
