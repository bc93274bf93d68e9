------------------------------- MODULE Stdio -------------------------------
(* Files as the C library leaves them on disk once a stream is flushed.    *)
EXTENDS Integers, Sequences

Hole == <<>>    \* what a file holds where nothing was written

(* fwrite of data through a stream that stands at offset: nothing to write *)
(* leaves the file as it is, even when offset is behind its end.           *)
WriteAt(file, offset, data) ==
    LET end == offset + Len(data) IN
    [i \in 1..(IF data # <<>> /\ end > Len(file) THEN end ELSE Len(file)) |->
        IF i \in (offset + 1)..end THEN data[i - offset]
        ELSE IF i <= Len(file) THEN file[i] ELSE Hole]
=============================================================================
