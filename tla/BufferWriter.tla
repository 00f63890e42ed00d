---------------------------- MODULE BufferWriter ----------------------------
(***************************************************************************)
(* BufferWriter and write_all of future/swap.rs over a writer that takes   *)
(* some of the bytes it is offered, or none, or answers Pending or an      *)
(* error.  Bytes are numbered as the user hands them in.  A call that was  *)
(* left Pending may be followed by any other.                              *)
(***************************************************************************)
EXTENDS Integers, Sequences, SequencesExt

CONSTANTS
    Room,      \* the capacity of the buffer
    MaxBytes   \* bound: how many bytes are handed in

VARIABLES
    wbuf, written,  \* the fields of BufferWriter
    sink,           \* what the writer has taken
    taken,          \* how many bytes the user was told are written
    doing,          \* the call under way, its phase, and how many bytes it has
    said            \* what the last call returned

wvars == <<wbuf, written, sink, taken, doing, said>>

Idle == <<"idle", "", 0>>
WInit == wbuf = <<>> /\ written = 0 /\ sink = <<>> /\ taken = 0 /\ doing = Idle /\ said = "none"

Ids(n) == [i \in 1 .. n |-> taken + i]
Answer(r) == doing' = Idle /\ said' = r

-----------------------------------------------------------------------------
\* poll_write flushes first what would not fit together with its n bytes
PollWrite(n) ==
    /\ doing = Idle /\ taken + n <= MaxBytes
    /\ doing' = <<"write", IF Len(wbuf) + n > Room THEN "flush_buf" ELSE "inner", n>>
    /\ UNCHANGED <<wbuf, written, sink, taken, said>>
\* poll_flush, poll_close and poll_seek
PollOther(c) ==
    /\ doing = Idle /\ doing' = <<c, "flush_buf", 0>>
    /\ UNCHANGED <<wbuf, written, sink, taken, said>>

\* poll_flush_buf: a turn of its loop, and its end, with and without an error
Drained == SubSeq(wbuf, written + 1, Len(wbuf))
FlushSome ==
    /\ doing[2] = "flush_buf" /\ written < Len(wbuf)
    /\ \E n \in 1 .. Len(wbuf) - written :
          /\ sink' = sink \o SubSeq(wbuf, written + 1, written + n)
          /\ written' = written + n
    /\ UNCHANGED <<wbuf, taken, doing, said>>
\* mutant: what was written is forgotten
FlushPendingAfresh ==
    /\ doing[2] = "flush_buf" /\ written < Len(wbuf)
    /\ written' = 0 /\ Answer("pending") /\ UNCHANGED <<wbuf, sink, taken>>
FlushPending ==
    /\ doing[2] = "flush_buf" /\ written < Len(wbuf)
    /\ Answer("pending") /\ UNCHANGED <<wbuf, written, sink, taken>>
FlushError ==   \* Ok(0) is WriteZero
    /\ doing[2] = "flush_buf" /\ written < Len(wbuf)
    /\ wbuf' = Drained /\ written' = 0 /\ Answer("err") /\ UNCHANGED <<sink, taken>>
FlushDone ==
    /\ doing[2] = "flush_buf" /\ written = Len(wbuf)
    /\ wbuf' = <<>> /\ written' = 0 /\ doing' = [doing EXCEPT ![2] = "inner"]
    /\ UNCHANGED <<sink, taken, said>>

\* more than fits in the buffer goes to the writer, which takes k of it
WriteInner ==
    /\ doing[1] = "write" /\ doing[2] = "inner" /\ doing[3] >= Room
    /\ \/ Answer("pending") /\ UNCHANGED <<sink, taken>>
       \/ Answer("err") /\ UNCHANGED <<sink, taken>>
       \/ \E k \in 0 .. doing[3] : sink' = sink \o Ids(k) /\ taken' = taken + k /\ Answer("ok")
    /\ UNCHANGED <<wbuf, written>>
WriteBuf ==
    /\ doing[1] = "write" /\ doing[2] = "inner" /\ doing[3] < Room
    /\ wbuf' = wbuf \o Ids(doing[3]) /\ taken' = taken + doing[3] /\ Answer("ok")
    /\ UNCHANGED <<written, sink>>
\* the writer's own poll_flush, poll_close or poll_seek
OtherInner ==
    /\ doing[1] \in {"flush", "close", "seek"} /\ doing[2] = "inner"
    /\ \/ Answer("pending")
       \/ Answer("err")
       \/ Answer(doing[1])
    /\ UNCHANGED <<wbuf, written, sink, taken>>

\* write_all of n bytes to the writer itself, while nothing is buffered
WriteAll(n) ==
    /\ doing = Idle /\ wbuf = <<>> /\ n > 0 /\ taken + n <= MaxBytes
    /\ doing' = <<"write_all", "loop", n>> /\ UNCHANGED <<wbuf, written, sink, taken, said>>
WriteAllTurn ==
    /\ doing[1] = "write_all" /\ UNCHANGED <<wbuf, written>>
    /\ \/ \E k \in 1 .. doing[3] :
             /\ sink' = sink \o Ids(k) /\ taken' = taken + k
             /\ IF k = doing[3] THEN Answer("all") ELSE doing' = [doing EXCEPT ![3] = @ - k] /\ UNCHANGED said
       \/ Answer("err") /\ UNCHANGED <<sink, taken>>    \* an error, or Ok(0)

WNext ==
    \/ \E n \in 0 .. Room + 1 : PollWrite(n) \/ WriteAll(n)
    \/ \E c \in {"flush", "close", "seek"} : PollOther(c)
    \/ FlushSome \/ FlushPending \/ FlushError \/ FlushDone
    \/ WriteInner \/ WriteBuf \/ OtherInner \/ WriteAllTurn

-----------------------------------------------------------------------------
\* What the writer has taken and what is still buffered are together the bytes
\* the user was told are written, once each and in order, whatever calls a
\* Pending or an error left undone; and a flush, close or seek that returns Ok
\* leaves nothing in the buffer.
WriteInOrder ==
    /\ sink \o Drained = [i \in 1 .. taken |-> i]
    /\ doing = Idle /\ said \in {"flush", "close", "seek"} => Len(sink) = taken
=============================================================================
