------------------------------ MODULE Readers -------------------------------
(***************************************************************************)
(* future/swap.rs: the futures and streams over an AsyncRead or an         *)
(* AsyncBufRead.  The bytes of the source are its positions 1, 2, ... and  *)
(* text says what each one is.  The source answers a poll with Pending, an *)
(* error, or some of the bytes that are left; none of them is its end.  One *)
(* step is one turn of the loop of a poll, as in Streams.                  *)
(***************************************************************************)
EXTENDS Integers, Sequences, SequencesExt

CONSTANTS
    MaxText,    \* bound: the longest source
    MaxErr      \* bound: how many errors a source answers

VARIABLES
    call,   \* the operation
    text,   \* what the bytes are: "x", the delimiter "n", "r", or "u", no UTF-8
    at,     \* the bytes taken from the source
    win,    \* those that come next in its buffer: AsyncBufRead
    buf,    \* the buffer of the operation, the user's
    bytes,  \* the Vec of read_line, lines and read_to_string
    read,   \* the count, or the limit, or the room that is left
    got,    \* what was returned: items, counts; of chain, where its first reader was left
    state,  \* what the last turn came to
    errs,   \* for each error so far, what bytes held
    sound   \* whether the debug_asserts held

rvars == <<call, text, at, win, buf, bytes, read, got, state, errs, sound>>

OnBuf  == {"read_until", "read_line", "lines", "split", "fill_buf", "copy"}
OnRead == {"read", "read_to_end", "read_to_string", "read_exact", "take", "bytes", "chain", "assert_async"}
Texts  == UNION {[1 .. n -> IF call \in {"lines", "read_line"} THEN {"x", "n", "r", "u"}
                            ELSE IF call = "read_to_string" THEN {"x", "u"}
                            ELSE {"x", "n"}] : n \in 0 .. MaxText}

K   == 2      \* the buffer of read and read_exact, the limit of take
Cut == 1      \* where the first reader of chain ends

RInit ==
    /\ call \in OnBuf \cup OnRead
    /\ text \in Texts
    /\ at = 0 /\ win = 0
    /\ buf = <<>> /\ bytes = <<>>
    /\ read = IF call \in {"read_exact", "take"} THEN K ELSE 0
    /\ got = <<>> /\ state = "loop" /\ errs = <<>> /\ sound = TRUE

-----------------------------------------------------------------------------
Turn(c) == call = c /\ state # "done" /\ UNCHANGED <<call, text>>
Left == Len(text) - at
Bytes(k) == [i \in 1 .. k |-> at + i]
Least(a, b) == IF a < b THEN a ELSE b
To(s) == state' = s

\* an answer with k bytes, to a reader with that much room
Reads(k, room) ==
    LET most == Least(room, IF win > 0 THEN win ELSE Left) IN
    /\ k \in (IF most = 0 THEN {0} ELSE 1 .. most)
    /\ at' = at + k /\ win' = (IF win > 0 THEN win - k ELSE 0) /\ UNCHANGED <<errs, sound>>
\* the source's buffer holds k bytes, which stay there
Fills(k) ==
    /\ k \in (IF win > 0 THEN {win} ELSE IF Left = 0 THEN {0} ELSE 1 .. Left)
    /\ UNCHANGED errs
Consumes(k, u) == at' = at + u /\ win' = k - u

\* Pending, whatever the operation: its fields are as they were
Suspended ==
    /\ call \in OnBuf \cup (OnRead \ {"assert_async"}) /\ state # "done"
    /\ win = 0 /\ (call = "take" => read > 0)
    /\ To("pending") /\ UNCHANGED <<call, text, at, win, buf, bytes, read, got, errs, sound>>

\* an error ends a future; a stream, whose item it is, and a reader go on
Failed ==
    /\ call \in (OnBuf \cup OnRead) \ {"read_line", "lines", "read_to_string", "assert_async"}
    /\ state # "done" /\ Len(errs) < MaxErr
    /\ win = 0 /\ (call = "take" => read > 0)
    /\ errs' = Append(errs, bytes) /\ To(IF call \in {"split", "bytes", "take", "chain"} THEN "loop" ELSE "done")
    /\ UNCHANGED <<call, text, at, win, buf, bytes, read, got, sound>>

\* AssertAsync calls again after Interrupted; bytes says Pending
Interrupted ==
    /\ call \in {"assert_async", "bytes"} /\ state # "done" /\ Len(errs) < MaxErr
    /\ errs' = Append(errs, bytes) /\ To(IF call = "bytes" THEN "pending" ELSE "loop")
    /\ UNCHANGED <<call, text, at, win, buf, bytes, read, got, sound>>

-----------------------------------------------------------------------------
\* read_until_internal: of k bytes, those up to the delimiter
Delims(k) == {i \in at + 1 .. at + k : text[i] = "n"}
Used(k) == IF Delims(k) = {} THEN k ELSE (CHOOSE i \in Delims(k) : \A j \in Delims(k) : i <= j) - at
Over(k) == Delims(k) # {} \/ k = 0

ReadUntil ==
    /\ Turn("read_until") /\ \E k \in 0 .. Left :
          /\ Fills(k) /\ Consumes(k, Used(k)) /\ buf' = buf \o Bytes(Used(k))
          /\ IF Over(k) THEN read' = 0 /\ got' = Append(got, read + Used(k)) /\ To("done")
             ELSE read' = read + Used(k) /\ UNCHANGED got /\ To("loop")
          /\ UNCHANGED <<bytes, sound>>

\* mutant: what an error or a Pending interrupted is not kept
SplitAfresh ==
    /\ Turn("split") /\ \E k \in 0 .. Left :
          LET all == Bytes(Used(k)) IN
          /\ Fills(k) /\ Consumes(k, Used(k)) /\ UNCHANGED <<bytes, sound>>
          /\ IF ~Over(k) THEN buf' = all /\ read' = read + Used(k) /\ UNCHANGED got /\ To("loop")
             ELSE buf' = <<>> /\ read' = 0 /\ got' = Append(got, SelectSeq(all, LAMBDA i : text[i] # "n")) /\ To("loop")

SplitNext ==
    /\ Turn("split") /\ \E k \in 0 .. Left :
          LET all == buf \o Bytes(Used(k)) IN
          /\ Fills(k) /\ Consumes(k, Used(k)) /\ UNCHANGED <<bytes, sound>>
          /\ IF ~Over(k) THEN buf' = all /\ read' = read + Used(k) /\ UNCHANGED got /\ To("loop")
             ELSE IF read + Used(k) = 0 /\ all = <<>> THEN UNCHANGED <<buf, read, got>> /\ To("done")
             ELSE /\ buf' = <<>> /\ read' = 0 /\ To("loop")
                  /\ got' = Append(got, IF text[Last(all)] = "n" THEN Front(all) ELSE all)

Utf8(s) == \A i \in 1 .. Len(s) : text[s[i]] # "u"
\* the end of read_line_internal: ret is not Pending, all are the bytes so far
\* and rd the count it left; s is what buf then holds
LineRead(all, rd, s) ==
    /\ bytes' = <<>> /\ read' = rd
    /\ s = IF Utf8(all) THEN all ELSE buf
    /\ sound' = (Utf8(all) => sound /\ buf = <<>> /\ rd = 0)

Trim(s) ==
    IF s = <<>> \/ text[Last(s)] # "n" THEN s
    ELSE IF Len(s) > 1 /\ text[s[Len(s) - 1]] = "r" THEN Front(Front(s)) ELSE Front(s)

LinesNext ==
    /\ Turn("lines") /\ \E k \in 0 .. Left :
          LET all == bytes \o Bytes(Used(k)) IN
          /\ Fills(k) /\ Consumes(k, Used(k))
          /\ IF ~Over(k) THEN bytes' = all /\ read' = read + Used(k) /\ UNCHANGED <<buf, got, sound>> /\ To("loop")
             ELSE \E s \in {all, buf} :
                  /\ LineRead(all, 0, s)
                  /\ IF ~Utf8(all) THEN buf' = s /\ got' = Append(got, <<0>>) /\ To("loop")
                     ELSE IF read + Used(k) = 0 /\ s = <<>> THEN buf' = s /\ UNCHANGED got /\ To("done")
                     ELSE buf' = <<>> /\ got' = Append(got, Trim(s)) /\ To("loop")

ReadLine ==
    /\ Turn("read_line") /\ \E k \in 0 .. Left :
          LET all == bytes \o Bytes(Used(k)) IN
          /\ Fills(k) /\ Consumes(k, Used(k))
          /\ IF ~Over(k) THEN bytes' = all /\ read' = read + Used(k) /\ UNCHANGED <<buf, got, sound>> /\ To("loop")
             ELSE \E s \in {all, buf} :
                  /\ LineRead(all, 0, s) /\ buf' = s /\ To("done")
                  /\ got' = IF Utf8(all) THEN Append(got, read + Used(k)) ELSE got

\* an error of the source under read_line and lines
LineFailed ==
    /\ \/ Turn("read_line") /\ To("done")
       \/ Turn("lines") /\ To("loop")
    /\ Len(errs) < MaxErr /\ win = 0 /\ errs' = Append(errs, bytes)
    /\ \E s \in {bytes, buf} : LineRead(bytes, read, s) /\ buf' = s
    /\ UNCHANGED <<at, win, got>>

\* the reader is polled again for the slice it has just reported
FillBufPoll ==
    /\ Turn("fill_buf") /\ \E k \in 0 .. Left : Fills(k) /\ Consumes(k, 0) /\ got' = Append(got, k)
    /\ To("done") /\ UNCHANGED <<buf, bytes, read, sound>>

\* copy: buf is what the writer took, read is amt; w is its answer, 0 an error or WriteZero
CopyTurn ==
    /\ Turn("copy") /\ \E k \in 0 .. Left :
          /\ Fills(k) /\ UNCHANGED <<bytes, sound>>
          /\ \/ /\ k = 0 /\ Consumes(k, 0) /\ UNCHANGED <<buf, read>>
                /\ \/ To("pending") /\ UNCHANGED got            \* poll_flush
                   \/ To("done") /\ got' = Append(got, read)
             \/ k > 0 /\ Consumes(k, 0) /\ To("pending") /\ UNCHANGED <<buf, read, got>>
             \/ \E w \in 0 .. k :
                   /\ k > 0 /\ Consumes(k, w) /\ buf' = buf \o Bytes(w) /\ read' = read + w
                   /\ To(IF w = 0 THEN "done" ELSE "loop") /\ UNCHANGED got

-----------------------------------------------------------------------------
\* read_to_end_internal: the k bytes go to the zeroed room after v, and the
\* Guard cuts off what of it was not filled
Filled(v, k) == SubSeq(v \o Bytes(k) \o <<0>>, 1, Len(v) + k)

ReadToEnd ==
    /\ Turn("read_to_end") /\ \E k \in 0 .. Left :
          /\ Reads(k, Left) /\ buf' = Filled(buf, k) /\ UNCHANGED <<bytes, read>>
          /\ IF k = 0 THEN got' = Append(got, Len(buf)) /\ To("done") ELSE UNCHANGED got /\ To("loop")

\* read_to_end of bytes, which then are buf if they are UTF-8; ok: no error
StringRead(all, ok) ==
    /\ bytes' = <<>> /\ buf' = (IF Utf8(all) THEN all ELSE buf)
    /\ sound' = (Utf8(all) => sound /\ buf = <<>>)
    /\ got' = IF ok /\ Utf8(all) THEN Append(got, Len(all)) ELSE got
    /\ To("done")
ReadToString ==
    /\ Turn("read_to_string") /\ UNCHANGED read
    /\ \/ \E k \in 1 .. Left : Reads(k, Left) /\ bytes' = Filled(bytes, k) /\ UNCHANGED <<buf, got>> /\ To("loop")
       \/ Left = 0 /\ UNCHANGED <<at, win, errs>> /\ StringRead(bytes, TRUE)
       \/ Len(errs) < MaxErr /\ errs' = Append(errs, bytes) /\ UNCHANGED <<at, win>> /\ StringRead(bytes, FALSE)

\* read: the room left in the buffer; no bytes is UnexpectedEof
ReadExact ==
    /\ Turn("read_exact") /\ UNCHANGED bytes
    /\ \/ read = 0 /\ To("done") /\ got' = Append(got, Len(buf)) /\ UNCHANGED <<at, win, errs, sound, buf, read>>
       \/ /\ read > 0 /\ UNCHANGED got
          /\ \E k \in 0 .. read : /\ Reads(k, read) /\ buf' = buf \o Bytes(k) /\ read' = read - k
                                  /\ To(IF k = 0 THEN "done" ELSE "loop")

\* poll_read with room for r bytes, then poll_fill_buf and consume, of Take; read: its limit
TakeRead ==
    /\ Turn("take") /\ UNCHANGED <<bytes, got>> /\ To("loop")
    /\ \E r \in 1 .. K, k \in 0 .. K :
          /\ Reads(k, Least(r, read)) /\ buf' = buf \o Bytes(k) /\ read' = read - k
TakeFill ==
    /\ Turn("take") /\ UNCHANGED <<bytes, got, errs, sound>> /\ To("loop")
    /\ \E k \in 0 .. Left, u \in 0 .. K :
          LET c == Least(Least(u, k), read) IN
          /\ Fills(k) /\ Consumes(k, c) /\ buf' = buf \o Bytes(c) /\ read' = read - c

BytesNext ==
    /\ Turn("bytes") /\ UNCHANGED <<bytes, read, got>>
    /\ \E k \in {0, 1} : Reads(k, 1) /\ buf' = buf \o Bytes(k) /\ To(IF k = 0 THEN "done" ELSE "loop")
\* read, read_vectored, and those of AssertAsync and of the halves of split
ReadPoll ==
    /\ Turn("read") \/ Turn("assert_async")
    /\ \E k \in 0 .. K : Reads(k, K) /\ buf' = buf \o Bytes(k)
    /\ To("done") /\ UNCHANGED <<bytes, read, got>>

\* read: 1 once the first reader has ended, which the second then answers for
First == Least(Cut, Len(text)) - at
\* poll_read, and poll_read_vectored into r bytes, in one buffer or in several
ChainRead ==
    /\ Turn("chain") /\ UNCHANGED <<bytes, got>> /\ To("loop")
    /\ \E r \in 0 .. K, k \in 0 .. K :
          /\ buf' = buf \o Bytes(k)
          /\ \/ read = 0 /\ (First > 0 \/ r = 0) /\ Reads(k, Least(r, First)) /\ UNCHANGED read
             \/ read' = 1 /\ (read = 1 \/ (First = 0 /\ r > 0)) /\ Reads(k, r)
\* poll_read_vectored, into buffers that are all empty: the answer 0 ends the first reader
ChainSkip ==
    /\ Turn("chain") /\ read = 0 /\ read' = 1 /\ To("loop")
    /\ at' = at + First /\ win' = 0 /\ got' = <<at>>
    /\ UNCHANGED <<buf, bytes, errs, sound>>
\* poll_fill_buf, and consume, of u bytes
ChainFill ==
    /\ Turn("chain") /\ UNCHANGED <<bytes, got, sound>> /\ To("loop")
    /\ \E k \in 0 .. Left, u \in 0 .. K :
          /\ Fills(k) /\ u <= k /\ Consumes(k, u) /\ buf' = buf \o Bytes(u)
          /\ \/ read = 0 /\ First > 0 /\ k <= First /\ UNCHANGED read
             \/ (read = 1 \/ First = 0) /\ read' = 1

RNext ==
    \/ Suspended \/ Failed \/ Interrupted
    \/ ReadUntil \/ SplitNext \/ LinesNext \/ ReadLine \/ LineFailed \/ FillBufPoll \/ CopyTurn
    \/ ReadToEnd \/ ReadToString \/ ReadExact \/ TakeRead \/ TakeFill \/ BytesNext \/ ReadPoll
    \/ ChainRead \/ ChainSkip \/ ChainFill

RSpec == RInit /\ [][RNext]_rvars

-----------------------------------------------------------------------------
UpTo(n) == [i \in 1 .. n |-> i]
\* the pieces of the first n bytes, with their delimiters: each ends at one of ends
Pieces(n) ==
    LET ends == {i \in 1 .. n : text[i] = "n"} \cup ({n} \ {0})
        sorted == SetToSortSeq(ends, <)
    IN [p \in DOMAIN sorted |-> LET lo == IF p = 1 THEN 0 ELSE sorted[p - 1]
                                IN [i \in 1 .. sorted[p] - lo |-> lo + i]]
Bare(s) == IF text[Last(s)] = "n" THEN Front(s) ELSE s
\* of a line, what no error made Lines drop; 0 is the item of one that is not UTF-8
Kept(s) == SelectSeq(s, LAMBDA i : \A e \in DOMAIN errs : ~Contains(errs[e], i))
Line(s) == IF Utf8(Kept(s)) THEN Trim(Kept(s)) ELSE <<0>>
\* the bytes of chain, but for those its first reader was left with
Chained == SelectSeq(UpTo(at), LAMBDA i : got = <<>> \/ i <= got[1] \/ i > Least(Cut, Len(text)))

\* No byte of the source is lost, doubled or moved, however the source divides
\* them, and wherever it answers Pending or an error: what was returned and
\* what the operation holds make up what was taken from the source; split and
\* lines return its pieces; counts are exact.  The exceptions are the code's: an
\* error in the middle of a line makes Lines drop what it had of it, and a
\* vectored read into empty buffers makes Chain leave its first reader.
ReadInOrder ==
    CASE call = "split" ->
             /\ IsPrefix(got, [p \in DOMAIN Pieces(Len(text)) |-> Bare(Pieces(Len(text))[p])])
             /\ state = "done" => Len(got) = Len(Pieces(Len(text)))
             /\ IsSuffix(buf, UpTo(at))
      [] call = "lines" ->
             /\ IsPrefix(got, [p \in DOMAIN Pieces(Len(text)) |-> Line(Pieces(Len(text))[p])])
             /\ state = "done" => Len(got) = Len(Pieces(Len(text)))
             /\ IsSuffix(bytes, UpTo(at))
      [] call \in {"read_line", "read_until"} ->
             /\ buf \o bytes = UpTo(at) \/ ~Utf8(UpTo(at))
             /\ \A i \in DOMAIN got : got[i] = at /\ (at = 0 \/ buf = Pieces(at)[1])
      [] call = "read_to_string" ->
             /\ buf \o bytes = UpTo(at) \/ (state = "done" /\ ~Utf8(UpTo(at)))
             /\ got # <<>> => got = <<at>> /\ at = Len(text)
      [] call = "fill_buf" -> \A i \in DOMAIN got : got[i] = win /\ at = 0 /\ (win = 0 => Left = 0)
      [] call = "copy" -> buf = UpTo(at) /\ read = at /\ (got # <<>> => got = <<Len(text)>>)
      [] call \in {"read_to_end", "read_exact"} ->
             /\ buf = UpTo(at)
             /\ got # <<>> => got = <<IF call = "read_to_end" THEN Len(text) ELSE K>> /\ got = <<Len(buf)>>
      [] call = "take" -> buf = UpTo(at) /\ at + read = K
      [] call = "chain" -> buf = Chained
      [] OTHER -> buf = UpTo(at)

\* The debug_asserts of read_line_internal and read_to_string hold: a line is
\* put into an empty buffer, with no count left over.
LineAsserts == sound
=============================================================================
