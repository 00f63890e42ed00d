---------------------------- MODULE BufferReader ----------------------------
(***************************************************************************)
(* BufferReader of future/swap.rs over a seekable reader, such as Cursor.  *)
(* The byte at offset i is i.  A poll of the reader may answer Pending or  *)
(* an error; the calls come in any order, and one that was left Pending    *)
(* may be followed by any other.                                           *)
(***************************************************************************)
EXTENDS Integers, Sequences

CONSTANTS
    Size,     \* the bytes of the reader
    Capacity, \* the buffer
    MaxBack   \* the least offset of a seek is -MaxBack: 2^63 in the code, small here

VARIABLES
    ipos,    \* where the reader is
    window,  \* buf[pos..cap]
    lpos,    \* where the user is: after all it has read, or where it sought
    given    \* the bytes of the last read, and where it began

bvars == <<ipos, window, lpos, given>>

MinInt == -MaxBack

BInit == ipos = 0 /\ window = <<>> /\ lpos = 0 /\ given = <<0, <<>>>>

\* the reader answers a read of up to n bytes
From(n) == {[i \in 1 .. k |-> ipos + i - 1] :
              k \in IF ipos >= Size \/ n = 0 THEN {0} ELSE 1 .. (IF n < Size - ipos THEN n ELSE Size - ipos)}

\* the user gets the bytes s
Deliver(s) == given' = <<lpos, s>> /\ lpos' = lpos + Len(s)

\* an empty buffer is passed by when the user's is at least as large
ReadThrough(n) ==
    /\ window = <<>> /\ n >= Capacity
    /\ \E s \in From(n) : ipos' = ipos + Len(s) /\ Deliver(s)
    /\ window' = <<>>

\* poll_fill_buf, whose slice is w
Fill(w) == IF window # <<>> THEN w = window /\ UNCHANGED ipos
           ELSE w \in From(Capacity) /\ ipos' = ipos + Len(w)
FillBuf == \E w \in From(Capacity) \cup {window} : Fill(w) /\ window' = w /\ UNCHANGED <<lpos, given>>

Consume(n) ==
    LET k == IF n < Len(window) THEN n ELSE Len(window) IN
    /\ window' = SubSeq(window, k + 1, Len(window))
    /\ lpos' = lpos + k /\ UNCHANGED <<ipos, given>>

Read(n) ==
    /\ ~(window = <<>> /\ n >= Capacity)
    /\ \E w \in From(Capacity) \cup {window} :
          /\ Fill(w)
          /\ LET k == IF n < Len(w) THEN n ELSE Len(w) IN
             window' = SubSeq(w, k + 1, Len(w)) /\ Deliver(SubSeq(w, 1, k))

\* a seek below 0 is refused
Seeks(to) == ipos' = to /\ window' = <<>> /\ lpos' = to /\ UNCHANGED given

\* SeekFrom::Start and End
SeekTo(to) == to \in 0 .. Size /\ Seeks(to)
\* mutant: the bytes in the buffer are not counted
SeekByOffset(n) ==
    /\ n - Len(window) >= MinInt
    /\ ipos + n >= 0 /\ ipos' = ipos + n /\ window' = <<>> /\ lpos' = lpos + n /\ UNCHANGED given
\* Current(n): relative to where the user is, in one seek if n - remainder is an i64
SeekBy(n) ==
    /\ n - Len(window) >= MinInt
    /\ (ipos + n) - Len(window) >= 0
    /\ ipos' = (ipos + n) - Len(window) /\ window' = <<>>
    /\ lpos' = lpos + n /\ UNCHANGED given
\* else in two, of which the second may be left Pending or refused: then the user is where it was
SeekTwice(n) ==
    /\ n - Len(window) < MinInt
    /\ window' = <<>>
    /\ \/ ipos' = ipos - Len(window) /\ UNCHANGED <<lpos, given>>
       \/ /\ (ipos - Len(window)) + n >= 0
          /\ ipos' = (ipos - Len(window)) + n /\ lpos' = lpos + n /\ UNCHANGED given

BNext ==
    \/ FillBuf
    \/ \E n \in 0 .. Capacity + 1 : ReadThrough(n) \/ Read(n) \/ Consume(n)
    \/ \E to \in 0 .. Size : SeekTo(to)
    \/ \E n \in MinInt .. Capacity : ipos + n <= Size + 1 /\ (SeekBy(n) \/ SeekTwice(n))

-----------------------------------------------------------------------------
\* However fills, reads around the buffer, partial consumes and seeks follow
\* one another, what is read next is the byte where the user is: the buffer
\* holds the bytes from there, the reader stands after them, and every read
\* returned consecutive bytes from where it began.
WindowSound ==
    /\ window = [i \in 1 .. Len(window) |-> lpos + i - 1]
    /\ ipos = lpos + Len(window) /\ Len(window) <= Capacity
    /\ given[2] = [i \in 1 .. Len(given[2]) |-> given[1] + i - 1]
=============================================================================
