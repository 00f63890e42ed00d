----------------------------- MODULE MCAdapters ------------------------------
(* The combinators over futures, streams, readers and writers, and the slab, *)
(* for TLC: if the part that runs, which, is one of them its module says     *)
(* what it does; the variables of the others are zero.                       *)
EXTENDS Integers, TLC

CONSTANTS
    Items, Others, MaxLen, N, MaxOut,           \* Streams
    MaxText, MaxErr,                            \* Readers
    Size, Capacity, MaxBack, Room, MaxBytes,    \* BufferReader, BufferWriter
    Objects, MaxSlots                           \* Colo

ASSUME AdaptersAssumption == MaxSlots \in Nat

VARIABLES
    which,
    op, own, given, src, over, late, res, pend, out,                        \* Streams
    kind, kept, done, again, asked, woken, answer,                          \* Futures
    call, text, at, win, buf, bytes, read, got, rstate, errs, sound,         \* Readers
    ipos, window, lpos, delivered,                                          \* BufferReader
    wbuf, written, sink, taken, doing, said,                                \* BufferWriter
    slots, limited, len, head, held, inserted                               \* Colo

St == INSTANCE Streams
Fu == INSTANCE Futures
Rd == INSTANCE Readers WITH state <- rstate
Br == INSTANCE BufferReader WITH given <- delivered
Bw == INSTANCE BufferWriter
Sl == INSTANCE Colo

stvars == <<op, own, given, src, over, late, res, pend, out>>
fvars == <<kind, kept, done, again, asked, woken, answer>>
rvars == <<call, text, at, win, buf, bytes, read, got, rstate, errs, sound>>
bvars == <<ipos, window, lpos, delivered>>
wvars == <<wbuf, written, sink, taken, doing, said>>
cvars == <<slots, limited, len, head, held, inserted>>

Adapters == {"streams", "futures", "readers", "buffer_reader", "buffer_writer", "slab"}
advars == <<stvars, fvars, rvars, bvars, wvars, cvars>>

AdInit ==
    /\ IF which = "streams" THEN St!Init
       ELSE /\ op = 0 /\ own = 0 /\ given = 0 /\ src = 0 /\ over = 0 /\ late = 0
            /\ res = 0 /\ pend = 0 /\ out = 0
    /\ IF which = "futures" THEN Fu!FInit
       ELSE /\ kind = 0 /\ kept = 0 /\ done = 0 /\ again = 0 /\ asked = 0 /\ woken = 0
            /\ answer = 0
    /\ IF which = "readers" THEN Rd!RInit
       ELSE /\ call = 0 /\ text = 0 /\ at = 0 /\ win = 0 /\ buf = 0 /\ bytes = 0
            /\ read = 0 /\ got = 0 /\ rstate = 0 /\ errs = 0 /\ sound = 0
    /\ IF which = "buffer_reader" THEN Br!BInit
       ELSE ipos = 0 /\ window = 0 /\ lpos = 0 /\ delivered = 0
    /\ IF which = "buffer_writer" THEN Bw!WInit
       ELSE wbuf = 0 /\ written = 0 /\ sink = 0 /\ taken = 0 /\ doing = 0 /\ said = 0
    /\ IF which = "slab" THEN Sl!CInit
       ELSE slots = 0 /\ limited = 0 /\ len = 0 /\ head = 0 /\ held = 0 /\ inserted = 0

AdNext ==
    \/ which = "streams" /\ St!Next /\ UNCHANGED <<fvars, rvars, bvars, wvars, cvars>>
    \/ which = "futures" /\ Fu!FNext /\ UNCHANGED <<stvars, rvars, bvars, wvars, cvars>>
    \/ which = "readers" /\ Rd!RNext /\ UNCHANGED <<stvars, fvars, bvars, wvars, cvars>>
    \/ which = "buffer_reader" /\ Br!BNext /\ UNCHANGED <<stvars, fvars, rvars, wvars, cvars>>
    \/ which = "buffer_writer" /\ Bw!WNext /\ UNCHANGED <<stvars, fvars, rvars, bvars, cvars>>
    \/ which = "slab" /\ Sl!CNext /\ UNCHANGED <<stvars, fvars, rvars, bvars, wvars>>

\* The properties of the modules, stated there: streams and futures come to
\* what their reference says, whatever inner polls answer Pending, which they
\* return only if they have asked for a wake-up, and nothing that has completed
\* is polled;
Conforms ==
    /\ which = "streams" => St!Conforms /\ St!StreamProtocol
    /\ which = "futures" => Fu!FutureResult /\ Fu!PollContract
\* readers and writers keep every byte, once and in order;
BytesInOrder ==
    /\ which = "readers" => Rd!ReadInOrder
    /\ which = "buffer_reader" => Br!WindowSound
    /\ which = "buffer_writer" => Bw!WriteInOrder
\* and the slab's keys stay with their objects.
SlabSound == which = "slab" => Sl!SlabSound
=============================================================================
