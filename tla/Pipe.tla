-------------------------------- MODULE Pipe --------------------------------
(***************************************************************************)
(* The pipe of runtime/blocking/blocking.rs, between a task and a thread   *)
(* of the blocking pool, with the AtomicWaker (platform/atomic_waker) of   *)
(* each side.  "r" drains the ring and "w" fills it; each keeps a copy of  *)
(* both indices, which run through twice the capacity.  One step is one    *)
(* access to what the sides share.                                         *)
(***************************************************************************)
EXTENDS Integers, Sequences

CONSTANTS
    PipeCap,   \* the capacity of the ring
    MaxSent    \* bound: the bytes that go in

VARIABLES
    index,    \* Pipe.head (of "r") and Pipe.tail (of "w")
    copy,     \* for each side, its copies of head and tail
    ring,     \* the buffer
    closed,   \* Pipe.closed
    aw,       \* the AtomicWakers: their state bits, and whether a waker is stored
    woken,    \* whether the task of a side was woken since it was last polled
    ppc,      \* where each side is
    sent, received, \* the bytes the source gave, and those the destination took
    looked    \* how many bytes were published when the reader last looked

pvars == <<index, copy, ring, closed, aw, woken, ppc, sent, received, looked>>

Sides == {"r", "w"}
Peer(s) == IF s = "r" THEN "w" ELSE "r"

PInit ==
    /\ index = [s \in Sides |-> 0]
    /\ copy = [s \in Sides |-> [t \in Sides |-> 0]]
    /\ ring = [i \in 0 .. PipeCap - 1 |-> 0] /\ closed = FALSE
    /\ aw = [s \in Sides |-> [bits |-> {}, waker |-> FALSE]]
    /\ woken = [s \in Sides |-> TRUE]
    /\ ppc = [s \in Sides |-> "idle"]
    /\ sent = 0 /\ received = <<>> /\ looked = 0

-----------------------------------------------------------------------------
distance(a, b) == IF a <= b THEN b - a ELSE 2 * PipeCap - (a - b)
real_index(i) == IF i < PipeCap THEN i ELSE i - PipeCap
Advanced(i, n) == IF i + n < 2 * PipeCap THEN i + n ELSE 0
Held(c) == distance(c["r"], c["w"])
\* the reader finds the ring empty, the writer finds it full
Stuck(s, c) == Held(c) = IF s = "r" THEN 0 ELSE PipeCap

Goto(s, l) == ppc' = [ppc EXCEPT ![s] = l]
At(s, l) == ppc[s] = l
Sets(s, bits, waker) == aw' = [aw EXCEPT ![s] = [bits |-> bits, waker |-> waker]]
Wakes(s, yes) == woken' = [woken EXCEPT ![s] = @ \/ yes]
Shared == <<index, ring, closed, sent, received>>

\* a poll; the writer looks first whether the pipe is closed
Poll(s) ==
    /\ ppc[s] \in {"idle", "pending"}
    /\ woken' = [woken EXCEPT ![s] = FALSE]
    /\ Goto(s, IF s = "w" /\ closed THEN "over" ELSE IF Stuck(s, copy[s]) THEN "look" ELSE "take")
    /\ UNCHANGED <<Shared, copy, aw, looked>>

\* the index of the peer is loaded; if that changes nothing, l comes next
Load(s, in, l) ==
    LET c == [copy[s] EXCEPT ![Peer(s)] = index[Peer(s)]] IN
    /\ At(s, in) /\ copy' = [copy EXCEPT ![s] = c]
    /\ Goto(s, IF Stuck(s, c) THEN l ELSE "take")
    /\ looked' = (IF s = "r" THEN Len(received) + Held(c) ELSE looked)
    /\ UNCHANGED <<Shared, aw, woken>>
\* mutant: the index that was loaded before the waker was registered is good enough
LookBlind(s) == At(s, "relook") /\ Goto(s, "closed") /\ UNCHANGED <<Shared, copy, aw, woken, looked>>
Look(s)   == Load(s, "look", "register")
Relook(s) == Load(s, "relook", "closed")

\* AtomicWaker::register: the waker is stored, unless the peer is waking
Register(s) ==
    /\ At(s, "register")
    /\ IF aw[s].bits = {} THEN Sets(s, {"registering"}, TRUE) /\ Goto(s, "registered") ELSE UNCHANGED aw /\ Goto(s, "relook")
    /\ Wakes(s, aw[s].bits = {"waking"}) /\ UNCHANGED <<Shared, copy, looked>>
\* the peer that came in between has left the waking to the side itself
Registered(s) ==
    /\ At(s, "registered") /\ Goto(s, "relook")
    /\ Sets(s, {}, aw[s].bits = {"registering"}) /\ Wakes(s, aw[s].bits # {"registering"})
    /\ UNCHANGED <<Shared, copy, looked>>

LoadClosed(s) ==
    /\ At(s, "closed") /\ Goto(s, IF closed THEN "over" ELSE "pending")
    /\ UNCHANGED <<Shared, copy, aw, woken, looked>>

\* AtomicWaker::take of side t, by s: fetch_or, and fetch_and if nobody else is at it
Take(s, t, in, out, done) ==
    /\ At(s, in)
    /\ aw' = [aw EXCEPT ![t].bits = @ \cup {"waking"}]
    /\ Goto(s, IF aw[t].bits = {} THEN out ELSE done)
    /\ UNCHANGED <<Shared, copy, woken, looked>>
Taken(s, t, in, done) ==
    /\ At(s, in) /\ Sets(t, aw[t].bits \ {"waking"}, FALSE) /\ Goto(s, done)
    /\ Wakes(t, aw[t].waker /\ s # t) /\ UNCHANGED <<Shared, copy, looked>>
TakeOwn(s) == Take(s, s, "take", "taken", "yield") \/ Taken(s, s, "taken", "yield")
\* AtomicWaker::wake of the peer, after an index was stored or the pipe closed
WakePeer(s, at, mid, next) == Take(s, Peer(s), at, mid, next) \/ Taken(s, Peer(s), mid, next)

\* maybe_yield
Yield(s) ==
    /\ At(s, "yield") /\ UNCHANGED <<Shared, copy, aw, looked>>
    /\ \/ Goto(s, "pending") /\ Wakes(s, TRUE)
       \/ Goto(s, "copy") /\ UNCHANGED woken

\* a turn of the loop of drain: the destination takes n bytes, an error is as good as none
Drain ==
    LET c == copy["r"]
        from == real_index(c["r"])
        most == IF Held(c) < PipeCap - from THEN Held(c) ELSE PipeCap - from
    IN \E n \in 0 .. most :
       /\ At("r", "copy")
       /\ received' = received \o [i \in 1 .. n |-> ring[from + i - 1]]
       /\ copy' = [copy EXCEPT !["r"]["r"] = IF n = 0 THEN @ ELSE Advanced(@, n)]
       /\ Goto("r", IF n = 0 THEN "idle" ELSE "store")
       /\ UNCHANGED <<index, ring, closed, sent, aw, woken, looked>>
\* mutant: the bytes that are still in the ring are not counted
FillOver ==
    LET from == real_index(copy["w"]["w"]) IN
    \E n \in 0 .. PipeCap - from :
       /\ At("w", "copy") /\ sent + n <= MaxSent
       /\ ring' = [i \in DOMAIN ring |-> IF i \in from .. from + n - 1 THEN sent + 1 + i - from ELSE ring[i]]
       /\ sent' = sent + n /\ copy' = [copy EXCEPT !["w"]["w"] = IF n = 0 THEN @ ELSE Advanced(@, n)]
       /\ Goto("w", IF n = 0 THEN "idle" ELSE "check") /\ UNCHANGED <<index, closed, received, aw, woken, looked>>
\* and of fill: the source gives n bytes; the ring beyond zeroed_until is not told apart
Fill ==
    LET c == copy["w"]
        from == real_index(c["w"])
        room == PipeCap - Held(c)
        most == IF room < PipeCap - from THEN room ELSE PipeCap - from
    IN \E n \in 0 .. most :
       /\ At("w", "copy") /\ sent + n <= MaxSent
       /\ ring' = [i \in DOMAIN ring |-> IF i \in from .. from + n - 1 THEN sent + 1 + i - from ELSE ring[i]]
       /\ sent' = sent + n
       /\ copy' = [copy EXCEPT !["w"]["w"] = IF n = 0 THEN @ ELSE Advanced(@, n)]
       /\ Goto("w", IF n = 0 THEN "idle" ELSE "check")
       /\ UNCHANGED <<index, closed, received, aw, woken, looked>>
\* in a pipe that was closed meanwhile the bytes stay unpublished, and count as written
CheckClosed ==
    /\ At("w", "check") /\ Goto("w", IF closed THEN "idle" ELSE "store")
    /\ UNCHANGED <<Shared, copy, aw, woken, looked>>

Store(s) ==
    /\ At(s, "store") /\ index' = [index EXCEPT ![s] = copy[s][s]] /\ Goto(s, "wake")
    /\ UNCHANGED <<copy, ring, closed, sent, received, aw, woken, looked>>

\* Drop for Reader and Writer: between polls, or when told the pipe is over
Drop(s) ==
    /\ ppc[s] \in {"idle", "pending", "over"} /\ closed' = TRUE /\ Goto(s, "drop")
    /\ UNCHANGED <<index, copy, ring, sent, received, aw, woken, looked>>

PNext ==
    \/ \E s \in Sides : \/ Poll(s) \/ Look(s) \/ Relook(s) \/ Register(s) \/ Registered(s)
                        \/ LoadClosed(s) \/ TakeOwn(s) \/ Yield(s) \/ Store(s) \/ Drop(s)
                        \/ WakePeer(s, "wake", "waking", "copy") \/ WakePeer(s, "drop", "dropping", "gone")
    \/ Drain \/ Fill \/ CheckClosed

-----------------------------------------------------------------------------
Published == Len(received) + distance(copy["r"]["r"], index["w"])
Quiet(s) == ppc[s] \in {"idle", "pending", "over", "gone"}

\* The destination takes the bytes of the source in order, none lost, doubled
\* or overwritten before it is read; the reader is told of the end only when it
\* has all that was published at its last look.  (What is published between
\* that look and the load of `closed` is lost: the two are not one step.)
PipeInOrder ==
    /\ received = [i \in 1 .. Len(received) |-> i]
    /\ Held(index) <= PipeCap /\ Published <= sent
    /\ ppc["r"] = "over" => Len(received) = looked

\* A side that went to sleep, with the peer between its polls, has been woken
\* if it has something to do: there are bytes, there is room, or the pipe is
\* closed.
PipeWakes ==
    \A s \in Sides : ppc[s] = "pending" /\ ~woken[s] /\ Quiet(Peer(s)) => Stuck(s, index) /\ ~closed
=============================================================================
