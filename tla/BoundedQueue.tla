---------------------------- MODULE BoundedQueue -----------------------------
(***************************************************************************)
(* platform/queue/bounded.rs: the array queue.  A word of head or tail is  *)
(* a lap, a mark bit (closed, in tail only) and an index; a slot's stamp   *)
(* says which word may take it next.  Words are integers, as in the code,  *)
(* that do not wrap within MaxPush pushes.                                 *)
(***************************************************************************)
EXTENDS Integers, Sequences

CONSTANTS
    Threads, Values, None,
    Cap,      \* the length of buffer
    MaxPush   \* bound: no push is called once so many took a slot

VARIABLES
    head, tail,
    buffer,   \* index -> stamp and value, None while uninitialised
    pc, call,
    seen,     \* the word of tail (push, len) or head (pop) the thread works on
    other,    \* len: the word of head
    dropped   \* see Fifo

vars == <<head, tail, buffer, pc, call, seen, other, dropped>>

-----------------------------------------------------------------------------
Slots == 0 .. Cap - 1

\* the least power of two that is at least Cap + 1
MarkBit == LET P == {2^i : i \in 0 .. Cap + 1}
           IN  CHOOSE p \in P : p >= Cap + 1 /\ \A q \in P : q >= Cap + 1 => p <= q
OneLap == 2 * MarkBit

Index(w)    == w % MarkBit
Lap(w)      == (w \div OneLap) * OneLap
Marked(w)   == (w \div MarkBit) % 2 = 1
Unmarked(w) == IF Marked(w) THEN w - MarkBit ELSE w

NextWord(w) == IF Index(w) + 1 < Cap THEN w + 1 ELSE Lap(w) + OneLap

\* how many slots were taken before the word w, and the word that was the n-th
Position(w) == (w \div OneLap) * Cap + Index(w)
WordAt(n)   == (n \div Cap) * OneLap + (n % Cap)

\* len's arithmetic, on the words of tail and head
LenOf(t, h) ==
    LET hix == Index(h)
        tix == Index(t)
    IN  IF hix < tix THEN tix - hix
        ELSE IF hix > tix THEN Cap - hix + tix
        ELSE IF Unmarked(t) = h THEN 0 ELSE Cap

\* What the queue holds: a push takes effect when it moves tail, before it
\* writes its slot, and a pop when it moves head.
ValueAt(w) ==
    LET W == {t \in Threads : pc[t] = "write" /\ seen[t] = w}
    IN  IF W = {} THEN buffer[Index(w)].value ELSE call[CHOOSE t \in W : TRUE].val
Items == [i \in 1 .. Position(tail) - Position(head) |->
            ValueAt(WordAt(Position(head) + i - 1))]

Calls == [t \in Threads |->
            CASE pc[t] \in {"write", "publish"} -> [op |-> "ok", val |-> None, num |-> 0]
              [] pc[t] = "read" -> [op |-> "popped", val |-> buffer[Index(seen[t])].value,
                                    num |-> 0]
              [] OTHER -> call[t]]

Q == INSTANCE Fifo WITH items <- IF dropped = <<None>> THEN Items ELSE <<>>,
                        closed <- Marked(tail), call <- Calls, Strict <- TRUE

-----------------------------------------------------------------------------
Init ==
    /\ head = 0 /\ tail = 0
    /\ buffer = [i \in Slots |-> [stamp |-> i, value |-> None]]
    /\ pc = [t \in Threads |-> "idle"] /\ call = [t \in Threads |-> Q!Idle]
    /\ seen = [t \in Threads |-> 0] /\ other = [t \in Threads |-> 0]
    /\ dropped = <<None>>

Goto(t, l)   == pc' = [pc EXCEPT ![t] = l]
Answer(t, a) == Goto(t, "return") /\ call' = [call EXCEPT ![t] = a]
See(t, w)    == seen' = [seen EXCEPT ![t] = w]
Stamp(t)     == buffer[Index(seen[t])].stamp

Call(t) ==
    /\ Q!Alive /\ pc[t] = "idle"
    /\ \E q \in Q!Questions :
          /\ q.op = "push" => Position(tail) < MaxPush
          /\ call' = [call EXCEPT ![t] = q] /\ Goto(t, q.op)
    /\ UNCHANGED <<head, tail, buffer, seen, other, dropped>>

Return(t) ==
    /\ pc[t] = "return"
    /\ Goto(t, "idle") /\ call' = [call EXCEPT ![t] = Q!Idle]
    /\ See(t, 0) /\ other' = [other EXCEPT ![t] = 0]
    /\ UNCHANGED <<head, tail, buffer, dropped>>

(***************************************************************************)
(* push                                                                    *)
(***************************************************************************)
\* tail is loaded, or returned by a failed exchange, and its mark tested; that
\* the queue was full then is noted in call, for the refinement only
SeeTail(t) ==
    /\ See(t, tail)
    /\ IF Marked(tail) THEN Answer(t, Q!Ask("closed"))
       ELSE /\ Goto(t, "stamp")
            /\ call' = IF Q!IsFull THEN [call EXCEPT ![t].op = "sawfull"] ELSE call
    /\ UNCHANGED <<head, tail, buffer, other, dropped>>

PushLoad(t) == pc[t] = "push" /\ SeeTail(t)

PushStamp(t) ==
    /\ pc[t] = "stamp"
    /\ Goto(t, IF Stamp(t) = seen[t] THEN "take"
               ELSE IF Stamp(t) + OneLap = seen[t] + 1 THEN "full"
               ELSE "push")
    /\ UNCHANGED <<head, tail, buffer, call, seen, other, dropped>>

\* the exchange is weak: it may also fail on the word it expects
PushTake(t) ==
    /\ pc[t] = "take"
    /\ \/ /\ tail = seen[t]
          /\ tail' = NextWord(tail)
          /\ Goto(t, "write")
          /\ UNCHANGED <<head, buffer, call, seen, other, dropped>>
       \/ SeeTail(t)

PushWrite(t) ==
    /\ pc[t] = "write"
    /\ buffer' = [buffer EXCEPT ![Index(seen[t])].value = call[t].val]
    /\ Goto(t, "publish")
    /\ UNCHANGED <<head, tail, call, seen, other, dropped>>

PushPublish(t) ==
    /\ pc[t] = "publish"
    /\ buffer' = [buffer EXCEPT ![Index(seen[t])].stamp = seen[t] + 1]
    /\ Answer(t, Q!Ask("ok"))
    /\ UNCHANGED <<head, tail, seen, other, dropped>>

\* mutant: a slot of the last lap is taken for a full queue, without head
PushFullEarly(t) ==
    /\ pc[t] = "full"
    /\ Answer(t, Q!Ask("full"))
    /\ UNCHANGED <<head, tail, buffer, seen, other, dropped>>

PushFull(t) ==
    /\ pc[t] = "full"
    /\ IF head + OneLap = seen[t] THEN Answer(t, Q!Ask("full"))
       ELSE Goto(t, "push") /\ UNCHANGED call
    /\ UNCHANGED <<head, tail, buffer, seen, other, dropped>>

(***************************************************************************)
(* pop                                                                     *)
(***************************************************************************)
SeeHead(t) ==
    /\ See(t, head) /\ Goto(t, "popstamp")
    /\ UNCHANGED <<head, tail, buffer, call, other, dropped>>

PopLoad(t) == pc[t] = "pop" /\ SeeHead(t)

PopStamp(t) ==
    /\ pc[t] = "popstamp"
    /\ Goto(t, IF seen[t] + 1 = Stamp(t) THEN "poptake"
               ELSE IF Stamp(t) = seen[t] THEN "empty"
               ELSE "pop")
    /\ UNCHANGED <<head, tail, buffer, call, seen, other, dropped>>

PopTake(t) ==
    /\ pc[t] = "poptake"
    /\ \/ /\ head = seen[t]
          /\ head' = NextWord(head)
          /\ Goto(t, "read")
          /\ UNCHANGED <<tail, buffer, call, seen, other, dropped>>
       \/ SeeHead(t)

PopRead(t) ==
    /\ pc[t] = "read"
    /\ call' = [call EXCEPT ![t] = Q!Popped(buffer[Index(seen[t])].value)]
    /\ buffer' = [buffer EXCEPT ![Index(seen[t])].value = None]
    /\ Goto(t, "release")
    /\ UNCHANGED <<head, tail, seen, other, dropped>>

PopRelease(t) ==
    /\ pc[t] = "release"
    /\ buffer' = [buffer EXCEPT ![Index(seen[t])].stamp = seen[t] + OneLap]
    /\ Goto(t, "return")
    /\ UNCHANGED <<head, tail, call, seen, other, dropped>>

PopEmpty(t) ==
    /\ pc[t] = "empty"
    /\ IF Unmarked(tail) = seen[t]
       THEN Answer(t, Q!Ask(IF Marked(tail) THEN "closed" ELSE "empty"))
       ELSE Goto(t, "pop") /\ UNCHANGED call
    /\ UNCHANGED <<head, tail, buffer, seen, other, dropped>>

(***************************************************************************)
(* len, close and the drop                                                 *)
(***************************************************************************)
LenTail(t) ==
    /\ pc[t] = "len"
    /\ See(t, tail) /\ Goto(t, "lenhead")
    /\ UNCHANGED <<head, tail, buffer, call, other, dropped>>

\* the length at this moment is noted in call, for the refinement only
LenHead(t) ==
    /\ pc[t] = "lenhead"
    /\ other' = [other EXCEPT ![t] = head]
    /\ call' = [call EXCEPT ![t] = Q!Looked(Len(Items))]
    /\ Goto(t, "lenagain")
    /\ UNCHANGED <<head, tail, buffer, seen, dropped>>

LenAgain(t) ==
    /\ pc[t] = "lenagain"
    /\ IF tail = seen[t] THEN Answer(t, Q!Length(LenOf(seen[t], other[t])))
       ELSE Goto(t, "len") /\ UNCHANGED call
    /\ UNCHANGED <<head, tail, buffer, seen, other, dropped>>

Close(t) ==
    /\ pc[t] = "close"
    /\ tail' = Unmarked(tail) + MarkBit
    /\ Answer(t, Q!Ask(IF Marked(tail) THEN "again" ELSE "first"))
    /\ UNCHANGED <<head, buffer, seen, other, dropped>>

Drop ==
    /\ Q!Alive /\ \A t \in Threads : pc[t] = "idle"
    /\ dropped' = [i \in 1 .. LenOf(tail, head) |->
                     buffer[(Index(head) + i - 1) % Cap].value]
    /\ UNCHANGED <<head, tail, buffer, pc, call, seen, other>>

-----------------------------------------------------------------------------
Step(t) ==
    \/ PushLoad(t) \/ PushStamp(t) \/ PushTake(t) \/ PushWrite(t) \/ PushPublish(t)
    \/ PushFull(t)
    \/ PopLoad(t) \/ PopStamp(t) \/ PopTake(t) \/ PopRead(t) \/ PopRelease(t)
    \/ PopEmpty(t)
    \/ LenTail(t) \/ LenHead(t) \/ LenAgain(t) \/ Close(t) \/ Return(t)

Next == Drop \/ \E t \in Threads : Call(t) \/ Step(t)

Spec == Init /\ [][Next]_vars

\* The array queue implements the closable FIFO exactly: pushes, pops, len,
\* close and the drop each take effect at one instant between call and return,
\* a push is told "full" only if the queue was full and open in that time, and
\* a slot is never read before it is written or written before it is read.
ImplementsFifo == Q!Spec
=============================================================================
