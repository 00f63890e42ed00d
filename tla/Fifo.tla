-------------------------------- MODULE Fifo ---------------------------------
(***************************************************************************)
(* What a ConcurrentQueue (platform/queue) promises: push, pop, len, close *)
(* and the final drop act on one closable sequence, each in one step       *)
(* between its call and its return.                                        *)
(***************************************************************************)
EXTENDS Integers, Sequences

CONSTANTS
    Threads, Values,
    Cap,     \* the capacity, or 0 when there is none
    Strict,  \* FALSE: a push may find the queue full while a pop returns
    None

VARIABLES
    items,   \* the values pushed and not yet popped
    closed,
    call,    \* what each thread has called, or been answered
    dropped  \* the values dropped with the queue, or <<None>> while it lives

Said(o, v, n) == [op |-> o, val |-> v, num |-> n]
Ask(o)     == Said(o, None, 0)
Idle       == Ask("idle")
AskPush(v) == Said("push", v, 0)
Popped(v)  == Said("popped", v, 0)
Looked(n)  == Said("looked", None, n)
Length(n)  == Said("length", None, n)

Questions == {AskPush(v) : v \in Values} \cup {Ask("pop"), Ask("close"), Ask("len")}
Answers   == {"ok", "full", "closed", "empty", "popped", "length", "first", "again"}

Alive == dropped = <<None>>

Init ==
    /\ items = <<>> /\ closed = FALSE
    /\ call = [t \in Threads |-> Idle]
    /\ dropped = <<None>>

Call(t) ==
    /\ Alive /\ call[t] = Idle
    /\ \E q \in Questions : call' = [call EXCEPT ![t] = q]
    /\ UNCHANGED <<items, closed, dropped>>

Return(t) ==
    /\ call[t].op \in Answers
    /\ call' = [call EXCEPT ![t] = Idle]
    /\ UNCHANGED <<items, closed, dropped>>

Answer(t, a) == call' = [call EXCEPT ![t] = a]

IsFull == Cap # 0 /\ Len(items) = Cap

\* a push may note that it saw the queue full, and be told so later
LookFull(t) ==
    /\ call[t].op = "push" /\ ~closed /\ IsFull
    /\ Answer(t, [call[t] EXCEPT !.op = "sawfull"])
    /\ UNCHANGED <<items, closed, dropped>>

Push(t) ==
    /\ call[t].op \in {"push", "sawfull"}
    /\ \/ /\ closed
          /\ Answer(t, Ask("closed")) /\ UNCHANGED items
       \/ /\ \/ call[t].op = "sawfull"
             \/ ~closed /\ IsFull
             \/ ~closed /\ ~Strict /\ \E u \in Threads : call[u].op = "popped"
          /\ Answer(t, Ask("full")) /\ UNCHANGED items
       \/ /\ ~closed /\ ~IsFull
          /\ items' = Append(items, call[t].val)
          /\ Answer(t, Ask("ok"))
    /\ UNCHANGED <<closed, dropped>>

Pop(t) ==
    /\ call[t].op = "pop"
    /\ IF items = <<>>
       THEN Answer(t, Ask(IF closed THEN "closed" ELSE "empty")) /\ UNCHANGED items
       ELSE items' = Tail(items) /\ Answer(t, Popped(Head(items)))
    /\ UNCHANGED <<closed, dropped>>

Close(t) ==
    /\ call[t].op = "close"
    /\ closed' = TRUE
    /\ Answer(t, Ask(IF closed THEN "again" ELSE "first"))
    /\ UNCHANGED <<items, dropped>>

\* len answers with a length the queue had since the call; it may look again
LookLen(t) ==
    /\ call[t].op \in {"len", "looked"}
    /\ Answer(t, Looked(Len(items)))
    /\ UNCHANGED <<items, closed, dropped>>

AnswerLen(t) ==
    /\ call[t].op = "looked"
    /\ Answer(t, Length(call[t].num))
    /\ UNCHANGED <<items, closed, dropped>>

Drop ==
    /\ Alive /\ \A t \in Threads : call[t] = Idle
    /\ dropped' = items /\ items' = <<>>
    /\ UNCHANGED <<closed, call>>

Next ==
    \/ \E t \in Threads : \/ Call(t) \/ Return(t) \/ Push(t) \/ Pop(t) \/ Close(t)
                          \/ LookFull(t) \/ LookLen(t) \/ AnswerLen(t)
    \/ Drop

fvars == <<items, closed, call, dropped>>
Spec == Init /\ [][Next]_fvars
=============================================================================
