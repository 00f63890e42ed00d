----------------------------- MODULE SingleQueue -----------------------------
(***************************************************************************)
(* platform/queue/single.rs: the queue of capacity one, a slot guarded by  *)
(* a word of three bits.                                                   *)
(***************************************************************************)
EXTENDS Integers, Sequences

CONSTANTS Threads, Values, None

VARIABLES
    word,    \* LOCKED, PUSHED and CLOSED
    slot,    \* the value, None while uninitialised
    pc, call,
    expect,  \* pop: whether it expects CLOSED in the word
    dropped  \* see Fifo

vars == <<word, slot, pc, call, expect, dropped>>

\* What the queue holds: PUSHED is set by the thread that then writes the slot.
Writers == {t \in Threads : pc[t] = "write"}
Items == IF ~word.pushed THEN <<>>
         ELSE IF Writers # {} THEN <<call[CHOOSE t \in Writers : TRUE].val>>
         ELSE <<slot>>

\* What each thread was answered: a pop takes effect when it clears PUSHED.
Calls == [t \in Threads |->
            CASE pc[t] \in {"write", "written"} -> [op |-> "ok", val |-> None, num |-> 0]
              [] pc[t] = "read" -> [op |-> "popped", val |-> slot, num |-> 0]
              [] OTHER -> call[t]]

Q == INSTANCE Fifo WITH items <- IF dropped = <<None>> THEN Items ELSE <<>>,
                        closed <- word.closed, call <- Calls, Cap <- 1, Strict <- FALSE

-----------------------------------------------------------------------------
Init ==
    /\ word = [locked |-> FALSE, pushed |-> FALSE, closed |-> FALSE]
    /\ slot = None
    /\ pc = [t \in Threads |-> "idle"] /\ call = [t \in Threads |-> Q!Idle]
    /\ expect = [t \in Threads |-> FALSE] /\ dropped = <<None>>

Goto(t, l) == pc' = [pc EXCEPT ![t] = l]

Answer(t, a) == Goto(t, "return") /\ call' = [call EXCEPT ![t] = a]

Call(t) ==
    /\ Q!Alive /\ pc[t] = "idle"
    /\ \E q \in Q!Questions : call' = [call EXCEPT ![t] = q] /\ Goto(t, q.op)
    /\ expect' = [expect EXCEPT ![t] = FALSE]
    /\ UNCHANGED <<word, slot, dropped>>

Return(t) ==
    /\ pc[t] = "return"
    /\ Goto(t, "idle") /\ call' = [call EXCEPT ![t] = Q!Idle]
    /\ UNCHANGED <<word, slot, expect, dropped>>

Push(t) ==
    /\ pc[t] = "push"
    /\ \/ /\ word = [locked |-> FALSE, pushed |-> FALSE, closed |-> FALSE]
          /\ word' = [word EXCEPT !.locked = TRUE, !.pushed = TRUE]
          /\ Goto(t, "write") /\ UNCHANGED call
       \/ /\ word.closed
          /\ Answer(t, Q!Ask("closed")) /\ UNCHANGED word
       \/ /\ ~word.closed /\ (word.locked \/ word.pushed)
          /\ Answer(t, Q!Ask("full")) /\ UNCHANGED word
    /\ UNCHANGED <<slot, expect, dropped>>

Write(t) ==
    /\ pc[t] = "write"
    /\ slot' = call[t].val
    /\ Goto(t, "written")
    /\ UNCHANGED <<word, call, expect, dropped>>

Written(t) ==
    /\ pc[t] = "written"
    /\ word' = [word EXCEPT !.locked = FALSE]
    /\ Answer(t, Q!Ask("ok"))
    /\ UNCHANGED <<slot, expect, dropped>>

\* mutant: the slot is read while it may still be written
PopUnlocked(t) ==
    /\ pc[t] = "pop"
    /\ \/ /\ word.pushed
          /\ word' = [word EXCEPT !.locked = TRUE, !.pushed = FALSE]
          /\ Goto(t, "read") /\ UNCHANGED <<call, expect>>
       \/ /\ ~word.pushed
          /\ Answer(t, Q!Ask(IF word.closed THEN "closed" ELSE "empty"))
          /\ UNCHANGED <<word, expect>>
    /\ UNCHANGED <<slot, dropped>>

\* one turn of pop's loop: the word must be what the last turn saw, unlocked
Pop(t) ==
    /\ pc[t] = "pop"
    /\ LET hit == word = [locked |-> FALSE, pushed |-> TRUE, closed |-> expect[t]]
       IN  \/ /\ hit
              /\ word' = [word EXCEPT !.locked = TRUE, !.pushed = FALSE]
              /\ Goto(t, "read") /\ UNCHANGED <<call, expect>>
           \/ /\ ~hit /\ ~word.pushed
              /\ Answer(t, Q!Ask(IF word.closed THEN "closed" ELSE "empty"))
              /\ UNCHANGED <<word, expect>>
           \/ /\ ~hit /\ word.pushed
              /\ expect' = [expect EXCEPT ![t] = word.closed]
              /\ UNCHANGED <<word, pc, call>>
    /\ UNCHANGED <<slot, dropped>>

Read(t) ==
    /\ pc[t] = "read"
    /\ call' = [call EXCEPT ![t] = Q!Popped(slot)]
    /\ slot' = None
    /\ Goto(t, "unlock")
    /\ UNCHANGED <<word, expect, dropped>>

Unlock(t) ==
    /\ pc[t] = "unlock"
    /\ word' = [word EXCEPT !.locked = FALSE]
    /\ Goto(t, "return")
    /\ UNCHANGED <<slot, call, expect, dropped>>

\* len is one load; LenReturn is the return of what it saw
LenLoad(t) ==
    /\ pc[t] = "len"
    /\ call' = [call EXCEPT ![t] = Q!Looked(IF word.pushed THEN 1 ELSE 0)]
    /\ Goto(t, "looked")
    /\ UNCHANGED <<word, slot, expect, dropped>>

LenReturn(t) ==
    /\ pc[t] = "looked"
    /\ Answer(t, Q!Length(call[t].num))
    /\ UNCHANGED <<word, slot, expect, dropped>>

Close(t) ==
    /\ pc[t] = "close"
    /\ word' = [word EXCEPT !.closed = TRUE]
    /\ Answer(t, Q!Ask(IF word.closed THEN "again" ELSE "first"))
    /\ UNCHANGED <<slot, expect, dropped>>

Drop ==
    /\ Q!Alive /\ \A t \in Threads : pc[t] = "idle"
    /\ dropped' = IF word.pushed THEN <<slot>> ELSE <<>>
    /\ UNCHANGED <<word, slot, pc, call, expect>>

Step(t) ==
    \/ Push(t) \/ Write(t) \/ Written(t) \/ Pop(t) \/ Read(t) \/ Unlock(t)
    \/ LenLoad(t) \/ LenReturn(t) \/ Close(t) \/ Return(t)

Next == Drop \/ \E t \in Threads : Call(t) \/ Step(t)

Spec == Init /\ [][Next]_vars

\* The queue of capacity one implements the closable FIFO: no value is lost,
\* duplicated or read before it is written, whatever threads push, pop, close
\* and drop, except that a push may be told "full" while a pop is finishing.
ImplementsFifo == Q!Spec
=============================================================================
