----------------------------- MODULE WaitGroup ------------------------------
(***************************************************************************)
(* platform/wait_group/wait.rs.  The source is polled by the task Main,    *)
(* but its poll keeps no waker: who is woken is the task that called       *)
(* wait_clone for the child whose done() finds the count at 0.  Cloners    *)
(* are the tasks that call it: Main, before it awaits the source, and any  *)
(* other that holds a WaitGroup, at any time.                              *)
(***************************************************************************)
EXTENDS Integers, FiniteSets

CONSTANTS Children, Main, Cloners, NoTask

VARIABLES
    pending,  \* WaitGroupInner.count
    child,    \* where each child is
    captured, \* the waker it registered
    source,   \* the source's task: "out", "asleep" after Pending, "woken", "done"
    rang      \* the task that was woken last since the source was polled

wgvars == <<pending, child, captured, source, rang>>

WgInit ==
    /\ pending = 0 /\ source = "out" /\ rang = NoTask
    /\ child = [c \in Children |-> "none"] /\ captured = [c \in Children |-> NoTask]

\* wait_clone: attach registers the caller's waker, then counts the child
Register(c, t) ==
    /\ child[c] = "none" /\ t \in Cloners /\ (t = Main => source = "out")
    /\ captured' = [captured EXCEPT ![c] = t] /\ child' = [child EXCEPT ![c] = "attach"]
    /\ UNCHANGED <<pending, source, rang>>
Attach(c) ==
    /\ child[c] = "attach"
    /\ pending' = pending + 1 /\ child' = [child EXCEPT ![c] = "live"]
    /\ UNCHANGED <<captured, source, rang>>

Wake(t) ==
    /\ rang' = t
    /\ source' = IF t = Main /\ source = "asleep" THEN "woken" ELSE source

\* mutant: the first child to be done has the only waker
DoneFirst(c) ==
    /\ child[c] = "live"
    /\ pending' = pending - 1 /\ child' = [child EXCEPT ![c] = "done"]
    /\ IF pending = Cardinality(Children) THEN Wake(captured[c]) ELSE UNCHANGED <<source, rang>>
    /\ UNCHANGED captured

\* the child is awaited: done, under the lock of the count
Done(c) ==
    /\ child[c] = "live"
    /\ pending' = pending - 1 /\ child' = [child EXCEPT ![c] = "done"]
    /\ captured' = [captured EXCEPT ![c] = IF pending = 1 THEN NoTask ELSE @]
    /\ IF pending = 1 THEN Wake(captured[c]) ELSE UNCHANGED <<source, rang>>

\* the source is polled: by its task once it has made its children, or woken
SourcePoll ==
    /\ source \in {"out", "woken"} /\ \A c \in Children : child[c] # "attach" \/ captured[c] # Main
    /\ source' = IF pending > 0 THEN "asleep" ELSE "done"
    /\ rang' = NoTask /\ UNCHANGED <<pending, child, captured>>

WgNext == SourcePoll \/ \E c \in Children : Attach(c) \/ Done(c) \/ \E t \in Cloners : Register(c, t)

-----------------------------------------------------------------------------
\* The source's task is not left asleep with nobody to wake it: while it sleeps
\* a child is still to be done, and the last one wakes it.  The exception is the
\* code's: the last child has the waker of the task that made it, so a last child
\* of another task wakes that task, and the source sleeps on.
LastChildWakes ==
    /\ pending = Cardinality({c \in Children : child[c] = "live"})
    /\ source = "asleep" => pending > 0 \/ rang \in Cloners \ {Main}
=============================================================================
