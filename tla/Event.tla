-------------------------------- MODULE Event --------------------------------
(***************************************************************************)
(* platform/event/listener.rs: the Event's doubly linked list of entries,  *)
(* its std Mutex, and the atomic `notified` hint that notify() reads       *)
(* without the lock.  A critical section is two steps: the work on the     *)
(* list under the lock, then ListGuard::drop, which stores the hint and    *)
(* releases the lock.  A listener's entry is named by the listener.        *)
(***************************************************************************)
EXTENDS Integers, Sequences, FiniteSets

CONSTANTS
    Listeners,  \* EventListeners, each with its task or thread
    Notifiers,  \* threads that call notify or notify_additional
    MaxN,       \* bound: the largest n passed to them
    NULL        \* the null pointer, None

ASSUME EventAssumption ==
    /\ IsFiniteSet(Listeners) /\ Listeners \cap Notifiers = {}
    /\ NULL \notin Listeners \cup Notifiers /\ MaxN \in Nat

VARIABLES
    inner,   \* whether Event.inner is allocated
    lst,     \* List, and the entries it links
    holder,  \* who holds the Mutex of the list
    hint,    \* Inner.notified
    pc,      \* where each actor is
    call,    \* the operation each actor is in, with notify's argument
    asleep,  \* listeners whose task or thread waits to be woken
    shown    \* history: the order and tags of the list when the lock was last released

vars == <<inner, lst, holder, hint, pc, call, asleep, shown>>

\* usize::MAX, above every count
UMAX == Cardinality(Listeners) + MaxN + 1

NoCall == [op |-> "none", n |-> 0]

Notified == {"one", "add"}    \* State::Notified(false) and (true)

-----------------------------------------------------------------------------
(***************************************************************************)
(* The methods of List, as functions of the list.                          *)
(***************************************************************************)

NewList ==
    [head |-> NULL, tail |-> NULL, start |-> NULL, len |-> 0, notified |-> 0,
     cache_used |-> FALSE,
     state  |-> [l \in Listeners |-> "free"],
     prev   |-> [l \in Listeners |-> NULL],
     next   |-> [l \in Listeners |-> NULL],
     cached |-> [l \in Listeners |-> FALSE]]

\* the first entry lives in Inner.cache, the others are boxed
Insert(L, e) ==
    [L EXCEPT
        !.state[e] = "created", !.prev[e] = L.tail,
        !.next = [x \in Listeners |-> IF x = e THEN NULL
                                      ELSE IF x = L.tail THEN e ELSE @[x]],
        !.cached[e] = ~L.cache_used, !.cache_used = TRUE,
        !.head = IF L.tail = NULL THEN e ELSE @,
        !.tail = e,
        !.start = IF @ = NULL THEN e ELSE @,
        !.len = @ + 1]

\* mutant: `start` is left dangling
KeepsStart(L, e) == L.start

\* remove: the counter and the first waiting entry afterwards
NotifiedWithout(L, e) == IF L.state[e] \in Notified THEN L.notified - 1 ELSE L.notified
StartWithout(L, e) == IF L.start = e THEN L.next[e] ELSE L.start

Remove(L, e) ==
    LET p == L.prev[e]
        n == L.next[e]
    IN  [L EXCEPT
            !.head = IF p = NULL THEN n ELSE @,
            !.tail = IF n = NULL THEN p ELSE @,
            !.next = [x \in Listeners |-> IF x = e THEN NULL ELSE IF x = p THEN n ELSE @[x]],
            !.prev = [x \in Listeners |-> IF x = e THEN NULL ELSE IF x = n THEN p ELSE @[x]],
            !.start = StartWithout(L, e),
            !.cache_used = @ /\ ~L.cached[e], !.cached[e] = FALSE,
            !.state[e] = "free",
            !.notified = NotifiedWithout(L, e),
            !.len = @ - 1]

\* one turn of the loop of notify and of notify_additional
Advance(L, tag) ==
    IF L.start = NULL THEN L
    ELSE [L EXCEPT !.start = L.next[L.start], !.state[L.start] = tag, !.notified = @ + 1]

Loop(L, n, tag) ==
    LET turn[k \in 0..n] == IF k = 0 THEN L ELSE Advance(turn[k - 1], tag) IN turn[n]

NotifyUpTo(L, n) == IF n <= L.notified THEN L ELSE Loop(L, n - L.notified, "one")

NotifyMore(L, n) == Loop(L, n, "add")

\* ListGuard::drop
HintOf(L) == IF L.notified < L.len THEN L.notified ELSE UMAX

\* The entries from the head along `next`.
Order(L) ==
    LET node[k \in 1..Cardinality(Listeners)] ==
            IF k = 1 THEN L.head
            ELSE IF node[k - 1] = NULL THEN NULL ELSE L.next[node[k - 1]]
        size == Cardinality({k \in DOMAIN node : node[k] # NULL})
    IN  [k \in 1..size |-> node[k]]

Tag(s) == IF s \in Notified THEN s ELSE "wait"

\* the list as EventSpec has it
AbsList(L) ==
    LET o == Order(L)
    IN  [k \in DOMAIN o |-> [id |-> o[k], tag |-> Tag(L.state[o[k]])]]

-----------------------------------------------------------------------------
Init ==
    /\ inner = FALSE /\ lst = NewList /\ holder = NULL /\ hint = UMAX
    /\ pc = [a \in Listeners \cup Notifiers |-> "none"]
    /\ call = [a \in Listeners \cup Notifiers |-> NoCall]
    /\ asleep = {} /\ shown = <<>>

Goto(a, l) == pc' = [pc EXCEPT ![a] = l]

\* a user calls an operation
Call(l, from, to, op) ==
    /\ pc[l] = from
    /\ Goto(l, to)
    /\ call' = [call EXCEPT ![l].op = op]
    /\ asleep' = asleep \ {l}
    /\ UNCHANGED <<inner, lst, holder, hint, shown>>

\* mutant: a parked thread is not unparked
WokenTasks(L) == {l \in Listeners : lst.state[l] = "polling" /\ L.state[l] \in Notified}

\* whose task or thread notify wakes: those that had registered
Woken(L) == {l \in Listeners : /\ lst.state[l] \in {"polling", "waiting"}
                               /\ L.state[l] \in Notified}

\* work under the lock; it wakes the listeners it notifies and may put the
\* caller's task or thread to sleep
Locked(a, in, L, out, sleeper) ==
    /\ pc[a] = in /\ holder = NULL
    /\ holder' = a /\ lst' = L
    /\ asleep' = ((asleep \ {a}) \cup sleeper) \ Woken(L)
    /\ Goto(a, out)
    /\ UNCHANGED <<inner, hint, call, shown>>

\* ListGuard::drop
Unlock(a, in, next) ==
    /\ pc[a] = in
    /\ hint' = HintOf(lst)
    /\ holder' = NULL
    /\ shown' = AbsList(lst)
    /\ Goto(a, next)
    /\ call' = IF next = "park" THEN call ELSE [call EXCEPT ![a] = NoCall]
    /\ UNCHANGED <<inner, lst, asleep>>

\* Event::inner: two first listeners may both allocate, one of them wins
LoadInner(l) ==
    /\ pc[l] = "inner"
    /\ Goto(l, IF inner THEN "insert" ELSE "alloc")
    /\ UNCHANGED <<inner, lst, holder, hint, call, asleep, shown>>

CasInner(l) ==
    /\ pc[l] = "alloc"
    /\ inner' = TRUE
    /\ Goto(l, "insert")
    /\ UNCHANGED <<lst, holder, hint, call, asleep, shown>>

\* Future::poll
Poll(l) ==
    IF lst.state[l] \in Notified
    THEN Locked(l, "poll", Remove(lst, l), "gone_x", {})
    ELSE Locked(l, "poll", [lst EXCEPT !.state[l] = "polling"], "idle_x", {l})

\* wait_internal: the first look, and the look after each return of park
Wait(l, in) ==
    IF lst.state[l] \in Notified
    THEN Locked(l, in, Remove(lst, l), "gone_x", {})
    ELSE Locked(l, in, [lst EXCEPT !.state[l] = "waiting"], "park_x", {l})

\* park returns when unparked, and may return spuriously
Unparked(l) ==
    /\ pc[l] = "park"
    /\ Goto(l, "rewait")
    /\ UNCHANGED <<inner, lst, holder, hint, call, asleep, shown>>

\* park_timeout returned and the deadline has passed
DeadlinePassed(l) ==
    /\ pc[l] = "park"
    /\ Goto(l, "expired")
    /\ call' = [call EXCEPT ![l].op = "timeout"]
    /\ UNCHANGED <<inner, lst, holder, hint, asleep, shown>>

\* mutant: a notify_additional is handed on as a notify
DropForgetsKind(L, l) ==
    IF L.state[l] \in Notified THEN NotifyUpTo(Remove(L, l), 1) ELSE Remove(L, l)

\* Drop for EventListener
DropEntry(L, l) ==
    LET rest == Remove(L, l)
    IN  CASE L.state[l] = "one" -> NotifyUpTo(rest, 1)
          [] L.state[l] = "add" -> NotifyMore(rest, 1)
          [] OTHER -> rest

ListenerStep(l) ==
    \/ LoadInner(l) \/ CasInner(l)
    \/ Locked(l, "insert", Insert(lst, l), "idle_x", {})
    \/ Poll(l)
    \/ Wait(l, "wait") \/ Wait(l, "rewait")
    \/ Locked(l, "expired", Remove(lst, l), "gone_x", {})
    \/ Locked(l, "discard", Remove(lst, l), "gone_x", {})
    \/ Locked(l, "drop", DropEntry(lst, l), "gone_x", {})
    \/ Unlock(l, "idle_x", "idle") \/ Unlock(l, "park_x", "park") \/ Unlock(l, "gone_x", "none")

ListenerCall(l) ==
    \/ Call(l, "none", "inner", "listen")
    \/ Call(l, "idle", "poll", "take") \/ Call(l, "idle", "wait", "take")
    \/ Call(l, "idle", "discard", "discard") \/ Call(l, "idle", "drop", "drop")

\* Event::notify and Event::notify_additional
NotifyCall(m, op) ==
    /\ pc[m] = "none"
    /\ \E n \in 1..MaxN : call' = [call EXCEPT ![m] = [op |-> op, n |-> n]]
    /\ Goto(m, "load")
    /\ UNCHANGED <<inner, lst, holder, hint, asleep, shown>>

Worthwhile(c) == hint < IF c.op = "notify" THEN c.n ELSE UMAX

\* the lock-free look at the hint
LoadHint(m) ==
    /\ pc[m] = "load"
    /\ IF inner /\ Worthwhile(call[m])
       THEN Goto(m, call[m].op) /\ UNCHANGED call
       ELSE Goto(m, "none") /\ call' = [call EXCEPT ![m] = NoCall]
    /\ UNCHANGED <<inner, lst, holder, hint, asleep, shown>>

NotifierStep(m) ==
    \/ LoadHint(m)
    \/ Locked(m, "notify", NotifyUpTo(lst, call[m].n), "x", {})
    \/ Locked(m, "additional", NotifyMore(lst, call[m].n), "x", {})
    \/ Unlock(m, "x", "none")

Next ==
    \/ \E l \in Listeners : ListenerCall(l) \/ ListenerStep(l) \/ Unparked(l) \/ DeadlinePassed(l)
    \/ \E m \in Notifiers : \/ NotifyCall(m, "notify") \/ NotifyCall(m, "additional")
                            \/ NotifierStep(m)

Spec == Init /\ [][Next]_vars

-----------------------------------------------------------------------------
(***************************************************************************)
(* Properties                                                              *)
(***************************************************************************)

\* The linked list is one: insert, remove at any place and notify keep head,
\* tail, prev, next and len in agreement, every live entry is linked exactly
\* once, `start` is its first entry not notified (all before it are), the
\* counter `notified` is exact, and at most one entry is in the cache.
ListSound ==
    LET o == Order(lst)
        live == {l \in Listeners : lst.state[l] # "free"}
    IN  /\ {o[k] : k \in DOMAIN o} = live /\ Cardinality(live) = Len(o) /\ lst.len = Len(o)
        /\ lst.tail = IF o = <<>> THEN NULL ELSE o[Len(o)]
        /\ \A k \in DOMAIN o : lst.prev[o[k]] = IF k = 1 THEN NULL ELSE o[k - 1]
        /\ \A k \in DOMAIN o : lst.state[o[k]] \in Notified <=> k <= lst.notified
        /\ lst.start = IF lst.notified < Len(o) THEN o[lst.notified + 1] ELSE NULL
        /\ {l \in live : lst.cached[l]} = {} <=> ~lst.cache_used
        /\ Cardinality({l \in Listeners : lst.cached[l]}) <= 1

\* The task or thread of a notified listener is never left asleep: a
\* notification that races with poll or park wakes whoever registered.
NoMissedWake == \A l \in asleep : lst.state[l] \notin Notified

\* The list of listeners is sound, and nobody in it sleeps notified.
EventSound == ListSound /\ NoMissedWake

\* The Event implements the atomic one of EventSpec: the lock-free look at a
\* hint that another thread is about to change loses no notification, and a
\* notified listener that is dropped hands its notification on.
Abstract == INSTANCE EventSpec WITH ev <- shown, call <- call
ImplementsEvent == Abstract!Spec
=============================================================================
