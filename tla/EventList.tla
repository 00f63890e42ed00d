----------------------------- MODULE EventList ------------------------------
(***************************************************************************)
(* What an Event (platform/event/listener.rs) promises, as operators on    *)
(* the sequence of its listeners in the order they called listen().  Each  *)
(* listener is tagged "wait", or how it was notified: "one" by notify,     *)
(* "add" by notify_additional.  Event shows that the linked list, its      *)
(* lock and its lock-free hint implement these operators atomically; the   *)
(* locks and the channel are modelled on top of them.                      *)
(***************************************************************************)
EXTENDS Integers, Sequences, FiniteSets

\* Event::new
NoListeners == <<>>

Listening(ev, l) == \E i \in DOMAIN ev : ev[i].id = l

IsNotified(ev, l) == \E i \in DOMAIN ev : ev[i].id = l /\ ev[i].tag # "wait"

NotifiedCount(ev) == Cardinality({i \in DOMAIN ev : ev[i].tag # "wait"})

\* Event::listen
Listen(ev, l) == Append(ev, [id |-> l, tag |-> "wait"])

Without(ev, l) ==
    IF ~Listening(ev, l) THEN ev
    ELSE LET i == CHOOSE j \in DOMAIN ev : ev[j].id = l
         IN  [j \in 1 .. Len(ev) - 1 |-> IF j < i THEN ev[j] ELSE ev[j + 1]]

\* the first k listeners that wait, in listening order
Mark(ev, k, tag) ==
    [i \in DOMAIN ev |->
        IF /\ ev[i].tag = "wait"
           /\ Cardinality({j \in 1..(i - 1) : ev[j].tag = "wait"}) < k
        THEN [ev[i] EXCEPT !.tag = tag] ELSE ev[i]]

\* Event::notify: see to it that n listeners are notified
Notify(ev, n) == LET c == NotifiedCount(ev) IN IF n <= c THEN ev ELSE Mark(ev, n - c, "one")

\* Event::notify_additional: notify n more
NotifyAdditional(ev, n) == Mark(ev, n, "add")

\* the future completes, the wait returns or discard is called
Consume(ev, l) == Without(ev, l)

\* Drop for EventListener: a notification it leaves unused is passed on
DropListener(ev, l) ==
    LET rest == Without(ev, l)
        tags == {ev[i].tag : i \in {j \in DOMAIN ev : ev[j].id = l}}
    IN  IF "one" \in tags THEN Notify(rest, 1)
        ELSE IF "add" \in tags THEN NotifyAdditional(rest, 1)
        ELSE rest
=============================================================================
