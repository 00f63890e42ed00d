----------------------------- MODULE EventSpec ------------------------------
(***************************************************************************)
(* The abstract Event: an operation of EventList takes effect in one step  *)
(* between its call and its return.                                        *)
(***************************************************************************)
EXTENDS EventList

CONSTANTS Listeners, Notifiers, MaxN

VARIABLES
    ev,    \* the listeners, as in EventList
    call   \* the operation each actor is in

None == [op |-> "none", n |-> 0]

Returned(a) == call' = [call EXCEPT ![a] = None]

Init ==
    /\ ev = NoListeners
    /\ call = [a \in Listeners \cup Notifiers |-> None]

Call ==
    \/ \E l \in Listeners, o \in {"listen", "take", "timeout", "discard", "drop"} :
          /\ call[l] = None
          /\ (o = "listen") = ~Listening(ev, l)
          /\ call' = [call EXCEPT ![l].op = o]
    \/ \E m \in Notifiers, o \in {"notify", "additional"}, n \in 1..MaxN :
          /\ call[m] = None
          /\ call' = [call EXCEPT ![m] = [op |-> o, n |-> n]]

\* poll and wait: Ready exactly when notified; a wait may also time out, a
\* poll may return Pending.
Take(l) ==
    \/ /\ call[l].op \in {"take", "timeout"} /\ IsNotified(ev, l)
       /\ ev' = Consume(ev, l)
    \/ /\ call[l].op = "take" /\ ~IsNotified(ev, l)
       /\ UNCHANGED ev
    \/ /\ call[l].op = "timeout" /\ ~IsNotified(ev, l)
       /\ ev' = Consume(ev, l)

Effect ==
    \/ \E l \in Listeners :
          /\ Returned(l)
          /\ \/ call[l].op = "listen" /\ ev' = Listen(ev, l)
             \/ Take(l)
             \/ call[l].op = "discard" /\ ev' = Consume(ev, l)
             \/ call[l].op = "drop" /\ ev' = DropListener(ev, l)
    \/ \E m \in Notifiers :
          /\ Returned(m)
          /\ \/ call[m].op = "notify" /\ ev' = Notify(ev, call[m].n)
             \/ call[m].op = "additional" /\ ev' = NotifyAdditional(ev, call[m].n)

\* a wait whose deadline passes while it is parked becomes a timeout
Deadline ==
    /\ \E l \in Listeners : /\ call[l].op = "take"
                            /\ call' = [call EXCEPT ![l].op = "timeout"]
    /\ UNCHANGED ev

Next == (Call /\ UNCHANGED ev) \/ Effect \/ Deadline

avars == <<ev, call>>
Spec == Init /\ [][Next]_avars
=============================================================================
