------------------------------ MODULE Readiness ------------------------------
(***************************************************************************)
(* A Source of io/reactor.rs and the operations of Async (io/mod.rs) that  *)
(* wait on it.  A task tries its operation and, if it would block, waits   *)
(* for the direction to be ready: "poll" through poll_readable or          *)
(* poll_writable, "with" through optimistic, as read_with does, "ready" by *)
(* awaiting readable or writable itself.  The poller reports a source once *)
(* and then has to be armed again.  A critical section is one step.        *)
(***************************************************************************)
EXTENDS Integers, FiniteSets

CONSTANTS
    Waiters,        \* the tasks
    Kind, Dir,      \* what each of them waits with, and for
    MaxTick         \* bound: the ticker

VARIABLES
    able,               \* the directions in which the descriptor is ready
    interest,           \* those for which the poller is armed
    ticker, tick,       \* Reactor.ticker, and the tick of each direction
    slot, ticks,        \* Private.waker and Private.ticks of each direction
    slab, fticks,       \* wakers in Private.wakers, and the ticks of each future
    wpc, roused,        \* where each task is, and whether it has been woken
    rspc, rtick, events, drained    \* the reactor, its tick, what was reported, whom it will wake

rdvars == <<able, interest, ticker, tick, slot, ticks, slab, fticks, wpc, roused, rspc, rtick, events, drained>>

Dirs == {"read", "write"}
NoTicks == <<>>
Unset == "nobody"

RdInit ==
    /\ able = {} /\ interest = {} /\ ticker = 0 /\ tick = [d \in Dirs |-> 0]
    /\ slot = [d \in Dirs |-> Unset] /\ ticks = [d \in Dirs |-> NoTicks]
    /\ slab = [d \in Dirs |-> {}] /\ fticks = [t \in Waiters |-> NoTicks]
    /\ wpc = [t \in Waiters |-> "try"] /\ roused = {}
    /\ rspc = "idle" /\ rtick = 0 /\ events = {} /\ drained = {}

Becomes(d) == d \notin able /\ able' = able \cup {d}
              /\ UNCHANGED <<interest, ticker, tick, slot, ticks, slab, fticks, wpc, roused, rspc, rtick, events, drained>>

-----------------------------------------------------------------------------
Registered(d, sl, sb) == sl[d] # Unset \/ sb[d] # {}     \* ~Private::is_empty
Interests(sl, sb) == {d \in Dirs : Registered(d, sl, sb)}

\* mutant: an event of the poll that was under way counts
FiredEarly(tk, d) == tk # NoTicks /\ tick[d] # tk[2]
\* an event since the ticks were taken, and not of the poll that was under way then
Fired(tk, d) == tk # NoTicks /\ tick[d] \notin {tk[1], tk[2]}

Goes(t, l) == wpc' = [wpc EXCEPT ![t] = l]
\* t is Pending with the wakers sl and sb; the poller is armed if there were none
Waits(t, sl, sb, woke) ==
    /\ Goes(t, "asleep") /\ slot' = sl /\ slab' = sb /\ roused' = (roused \cup woke) \ {t}
    /\ interest' = (IF Registered(Dir[t], slot, slab) THEN interest ELSE Interests(sl, sb))

\* the operation; what it leaves may still be ready
Try(t) ==
    /\ wpc[t] = "try"
    /\ IF Dir[t] \in able THEN able' \in {able, able \ {Dir[t]}} /\ UNCHANGED wpc ELSE Goes(t, "wait") /\ UNCHANGED able
    /\ UNCHANGED <<interest, ticker, tick, slot, ticks, slab, fticks, roused, rspc, rtick, events, drained>>

PollReady(t) ==
    LET d == Dir[t] IN
    /\ wpc[t] = "wait" /\ Kind[t] = "poll"
    /\ \/ Fired(ticks[d], d) /\ ticks' = [ticks EXCEPT ![d] = NoTicks] /\ Goes(t, "try")
          /\ UNCHANGED <<slot, slab, interest, roused>>
       \/ /\ ~Fired(ticks[d], d)
          /\ Waits(t, [slot EXCEPT ![d] = t], slab, {slot[d]} \ {Unset, t})
          /\ ticks' = IF slot[d] = t THEN ticks ELSE [ticks EXCEPT ![d] = <<ticker, tick[d]>>]
    /\ UNCHANGED <<able, ticker, tick, fticks, rspc, rtick, events, drained>>

\* a poll of Source::ready; when it is done its guard takes the waker out
Ready(t) ==
    LET d == Dir[t] IN
    /\ wpc[t] = "wait" /\ Kind[t] # "poll"
    /\ \/ /\ Fired(fticks[t], d) /\ Goes(t, "try") /\ fticks' = [fticks EXCEPT ![t] = NoTicks]
          /\ slab' = [slab EXCEPT ![d] = @ \ {t}] /\ UNCHANGED <<slot, interest, roused>>
       \/ /\ ~Fired(fticks[t], d)
          /\ Waits(t, slot, [slab EXCEPT ![d] = @ \cup {t}], {})
          /\ fticks' = IF fticks[t] = NoTicks THEN [fticks EXCEPT ![t] = <<ticker, tick[d]>>] ELSE fticks
    /\ UNCHANGED <<able, ticker, tick, ticks, rspc, rtick, events, drained>>

\* a task that was woken polls again: its operation, or the future it awaits;
\* or it is dropped, and with it the future; optimistic drops it, too
Again(t) ==
    /\ wpc[t] = "asleep"
    /\ \/ t \in roused /\ Kind[t] = "ready" /\ Goes(t, "wait") /\ UNCHANGED <<slab, fticks>>
       \/ /\ t \in roused \/ Kind[t] # "poll"
          /\ Goes(t, "try") /\ slab' = [slab EXCEPT ![Dir[t]] = @ \ {t}] /\ fticks' = [fticks EXCEPT ![t] = NoTicks]
    /\ UNCHANGED <<able, interest, ticker, tick, slot, ticks, roused, rspc, rtick, events, drained>>

-----------------------------------------------------------------------------
\* react, up to the poller
React ==
    /\ rspc = "idle" /\ ticker < MaxTick /\ ticker' = ticker + 1 /\ rtick' = ticker + 1 /\ rspc' = "polling"
    /\ UNCHANGED <<able, interest, tick, slot, ticks, slab, fticks, wpc, roused, events, drained>>
\* the poller reports what it is armed for, once; or it returns for another reason
PollerReports ==
    /\ rspc = "polling" /\ events' = able \cap interest
    /\ IF events' = {} THEN rspc' = "idle" /\ UNCHANGED interest ELSE rspc' = "events" /\ interest' = {}
    /\ UNCHANGED <<able, ticker, tick, slot, ticks, slab, fticks, wpc, roused, rtick, drained>>
\* mutant: the other direction is not armed again
RearmNever(sl, sb) == interest
Rearm(sl, sb) == IF Interests(sl, sb) = {} THEN interest ELSE Interests(sl, sb)
\* the source's part of react: its wakers are drained where there was an event
Process ==
    LET sl == [d \in Dirs |-> IF d \in events THEN Unset ELSE slot[d]]
        sb == [d \in Dirs |-> IF d \in events THEN {} ELSE slab[d]]
    IN
    /\ rspc = "events" /\ rspc' = "wake" /\ events' = {}
    /\ tick' = [d \in Dirs |-> IF d \in events THEN rtick ELSE tick[d]]
    /\ drained' = UNION {slab[d] \cup ({slot[d]} \ {Unset}) : d \in events}
    /\ slot' = sl /\ slab' = sb /\ interest' = Rearm(sl, sb)
    /\ UNCHANGED <<able, ticker, ticks, fticks, wpc, roused, rtick>>
WakeDrained ==
    /\ rspc = "wake" /\ rspc' = "idle" /\ roused' = roused \cup drained /\ drained' = {}
    /\ UNCHANGED <<able, interest, ticker, tick, slot, ticks, slab, fticks, wpc, rtick, events>>

RdNext ==
    \/ \E d \in Dirs : Becomes(d)
    \/ \E t \in Waiters : Try(t) \/ PollReady(t) \/ Ready(t) \/ Again(t)
    \/ React \/ PollerReports \/ Process \/ WakeDrained

-----------------------------------------------------------------------------
\* A task asleep hears of its direction: its waker is registered, or on its way
\* to be called; where one is registered the poller is armed, or an event that
\* it has reported is yet to be processed; and readiness is not concluded from
\* an event of a poll that began before the task found it would block.
AwaitsEvents ==
    /\ \A t \in Waiters : wpc[t] = "asleep" /\ t \notin roused =>
          t \in slab[Dir[t]] \cup {slot[Dir[t]]} \cup drained
    /\ \A d \in Dirs : Registered(d, slot, slab) => d \in interest \/ rspc = "events"
    /\ \A d \in Dirs : Fired(ticks[d], d) => tick[d] > ticks[d][1]
    /\ \A t \in Waiters : Fired(fticks[t], Dir[t]) => tick[Dir[t]] > fticks[t][1]
=============================================================================
