-------------------------------- MODULE Timers -------------------------------
(***************************************************************************)
(* Timer of io/mod.rs and the timers of io/reactor.rs.  Insertions and     *)
(* removals go through a bounded queue, which whoever finds it full, and   *)
(* the reactor, empties into the map under its lock.  The reactor sleeps   *)
(* in the poller until its deadline or a notify.  A timer's registration   *)
(* has a fresh id, and time does not run backwards.                        *)
(***************************************************************************)
EXTENDS Integers, Sequences, FiniteSets

CONSTANTS
    Users,      \* the owners of one Timer each
    MaxTime,    \* bound: the clock
    MaxId,      \* bound: the ids given out
    OpsCap      \* the capacity of timer_ops: 1000 in the code

VARIABLES
    now,
    due,         \* when the timer of each registration is due, in the order of their ids
    mine,        \* the registration of each Timer, 0 if none
    whenOf,      \* Timer.when
    todo,        \* what the call of each user has yet to do
    ops, timers, \* Reactor.timer_ops, and the ids in Reactor.timers
    flag,        \* the poller has been notified
    rpc, deadline, wakers,  \* the reactor: where it is, until when, whom it will wake
    woken        \* registrations whose waker was called

tvars == <<now, due, mine, whenOf, todo, ops, timers, flag, rpc, deadline, wakers, woken>>

Never == MaxTime + 2

TInit ==
    /\ now = 0 /\ due = <<>> /\ mine = [u \in Users |-> 0]
    /\ whenOf \in [Users -> {1}] /\ todo = [u \in Users |-> <<>>]
    /\ ops = <<>> /\ timers = {} /\ flag = FALSE
    /\ rpc = "react" /\ deadline = Never /\ wakers = {} /\ woken = {}

Tick == now < MaxTime /\ now' = now + 1
        /\ UNCHANGED <<due, mine, whenOf, todo, ops, timers, flag, rpc, deadline, wakers, woken>>

-----------------------------------------------------------------------------
Removal(id) == IF id = 0 THEN <<>> ELSE <<<<"remove", id>>>>
Insertion == <<<<"insert", Len(due) + 1>>, <<"notify", 0>>>>

\* a method of u's Timer, left with its removals and insertions to do
Call(u, steps, id, when) ==
    /\ todo[u] = <<>> /\ (id > 0 => id <= MaxId)
    /\ todo' = [todo EXCEPT ![u] = steps] /\ mine' = [mine EXCEPT ![u] = id]
    /\ whenOf' = [whenOf EXCEPT ![u] = when]
    /\ due' = (IF id > Len(due) THEN Append(due, when) ELSE due)
    /\ UNCHANGED <<now, ops, timers, flag, rpc, deadline, wakers, woken>>

\* poll_next of a timer that is due, with and without another period
PollDue(u) ==
    /\ now >= whenOf[u]
    /\ \/ Call(u, Removal(mine[u]), 0, whenOf[u])
       \/ Call(u, Removal(mine[u]) \o Insertion, Len(due) + 1, whenOf[u] + 1)
\* poll_next of one that is not: registered now, or anew for another waker
PollEarly(u) == now < whenOf[u] /\ Call(u, Removal(mine[u]) \o Insertion, Len(due) + 1, whenOf[u])
\* set_at, set_interval_at: a registration is made anew, if there is one
SetAt(u, when) ==
    IF mine[u] = 0 THEN Call(u, <<>>, 0, when)
    ELSE Call(u, Removal(mine[u]) \o Insertion, Len(due) + 1, when)
DropTimer(u) == Call(u, Removal(mine[u]), 0, whenOf[u])

\* process_timer_ops, in the order of the queue: a timer stays unless it is removed last
Emptied ==
    {id \in timers \cup {ops[i][2] : i \in DOMAIN ops} :
        \A i \in DOMAIN ops : ops[i] = <<"remove", id>> => \E j \in i + 1 .. Len(ops) : ops[j] = <<"insert", id>>}

\* mutant: the poller is not notified
PushSilent(u) ==
    /\ todo[u] # <<>> /\ Len(ops) < OpsCap
    /\ ops' = Append(ops, Head(todo[u])) /\ todo' = [todo EXCEPT ![u] = SelectSeq(Tail(@), LAMBDA o : o[1] # "notify")]
    /\ UNCHANGED <<now, due, mine, whenOf, timers, flag, rpc, deadline, wakers, woken>>
\* add_timer and remove_timer: a push, again after the queue was emptied if it was full
Push(u) ==
    /\ todo[u] # <<>> /\ Head(todo[u])[1] # "notify"
    /\ IF Len(ops) < OpsCap
       THEN ops' = Append(ops, Head(todo[u])) /\ todo' = [todo EXCEPT ![u] = Tail(@)] /\ UNCHANGED timers
       ELSE ops' = <<>> /\ timers' = Emptied /\ UNCHANGED todo
    /\ UNCHANGED <<now, due, mine, whenOf, flag, rpc, deadline, wakers, woken>>
Notify(u) ==
    /\ todo[u] # <<>> /\ Head(todo[u])[1] = "notify"
    /\ flag' = TRUE /\ todo' = [todo EXCEPT ![u] = Tail(@)]
    /\ UNCHANGED <<now, due, mine, whenOf, ops, timers, rpc, deadline, wakers, woken>>

-----------------------------------------------------------------------------
\* process_timers: split_off(&(now, 0)) leaves those that are due now
Due == {id \in Emptied : due[id] < now}
NextDue == LET S == {due[id] : id \in Emptied \ Due} IN
           IF Due # {} THEN now ELSE IF S = {} THEN Never ELSE CHOOSE t \in S : \A s \in S : t <= s
ProcessTimers == ops' = <<>> /\ timers' = Emptied \ Due /\ wakers' = wakers \cup Due

\* react, up to the poller
React ==
    /\ rpc = "react" /\ ProcessTimers /\ deadline' = NextDue /\ rpc' = "asleep"
    /\ UNCHANGED <<now, due, mine, whenOf, todo, flag, woken>>
\* the poller returns: with events, by a notify or at the deadline, the last two with Ok(0),
\* after which the timers are processed again, unless the timeout was zero
PollerReturns ==
    /\ rpc = "asleep"
    /\ \/ UNCHANGED <<ops, timers, wakers, flag>>      \* events, or Interrupted
       \/ (flag \/ now >= deadline) /\ flag' = FALSE /\ ProcessTimers
    /\ rpc' = "wake" /\ UNCHANGED <<now, due, mine, whenOf, todo, deadline, woken>>
WakeAll ==
    /\ rpc = "wake" /\ woken' = woken \cup wakers /\ wakers' = {} /\ rpc' = "react" /\ deadline' = Never
    /\ UNCHANGED <<now, due, mine, whenOf, todo, ops, timers, flag>>

TNext ==
    \/ Tick \/ React \/ PollerReturns \/ WakeAll
    \/ \E u \in Users : \/ PollDue(u) \/ PollEarly(u) \/ DropTimer(u) \/ Push(u) \/ Notify(u)
                        \/ \E t \in 0 .. MaxTime : SetAt(u, t)

-----------------------------------------------------------------------------
Between(u) == todo[u] = <<>>

\* A registered timer wakes its owner, and not before it is due: it is among
\* the timers once the queue is emptied, unless its waker has been called or is
\* about to be; a reactor asleep in the poller, which nobody has notified or is
\* about to, wakes up for the first of them; and no timer outlives its removal.
TimersFire ==
    /\ \A u \in Users : Between(u) /\ mine[u] # 0 => mine[u] \in Emptied \cup wakers \cup woken
    /\ rpc = "asleep" /\ ~flag /\ (\A u \in Users : Between(u)) => \A id \in Emptied : deadline <= due[id]
    /\ (\A u \in Users : Between(u)) => Emptied \subseteq {mine[u] : u \in Users}
    /\ \A id \in wakers \cup woken : due[id] < now
=============================================================================
