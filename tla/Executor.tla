------------------------------ MODULE Executor -------------------------------
(***************************************************************************)
(* runtime/executor.rs and platform/waker/sleeper.rs: the work-stealing    *)
(* executor.  Runners are the futures of Executor::run, with a local       *)
(* queue; Tickers those of tick and try_tick, without.  Threads spawn and  *)
(* wake tasks from outside.  A task is what Task guarantees of it: at most *)
(* one Runnable, made when an idle task is woken.  One action is one       *)
(* atomic access, one queue operation, or one critical section up to the   *)
(* `notified.swap` that ends it.                                           *)
(***************************************************************************)
EXTENDS Integers, Sequences, FiniteSets, SequencesExt

CONSTANTS
    Runners, Tickers, Threads, Tasks,
    LocalCap,  \* capacity of a local queue (512 in the code)
    NULL

ASSUME ExecutorAssumption ==
    /\ Runners \cap Tickers = {} /\ (Runners \cup Tickers) \cap Threads = {}
    /\ IsFiniteSet(Runners) /\ IsFiniteSet(Tickers) /\ IsFiniteSet(Threads)
    /\ LocalCap \in Nat \ {0}
    /\ NULL \notin Runners \cup Tickers \cup Threads \cup Tasks

Pollers == Runners \cup Tickers
Actors  == Pollers \cup Threads

VARIABLES
    \* State
    queue, local, registered, notified, sleepers, active,
    exec,      \* "alive", or how far Drop for Executor is
    st,        \* each task: "new", "idle", "sched", "done", "dropped"
    \* the actors
    pc, ret,   \* where each is, and where it goes on after a call
    todo,      \* the Runnable each holds
    src, cnt, carry,  \* steal: the source, how many are left, the one in hand
    left,      \* local queues yet to be visited
    hit,       \* the poller whose waker notify() took out
    sleeping,  \* Ticker.sleeping
    woken,     \* pollers whose waker was woken
    lock,      \* who holds the Mutex of the sleepers
    adding     \* who holds the Mutex of active (spawn keeps it to its end)

shared  == <<queue, local, registered, active, adding, exec, st>>
sleepvs == <<notified, sleepers, sleeping, lock>>
steals  == <<src, cnt, carry, left>>
vars    == <<shared, sleepvs, steals, pc, ret, todo, hit, woken>>

Goto(a, l) == pc' = [pc EXCEPT ![a] = l]

\* go on where the caller of a shared piece of code said; spawn releases active
Return(a) == /\ Goto(a, ret[a]) /\ ret' = [ret EXCEPT ![a] = "rest"]
             /\ adding' = IF adding = a THEN NULL ELSE adding

-----------------------------------------------------------------------------
(***************************************************************************)
(* Sleeper, as functions of its state.                                     *)
(***************************************************************************)
NoSleepers == [count |-> 0, wakers |-> <<>>, free_ids |-> <<>>]

\* mutant: freed ids are not reused, though taken off the list
NewIdFresh(s) == s.count + 1

NewId(s) == IF s.free_ids # <<>> THEN Last(s.free_ids) ELSE s.count + 1

SleeperInsert(s, who) ==
    [count |-> s.count + 1,
     wakers |-> Append(s.wakers, [id |-> NewId(s), who |-> who]),
     free_ids |-> IF s.free_ids # <<>> THEN Front(s.free_ids) ELSE s.free_ids]

Present(s, id) == \E i \in DOMAIN s.wakers : s.wakers[i].id = id

SleeperUpdate(s, id, who) == [s EXCEPT !.wakers = Append(@, [id |-> id, who |-> who])]

\* the last with that id goes
WithoutWaker(q, id) ==
    LET i == CHOOSE j \in DOMAIN q : q[j].id = id /\ \A k \in DOMAIN q : k > j => q[k].id # id
    IN  [j \in 1 .. Len(q) - 1 |-> IF j < i THEN q[j] ELSE q[j + 1]]

SleeperRemove(s, id) ==
    [count |-> s.count - 1, free_ids |-> Append(s.free_ids, id),
     wakers |-> IF Present(s, id) THEN WithoutWaker(s.wakers, id) ELSE s.wakers]

\* mutant: "somebody is awake" also while everybody sleeps
SleeperIsNotifiedLate(s) == s.count = 0 \/ s.count >= Len(s.wakers)

SleeperIsNotified(s) == s.count = 0 \/ s.count > Len(s.wakers)

\* notify(): one waker, unless some sleeper was notified and is still awake
SleeperNotifies(s) == s.wakers # <<>> /\ Len(s.wakers) = s.count

-----------------------------------------------------------------------------
Init ==
    /\ queue = <<>> /\ local = [r \in Runners |-> <<>>] /\ registered = {}
    /\ notified = TRUE /\ sleepers = NoSleepers /\ active = {}
    /\ exec = "alive" /\ st = [t \in Tasks |-> "new"]
    /\ pc = [a \in Actors |-> IF a \in Pollers THEN "off" ELSE "rest"]
    /\ ret = [a \in Actors |-> "rest"]
    /\ todo = [a \in Actors |-> NULL] /\ hit = [a \in Actors |-> NULL]
    /\ src = [r \in Runners |-> NULL] /\ cnt = [r \in Runners |-> 0]
    /\ carry = [r \in Runners |-> NULL] /\ left = [r \in Runners |-> {}]
    /\ sleeping = [p \in Pollers |-> 0] /\ woken = {} /\ lock = NULL /\ adding = NULL

(***************************************************************************)
(* The schedule closure, and State::notify.                                *)
(***************************************************************************)
Push(a) ==
    /\ pc[a] = "push"
    /\ queue' = Append(queue, todo[a])
    /\ todo' = [todo EXCEPT ![a] = NULL]
    /\ Goto(a, "notify")
    /\ UNCHANGED <<local, registered, active, adding, exec, st, sleepvs, steals, ret, hit, woken>>

NotifyCas(a) ==
    /\ pc[a] = "notify"
    /\ notified' = TRUE
    /\ IF notified THEN Return(a) ELSE Goto(a, "notify_lock") /\ UNCHANGED <<ret, adding>>
    /\ UNCHANGED <<queue, local, registered, active, exec, st, sleepers, sleeping, lock, steals, todo, hit, woken>>

NotifyLock(a) ==
    /\ pc[a] = "notify_lock" /\ lock = NULL
    /\ IF SleeperNotifies(sleepers)
       THEN /\ hit' = [hit EXCEPT ![a] = Last(sleepers.wakers).who]
            /\ sleepers' = [sleepers EXCEPT !.wakers = Front(@)]
            /\ Goto(a, "notify_wake") /\ UNCHANGED <<ret, adding>>
       ELSE Return(a) /\ UNCHANGED <<hit, sleepers>>
    /\ UNCHANGED <<queue, local, registered, active, exec, st, notified, sleeping, lock, steals, todo, woken>>

NotifyWake(a) ==
    /\ pc[a] = "notify_wake"
    /\ woken' = woken \cup {hit[a]}
    /\ hit' = [hit EXCEPT ![a] = NULL]
    /\ Return(a)
    /\ UNCHANGED <<queue, local, registered, active, exec, st, sleepvs, steals, todo>>

Schedule(a) == Push(a) \/ NotifyCas(a) \/ NotifyLock(a) \/ NotifyWake(a)

(***************************************************************************)
(* Outside threads: Executor::spawn, and a Waker that schedules its task.  *)
(***************************************************************************)
Spawn(h, t) ==
    /\ pc[h] = "rest" /\ exec = "alive" /\ st[t] = "new" /\ adding = NULL
    /\ adding' = h
    /\ active' = active \cup {t}
    /\ st' = [st EXCEPT ![t] = "sched"]
    /\ todo' = [todo EXCEPT ![h] = t]
    /\ ret' = [ret EXCEPT ![h] = "rest"]
    /\ Goto(h, "push")
    /\ UNCHANGED <<queue, local, registered, exec, sleepvs, steals, hit, woken>>

\* mutant: a scheduled task is scheduled again
WakeTwice(h, t) ==
    /\ pc[h] = "rest" /\ st[t] \in {"idle", "sched"}
    /\ st' = [st EXCEPT ![t] = "sched"]
    /\ todo' = [todo EXCEPT ![h] = t]
    /\ ret' = [ret EXCEPT ![h] = "rest"]
    /\ Goto(h, "push")
    /\ UNCHANGED <<queue, local, registered, active, adding, exec, sleepvs, steals, hit, woken>>

Wake(h, t) ==
    /\ pc[h] = "rest" /\ st[t] = "idle"
    /\ st' = [st EXCEPT ![t] = "sched"]
    /\ todo' = [todo EXCEPT ![h] = t]
    /\ ret' = [ret EXCEPT ![h] = "rest"]
    /\ Goto(h, "push")
    /\ UNCHANGED <<queue, local, registered, active, adding, exec, sleepvs, steals, hit, woken>>

-----------------------------------------------------------------------------
(***************************************************************************)
(* Looking for a Runnable: Runner::runnable and Ticker::runnable_with.     *)
(***************************************************************************)

\* the RwLock of the local queues is read-locked while others are visited
Visiting == {r \in Runners : \/ pc[r] \in {"others", "check"}
                             \/ pc[r] \in {"count", "steal", "stow"} /\ ret[r] = "check"}

\* Runner::new
Start(r) ==
    /\ pc[r] = "off" /\ exec = "alive" /\ Visiting = {}
    /\ registered' = registered \cup {r}
    /\ Goto(r, "search")
    /\ UNCHANGED <<queue, local, active, adding, exec, st, sleepvs, steals, ret, todo, hit, woken>>

\* tick, and try_tick, which gives up at once
StartTick(k, l) ==
    /\ pc[k] = "off" /\ exec = "alive"
    /\ Goto(k, l)
    /\ UNCHANGED <<shared, sleepvs, steals, ret, todo, hit, woken>>

SearchLocal(r) ==
    /\ pc[r] \in {"search", "check"}
    /\ IF local[r] # <<>>
       THEN /\ todo' = [todo EXCEPT ![r] = Head(local[r])]
            /\ local' = [local EXCEPT ![r] = Tail(@)]
            /\ left' = [left EXCEPT ![r] = {}]
            /\ Goto(r, "found")
       ELSE /\ Goto(r, IF pc[r] = "search" THEN "global" ELSE "others")
            /\ UNCHANGED <<todo, local, left>>
    /\ UNCHANGED <<queue, registered, active, adding, exec, st, sleepvs, src, cnt, carry, ret, hit, woken>>

\* mutant: the room in the local queue is not looked at
StealHalf(s, d) == (Len(s) + 1) \div 2

\* steal: half of the source, as far as it fits
StealCount(s, d) == LET half == (Len(s) + 1) \div 2
                        room == LocalCap - Len(d)
                    IN  IF half < room THEN half ELSE room

StealFrom(r, s, next) ==
    /\ src' = [src EXCEPT ![r] = s]
    /\ ret' = [ret EXCEPT ![r] = next]
    /\ Goto(r, "count")

SearchGlobal(r) ==
    /\ pc[r] = "global"
    /\ IF queue # <<>>
       THEN /\ todo' = [todo EXCEPT ![r] = Head(queue)]
            /\ queue' = Tail(queue)
            /\ StealFrom(r, NULL, "found")
            /\ UNCHANGED left
       ELSE /\ left' = [left EXCEPT ![r] = registered \ {r}]
            /\ Goto(r, "others")
            /\ UNCHANGED <<todo, queue, src, ret>>
    /\ UNCHANGED <<cnt, carry, local, registered, active, adding, exec, st, sleepvs, hit, woken>>

\* the other local queues, from a random one on
SearchOthers(r) ==
    /\ pc[r] = "others"
    /\ \/ /\ left[r] = {}
          /\ Goto(r, "sleep") /\ UNCHANGED <<src, left, ret>>
       \/ \E s \in left[r] :
             /\ left' = [left EXCEPT ![r] = @ \ {s}]
             /\ StealFrom(r, s, "check")
    /\ UNCHANGED <<cnt, carry, shared, sleepvs, todo, hit, woken>>

Source(r) == IF src[r] = NULL THEN queue ELSE local[src[r]]

\* the lengths are read once; both queues may change while the steal goes on
StealLen(r) ==
    /\ pc[r] = "count"
    /\ cnt' = [cnt EXCEPT ![r] = StealCount(Source(r), local[r])]
    /\ Goto(r, "steal")
    /\ UNCHANGED <<shared, sleepvs, src, carry, left, ret, todo, hit, woken>>

\* one Runnable leaves the source; while it is carried no other runner sees it
StealPop(r) ==
    /\ pc[r] = "steal"
    /\ IF cnt[r] = 0 \/ Source(r) = <<>>
       THEN /\ Return(r)
            /\ src' = [src EXCEPT ![r] = NULL] /\ cnt' = [cnt EXCEPT ![r] = 0]
            /\ UNCHANGED <<queue, local, carry>>
       ELSE /\ carry' = [carry EXCEPT ![r] = Head(Source(r))]
            /\ IF src[r] = NULL THEN queue' = Tail(queue) /\ UNCHANGED local
               ELSE local' = [local EXCEPT ![src[r]] = Tail(@)] /\ UNCHANGED queue
            /\ cnt' = [cnt EXCEPT ![r] = @ - 1]
            /\ Goto(r, "stow") /\ UNCHANGED <<src, ret, adding>>
    /\ UNCHANGED <<registered, active, exec, st, sleepvs, left, todo, hit, woken>>

StealPush(r) ==
    /\ pc[r] = "stow"
    /\ local' = [local EXCEPT ![r] = Append(@, carry[r])]
    /\ carry' = [carry EXCEPT ![r] = NULL]
    /\ Goto(r, "steal")
    /\ UNCHANGED <<queue, registered, active, adding, exec, st, sleepvs, src, cnt, left, ret, todo, hit, woken>>

\* a Ticker looks at the global queue only; try_tick never sleeps
TickSearch(k) ==
    /\ pc[k] \in {"search", "try"}
    /\ IF queue # <<>>
       THEN /\ todo' = [todo EXCEPT ![k] = Head(queue)]
            /\ queue' = Tail(queue)
            /\ Goto(k, "found")
       ELSE /\ Goto(k, IF pc[k] = "try" THEN "gone" ELSE "sleep")
            /\ UNCHANGED <<todo, queue>>
    /\ UNCHANGED <<local, registered, active, adding, exec, st, sleepvs, steals, ret, hit, woken>>

(***************************************************************************)
(* Ticker: the first failed search registers and searches again, the       *)
(* second returns Pending.                                                 *)
(***************************************************************************)
Sleep(p) ==
    /\ pc[p] = "sleep" /\ lock = NULL
    /\ \/ /\ sleeping[p] = 0
          /\ sleeping' = [sleeping EXCEPT ![p] = NewId(sleepers)]
          /\ sleepers' = SleeperInsert(sleepers, p)
          /\ lock' = p /\ Goto(p, "swap_slept")
       \/ /\ sleeping[p] # 0 /\ ~Present(sleepers, sleeping[p])
          /\ sleepers' = SleeperUpdate(sleepers, sleeping[p], p)
          /\ lock' = p /\ Goto(p, "swap_slept") /\ UNCHANGED sleeping
       \/ /\ sleeping[p] # 0 /\ Present(sleepers, sleeping[p])
          /\ Goto(p, "pending") /\ UNCHANGED <<sleeping, sleepers, lock>>
    /\ UNCHANGED <<shared, notified, steals, ret, todo, hit, woken>>

\* mutant: a poller that registered does not search once more
SwapAndSleep(p, in, next, back) ==
    /\ pc[p] = in
    /\ notified' = SleeperIsNotified(sleepers)
    /\ lock' = NULL
    /\ Goto(p, IF in = "swap_slept" THEN "pending" ELSE next)
    /\ ret' = [ret EXCEPT ![p] = back]
    /\ UNCHANGED <<shared, sleepers, sleeping, steals, todo, hit, woken>>

\* notified.swap(is_notified()), and the Mutex is released
Swap(p, in, next, back) ==
    /\ pc[p] = in
    /\ notified' = SleeperIsNotified(sleepers)
    /\ lock' = NULL
    /\ Goto(p, next)
    /\ ret' = [ret EXCEPT ![p] = back]
    /\ UNCHANGED <<shared, sleepers, sleeping, steals, todo, hit, woken>>

\* a poller that does not sleep skips the Mutex
Awake(p, in, next, back) ==
    /\ pc[p] = in /\ sleeping[p] = 0
    /\ Goto(p, next)
    /\ ret' = [ret EXCEPT ![p] = back]
    /\ UNCHANGED <<shared, sleepvs, steals, todo, hit, woken>>

\* Ticker::wake, once a Runnable is found
TickerWake(p) ==
    /\ pc[p] = "found" /\ sleeping[p] # 0 /\ lock = NULL
    /\ sleepers' = SleeperRemove(sleepers, sleeping[p])
    /\ sleeping' = [sleeping EXCEPT ![p] = 0]
    /\ lock' = p /\ Goto(p, "swap_found")
    /\ UNCHANGED <<shared, notified, steals, ret, todo, hit, woken>>

\* mutant: an unused notification is not passed on
TickerDropLoses(p) ==
    /\ pc[p] = "drop" /\ sleeping[p] # 0 /\ lock = NULL
    /\ sleepers' = SleeperRemove(sleepers, sleeping[p])
    /\ sleeping' = [sleeping EXCEPT ![p] = 0]
    /\ lock' = p
    /\ Goto(p, "swap_gone")
    /\ UNCHANGED <<shared, notified, steals, ret, todo, hit, woken>>

\* Drop for Ticker: a notification it leaves unused is passed on
TickerDrop(p) ==
    /\ pc[p] = "drop" /\ sleeping[p] # 0 /\ lock = NULL
    /\ sleepers' = SleeperRemove(sleepers, sleeping[p])
    /\ sleeping' = [sleeping EXCEPT ![p] = 0]
    /\ lock' = p
    /\ Goto(p, IF Present(sleepers, sleeping[p]) THEN "swap_gone" ELSE "swap_pass")
    /\ UNCHANGED <<shared, notified, steals, ret, todo, hit, woken>>

\* every 64th tick a Runner also steals from the global queue
Ticked(p) ==
    /\ pc[p] = "ticked"
    /\ \/ Goto(p, "run") /\ UNCHANGED <<src, ret>>
       \/ p \in Runners /\ StealFrom(p, NULL, "run")
    /\ UNCHANGED <<cnt, carry, left, shared, sleepvs, todo, hit, woken>>

\* Runnable::run returns: the task is finished, idle, or was woken meanwhile
RunEnds(p, s) ==
    /\ pc[p] = "run"
    /\ s = "done" => adding = NULL       \* its guard locks active
    /\ st' = [st EXCEPT ![todo[p]] = s]
    /\ active' = IF s = "done" THEN active \ {todo[p]} ELSE active
    /\ IF s = "sched"
       THEN /\ ret' = [ret EXCEPT ![p] = "ran"]
            /\ Goto(p, "push") /\ UNCHANGED todo
       ELSE /\ todo' = [todo EXCEPT ![p] = NULL]
            /\ Goto(p, "ran") /\ UNCHANGED ret
    /\ UNCHANGED <<queue, local, registered, adding, exec, sleepvs, steals, hit, woken>>

\* a tick is over; a Runner goes on, and yields after 200 of them
Ran(p) ==
    /\ pc[p] = "ran"
    /\ IF p \in Tickers THEN Goto(p, "gone") /\ UNCHANGED woken
       ELSE \/ Goto(p, "search") /\ UNCHANGED woken
            \/ Goto(p, "pending") /\ woken' = woken \cup {p}
    /\ UNCHANGED <<shared, sleepvs, steals, ret, todo, hit>>

\* the future of run or tick is polled again
Poll(p) ==
    /\ pc[p] = "pending"
    /\ woken' = woken \ {p}
    /\ Goto(p, "search")
    /\ UNCHANGED <<shared, sleepvs, steals, ret, todo, hit>>

(***************************************************************************)
(* The future given to run completes, or a run or tick future is dropped:  *)
(* Drop for Runner reschedules its local queue, then its Ticker is dropped. *)
(***************************************************************************)
Stop(p) ==
    /\ pc[p] = "pending"
    /\ Goto(p, IF p \in Runners THEN "unregister" ELSE "drop")
    /\ UNCHANGED <<shared, sleepvs, steals, ret, todo, hit, woken>>

Unregister(r) ==
    /\ pc[r] = "unregister" /\ Visiting = {}
    /\ registered' = registered \ {r}
    /\ Goto(r, "drain")
    /\ UNCHANGED <<queue, local, active, adding, exec, st, sleepvs, steals, ret, todo, hit, woken>>

\* mutant: the local queue is dropped with what it holds
DrainNothing(r) ==
    /\ pc[r] = "drain"
    /\ Goto(r, "drop")
    /\ UNCHANGED <<shared, sleepvs, steals, ret, todo, hit, woken>>

Drain(r) ==
    /\ pc[r] = "drain"
    /\ IF local[r] = <<>>
       THEN Goto(r, "drop") /\ UNCHANGED <<local, todo, ret>>
       ELSE /\ todo' = [todo EXCEPT ![r] = Head(local[r])]
            /\ local' = [local EXCEPT ![r] = Tail(@)]
            /\ ret' = [ret EXCEPT ![r] = "drain"]
            /\ Goto(r, "push")
    /\ UNCHANGED <<queue, registered, active, adding, exec, st, sleepvs, steals, hit, woken>>

-----------------------------------------------------------------------------
(***************************************************************************)
(* Drop for Executor, once nobody borrows it to run or to spawn: wake      *)
(* every task so that it is queued, then drop what the queue holds.        *)
(***************************************************************************)
DropStart ==
    /\ exec = "alive" /\ adding = NULL /\ \A p \in Pollers : pc[p] \in {"off", "gone"}
    /\ exec' = "waking"
    /\ UNCHANGED <<queue, local, registered, active, adding, st, sleepvs, steals, pc, ret, todo, hit, woken>>

\* mutant: idle tasks are not woken before the queue is drained
DropWakeNone ==
    /\ exec = "waking" /\ active' = {} /\ exec' = "draining"
    /\ UNCHANGED <<queue, local, registered, adding, st, sleepvs, steals, pc, ret, todo, hit, woken>>

\* with no sleepers left the notify of this wake-up has nobody to wake
DropWake ==
    /\ exec = "waking"
    /\ \/ /\ active = {} /\ exec' = "draining"
          /\ UNCHANGED <<active, st, queue>>
       \/ \E t \in active :
             /\ active' = active \ {t}
             /\ IF st[t] = "idle"
                THEN st' = [st EXCEPT ![t] = "sched"] /\ queue' = Append(queue, t)
                ELSE UNCHANGED <<st, queue>>
             /\ UNCHANGED exec
    /\ UNCHANGED <<local, registered, adding, sleepvs, steals, pc, ret, todo, hit, woken>>

DropDrain ==
    /\ exec = "draining"
    /\ IF queue = <<>> THEN exec' = "gone" /\ UNCHANGED <<queue, st>>
       ELSE /\ st' = [st EXCEPT ![Head(queue)] = "dropped"]
            /\ queue' = Tail(queue) /\ UNCHANGED exec
    /\ UNCHANGED <<local, registered, active, adding, sleepvs, steals, pc, ret, todo, hit, woken>>

-----------------------------------------------------------------------------
PollerStep(p) ==
    \/ Schedule(p)
    \/ Sleep(p) \/ Swap(p, "swap_slept", "search", "rest")
    \/ TickerWake(p) \/ Swap(p, "swap_found", "notify", "ticked")
    \/ Awake(p, "found", "notify", "ticked")
    \/ Ticked(p) \/ Ran(p)
    \/ TickerDrop(p) \/ Swap(p, "swap_gone", "gone", "rest")
    \/ Swap(p, "swap_pass", "notify", "gone") \/ Awake(p, "drop", "gone", "rest")

RunnerStep(r) ==
    \/ SearchLocal(r) \/ SearchGlobal(r) \/ SearchOthers(r)
    \/ StealLen(r) \/ StealPop(r) \/ StealPush(r) \/ Unregister(r) \/ Drain(r)

Runs(p) == \E s \in {"done", "idle", "sched"} : RunEnds(p, s)

Next ==
    \/ \E r \in Runners : Start(r) \/ RunnerStep(r)
    \/ \E k \in Tickers : StartTick(k, "search") \/ StartTick(k, "try") \/ TickSearch(k)
    \/ \E p \in Pollers : PollerStep(p) \/ Runs(p) \/ Poll(p) \/ Stop(p)
    \/ \E h \in Threads : \/ Schedule(h)
                          \/ \E t \in Tasks : Spawn(h, t) \/ Wake(h, t)
    \/ DropStart \/ DropWake \/ DropDrain

(***************************************************************************)
(* A thread inside the code goes on, and a Mutex or RwLock does not keep   *)
(* it out for ever (strong fairness); a run ends; a poller whose waker was *)
(* woken is polled again.  Nobody has to spawn, wake, start or stop.       *)
(***************************************************************************)
GoesOn(a) ==
    \/ Schedule(a)
    \/ a \in Pollers /\ (PollerStep(a) \/ Runs(a) \/ (a \in woken /\ Poll(a)))
    \/ a \in Runners /\ RunnerStep(a)
    \/ a \in Tickers /\ TickSearch(a)

Fairness == \A a \in Actors : SF_vars(GoesOn(a))

Spec == Init /\ [][Next]_vars
FairSpec == Spec /\ Fairness

-----------------------------------------------------------------------------
(***************************************************************************)
(* Properties                                                              *)
(***************************************************************************)

\* How many Runnables of t there are, in queues and in hands.
Copies(t) ==
    LET In(q) == Cardinality({i \in DOMAIN q : q[i] = t})
    IN  In(queue) + Cardinality({r \in Runners : carry[r] = t})
        + Cardinality({a \in Actors : todo[a] = t})
        + Cardinality(UNION {{<<r, i>> : i \in {j \in DOMAIN local[r] : local[r][j] = t}} :
                             r \in Runners})

\* Stealing, draining and rescheduling neither lose nor duplicate a Runnable:
\* a scheduled task is in exactly one place, any other in none.
RunnableInOnePlace == \A t \in Tasks : Copies(t) = IF st[t] = "sched" THEN 1 ELSE 0

\* What steal asserts: what it pushes fits into the local queue, also while
\* others steal from it.
StealFits == \A r \in Runners : Len(local[r]) <= LocalCap

\* Runnables are conserved by steal, and its assertion holds.
RunnablesConserved == RunnableInOnePlace /\ StealFits

\* The Sleeper's ids: no two pollers share one, no id in use is free, the count
\* is the number of ids in use, and a waker in the list belongs to the poller
\* that sleeps with its id.
SleeperSound ==
    LET used == {p \in Pollers : sleeping[p] # 0}
        free == {sleepers.free_ids[i] : i \in DOMAIN sleepers.free_ids}
    IN  /\ \A p, q \in used : sleeping[p] = sleeping[q] => p = q
        /\ \A p \in used : sleeping[p] \notin free
        /\ sleepers.count = Cardinality(used)
        /\ \A i \in DOMAIN sleepers.wakers :
              sleeping[sleepers.wakers[i].who] = sleepers.wakers[i].id

\* A poller that is not asleep for good: it is in the code, or was woken and
\* has yet to be polled.
IsAwake(p) == pc[p] \notin {"off", "gone"} /\ (pc[p] = "pending" => p \in woken)

\* No lost wake-up: when a Runnable is in the global queue and somebody sleeps,
\* some poller is awake or somebody is about to notify.
NoLostWakeup ==
    queue # <<>> /\ (\E p \in Pollers : pc[p] = "pending")
        => \/ \E p \in Pollers : IsAwake(p)
           \/ \E h \in Threads : pc[h] \in {"notify", "notify_lock", "notify_wake"}

\* A local queue is never left behind: it is empty once its runner is gone (Drop
\* for Runner hands the rest on), also while others were stealing.
NothingLeftBehind ==
    \A r \in Runners : pc[r] \in {"off", "gone"} => local[r] = <<>>

\* Drop for Executor drops every task that no other thread was scheduling.
DropDropsTasks ==
    exec = "gone" =>
        \A t \in Tasks : \/ st[t] \in {"new", "done", "dropped"}
                         \/ \E i \in DOMAIN queue : queue[i] = t
                         \/ \E h \in Threads : todo[h] = t

\* What Runner and Executor leave when they are dropped: nothing.
DropsComplete == NothingLeftBehind /\ DropDropsTasks

\* A scheduled task is run (or dropped) as long as some runner remains.
ScheduledIsRun ==
    \A t \in Tasks : (st[t] = "sched" /\ \A a \in Actors : todo[a] # t)
        ~> \/ st[t] # "sched" \/ \E p \in Pollers : todo[p] = t
           \/ \A p \in Pollers : pc[p] \in {"off", "gone"}
=============================================================================
