--------------------------- MODULE ExecutorProofs ----------------------------
(***************************************************************************)
(* Proofs about Executor, for any number of runners, tickers, threads and  *)
(* tasks and any capacity of the local queues.                             *)
(*                                                                         *)
(* ControlInv says what an actor holds from where it is; with it every     *)
(* step moves at most one Runnable, so each stays in one place (Conserved).*)
(* DropInv says which tasks the drop of the executor still knows of.       *)
(* SleepInv is why no wake-up is lost: the flag `notified` is set only     *)
(* while somebody is about to lock the Sleeper or to set the flag again,   *)
(* or while a sleeper that was woken is not back in the list; and whoever  *)
(* is asleep is in the list or about to be woken.                          *)
(* The last section is about Worker, the threads in block_on, which drive  *)
(* the reactor while the executor's threads run tasks.                     *)
(***************************************************************************)
EXTENDS Executor, Worker, ProofLemmas

\* Where an actor is in State::notify, in steal, and at a swap of notified.
NotifyPcs == {"notify", "notify_lock", "notify_wake"}
StealPcs  == {"count", "steal", "stow"}
SwapPcs   == {"swap_slept", "swap_found", "swap_gone", "swap_pass"}
\* Where a poller is about to look at the global queue, or to notify.
KeenPcs   == {"search", "global", "found", "swap_slept", "swap_found", "swap_pass"}

ThreadPcs == {"rest", "push"} \cup NotifyPcs
PollerPcs == {"off", "search", "sleep", "pending", "found", "push", "ticked", "run", "ran", "drop", "gone"}
             \cup NotifyPcs \cup SwapPcs
RunnerPcs == {"check", "global", "others", "unregister", "drain"} \cup StealPcs

PcsOf(a) == IF a \in Threads THEN ThreadPcs
            ELSE PollerPcs \cup IF a \in Runners THEN RunnerPcs ELSE {"try"}

\* Where a shared piece of code may return to.
RetsOf(a, l) ==
    CASE l \in {"push"} \cup NotifyPcs ->
           IF a \in Threads THEN {"rest"}
           ELSE {"ran"} \cup (IF a \in Runners THEN {"drain"} ELSE {}) \cup IF l = "push" THEN {} ELSE {"ticked", "gone"}
      [] l \in StealPcs -> {"found", "check", "run"}
      [] OTHER -> {"rest", "ran", "drain", "ticked", "gone", "found", "check", "run"}

\* Where an actor has a Runnable in hand, and where a poller cannot be asleep.
HasTodo(l, rt) ==
    \/ l \in {"push", "found", "swap_found", "ticked", "run"}
    \/ l \in NotifyPcs /\ rt = "ticked"
    \/ l \in StealPcs /\ rt \in {"found", "run"}
IsUp(l, rt) ==
    \/ l \in {"off", "gone", "swap_gone", "swap_pass", "try", "swap_found", "ticked", "run", "ran"}
    \/ l \in {"push"} \cup NotifyPcs /\ rt \in {"ran", "ticked", "gone"}
    \/ l \in StealPcs /\ rt = "run"
\* Where a runner has given its local queue up.
IsLeaving(l, rt) ==
    \/ l \in {"off", "drop", "swap_gone", "swap_pass", "gone"}
    \/ l \in NotifyPcs /\ rt = "gone"

QueueTypes ==
    /\ queue \in Seq(Tasks) /\ local \in [Runners -> Seq(Tasks)]
    /\ todo \in [Actors -> Tasks \cup {NULL}] /\ carry \in [Runners -> Tasks \cup {NULL}]
WakerSet   == [id: Nat, who: Pollers]
SleeperSet == [count: Nat, wakers: Seq(WakerSet), free_ids: Seq(Nat)]
StateTypes ==
    /\ registered \subseteq Runners /\ active \subseteq Tasks
    /\ exec \in {"alive", "waking", "draining", "gone"}
    /\ st \in [Tasks -> {"new", "idle", "sched", "done", "dropped"}]
    /\ DOMAIN pc = Actors /\ DOMAIN ret = Actors /\ DOMAIN hit = Actors /\ DOMAIN sleeping = Pollers
    /\ lock \in Pollers \cup {NULL}
    /\ src \in [Runners -> Runners \cup {NULL}] /\ cnt \in [Runners -> Nat]
    /\ left \in [Runners -> SUBSET Runners]
TypeOK == QueueTypes /\ StateTypes

\* What an actor holds follows from where it is.
PlaceOK(a, l, rt, t) == l \in PcsOf(a) /\ rt \in RetsOf(a, l) /\ (t # NULL <=> HasTodo(l, rt))
ActorOK(a) == PlaceOK(a, pc[a], ret[a], todo[a])
RunnerOK(r) ==
    /\ carry[r] # NULL <=> pc[r] = "stow"
    /\ IsLeaving(pc[r], ret[r]) => local[r] = <<>>
    /\ Len(local[r]) + (IF pc[r] \in {"steal", "stow"} THEN cnt[r] ELSE 0) + (IF pc[r] = "stow" THEN 1 ELSE 0) <= LocalCap
PollerOK(p) ==
    /\ lock = p <=> pc[p] \in SwapPcs
    /\ IsUp(pc[p], ret[p]) => sleeping[p] = 0
ControlInv ==
    /\ TypeOK
    /\ \A a \in Actors : ActorOK(a)
    /\ \A r \in Runners : RunnerOK(r)
    /\ \A p \in Pollers : PollerOK(p)

\* No task is idle and forgotten while the executor is dropped.
TasksKnown ==
    /\ exec = "alive" => \A t \in Tasks : st[t] \in {"idle", "sched"} => t \in active
    /\ exec = "waking" => \A t \in Tasks : st[t] = "idle" => t \in active
    /\ exec \in {"draining", "gone"} => \A t \in Tasks : st[t] # "idle"
PollersGone == exec # "alive" => \A p \in Pollers : pc[p] \in {"off", "gone"}
DropInv == PollersGone /\ TasksKnown

\* The Sleeper: the ids in use and the free ones, and the wakers in its list.
UsedBy(f) == {p \in Pollers : f[p] # 0}
ListedIn(w) == {w[i].who : i \in DOMAIN w}
IdsOK(n, free, f) ==
    /\ \A p, q \in Pollers : f[p] # 0 /\ f[p] = f[q] => p = q
    /\ \A p \in Pollers : f[p] <= n + Len(free) /\ \A i \in DOMAIN free : free[i] # f[p]
    /\ \A i \in DOMAIN free : 0 < free[i] /\ free[i] <= n + Len(free)
    /\ \A i, j \in DOMAIN free : free[i] = free[j] => i = j
    /\ n = Cardinality(UsedBy(f))
WakersOK(w, f) ==
    /\ \A i \in DOMAIN w : f[w[i].who] = w[i].id /\ w[i].id # 0
    /\ \A i, j \in DOMAIN w : w[i].who = w[j].who => i = j
SleeperOK(s, f) ==
    /\ s \in SleeperSet /\ f \in [Pollers -> Nat]
    /\ IdsOK(s.count, s.free_ids, f) /\ WakersOK(s.wakers, f)

\* Who is asleep will be woken from the list, or is being woken.
Hits == /\ \A a \in Actors : pc[a] = "notify_wake" => hit[a] \in Pollers
        /\ woken \subseteq Pollers
AsleepInv == \A p \in Pollers :
    pc[p] = "pending" /\ p \notin woken =>
        sleeping[p] # 0 /\ (p \in ListedIn(sleepers.wakers) \/ \E a \in Actors : pc[a] = "notify_wake" /\ hit[a] = p)
\* The flag keeps others from notifying only while somebody will: somebody
\* is about to lock the Sleeper, or to set the flag again, or a sleeper that
\* was notified has not gone back to the list.
FlagInv == notified =>
    \/ \E a \in Actors : pc[a] = "notify_lock"
    \/ \E p \in Pollers : pc[p] \in {"swap_slept", "swap_found", "swap_pass"}
    \/ SleeperIsNotified(sleepers)
\* Somebody sees what is in the global queue, if anybody sleeps.
IsKeen(l, rt) == l \in KeenPcs \/ (l \in StealPcs /\ rt = "found")
AlertInv == queue # <<>> =>
    \/ \E a \in Actors : pc[a] \in {"notify", "notify_lock"}
    \/ \E p \in Pollers : IsKeen(pc[p], ret[p])
    \/ SleeperIsNotified(sleepers)
SleepInv == SleeperOK(sleepers, sleeping) /\ Hits /\ AsleepInv /\ FlagInv /\ AlertInv

-----------------------------------------------------------------------------
(***************************************************************************)
(* Which steps touch what.                                                 *)
(***************************************************************************)
\* Which steps move a Runnable or change the state of a task.
LEMMA QueueSteps ==
  ASSUME Next
  PROVE  \/ UNCHANGED <<queue, local, todo, carry, st>>
         \/ \E a \in Actors : Push(a)
         \/ \E h \in Threads, t \in Tasks : Spawn(h, t) \/ Wake(h, t)
         \/ \E r \in Runners : SearchLocal(r) \/ SearchGlobal(r) \/ StealPop(r) \/ StealPush(r) \/ Drain(r)
         \/ \E k \in Tickers : TickSearch(k)
         \/ \E p \in Pollers : Runs(p)
         \/ DropWake \/ DropDrain
BY DEF Next, PollerStep, RunnerStep, Schedule, Pollers, Actors, shared, steals, Goto, Return,
   NotifyCas, NotifyLock, NotifyWake, Start, StartTick, SearchOthers, StealLen, StealFrom, Sleep, Swap, Awake,
   TickerWake, TickerDrop, Ticked, Ran, Poll, Stop, Unregister, DropStart

-----------------------------------------------------------------------------
(***************************************************************************)
(* Sequences                                                               *)
(***************************************************************************)
\* What a push does to a queue.
LEMMA AppendSeq ==
    ASSUME NEW E, NEW q \in Seq(E), NEW e \in E
    PROVE  /\ Append(q, e) \in Seq(E) /\ Len(Append(q, e)) = Len(q) + 1 /\ Append(q, e) # <<>>
           /\ DOMAIN Append(q, e) = 1 .. Len(q) + 1
           /\ \A i \in 1 .. Len(q) : Append(q, e)[i] = q[i]
           /\ Append(q, e)[Len(q) + 1] = e
OBVIOUS

\* What a pop does to a queue.
LEMMA TailSeq ==
    ASSUME NEW E, NEW q \in Seq(E), q # <<>>
    PROVE  /\ Tail(q) \in Seq(E) /\ Len(Tail(q)) = Len(q) - 1 /\ Len(q) > 0 /\ Len(Tail(q)) \in Nat
           /\ Head(q) = q[1] /\ Head(q) \in E
           /\ DOMAIN Tail(q) = 1 .. Len(q) - 1
           /\ \A i \in 1 .. Len(q) - 1 : Tail(q)[i] = q[i + 1]
OBVIOUS

\* What taking the last element does to a list.
LEMMA FrontSeq ==
    ASSUME NEW E, NEW q \in Seq(E), q # <<>>
    PROVE  /\ Front(q) \in Seq(E) /\ Len(Front(q)) = Len(q) - 1 /\ Len(q) > 0 /\ Len(Front(q)) \in Nat
           /\ Last(q) = q[Len(q)] /\ Last(q) \in E
           /\ DOMAIN Front(q) = 1 .. Len(q) - 1
           /\ \A i \in 1 .. Len(q) - 1 : Front(q)[i] = q[i]
<1> DEFINE n == Len(q) - 1
<1>1. n \in Nat /\ n <= Len(q) /\ Len(q) > 0 /\ Len(q) \in Nat /\ DOMAIN q = 1 .. Len(q)
  OBVIOUS
<1>2. SubSeq(q, 1, n) \in Seq(E) /\ Len(SubSeq(q, 1, n)) = n
  BY <1>1
<1>3. \A i \in 1 .. n : SubSeq(q, 1, n)[i] = q[i]
  BY <1>1
<1> QED BY <1>1, <1>2, <1>3 DEF Front, Last

-----------------------------------------------------------------------------
(***************************************************************************)
(* Queues.  A step takes a Runnable off one end of a queue or puts it at   *)
(* the other.                                                              *)
(***************************************************************************)
Updated(f, x, v, g) == g = [f EXCEPT ![x] = v]
Pops(q, t, rest) == q # <<>> /\ t = Head(q) /\ rest = Tail(q)
Pushes(q, t, new) == new = Append(q, t)

\* A pop takes the first element, if there is one.
LEMMA PopsFacts ==
    ASSUME NEW E, NEW q \in Seq(E), NEW t, NEW rest, Pops(q, t, rest)
    PROVE  /\ t \in E /\ rest \in Seq(E) /\ q # <<>>
           /\ Len(q) \in Nat /\ Len(rest) \in Nat /\ Len(rest) = Len(q) - 1
           /\ DOMAIN q = 1 .. Len(q) /\ DOMAIN rest = 1 .. Len(q) - 1
           /\ t = q[1] /\ \A i \in 1 .. Len(q) - 1 : rest[i] = q[i + 1]
BY DEF Pops

\* A push puts an element at the end.
LEMMA PushesFacts ==
    ASSUME NEW E, NEW q \in Seq(E), NEW t \in E, NEW new, Pushes(q, t, new)
    PROVE  /\ new \in Seq(E) /\ new # <<>> /\ Len(q) \in Nat /\ Len(new) = Len(q) + 1
           /\ DOMAIN q = 1 .. Len(q) /\ DOMAIN new = 1 .. Len(q) + 1
           /\ new[Len(q) + 1] = t /\ \A i \in 1 .. Len(q) : new[i] = q[i]
BY DEF Pushes

\* What a step does with a Runnable: it is made (wake, spawn), queued by who
\* holds it, consumed (the task ran), taken from the global or a local queue,
\* carried off by steal and stowed; the executor that is dropped queues what is
\* idle and drops what is queued.
Made(a, t) ==
    /\ st[t] # "sched" /\ Updated(st, t, "sched", st')
    /\ todo[a] = NULL /\ Updated(todo, a, t, todo') /\ UNCHANGED <<queue, local, carry>>
Queued(a, t, q) ==
    /\ todo[a] = t /\ Updated(todo, a, NULL, todo')
    /\ Pushes(queue, t, q) /\ queue' = q /\ UNCHANGED <<local, carry, st>>
Consumed(a, t, s) ==
    /\ todo[a] = t /\ Updated(todo, a, NULL, todo')
    /\ Updated(st, t, s, st') /\ UNCHANGED <<queue, local, carry>>
Kept(a, t) ==
    /\ todo[a] = t /\ Updated(st, t, "sched", st') /\ UNCHANGED <<queue, local, carry, todo>>
Taken(a, t, q) ==
    /\ todo[a] = NULL /\ Updated(todo, a, t, todo')
    /\ Pops(queue, t, q) /\ queue' = q /\ UNCHANGED <<local, carry, st>>
TakenLocal(r, t, q) ==
    /\ todo[r] = NULL /\ Updated(todo, r, t, todo')
    /\ Pops(local[r], t, q) /\ Updated(local, r, q, local') /\ UNCHANGED <<queue, carry, st>>
Carried(r, t, q) ==
    /\ carry[r] = NULL /\ Updated(carry, r, t, carry')
    /\ Pops(queue, t, q) /\ queue' = q /\ UNCHANGED <<local, todo, st>>
CarriedLocal(r, s, t, q) ==
    /\ carry[r] = NULL /\ Updated(carry, r, t, carry')
    /\ Pops(local[s], t, q) /\ Updated(local, s, q, local') /\ UNCHANGED <<queue, todo, st>>
Stowed(r, t, q) ==
    /\ carry[r] = t /\ Updated(carry, r, NULL, carry')
    /\ Pushes(local[r], t, q) /\ Updated(local, r, q, local') /\ UNCHANGED <<queue, todo, st>>
Rescheduled(t, q) ==
    /\ st[t] = "idle" /\ Updated(st, t, "sched", st')
    /\ Pushes(queue, t, q) /\ queue' = q /\ UNCHANGED <<local, todo, carry>>
Dropped(t, q) ==
    /\ Updated(st, t, "dropped", st')
    /\ Pops(queue, t, q) /\ queue' = q /\ UNCHANGED <<local, todo, carry>>

Moves ==
    \/ UNCHANGED <<queue, local, todo, carry, st>>
    \/ \E a \in Actors, t \in Tasks :
          \/ Made(a, t) \/ Kept(a, t) \/ \E s \in {"done", "idle"} : Consumed(a, t, s)
          \/ \E q \in Seq(Tasks) : Queued(a, t, q) \/ Taken(a, t, q)
    \/ \E r \in Runners, t \in Tasks, q \in Seq(Tasks) :
          \/ TakenLocal(r, t, q) \/ Carried(r, t, q) \/ Stowed(r, t, q)
          \/ \E s \in Runners : CarriedLocal(r, s, t, q)
    \/ \E t \in Tasks, q \in Seq(Tasks) : Rescheduled(t, q) \/ Dropped(t, q)

\* Every step of the executor is one of these moves, or moves nothing.
LEMMA StepMoves ==
    ASSUME ControlInv, Next PROVE Moves
<1> USE DEF Pollers, Actors
<1>0. /\ QueueTypes /\ active \subseteq Tasks /\ src \in [Runners -> Runners \cup {NULL}]
      /\ \A a \in Actors : (todo[a] # NULL <=> HasTodo(pc[a], ret[a]))
      /\ \A r \in Runners : carry[r] # NULL <=> pc[r] = "stow"
  BY DEF ControlInv, TypeOK, StateTypes, ActorOK, PlaceOK, RunnerOK
<1>a. \A q \in Seq(Tasks) : q # <<>> => /\ Head(q) \in Tasks /\ Tail(q) \in Seq(Tasks)
                                        /\ Pops(q, Head(q), Tail(q))
  BY TailSeq DEF Pops
<1>b. \A q \in Seq(Tasks), t \in Tasks : Append(q, t) \in Seq(Tasks) /\ Pushes(q, t, Append(q, t))
  BY AppendSeq DEF Pushes
<1>c. queue \in Seq(Tasks) /\ \A r \in Runners : local[r] \in Seq(Tasks)
  BY <1>0 DEF QueueTypes
<1>d. /\ \A a \in Actors : todo[a] # NULL => todo[a] \in Tasks
      /\ \A r \in Runners : carry[r] # NULL => carry[r] \in Tasks
  BY <1>0 DEF QueueTypes
<1>2. ASSUME NEW a \in Actors, Push(a) PROVE Moves
  <2>1. todo[a] \in Tasks
    BY <1>0, <1>2, <1>d DEF Push, HasTodo
  <2>2. Queued(a, todo[a], Append(queue, todo[a]))
    BY <1>2, <1>b, <1>c, <2>1 DEF Updated, Queued, Push, steals
  <2> QED BY <1>b, <1>c, <2>1, <2>2 DEF Moves
<1>3. ASSUME NEW h \in Threads, NEW t \in Tasks, Spawn(h, t) \/ Wake(h, t) PROVE Moves
  <2>1. Made(h, t)
    BY <1>0, <1>3 DEF Updated, Made, Spawn, Wake, steals, HasTodo, NotifyPcs, StealPcs
  <2> QED BY <2>1 DEF Moves
<1>4. ASSUME NEW r \in Runners, SearchLocal(r) PROVE Moves
  <2>1. CASE local[r] = <<>>
    BY <1>4, <2>1 DEF Moves, SearchLocal
  <2>2. CASE local[r] # <<>>
    <3>1. TakenLocal(r, Head(local[r]), Tail(local[r]))
      BY <1>0, <1>4, <1>a, <1>c, <2>2 DEF Updated, TakenLocal, SearchLocal, HasTodo, NotifyPcs, StealPcs
    <3> QED BY <1>a, <1>c, <2>2, <3>1 DEF Moves
  <2> QED BY <2>1, <2>2
<1>5. ASSUME NEW r \in Runners, SearchGlobal(r) PROVE Moves
  <2>1. CASE queue = <<>>
    BY <1>5, <2>1 DEF Moves, SearchGlobal
  <2>2. CASE queue # <<>>
    <3>1. Taken(r, Head(queue), Tail(queue))
      BY <1>0, <1>5, <1>a, <1>c, <2>2 DEF Updated, Taken, SearchGlobal, HasTodo, NotifyPcs, StealPcs
    <3> QED BY <1>a, <1>c, <2>2, <3>1 DEF Moves
  <2> QED BY <2>1, <2>2
<1>6. ASSUME NEW r \in Runners, StealPop(r) PROVE Moves
  <2>1. CASE cnt[r] = 0 \/ Source(r) = <<>>
    BY <1>6, <2>1 DEF Moves, StealPop
  <2>2. CASE ~(cnt[r] = 0 \/ Source(r) = <<>>) /\ src[r] = NULL
    <3>1. queue # <<>>
      BY <2>2 DEF Source
    <3>2. Carried(r, Head(queue), Tail(queue))
      BY <1>0, <1>6, <1>a, <1>c, <2>2, <3>1 DEF Updated, Carried, StealPop, Source
    <3> QED BY <1>a, <1>c, <3>1, <3>2 DEF Moves
  <2>3. CASE ~(cnt[r] = 0 \/ Source(r) = <<>>) /\ src[r] # NULL
    <3>1. src[r] \in Runners /\ local[src[r]] # <<>>
      BY <1>0, <2>3 DEF Source
    <3>2. CarriedLocal(r, src[r], Head(local[src[r]]), Tail(local[src[r]]))
      BY <1>0, <1>6, <1>a, <1>c, <2>3, <3>1 DEF Updated, CarriedLocal, StealPop, Source
    <3> QED BY <1>a, <1>c, <3>1, <3>2 DEF Moves
  <2> QED BY <2>1, <2>2, <2>3
<1>7. ASSUME NEW r \in Runners, StealPush(r) PROVE Moves
  <2>1. carry[r] \in Tasks
    BY <1>0, <1>7, <1>d DEF StealPush
  <2>2. Stowed(r, carry[r], Append(local[r], carry[r]))
    BY <1>7, <1>b, <1>c, <2>1 DEF Updated, Stowed, StealPush
  <2> QED BY <1>b, <1>c, <2>1, <2>2 DEF Moves
<1>8. ASSUME NEW r \in Runners, Drain(r) PROVE Moves
  <2>1. CASE local[r] = <<>>
    BY <1>8, <2>1 DEF Moves, Drain, steals
  <2>2. CASE local[r] # <<>>
    <3>1. TakenLocal(r, Head(local[r]), Tail(local[r]))
      BY <1>0, <1>8, <1>a, <1>c, <2>2 DEF Updated, TakenLocal, Drain, steals, HasTodo, NotifyPcs, StealPcs
    <3> QED BY <1>a, <1>c, <2>2, <3>1 DEF Moves
  <2> QED BY <2>1, <2>2
<1>9. ASSUME NEW k \in Tickers, TickSearch(k) PROVE Moves
  <2>1. CASE queue = <<>>
    BY <1>9, <2>1 DEF Moves, TickSearch, steals
  <2>2. CASE queue # <<>>
    <3>1. Taken(k, Head(queue), Tail(queue))
      BY <1>0, <1>9, <1>a, <1>c, <2>2 DEF Updated, Taken, TickSearch, steals, HasTodo, NotifyPcs, StealPcs
    <3> QED BY <1>a, <1>c, <2>2, <3>1 DEF Moves
  <2> QED BY <2>1, <2>2
<1>10. ASSUME NEW p \in Pollers, Runs(p) PROVE Moves
  <2>1. todo[p] \in Tasks
    BY <1>0, <1>10, <1>d DEF Runs, RunEnds, HasTodo
  <2>2. PICK s \in {"done", "idle", "sched"} : RunEnds(p, s)
    BY <1>10 DEF Runs
  <2>3. CASE s = "sched"
    BY <2>1, <2>2, <2>3 DEF Moves, Updated, Kept, RunEnds, steals
  <2>4. CASE s \in {"done", "idle"}
    BY <2>1, <2>2, <2>4 DEF Moves, Updated, Consumed, RunEnds, steals
  <2> QED BY <2>3, <2>4
<1>11. CASE DropWake
  <2>1. CASE UNCHANGED <<st, queue>>
    BY <1>11, <2>1 DEF Moves, DropWake, steals
  <2>2. ASSUME NEW t \in Tasks, st[t] = "idle", st' = [st EXCEPT ![t] = "sched"], queue' = Append(queue, t)
        PROVE  Moves
    <3>1. Rescheduled(t, Append(queue, t))
      BY <1>11, <1>b, <1>c, <2>2 DEF Updated, Rescheduled, DropWake, steals
    <3> QED BY <1>b, <1>c, <3>1 DEF Moves
  <2> QED BY <1>0, <1>11, <2>1, <2>2 DEF DropWake
<1>12. CASE DropDrain
  <2>1. CASE queue = <<>>
    BY <1>12, <2>1 DEF Moves, DropDrain, steals
  <2>2. CASE queue # <<>>
    <3>1. Dropped(Head(queue), Tail(queue))
      BY <1>12, <1>a, <1>c, <2>2 DEF Updated, Dropped, DropDrain, steals
    <3> QED BY <1>a, <1>c, <2>2, <3>1 DEF Moves
  <2> QED BY <2>1, <2>2
<1> QED BY <1>2, <1>3, <1>4, <1>5, <1>6, <1>7, <1>8, <1>9, <1>10, <1>11, <1>12, QueueSteps DEF Moves

-----------------------------------------------------------------------------
(***************************************************************************)
(* The Sleeper                                                             *)
(***************************************************************************)

\* The fields of a Sleeper have their types.
LEMMA SleeperParts ==
    ASSUME NEW s \in SleeperSet
    PROVE  /\ s.count \in Nat /\ s.wakers \in Seq(WakerSet) /\ s.free_ids \in Seq(Nat)
           /\ Len(s.wakers) \in Nat /\ DOMAIN s.wakers = 1 .. Len(s.wakers)
           /\ \A i \in DOMAIN s.wakers : s.wakers[i] \in WakerSet /\ s.wakers[i].id \in Nat /\ s.wakers[i].who \in Pollers
           /\ Len(s.free_ids) \in Nat /\ DOMAIN s.free_ids = 1 .. Len(s.free_ids)
           /\ \A i \in DOMAIN s.free_ids : s.free_ids[i] \in Nat
<1>1. s.count \in Nat /\ s.wakers \in Seq(WakerSet) /\ s.free_ids \in Seq(Nat)
  BY DEF SleeperSet
<1>2. /\ Len(s.wakers) \in Nat /\ DOMAIN s.wakers = 1 .. Len(s.wakers)
      /\ \A i \in DOMAIN s.wakers : s.wakers[i] \in WakerSet
  BY <1>1, SeqElements
<1>3. /\ Len(s.free_ids) \in Nat /\ DOMAIN s.free_ids = 1 .. Len(s.free_ids)
      /\ \A i \in DOMAIN s.free_ids : s.free_ids[i] \in Nat
  BY <1>1, SeqElements
<1>4. \A w \in WakerSet : w.id \in Nat /\ w.who \in Pollers
  BY DEF WakerSet
<1> QED BY <1>1, <1>2, <1>3, <1>4

\* Sleeper::insert, with a freed id if there is one.
LEMMA InsertParts ==
    ASSUME NEW s \in SleeperSet, NEW p \in Pollers
    PROVE  LET new == SleeperInsert(s, p)
           IN  /\ new \in SleeperSet /\ NewId(s) \in Nat
               /\ new.count = s.count + 1
               /\ new.wakers = Append(s.wakers, [id |-> NewId(s), who |-> p])
               /\ \/ s.free_ids = <<>> /\ NewId(s) = s.count + 1 /\ new.free_ids = s.free_ids
                  \/ s.free_ids # <<>> /\ NewId(s) = Last(s.free_ids) /\ new.free_ids = Front(s.free_ids)
<1> DEFINE new == SleeperInsert(s, p)
           e == [id |-> NewId(s), who |-> p]
<1>1. s.count \in Nat /\ s.wakers \in Seq(WakerSet) /\ s.free_ids \in Seq(Nat)
  BY SleeperParts
<1>2. /\ NewId(s) \in Nat
      /\ \/ s.free_ids = <<>> /\ NewId(s) = s.count + 1
         \/ s.free_ids # <<>> /\ NewId(s) = Last(s.free_ids)
  <2>1. s.free_ids # <<>> => Last(s.free_ids) \in Nat
    BY <1>1, FrontSeq
  <2> QED BY <1>1, <2>1 DEF NewId
<1>3. e \in WakerSet
  BY <1>2 DEF WakerSet
<1> HIDE DEF e
<1>4. Append(s.wakers, e) \in Seq(WakerSet)
  BY <1>1, <1>3, AppendSeq
<1>5. CASE s.free_ids = <<>>
  <2>1. new = [count |-> s.count + 1, wakers |-> Append(s.wakers, e), free_ids |-> s.free_ids]
    BY <1>5 DEF SleeperInsert, e
  <2> HIDE DEF new
  <2> QED BY <1>1, <1>2, <1>4, <1>5, <2>1 DEF SleeperSet, new, e
<1>6. CASE s.free_ids # <<>>
  <2>1. new = [count |-> s.count + 1, wakers |-> Append(s.wakers, e), free_ids |-> Front(s.free_ids)]
    BY <1>6 DEF SleeperInsert, e
  <2>2. Front(s.free_ids) \in Seq(Nat)
    BY <1>1, <1>6, FrontSeq
  <2> HIDE DEF new
  <2> QED BY <1>1, <1>2, <1>4, <1>6, <2>1, <2>2 DEF SleeperSet, new, e
<1> QED BY <1>5, <1>6

\* Sleeper::update of an id whose waker was taken.
LEMMA UpdateParts ==
    ASSUME NEW s \in SleeperSet, NEW id \in Nat, NEW p \in Pollers
    PROVE  LET new == SleeperUpdate(s, id, p)
           IN  /\ new \in SleeperSet /\ new.count = s.count /\ new.free_ids = s.free_ids
               /\ new.wakers = Append(s.wakers, [id |-> id, who |-> p])
<1> DEFINE e == [id |-> id, who |-> p]
<1>1. s.count \in Nat /\ s.wakers \in Seq(WakerSet) /\ s.free_ids \in Seq(Nat) /\ e \in WakerSet
  BY SleeperParts DEF WakerSet
<1> HIDE DEF e
<1>2. Append(s.wakers, e) \in Seq(WakerSet)
  BY <1>1, AppendSeq
<1>3. SleeperUpdate(s, id, p) = [s EXCEPT !.wakers = Append(s.wakers, e)]
  BY DEF SleeperUpdate, e
<1> QED BY <1>1, <1>2, <1>3 DEF SleeperSet, e

\* Sleeper::remove, of an id whose waker is in the list or was taken.
LEMMA RemoveParts ==
    ASSUME NEW s \in SleeperSet, NEW id \in Nat, s.count > 0,
           \A i, j \in DOMAIN s.wakers : s.wakers[i].id = s.wakers[j].id => i = j
    PROVE  LET new == SleeperRemove(s, id)
           IN  /\ new \in SleeperSet /\ new.count = s.count - 1
               /\ new.free_ids = Append(s.free_ids, id)
               /\ ~Present(s, id) => new.wakers = s.wakers
               /\ Present(s, id) =>
                     \E i \in DOMAIN s.wakers :
                        /\ s.wakers[i].id = id
                        /\ Len(new.wakers) = Len(s.wakers) - 1
                        /\ \A j \in 1 .. Len(s.wakers) - 1 :
                              new.wakers[j] = IF j < i THEN s.wakers[j] ELSE s.wakers[j + 1]
<1> DEFINE new == SleeperRemove(s, id)
           q == s.wakers
<1>1. /\ s.count \in Nat /\ q \in Seq(WakerSet) /\ s.free_ids \in Seq(Nat)
      /\ Len(q) \in Nat /\ DOMAIN q = 1 .. Len(q) /\ \A i \in DOMAIN q : q[i] \in WakerSet
  BY SleeperParts
<1>2. Append(s.free_ids, id) \in Seq(Nat)
  BY <1>1, AppendSeq
<1>3. CASE ~Present(s, id)
  <2>1. new = [count |-> s.count - 1, free_ids |-> Append(s.free_ids, id), wakers |-> q]
    BY <1>3 DEF SleeperRemove
  <2> HIDE DEF new
  <2> QED BY <1>1, <1>2, <1>3, <2>1 DEF SleeperSet, new
<1>4. CASE Present(s, id)
  <2> DEFINE i == CHOOSE j \in DOMAIN q : q[j].id = id /\ \A k \in DOMAIN q : k > j => q[k].id # id
             w == WithoutWaker(q, id)
  <2>1. \E j \in DOMAIN q : q[j].id = id /\ \A k \in DOMAIN q : k > j => q[k].id # id
    BY <1>1, <1>4 DEF Present
  <2>2. i \in DOMAIN q /\ q[i].id = id
    BY <2>1
  <2>3. w = [j \in 1 .. Len(q) - 1 |-> IF j < i THEN q[j] ELSE q[j + 1]]
    BY DEF WithoutWaker
  <2> HIDE DEF i, w, q
  <2>4. w \in Seq(WakerSet) /\ Len(w) = Len(q) - 1
    BY <1>1, <2>2, <2>3
  <2>5. \A j \in 1 .. Len(q) - 1 : w[j] = IF j < i THEN q[j] ELSE q[j + 1]
    BY <2>3
  <2>6. new = [count |-> s.count - 1, free_ids |-> Append(s.free_ids, id), wakers |-> w]
    BY <1>4 DEF SleeperRemove, w, q
  <2> HIDE DEF new
  <2>7. new \in SleeperSet /\ new.count = s.count - 1 /\ new.free_ids = Append(s.free_ids, id) /\ new.wakers = w
    BY <1>1, <1>2, <2>4, <2>6 DEF SleeperSet, new
  <2> QED BY <1>4, <2>2, <2>4, <2>5, <2>7 DEF new, q
<1> QED BY <1>3, <1>4

-----------------------------------------------------------------------------
(***************************************************************************)
(* The control invariant                                                   *)
(***************************************************************************)
\* The types of the state that no queue is part of are kept.
LEMMA StateTypesStep ==
    ASSUME ControlInv, Next PROVE StateTypes'
<1> USE ExecutorAssumption DEF shared, sleepvs, steals, Pollers, Actors
<1>0. StateTypes /\ QueueTypes
  BY DEF ControlInv, TypeOK
<1>1. ASSUME NEW a \in Actors, Push(a) PROVE StateTypes'
  BY <1>0, <1>1 DEF StateTypes, Push, Goto
<1>2. ASSUME NEW a \in Actors, NotifyCas(a) PROVE StateTypes'
  BY <1>0, <1>2 DEF StateTypes, NotifyCas, Goto, Return
<1>3. ASSUME NEW a \in Actors, NotifyLock(a) PROVE StateTypes'
  BY <1>0, <1>3 DEF StateTypes, NotifyLock, Goto, Return
<1>4. ASSUME NEW a \in Actors, NotifyWake(a) PROVE StateTypes'
  BY <1>0, <1>4 DEF StateTypes, NotifyWake, Goto, Return
<1>5. ASSUME NEW a \in Threads, \E t \in Tasks : Spawn(a, t) PROVE StateTypes'
  BY <1>0, <1>5 DEF StateTypes, Spawn, Goto
<1>6. ASSUME NEW a \in Threads, \E t \in Tasks : Wake(a, t) PROVE StateTypes'
  BY <1>0, <1>6 DEF StateTypes, Wake, Goto
<1>7. ASSUME NEW a \in Runners, Start(a) PROVE StateTypes'
  BY <1>0, <1>7 DEF StateTypes, Start, Goto
<1>8. ASSUME NEW a \in Tickers, StartTick(a, "search") PROVE StateTypes'
  BY <1>0, <1>8 DEF StateTypes, StartTick, Goto, shared, sleepvs, steals
<1>9. ASSUME NEW a \in Tickers, StartTick(a, "try") PROVE StateTypes'
  BY <1>0, <1>9 DEF StateTypes, StartTick, Goto
<1>10. ASSUME NEW a \in Runners, SearchLocal(a) PROVE StateTypes'
  BY <1>0, <1>10 DEF StateTypes, SearchLocal, Goto
<1>11. ASSUME NEW a \in Runners, SearchGlobal(a) PROVE StateTypes'
  <2>1. StealFrom(a, NULL, "found") => src' \in [Runners -> Runners \cup {NULL}] /\ DOMAIN pc' = Actors /\ DOMAIN ret' = Actors
    BY <1>0 DEF StateTypes, StealFrom, Goto
  <2>2. Goto(a, "others") => DOMAIN pc' = Actors
    BY <1>0 DEF StateTypes, Goto
  <2>3. [left EXCEPT ![a] = registered \ {a}] \in [Runners -> SUBSET Runners]
    BY <1>0 DEF StateTypes
  <2> QED BY <1>0, <1>11, <2>1, <2>2, <2>3 DEF StateTypes, SearchGlobal
<1>12. ASSUME NEW a \in Runners, SearchOthers(a) PROVE StateTypes'
  <2>1. \A s \in left[a] : StealFrom(a, s, "check") => src' \in [Runners -> Runners \cup {NULL}] /\ DOMAIN pc' = Actors /\ DOMAIN ret' = Actors
    BY <1>0 DEF StateTypes, StealFrom, Goto
  <2>2. Goto(a, "sleep") => DOMAIN pc' = Actors
    BY <1>0 DEF StateTypes, Goto
  <2>3. \A s \in left[a] : [left EXCEPT ![a] = left[a] \ {s}] \in [Runners -> SUBSET Runners]
    BY <1>0 DEF StateTypes
  <2>4. CASE Goto(a, "sleep") /\ UNCHANGED <<src, left, ret>>
    BY <1>0, <1>12, <2>2, <2>4 DEF StateTypes, SearchOthers
  <2>5. ASSUME NEW s \in left[a], left' = [left EXCEPT ![a] = left[a] \ {s}], StealFrom(a, s, "check")
        PROVE  StateTypes'
    BY <1>0, <1>12, <2>1, <2>3, <2>5 DEF StateTypes, SearchOthers
  <2> QED BY <1>12, <2>4, <2>5 DEF SearchOthers
<1>13. ASSUME NEW a \in Runners, StealLen(a) PROVE StateTypes'
  <2>1. Source(a) \in Seq(Tasks) /\ local[a] \in Seq(Tasks)
    BY <1>0 DEF StateTypes, QueueTypes, Source
  <2>2. Len(Source(a)) \in Nat /\ Len(local[a]) \in Nat
    BY <2>1
  <2>3. Len(local[a]) <= LocalCap
    BY <2>2, <1>13 DEF ControlInv, RunnerOK, StealLen
  <2>4. StealCount(Source(a), local[a]) \in Nat
    BY <2>2, <2>3 DEF StealCount
  <2> QED BY <1>0, <1>13, <2>4 DEF StateTypes, StealLen, Goto
<1>14. ASSUME NEW a \in Runners, StealPop(a) PROVE StateTypes'
  <2>1. Return(a) => DOMAIN pc' = Actors /\ DOMAIN ret' = Actors
    BY <1>0 DEF StateTypes, Return, Goto
  <2>2. Goto(a, "stow") => DOMAIN pc' = Actors
    BY <1>0 DEF StateTypes, Goto
  <2>3. /\ [cnt EXCEPT ![a] = 0] \in [Runners -> Nat] /\ [src EXCEPT ![a] = NULL] \in [Runners -> Runners \cup {NULL}]
        /\ cnt[a] # 0 => [cnt EXCEPT ![a] = cnt[a] - 1] \in [Runners -> Nat]
    BY <1>0 DEF StateTypes
  <2> QED BY <1>0, <1>14, <2>1, <2>2, <2>3 DEF StateTypes, StealPop
<1>15. ASSUME NEW a \in Runners, StealPush(a) PROVE StateTypes'
  BY <1>0, <1>15 DEF StateTypes, StealPush, Goto
<1>16. ASSUME NEW a \in Tickers, TickSearch(a) PROVE StateTypes'
  BY <1>0, <1>16 DEF StateTypes, TickSearch, Goto
<1>17. ASSUME NEW a \in Pollers, Sleep(a) PROVE StateTypes'
  BY <1>0, <1>17 DEF StateTypes, Sleep, Goto
<1>18. ASSUME NEW a \in Pollers, Swap(a, "swap_slept", "search", "rest") PROVE StateTypes'
  BY <1>0, <1>18 DEF StateTypes, Swap, Goto
<1>19. ASSUME NEW a \in Pollers, Swap(a, "swap_found", "notify", "ticked") PROVE StateTypes'
  BY <1>0, <1>19 DEF StateTypes, Swap, Goto
<1>20. ASSUME NEW a \in Pollers, Swap(a, "swap_gone", "gone", "rest") PROVE StateTypes'
  BY <1>0, <1>20 DEF StateTypes, Swap, Goto
<1>21. ASSUME NEW a \in Pollers, Swap(a, "swap_pass", "notify", "gone") PROVE StateTypes'
  BY <1>0, <1>21 DEF StateTypes, Swap, Goto
<1>22. ASSUME NEW a \in Pollers, TickerWake(a) PROVE StateTypes'
  BY <1>0, <1>22 DEF StateTypes, TickerWake, Goto
<1>23. ASSUME NEW a \in Pollers, Awake(a, "found", "notify", "ticked") PROVE StateTypes'
  BY <1>0, <1>23 DEF StateTypes, Awake, Goto
<1>24. ASSUME NEW a \in Pollers, Awake(a, "drop", "gone", "rest") PROVE StateTypes'
  BY <1>0, <1>24 DEF StateTypes, Awake, Goto
<1>25. ASSUME NEW a \in Pollers, TickerDrop(a) PROVE StateTypes'
  BY <1>0, <1>25 DEF StateTypes, TickerDrop, Goto
<1>26. ASSUME NEW a \in Pollers, Ticked(a) PROVE StateTypes'
  BY <1>0, <1>26 DEF StateTypes, Ticked, Goto, StealFrom
<1>27. ASSUME NEW a \in Pollers, Runs(a) PROVE StateTypes'
  <2>1. todo[a] \in Tasks
    BY <1>0, <1>27 DEF ControlInv, ActorOK, PlaceOK, HasTodo, QueueTypes, Runs, RunEnds
  <2>2. PICK s \in {"done", "idle", "sched"} : RunEnds(a, s)
    BY <1>27 DEF Runs
  <2>3. active' \subseteq Tasks /\ st' \in [Tasks -> {"new", "idle", "sched", "done", "dropped"}]
    BY <1>0, <2>1, <2>2 DEF StateTypes, RunEnds
  <2>4. DOMAIN pc' = Actors /\ DOMAIN ret' = Actors
    BY <1>0, <2>2 DEF StateTypes, RunEnds, Goto
  <2> QED BY <1>0, <2>2, <2>3, <2>4 DEF StateTypes, RunEnds
<1>28. ASSUME NEW a \in Pollers, Ran(a) PROVE StateTypes'
  BY <1>0, <1>28 DEF StateTypes, Ran, Goto
<1>29. ASSUME NEW a \in Pollers, Poll(a) PROVE StateTypes'
  BY <1>0, <1>29 DEF StateTypes, Poll, Goto
<1>30. ASSUME NEW a \in Pollers, Stop(a) PROVE StateTypes'
  BY <1>0, <1>30 DEF StateTypes, Stop, Goto
<1>31. ASSUME NEW a \in Runners, Unregister(a) PROVE StateTypes'
  BY <1>0, <1>31 DEF StateTypes, Unregister, Goto
<1>32. ASSUME NEW a \in Runners, Drain(a) PROVE StateTypes'
  BY <1>0, <1>32 DEF StateTypes, Drain, Goto
<1>33. ASSUME DropStart PROVE StateTypes'
  BY <1>0, <1>33 DEF StateTypes, DropStart
<1>34. ASSUME DropWake PROVE StateTypes'
  BY <1>0, <1>34 DEF StateTypes, DropWake
<1>35. ASSUME DropDrain PROVE StateTypes'
  <2>1. queue # <<>> => Head(queue) \in Tasks
    BY <1>0 DEF QueueTypes
  <2> QED BY <1>0, <1>35, <2>1 DEF StateTypes, DropDrain
<1> QED BY <1>1, <1>2, <1>3, <1>4, <1>5, <1>6, <1>7, <1>8, <1>9, <1>10, <1>11, <1>12, <1>13, <1>14, <1>15, <1>16, <1>17, <1>18, <1>19, <1>20, <1>21, <1>22, <1>23, <1>24, <1>25, <1>26, <1>27, <1>28, <1>29, <1>30, <1>31, <1>32, <1>33, <1>34, <1>35 DEF Next, PollerStep, RunnerStep, Schedule

\* Where one may go from where one is.
LEMMA ReturnOK ==
    ASSUME NEW a \in Actors, NEW l \in NotifyPcs \cup {"steal"}, NEW rt, NEW t, PlaceOK(a, l, rt, t)
    PROVE  PlaceOK(a, rt, "rest", t)
BY ExecutorAssumption DEF PlaceOK, PcsOf, RetsOf, HasTodo, ThreadPcs, PollerPcs, RunnerPcs, NotifyPcs, SwapPcs, StealPcs, Actors, Pollers
\* Where an actor may go with what it holds, outside a return.
LEMMA CallsOK ==
    ASSUME NEW a \in Actors, NEW l, NEW rt, NEW t, PlaceOK(a, l, rt, t)
    PROVE  /\ l \in NotifyPcs => \A k \in NotifyPcs : PlaceOK(a, k, rt, t)
           /\ l \in StealPcs => \A k \in StealPcs : PlaceOK(a, k, rt, t)
           /\ l \in {"search", "check", "global", "others", "sleep"} => t = NULL 
           /\ l = "sleep" => \A k \in {"swap_slept", "pending"} : PlaceOK(a, k, rt, t)
           /\ a \in Runners /\ l \in {"search", "check", "global", "others"} =>
                /\ \A k \in {"global", "others", "sleep"} : PlaceOK(a, k, rt, t)
                /\ PlaceOK(a, "count", "check", t)
                /\ \A u : u # NULL => PlaceOK(a, "found", rt, u) /\ PlaceOK(a, "count", "found", u)
           /\ a \in Tickers /\ l \in {"search", "try"} =>
                /\ \A k \in {"gone", "sleep"} : PlaceOK(a, k, rt, t)
                /\ \A u : u # NULL => PlaceOK(a, "found", rt, u)
           /\ l = "run" => PlaceOK(a, "push", "ran", t) /\ PlaceOK(a, "ran", rt, NULL)
           /\ l = "ran" /\ a \in Runners => PlaceOK(a, "search", rt, t) /\ PlaceOK(a, "pending", rt, t)
           /\ l = "ran" /\ a \in Tickers => PlaceOK(a, "gone", rt, t)
           /\ l = "drain" => PlaceOK(a, "drop", rt, t) /\ \A u : u # NULL => PlaceOK(a, "push", "drain", u)
BY ExecutorAssumption DEF PlaceOK, PcsOf, RetsOf, HasTodo, ThreadPcs, PollerPcs, RunnerPcs, NotifyPcs, SwapPcs, StealPcs, Actors, Pollers

\* b is where it was, with what it had
Same(b) == pc'[b] = pc[b] /\ ret'[b] = ret[b] /\ todo'[b] = todo[b]
\* Every step leaves each actor holding a Runnable exactly where the code has
\* one.
LEMMA ActorsStep ==
    ASSUME ControlInv, Next PROVE \A a \in Actors : ActorOK(a)'
<1> USE ExecutorAssumption DEF shared, sleepvs, steals, Pollers, Actors
<1>0. /\ StateTypes /\ QueueTypes /\ \A a \in Actors : ActorOK(a)
  BY DEF ControlInv, TypeOK
<1>a. ASSUME NEW a \in Actors, ActorOK(a)', \A b \in Actors : b # a => Same(b)
      PROVE  \A b \in Actors : ActorOK(b)'
  BY <1>0, <1>a DEF ActorOK, Same
<1>b. \A q \in Seq(Tasks) : q # <<>> => Head(q) # NULL
  BY TailSeq
<1>c. queue \in Seq(Tasks) /\ \A r \in Runners : local[r] \in Seq(Tasks)
  BY <1>0 DEF QueueTypes
<1>d. "steal" \in StealPcs /\ "stow" \in StealPcs /\ "notify" \in NotifyPcs /\ "notify_lock" \in NotifyPcs /\ "notify_wake" \in NotifyPcs
  BY DEF StealPcs, NotifyPcs
<1>1. ASSUME NEW a \in Actors, Push(a) PROVE \A b \in Actors : ActorOK(b)'
  <2>1. \A b \in Actors : b # a => Same(b)
    BY <1>0, <1>1 DEF StateTypes, QueueTypes, Same, Push, Goto
  <2>2. ActorOK(a)'
    BY <1>0, <1>1 DEF StateTypes, QueueTypes, ActorOK, PlaceOK, PcsOf, RetsOf, HasTodo, ThreadPcs, PollerPcs, RunnerPcs, NotifyPcs, SwapPcs, StealPcs, Push, Goto
  <2> QED BY <1>a, <2>1, <2>2
<1>2. ASSUME NEW a \in Actors, NotifyCas(a) PROVE \A b \in Actors : ActorOK(b)'
  <2>1. \A b \in Actors : b # a => Same(b)
    BY <1>0, <1>2 DEF StateTypes, QueueTypes, Same, NotifyCas, Goto, Return
  <2>2. PlaceOK(a, pc[a], ret[a], todo[a]) /\ pc[a] = "notify"
    BY <1>0, <1>2 DEF ActorOK, NotifyCas, Goto, Return
  <2>3. \/ pc'[a] = ret[a] /\ ret'[a] = "rest" /\ todo'[a] = todo[a]
        \/ pc'[a] = "notify_lock" /\ ret'[a] = ret[a] /\ todo'[a] = todo[a]
    BY <1>0, <1>b, <1>c, <1>2 DEF StateTypes, QueueTypes, NotifyCas, Goto, Return
  <2>4. ActorOK(a)'
    BY <1>d, <2>2, <2>3, CallsOK, ReturnOK DEF ActorOK
  <2> QED BY <1>a, <2>1, <2>4
<1>3. ASSUME NEW a \in Actors, NotifyLock(a) PROVE \A b \in Actors : ActorOK(b)'
  <2>1. \A b \in Actors : b # a => Same(b)
    BY <1>0, <1>3 DEF StateTypes, QueueTypes, Same, NotifyLock, Goto, Return
  <2>2. PlaceOK(a, pc[a], ret[a], todo[a]) /\ pc[a] = "notify_lock"
    BY <1>0, <1>3 DEF ActorOK, NotifyLock, Goto, Return
  <2>3. \/ pc'[a] = ret[a] /\ ret'[a] = "rest" /\ todo'[a] = todo[a]
        \/ pc'[a] = "notify_wake" /\ ret'[a] = ret[a] /\ todo'[a] = todo[a]
    BY <1>0, <1>b, <1>c, <1>3 DEF StateTypes, QueueTypes, NotifyLock, Goto, Return
  <2>4. ActorOK(a)'
    BY <1>d, <2>2, <2>3, CallsOK, ReturnOK DEF ActorOK
  <2> QED BY <1>a, <2>1, <2>4
<1>4. ASSUME NEW a \in Actors, NotifyWake(a) PROVE \A b \in Actors : ActorOK(b)'
  <2>1. \A b \in Actors : b # a => Same(b)
    BY <1>0, <1>4 DEF StateTypes, QueueTypes, Same, NotifyWake, Goto, Return
  <2>2. PlaceOK(a, pc[a], ret[a], todo[a]) /\ pc[a] = "notify_wake"
    BY <1>0, <1>4 DEF ActorOK, NotifyWake, Goto, Return
  <2>3. \/ pc'[a] = ret[a] /\ ret'[a] = "rest" /\ todo'[a] = todo[a]
    BY <1>0, <1>b, <1>c, <1>4 DEF StateTypes, QueueTypes, NotifyWake, Goto, Return
  <2>4. ActorOK(a)'
    BY <1>d, <2>2, <2>3, CallsOK, ReturnOK DEF ActorOK
  <2> QED BY <1>a, <2>1, <2>4
<1>5. ASSUME NEW a \in Threads, \E t \in Tasks : Spawn(a, t) PROVE \A b \in Actors : ActorOK(b)'
  <2>1. \A b \in Actors : b # a => Same(b)
    BY <1>0, <1>5 DEF StateTypes, QueueTypes, Same, Spawn, Goto
  <2>2. ActorOK(a)'
    BY <1>0, <1>5 DEF StateTypes, QueueTypes, ActorOK, PlaceOK, PcsOf, RetsOf, HasTodo, ThreadPcs, PollerPcs, RunnerPcs, NotifyPcs, SwapPcs, StealPcs, Spawn, Goto
  <2> QED BY <1>a, <2>1, <2>2
<1>6. ASSUME NEW a \in Threads, \E t \in Tasks : Wake(a, t) PROVE \A b \in Actors : ActorOK(b)'
  <2>1. \A b \in Actors : b # a => Same(b)
    BY <1>0, <1>6 DEF StateTypes, QueueTypes, Same, Wake, Goto
  <2>2. ActorOK(a)'
    BY <1>0, <1>6 DEF StateTypes, QueueTypes, ActorOK, PlaceOK, PcsOf, RetsOf, HasTodo, ThreadPcs, PollerPcs, RunnerPcs, NotifyPcs, SwapPcs, StealPcs, Wake, Goto
  <2> QED BY <1>a, <2>1, <2>2
<1>7. ASSUME NEW a \in Runners, Start(a) PROVE \A b \in Actors : ActorOK(b)'
  <2>1. \A b \in Actors : b # a => Same(b)
    BY <1>0, <1>7 DEF StateTypes, QueueTypes, Same, Start, Goto
  <2>2. ActorOK(a)'
    BY <1>0, <1>7 DEF StateTypes, QueueTypes, ActorOK, PlaceOK, PcsOf, RetsOf, HasTodo, ThreadPcs, PollerPcs, RunnerPcs, NotifyPcs, SwapPcs, StealPcs, Start, Goto
  <2> QED BY <1>a, <2>1, <2>2
<1>8. ASSUME NEW a \in Tickers, StartTick(a, "search") PROVE \A b \in Actors : ActorOK(b)'
  <2>1. \A b \in Actors : b # a => Same(b)
    BY <1>0, <1>8 DEF StateTypes, QueueTypes, Same, StartTick, Goto, shared, sleepvs, steals
  <2>2. ActorOK(a)'
    BY <1>0, <1>8 DEF StateTypes, QueueTypes, ActorOK, PlaceOK, PcsOf, RetsOf, HasTodo, ThreadPcs, PollerPcs, RunnerPcs, NotifyPcs, SwapPcs, StealPcs, StartTick, Goto, shared, sleepvs, steals
  <2> QED BY <1>a, <2>1, <2>2
<1>9. ASSUME NEW a \in Tickers, StartTick(a, "try") PROVE \A b \in Actors : ActorOK(b)'
  <2>1. \A b \in Actors : b # a => Same(b)
    BY <1>0, <1>9 DEF StateTypes, QueueTypes, Same, StartTick, Goto
  <2>2. ActorOK(a)'
    BY <1>0, <1>9 DEF StateTypes, QueueTypes, ActorOK, PlaceOK, PcsOf, RetsOf, HasTodo, ThreadPcs, PollerPcs, RunnerPcs, NotifyPcs, SwapPcs, StealPcs, StartTick, Goto
  <2> QED BY <1>a, <2>1, <2>2
<1>10. ASSUME NEW a \in Runners, SearchLocal(a) PROVE \A b \in Actors : ActorOK(b)'
  <2>1. \A b \in Actors : b # a => Same(b)
    BY <1>0, <1>10 DEF StateTypes, QueueTypes, Same, SearchLocal, Goto
  <2>2. PlaceOK(a, pc[a], ret[a], todo[a]) /\ pc[a] \in {"search", "check"}
    BY <1>0, <1>10 DEF ActorOK, SearchLocal, Goto
  <2>3. \/ pc'[a] = "found" /\ ret'[a] = ret[a] /\ todo'[a] # NULL
        \/ pc'[a] \in {"global", "others"} /\ ret'[a] = ret[a] /\ todo'[a] = todo[a]
    BY <1>0, <1>b, <1>c, <1>10 DEF StateTypes, QueueTypes, SearchLocal, Goto
  <2>4. ActorOK(a)'
    BY <1>d, <2>2, <2>3, CallsOK, ReturnOK DEF ActorOK
  <2> QED BY <1>a, <2>1, <2>4
<1>11. ASSUME NEW a \in Runners, SearchGlobal(a) PROVE \A b \in Actors : ActorOK(b)'
  <2>1. \A b \in Actors : b # a => Same(b)
    BY <1>0, <1>11 DEF StateTypes, QueueTypes, Same, SearchGlobal, Goto, StealFrom
  <2>2. PlaceOK(a, pc[a], ret[a], todo[a]) /\ pc[a] = "global"
    BY <1>0, <1>11 DEF ActorOK, SearchGlobal, Goto, StealFrom
  <2>3. \/ pc'[a] = "count" /\ ret'[a] = "found" /\ todo'[a] # NULL
        \/ pc'[a] = "others" /\ ret'[a] = ret[a] /\ todo'[a] = todo[a]
    BY <1>0, <1>b, <1>c, <1>11 DEF StateTypes, QueueTypes, SearchGlobal, Goto, StealFrom
  <2>4. ActorOK(a)'
    BY <1>d, <2>2, <2>3, CallsOK, ReturnOK DEF ActorOK
  <2> QED BY <1>a, <2>1, <2>4
<1>12. ASSUME NEW a \in Runners, SearchOthers(a) PROVE \A b \in Actors : ActorOK(b)'
  <2>1. \A b \in Actors : b # a => Same(b)
    BY <1>0, <1>12 DEF StateTypes, QueueTypes, Same, SearchOthers, Goto, StealFrom
  <2>2. PlaceOK(a, pc[a], ret[a], todo[a]) /\ pc[a] = "others"
    BY <1>0, <1>12 DEF ActorOK, SearchOthers, Goto, StealFrom
  <2>3. \/ pc'[a] = "count" /\ ret'[a] = "check" /\ todo'[a] = todo[a]
        \/ pc'[a] = "sleep" /\ ret'[a] = ret[a] /\ todo'[a] = todo[a]
    BY <1>0, <1>b, <1>c, <1>12 DEF StateTypes, QueueTypes, SearchOthers, Goto, StealFrom
  <2>4. ActorOK(a)'
    BY <1>d, <2>2, <2>3, CallsOK, ReturnOK DEF ActorOK
  <2> QED BY <1>a, <2>1, <2>4
<1>13. ASSUME NEW a \in Runners, StealLen(a) PROVE \A b \in Actors : ActorOK(b)'
  <2>1. \A b \in Actors : b # a => Same(b)
    BY <1>0, <1>13 DEF StateTypes, QueueTypes, Same, StealLen, Goto
  <2>2. ActorOK(a)'
    BY <1>0, <1>13 DEF StateTypes, QueueTypes, ActorOK, PlaceOK, PcsOf, RetsOf, HasTodo, ThreadPcs, PollerPcs, RunnerPcs, NotifyPcs, SwapPcs, StealPcs, StealLen, Goto
  <2> QED BY <1>a, <2>1, <2>2
<1>14. ASSUME NEW a \in Runners, StealPop(a) PROVE \A b \in Actors : ActorOK(b)'
  <2>1. \A b \in Actors : b # a => Same(b)
    BY <1>0, <1>14 DEF StateTypes, QueueTypes, Same, StealPop, Goto, Return, Source
  <2>2. PlaceOK(a, pc[a], ret[a], todo[a]) /\ pc[a] = "steal"
    BY <1>0, <1>14 DEF ActorOK, StealPop, Goto, Return, Source
  <2>3. \/ pc'[a] = ret[a] /\ ret'[a] = "rest" /\ todo'[a] = todo[a]
        \/ pc'[a] = "stow" /\ ret'[a] = ret[a] /\ todo'[a] = todo[a]
    BY <1>0, <1>b, <1>c, <1>14 DEF StateTypes, QueueTypes, StealPop, Goto, Return, Source
  <2>4. ActorOK(a)'
    BY <1>d, <2>2, <2>3, CallsOK, ReturnOK DEF ActorOK
  <2> QED BY <1>a, <2>1, <2>4
<1>15. ASSUME NEW a \in Runners, StealPush(a) PROVE \A b \in Actors : ActorOK(b)'
  <2>1. \A b \in Actors : b # a => Same(b)
    BY <1>0, <1>15 DEF StateTypes, QueueTypes, Same, StealPush, Goto
  <2>2. ActorOK(a)'
    BY <1>0, <1>15 DEF StateTypes, QueueTypes, ActorOK, PlaceOK, PcsOf, RetsOf, HasTodo, ThreadPcs, PollerPcs, RunnerPcs, NotifyPcs, SwapPcs, StealPcs, StealPush, Goto
  <2> QED BY <1>a, <2>1, <2>2
<1>16. ASSUME NEW a \in Tickers, TickSearch(a) PROVE \A b \in Actors : ActorOK(b)'
  <2>1. \A b \in Actors : b # a => Same(b)
    BY <1>0, <1>16 DEF StateTypes, QueueTypes, Same, TickSearch, Goto
  <2>2. PlaceOK(a, pc[a], ret[a], todo[a]) /\ pc[a] \in {"search", "try"}
    BY <1>0, <1>16 DEF ActorOK, TickSearch, Goto
  <2>3. \/ pc'[a] = "found" /\ ret'[a] = ret[a] /\ todo'[a] # NULL
        \/ pc'[a] \in {"gone", "sleep"} /\ ret'[a] = ret[a] /\ todo'[a] = todo[a]
    BY <1>0, <1>b, <1>c, <1>16 DEF StateTypes, QueueTypes, TickSearch, Goto
  <2>4. ActorOK(a)'
    BY <1>d, <2>2, <2>3, CallsOK, ReturnOK DEF ActorOK
  <2> QED BY <1>a, <2>1, <2>4
<1>17. ASSUME NEW a \in Pollers, Sleep(a) PROVE \A b \in Actors : ActorOK(b)'
  <2>1. \A b \in Actors : b # a => Same(b)
    BY <1>0, <1>17 DEF StateTypes, QueueTypes, Same, Sleep, Goto
  <2>2. PlaceOK(a, pc[a], ret[a], todo[a]) /\ pc[a] = "sleep"
    BY <1>0, <1>17 DEF ActorOK, Sleep, Goto
  <2>3. \/ pc'[a] \in {"swap_slept", "pending"} /\ ret'[a] = ret[a] /\ todo'[a] = todo[a]
    BY <1>0, <1>b, <1>c, <1>17 DEF StateTypes, QueueTypes, Sleep, Goto
  <2>4. ActorOK(a)'
    BY <1>d, <2>2, <2>3, CallsOK, ReturnOK DEF ActorOK
  <2> QED BY <1>a, <2>1, <2>4
<1>18. ASSUME NEW a \in Pollers, Swap(a, "swap_slept", "search", "rest") PROVE \A b \in Actors : ActorOK(b)'
  <2>1. \A b \in Actors : b # a => Same(b)
    BY <1>0, <1>18 DEF StateTypes, QueueTypes, Same, Swap, Goto
  <2>2. ActorOK(a)'
    BY <1>0, <1>18 DEF StateTypes, QueueTypes, ActorOK, PlaceOK, PcsOf, RetsOf, HasTodo, ThreadPcs, PollerPcs, RunnerPcs, NotifyPcs, SwapPcs, StealPcs, Swap, Goto
  <2> QED BY <1>a, <2>1, <2>2
<1>19. ASSUME NEW a \in Pollers, Swap(a, "swap_found", "notify", "ticked") PROVE \A b \in Actors : ActorOK(b)'
  <2>1. \A b \in Actors : b # a => Same(b)
    BY <1>0, <1>19 DEF StateTypes, QueueTypes, Same, Swap, Goto
  <2>2. ActorOK(a)'
    BY <1>0, <1>19 DEF StateTypes, QueueTypes, ActorOK, PlaceOK, PcsOf, RetsOf, HasTodo, ThreadPcs, PollerPcs, RunnerPcs, NotifyPcs, SwapPcs, StealPcs, Swap, Goto
  <2> QED BY <1>a, <2>1, <2>2
<1>20. ASSUME NEW a \in Pollers, Swap(a, "swap_gone", "gone", "rest") PROVE \A b \in Actors : ActorOK(b)'
  <2>1. \A b \in Actors : b # a => Same(b)
    BY <1>0, <1>20 DEF StateTypes, QueueTypes, Same, Swap, Goto
  <2>2. ActorOK(a)'
    BY <1>0, <1>20 DEF StateTypes, QueueTypes, ActorOK, PlaceOK, PcsOf, RetsOf, HasTodo, ThreadPcs, PollerPcs, RunnerPcs, NotifyPcs, SwapPcs, StealPcs, Swap, Goto
  <2> QED BY <1>a, <2>1, <2>2
<1>21. ASSUME NEW a \in Pollers, Swap(a, "swap_pass", "notify", "gone") PROVE \A b \in Actors : ActorOK(b)'
  <2>1. \A b \in Actors : b # a => Same(b)
    BY <1>0, <1>21 DEF StateTypes, QueueTypes, Same, Swap, Goto
  <2>2. ActorOK(a)'
    BY <1>0, <1>21 DEF StateTypes, QueueTypes, ActorOK, PlaceOK, PcsOf, RetsOf, HasTodo, ThreadPcs, PollerPcs, RunnerPcs, NotifyPcs, SwapPcs, StealPcs, Swap, Goto
  <2> QED BY <1>a, <2>1, <2>2
<1>22. ASSUME NEW a \in Pollers, TickerWake(a) PROVE \A b \in Actors : ActorOK(b)'
  <2>1. \A b \in Actors : b # a => Same(b)
    BY <1>0, <1>22 DEF StateTypes, QueueTypes, Same, TickerWake, Goto
  <2>2. ActorOK(a)'
    BY <1>0, <1>22 DEF StateTypes, QueueTypes, ActorOK, PlaceOK, PcsOf, RetsOf, HasTodo, ThreadPcs, PollerPcs, RunnerPcs, NotifyPcs, SwapPcs, StealPcs, TickerWake, Goto
  <2> QED BY <1>a, <2>1, <2>2
<1>23. ASSUME NEW a \in Pollers, Awake(a, "found", "notify", "ticked") PROVE \A b \in Actors : ActorOK(b)'
  <2>1. \A b \in Actors : b # a => Same(b)
    BY <1>0, <1>23 DEF StateTypes, QueueTypes, Same, Awake, Goto
  <2>2. ActorOK(a)'
    BY <1>0, <1>23 DEF StateTypes, QueueTypes, ActorOK, PlaceOK, PcsOf, RetsOf, HasTodo, ThreadPcs, PollerPcs, RunnerPcs, NotifyPcs, SwapPcs, StealPcs, Awake, Goto
  <2> QED BY <1>a, <2>1, <2>2
<1>24. ASSUME NEW a \in Pollers, Awake(a, "drop", "gone", "rest") PROVE \A b \in Actors : ActorOK(b)'
  <2>1. \A b \in Actors : b # a => Same(b)
    BY <1>0, <1>24 DEF StateTypes, QueueTypes, Same, Awake, Goto
  <2>2. ActorOK(a)'
    BY <1>0, <1>24 DEF StateTypes, QueueTypes, ActorOK, PlaceOK, PcsOf, RetsOf, HasTodo, ThreadPcs, PollerPcs, RunnerPcs, NotifyPcs, SwapPcs, StealPcs, Awake, Goto
  <2> QED BY <1>a, <2>1, <2>2
<1>25. ASSUME NEW a \in Pollers, TickerDrop(a) PROVE \A b \in Actors : ActorOK(b)'
  <2>1. \A b \in Actors : b # a => Same(b)
    BY <1>0, <1>25 DEF StateTypes, QueueTypes, Same, TickerDrop, Goto
  <2>2. ActorOK(a)'
    BY <1>0, <1>25 DEF StateTypes, QueueTypes, ActorOK, PlaceOK, PcsOf, RetsOf, HasTodo, ThreadPcs, PollerPcs, RunnerPcs, NotifyPcs, SwapPcs, StealPcs, TickerDrop, Goto
  <2> QED BY <1>a, <2>1, <2>2
<1>26. ASSUME NEW a \in Pollers, Ticked(a) PROVE \A b \in Actors : ActorOK(b)'
  <2>1. \A b \in Actors : b # a => Same(b)
    BY <1>0, <1>26 DEF StateTypes, QueueTypes, Same, Ticked, Goto, StealFrom
  <2>2. ActorOK(a)'
    <3>1. a \in Actors \ Threads /\ PlaceOK(a, "ticked", ret[a], todo[a]) /\ todo'[a] = todo[a]
      BY <1>0, <1>26 DEF ActorOK, Ticked
    <3>2. \/ pc'[a] = "run" /\ ret'[a] = ret[a]
          \/ a \in Runners /\ pc'[a] = "count" /\ ret'[a] = "run"
      BY <1>0, <1>26 DEF StateTypes, Ticked, Goto, StealFrom
    <3>3. PlaceOK(a, pc'[a], ret'[a], todo[a])
      BY <3>1, <3>2 DEF PlaceOK, PcsOf, RetsOf, HasTodo, ThreadPcs, PollerPcs, RunnerPcs, NotifyPcs, SwapPcs, StealPcs
    <3> QED BY <3>1, <3>3 DEF ActorOK
  <2> QED BY <1>a, <2>1, <2>2
<1>27. ASSUME NEW a \in Pollers, Runs(a) PROVE \A b \in Actors : ActorOK(b)'
  <2>1. \A b \in Actors : b # a => Same(b)
    BY <1>0, <1>27 DEF StateTypes, QueueTypes, Same, Runs, RunEnds, Goto
  <2>2. PlaceOK(a, pc[a], ret[a], todo[a]) /\ pc[a] = "run"
    BY <1>0, <1>27 DEF ActorOK, Runs, RunEnds, Goto
  <2>3. \/ pc'[a] = "push" /\ ret'[a] = "ran" /\ todo'[a] = todo[a]
        \/ pc'[a] = "ran" /\ ret'[a] = ret[a] /\ todo'[a] = NULL
    BY <1>0, <1>b, <1>c, <1>27 DEF StateTypes, QueueTypes, Runs, RunEnds, Goto
  <2>4. ActorOK(a)'
    BY <1>d, <2>2, <2>3, CallsOK, ReturnOK DEF ActorOK
  <2> QED BY <1>a, <2>1, <2>4
<1>28. ASSUME NEW a \in Pollers, Ran(a) PROVE \A b \in Actors : ActorOK(b)'
  <2>1. \A b \in Actors : b # a => Same(b)
    BY <1>0, <1>28 DEF StateTypes, QueueTypes, Same, Ran, Goto
  <2>2. PlaceOK(a, pc[a], ret[a], todo[a]) /\ pc[a] = "ran"
    BY <1>0, <1>28 DEF ActorOK, Ran, Goto
  <2>3. \/ a \in Runners /\ pc'[a] \in {"search", "pending"} /\ ret'[a] = ret[a] /\ todo'[a] = todo[a]
        \/ a \in Tickers /\ pc'[a] = "gone" /\ ret'[a] = ret[a] /\ todo'[a] = todo[a]
    BY <1>0, <1>b, <1>c, <1>28 DEF StateTypes, QueueTypes, Ran, Goto
  <2>4. ActorOK(a)'
    BY <1>d, <2>2, <2>3, CallsOK, ReturnOK DEF ActorOK
  <2> QED BY <1>a, <2>1, <2>4
<1>29. ASSUME NEW a \in Pollers, Poll(a) PROVE \A b \in Actors : ActorOK(b)'
  <2>1. \A b \in Actors : b # a => Same(b)
    BY <1>0, <1>29 DEF StateTypes, QueueTypes, Same, Poll, Goto
  <2>2. ActorOK(a)'
    BY <1>0, <1>29 DEF StateTypes, QueueTypes, ActorOK, PlaceOK, PcsOf, RetsOf, HasTodo, ThreadPcs, PollerPcs, RunnerPcs, NotifyPcs, SwapPcs, StealPcs, Poll, Goto
  <2> QED BY <1>a, <2>1, <2>2
<1>30. ASSUME NEW a \in Pollers, Stop(a) PROVE \A b \in Actors : ActorOK(b)'
  <2>1. \A b \in Actors : b # a => Same(b)
    BY <1>0, <1>30 DEF StateTypes, QueueTypes, Same, Stop, Goto
  <2>2. ActorOK(a)'
    BY <1>0, <1>30 DEF StateTypes, QueueTypes, ActorOK, PlaceOK, PcsOf, RetsOf, HasTodo, ThreadPcs, PollerPcs, RunnerPcs, NotifyPcs, SwapPcs, StealPcs, Stop, Goto
  <2> QED BY <1>a, <2>1, <2>2
<1>31. ASSUME NEW a \in Runners, Unregister(a) PROVE \A b \in Actors : ActorOK(b)'
  <2>1. \A b \in Actors : b # a => Same(b)
    BY <1>0, <1>31 DEF StateTypes, QueueTypes, Same, Unregister, Goto
  <2>2. ActorOK(a)'
    BY <1>0, <1>31 DEF StateTypes, QueueTypes, ActorOK, PlaceOK, PcsOf, RetsOf, HasTodo, ThreadPcs, PollerPcs, RunnerPcs, NotifyPcs, SwapPcs, StealPcs, Unregister, Goto
  <2> QED BY <1>a, <2>1, <2>2
<1>32. ASSUME NEW a \in Runners, Drain(a) PROVE \A b \in Actors : ActorOK(b)'
  <2>1. \A b \in Actors : b # a => Same(b)
    BY <1>0, <1>32 DEF StateTypes, QueueTypes, Same, Drain, Goto
  <2>2. PlaceOK(a, pc[a], ret[a], todo[a]) /\ pc[a] = "drain"
    BY <1>0, <1>32 DEF ActorOK, Drain, Goto
  <2>3. \/ pc'[a] = "push" /\ ret'[a] = "drain" /\ todo'[a] # NULL
        \/ pc'[a] = "drop" /\ ret'[a] = ret[a] /\ todo'[a] = todo[a]
    BY <1>0, <1>b, <1>c, <1>32 DEF StateTypes, QueueTypes, Drain, Goto
  <2>4. ActorOK(a)'
    BY <1>d, <2>2, <2>3, CallsOK, ReturnOK DEF ActorOK
  <2> QED BY <1>a, <2>1, <2>4
<1>33. CASE DropStart
  BY <1>0, <1>33 DEF ActorOK, DropStart
<1>34. CASE DropWake
  BY <1>0, <1>34 DEF ActorOK, DropWake
<1>35. CASE DropDrain
  BY <1>0, <1>35 DEF ActorOK, DropDrain
<1> QED BY <1>1, <1>2, <1>3, <1>4, <1>5, <1>6, <1>7, <1>8, <1>9, <1>10, <1>11, <1>12, <1>13, <1>14, <1>15, <1>16, <1>17, <1>18, <1>19, <1>20, <1>21, <1>22, <1>23, <1>24, <1>25, <1>26, <1>27, <1>28, <1>29, <1>30, <1>31, <1>32, <1>33, <1>34, <1>35 DEF Next, PollerStep, RunnerStep, Schedule

\* A return from notify or steal leads where the caller holds what it did
\* before.
LEMMA ReturnPlaces ==
    ASSUME NEW p \in Pollers, NEW l, NEW rt, NEW t, PlaceOK(p, l, rt, t), l \in NotifyPcs \/ l = "steal"
    PROVE  /\ rt \notin SwapPcs /\ rt \notin {"steal", "stow"}
           /\ IsUp(rt, "rest") => IsUp(l, rt)
           /\ IsLeaving(rt, "rest") => IsLeaving(l, rt)
           /\ l \in NotifyPcs => /\ IsUp("notify_lock", rt) \/ IsUp("notify_wake", rt) => IsUp(l, rt)
                                 /\ IsLeaving("notify_lock", rt) \/ IsLeaving("notify_wake", rt) => IsLeaving(l, rt)
BY ExecutorAssumption DEF PlaceOK, PcsOf, RetsOf, IsUp, IsLeaving, PollerPcs, RunnerPcs, NotifyPcs, SwapPcs, StealPcs, Pollers

\* Every step keeps what is known of a runner: what steal carries, that it fits
\* into the local queue, and that a queue that was given up is empty.
LEMMA RunnersStep ==
    ASSUME ControlInv, Next PROVE \A r \in Runners : RunnerOK(r)'
<1> USE ExecutorAssumption DEF shared, sleepvs, steals, Pollers, Actors
<1>0. /\ StateTypes /\ QueueTypes /\ \A r \in Runners : RunnerOK(r) /\ PlaceOK(r, pc[r], ret[r], todo[r])
  BY DEF ControlInv, TypeOK, ActorOK
<1>a. ASSUME NEW r \in Runners, carry'[r] = carry[r], local'[r] = local[r], cnt'[r] = cnt[r], pc'[r] = pc[r], ret'[r] = ret[r]
      PROVE  RunnerOK(r)'
  BY <1>0, <1>a DEF RunnerOK
<1>b. ASSUME NEW r \in Runners, carry'[r] = carry[r], local'[r] = local[r], pc[r] \notin {"steal", "stow"},
             pc'[r] \notin {"steal", "stow"}, IsLeaving(pc'[r], ret'[r]) => IsLeaving(pc[r], ret[r])
      PROVE  RunnerOK(r)'
  BY <1>0, <1>b DEF RunnerOK
<1>c. /\ \A r \in Runners : /\ local[r] \in Seq(Tasks) /\ Len(local[r]) \in Nat /\ cnt[r] \in Nat
                            /\ local[r] # <<>> => Len(Tail(local[r])) = Len(local[r]) - 1
      /\ queue \in Seq(Tasks)
  BY <1>0, TailSeq DEF QueueTypes, StateTypes
<1>d. "notify" \in NotifyPcs /\ "notify_lock" \in NotifyPcs /\ "notify_wake" \in NotifyPcs /\ "steal" \notin NotifyPcs
      /\ "stow" \notin NotifyPcs /\ "steal" \in StealPcs /\ "stow" \in StealPcs
  BY DEF NotifyPcs, StealPcs
<1>e. \A p \in Runners : pc[p] \in NotifyPcs \/ pc[p] = "steal" =>
           /\ ret[p] \notin SwapPcs /\ ret[p] \notin {"steal", "stow"}
           /\ IsUp(ret[p], "rest") => IsUp(pc[p], ret[p])
           /\ IsLeaving(ret[p], "rest") => IsLeaving(pc[p], ret[p])
           /\ pc[p] \in NotifyPcs => /\ IsUp("notify_lock", ret[p]) \/ IsUp("notify_wake", ret[p]) => IsUp(pc[p], ret[p])
                                     /\ IsLeaving("notify_lock", ret[p]) \/ IsLeaving("notify_wake", ret[p]) => IsLeaving(pc[p], ret[p])
  BY <1>0, ReturnPlaces
<1>1. ASSUME NEW a \in Actors, Push(a) PROVE \A r \in Runners : RunnerOK(r)'
  <2>1. UNCHANGED <<local, carry, cnt>> /\ \A r \in Runners : r # a => pc'[r] = pc[r] /\ ret'[r] = ret[r]
    BY <1>0, <1>1 DEF StateTypes, Push, Goto, Return
  <2>2. pc[a] = "push"
    BY <1>1 DEF Push
  <2>3. pc'[a] = "notify" /\ ret'[a] = ret[a]
    BY <1>0, <1>1 DEF StateTypes, Push, Goto, Return
  <2>4. a \in Runners => RunnerOK(a)'
    BY <1>0, <1>b, <1>d, <1>e, <2>1, <2>2, <2>3 DEF PlaceOK, RetsOf, IsLeaving
  <2> QED BY <1>a, <2>1, <2>4
<1>2. ASSUME NEW a \in Actors, NotifyCas(a) PROVE \A r \in Runners : RunnerOK(r)'
  <2>1. UNCHANGED <<local, carry, cnt>> /\ \A r \in Runners : r # a => pc'[r] = pc[r] /\ ret'[r] = ret[r]
    BY <1>0, <1>2 DEF StateTypes, NotifyCas, Goto, Return
  <2>2. pc[a] = "notify"
    BY <1>2 DEF NotifyCas
  <2>3. \/ pc'[a] = ret[a] /\ ret'[a] = "rest"
        \/ pc'[a] = "notify_lock" /\ ret'[a] = ret[a]
    BY <1>0, <1>2 DEF StateTypes, NotifyCas, Goto, Return
  <2>4. a \in Runners => RunnerOK(a)'
    <3>1. CASE pc'[a] = ret[a] /\ ret'[a] = "rest"
      BY <1>0, <1>b, <1>d, <1>e, <2>1, <2>2, <3>1
    <3>2. CASE pc'[a] = "notify_lock" /\ ret'[a] = ret[a]
      BY <1>0, <1>b, <1>d, <1>e, <2>1, <2>2, <3>2 DEF IsLeaving, IsUp, SwapPcs, NotifyPcs, StealPcs
    <3> QED BY <2>3, <3>1, <3>2
  <2> QED BY <1>a, <2>1, <2>4
<1>3. ASSUME NEW a \in Actors, NotifyLock(a) PROVE \A r \in Runners : RunnerOK(r)'
  <2>1. UNCHANGED <<local, carry, cnt>> /\ \A r \in Runners : r # a => pc'[r] = pc[r] /\ ret'[r] = ret[r]
    BY <1>0, <1>3 DEF StateTypes, NotifyLock, Goto, Return
  <2>2. pc[a] = "notify_lock"
    BY <1>3 DEF NotifyLock
  <2>3. \/ pc'[a] = ret[a] /\ ret'[a] = "rest"
        \/ pc'[a] = "notify_wake" /\ ret'[a] = ret[a]
    BY <1>0, <1>3 DEF StateTypes, NotifyLock, Goto, Return
  <2>4. a \in Runners => RunnerOK(a)'
    <3>1. CASE pc'[a] = ret[a] /\ ret'[a] = "rest"
      BY <1>0, <1>b, <1>d, <1>e, <2>1, <2>2, <3>1
    <3>2. CASE pc'[a] = "notify_wake" /\ ret'[a] = ret[a]
      BY <1>0, <1>b, <1>d, <1>e, <2>1, <2>2, <3>2 DEF IsLeaving, IsUp, SwapPcs, NotifyPcs, StealPcs
    <3> QED BY <2>3, <3>1, <3>2
  <2> QED BY <1>a, <2>1, <2>4
<1>4. ASSUME NEW a \in Actors, NotifyWake(a) PROVE \A r \in Runners : RunnerOK(r)'
  <2>1. UNCHANGED <<local, carry, cnt>> /\ \A r \in Runners : r # a => pc'[r] = pc[r] /\ ret'[r] = ret[r]
    BY <1>0, <1>4 DEF StateTypes, NotifyWake, Goto, Return
  <2>2. pc[a] = "notify_wake"
    BY <1>4 DEF NotifyWake
  <2>3. \/ pc'[a] = ret[a] /\ ret'[a] = "rest"
    BY <1>0, <1>4 DEF StateTypes, NotifyWake, Goto, Return
  <2>4. a \in Runners => RunnerOK(a)'
    BY <1>0, <1>b, <1>d, <1>e, <2>1, <2>2, <2>3
  <2> QED BY <1>a, <2>1, <2>4
<1>5. ASSUME NEW a \in Threads, \E t \in Tasks : Spawn(a, t) PROVE \A r \in Runners : RunnerOK(r)'
  BY <1>0, <1>5 DEF StateTypes, QueueTypes, RunnerOK, IsLeaving, NotifyPcs, Spawn, Goto
<1>6. ASSUME NEW a \in Threads, \E t \in Tasks : Wake(a, t) PROVE \A r \in Runners : RunnerOK(r)'
  BY <1>0, <1>6 DEF StateTypes, QueueTypes, RunnerOK, IsLeaving, NotifyPcs, Wake, Goto
<1>7. ASSUME NEW a \in Runners, Start(a) PROVE \A r \in Runners : RunnerOK(r)'
  BY <1>0, <1>7 DEF StateTypes, QueueTypes, RunnerOK, IsLeaving, NotifyPcs, Start, Goto
<1>8. ASSUME NEW a \in Tickers, StartTick(a, "search") PROVE \A r \in Runners : RunnerOK(r)'
  BY <1>0, <1>8 DEF StateTypes, QueueTypes, RunnerOK, IsLeaving, NotifyPcs, StartTick, Goto, shared, sleepvs, steals
<1>9. ASSUME NEW a \in Tickers, StartTick(a, "try") PROVE \A r \in Runners : RunnerOK(r)'
  BY <1>0, <1>9 DEF StateTypes, QueueTypes, RunnerOK, IsLeaving, NotifyPcs, StartTick, Goto
<1>10. ASSUME NEW a \in Runners, SearchLocal(a) PROVE \A r \in Runners : RunnerOK(r)'
  <2>1. \A r \in Runners : r # a => RunnerOK(r)'
    BY <1>0, <1>a, <1>10 DEF StateTypes, QueueTypes, SearchLocal, Goto
  <2>2. CASE local[a] = <<>>
    <3>1. RunnerOK(a)'
      BY <1>0, <1>b, <1>10, <2>2 DEF StateTypes, SearchLocal, Goto, IsLeaving, NotifyPcs
    <3> QED BY <2>1, <3>1
  <2>3. CASE local[a] # <<>>
    <3>1. pc'[a] = "found" /\ local'[a] = Tail(local[a]) /\ carry'[a] = carry[a] /\ pc[a] \in {"search", "check"}
      BY <1>0, <1>10, <2>3 DEF StateTypes, QueueTypes, SearchLocal, Goto
    <3>2. Len(local[a]) <= LocalCap /\ carry[a] = NULL
      BY <1>0, <1>c, <3>1 DEF RunnerOK
    <3>3. RunnerOK(a)'
      BY <1>c, <2>3, <3>1, <3>2 DEF RunnerOK, IsLeaving, NotifyPcs
    <3> QED BY <2>1, <3>3
  <2> QED BY <2>2, <2>3
<1>11. ASSUME NEW a \in Runners, SearchGlobal(a) PROVE \A r \in Runners : RunnerOK(r)'
  BY <1>0, <1>11 DEF StateTypes, QueueTypes, RunnerOK, IsLeaving, NotifyPcs, SearchGlobal, Goto, StealFrom
<1>12. ASSUME NEW a \in Runners, SearchOthers(a) PROVE \A r \in Runners : RunnerOK(r)'
  BY <1>0, <1>12 DEF StateTypes, QueueTypes, RunnerOK, IsLeaving, NotifyPcs, SearchOthers, Goto, StealFrom
<1>13. ASSUME NEW a \in Runners, StealLen(a) PROVE \A r \in Runners : RunnerOK(r)'
  <2>1. \A r \in Runners : r # a => RunnerOK(r)'
    BY <1>0, <1>a, <1>13 DEF StateTypes, StealLen, Goto
  <2>2. Len(Source(a)) \in Nat
    BY <1>0, <1>c DEF Source, StateTypes
  <2>3. pc[a] = "count" /\ pc'[a] = "steal" /\ UNCHANGED <<local, carry>> /\ cnt'[a] = StealCount(Source(a), local[a])
    BY <1>0, <1>13 DEF StateTypes, StealLen, Goto
  <2>4. Len(local[a]) <= LocalCap /\ carry[a] = NULL
    BY <1>0, <1>c, <2>3 DEF RunnerOK
  <2>5. Len(local[a]) + cnt'[a] <= LocalCap /\ cnt'[a] \in Nat
    <3> DEFINE half == (Len(Source(a)) + 1) \div 2
               room == LocalCap - Len(local[a])
    <3>1. half \in Nat /\ room \in Nat
      BY <1>c, <2>2, <2>4
    <3>2. cnt'[a] = IF half < room THEN half ELSE room
      BY <2>3 DEF StealCount
    <3> HIDE DEF half
    <3> QED BY <1>c, <3>1, <3>2
  <2>6. RunnerOK(a)'
    BY <1>c, <2>3, <2>4, <2>5 DEF RunnerOK, IsLeaving, NotifyPcs
  <2> QED BY <2>1, <2>6
<1>14. ASSUME NEW a \in Runners, StealPop(a) PROVE \A r \in Runners : RunnerOK(r)'
  <2>0. pc[a] = "steal" /\ carry[a] = NULL /\ src[a] \in Runners \cup {NULL} /\ Len(local[a]) + cnt[a] <= LocalCap
    BY <1>0, <1>c, <1>14 DEF RunnerOK, StealPop, StateTypes
  <2>1. CASE cnt[a] = 0 \/ Source(a) = <<>>
    <3>1. /\ UNCHANGED <<local, carry>> /\ pc'[a] = ret[a] /\ ret'[a] = "rest"
          /\ \A r \in Runners : r # a => cnt'[r] = cnt[r] /\ pc'[r] = pc[r] /\ ret'[r] = ret[r]
      BY <1>0, <1>14, <2>1 DEF StateTypes, StealPop, Goto, Return
    <3>2. pc'[a] \notin {"steal", "stow"} /\ (IsLeaving(pc'[a], ret'[a]) => IsLeaving(pc[a], ret[a]))
      BY <1>e, <2>0, <3>1
    <3>3. RunnerOK(a)'
      <4>1. RunnerOK(a) /\ Len(local[a]) \in Nat /\ cnt[a] \in Nat
        BY <1>0, <1>c
      <4>2. Len(local[a]) <= LocalCap
        BY <2>0, <4>1
      <4>3. carry'[a] = NULL /\ pc'[a] # "stow" /\ pc'[a] \notin {"steal", "stow"} /\ local'[a] = local[a]
        BY <2>0, <3>1, <3>2
      <4>4. IsLeaving(pc'[a], ret'[a]) => local'[a] = <<>>
        BY <3>2, <4>1, <4>3 DEF RunnerOK
      <4> QED BY <4>1, <4>2, <4>3, <4>4 DEF RunnerOK
    <3> QED BY <1>a, <3>1, <3>3
  <2>2. CASE ~(cnt[a] = 0 \/ Source(a) = <<>>)
    <3>1. /\ carry' = [carry EXCEPT ![a] = Head(Source(a))] /\ pc' = [pc EXCEPT ![a] = "stow"] /\ ret' = ret
          /\ cnt' = [cnt EXCEPT ![a] = cnt[a] - 1]
          /\ \/ local' = local /\ src[a] = NULL
             \/ src[a] \in Runners /\ local[src[a]] # <<>> /\ local' = [local EXCEPT ![src[a]] = Tail(local[src[a]])]
      BY <1>14, <2>0, <2>2 DEF StealPop, Goto, Source
    <3>2. \A r \in Runners : Len(local'[r]) \in Nat /\ Len(local'[r]) <= Len(local[r]) /\ (local[r] = <<>> => local'[r] = <<>>)
      <4>1. CASE local' = local
        BY <1>c, <4>1
      <4>2. CASE src[a] \in Runners /\ local[src[a]] # <<>> /\ local' = [local EXCEPT ![src[a]] = Tail(local[src[a]])]
        <5>1. \A r \in Runners : local'[r] = IF r = src[a] THEN Tail(local[src[a]]) ELSE local[r]
          BY <1>0, <4>2 DEF QueueTypes
        <5>2. Len(Tail(local[src[a]])) = Len(local[src[a]]) - 1 /\ Len(Tail(local[src[a]])) \in Nat
          BY <1>c, <4>2, TailSeq
        <5> QED BY <1>c, <4>2, <5>1, <5>2
      <4> QED BY <3>1, <4>1, <4>2
    <3>3. Head(Source(a)) # NULL
      BY <1>c, <2>0, <2>2, TailSeq DEF Source
    <3>4. RunnerOK(a)'
      <4>1. carry'[a] # NULL /\ pc'[a] = "stow" /\ cnt'[a] = cnt[a] - 1 /\ cnt[a] \in Nat
        BY <1>0, <1>c, <3>1, <3>3 DEF QueueTypes, StateTypes
      <4> QED BY <1>c, <2>0, <3>2, <4>1 DEF RunnerOK, IsLeaving, NotifyPcs
    <3>5. ASSUME NEW r \in Runners, r # a PROVE RunnerOK(r)'
      <4>1. carry'[r] = carry[r] /\ pc'[r] = pc[r] /\ cnt'[r] = cnt[r] /\ ret'[r] = ret[r]
        BY <1>0, <3>1, <3>5 DEF QueueTypes, StateTypes
      <4>2. RunnerOK(r)
        BY <1>0
      <4> QED BY <1>c, <3>2, <4>1, <4>2 DEF RunnerOK
    <3> QED BY <3>4, <3>5
  <2> QED BY <2>1, <2>2
<1>15. ASSUME NEW a \in Runners, StealPush(a) PROVE \A r \in Runners : RunnerOK(r)'
  BY <1>0, <1>15 DEF StateTypes, QueueTypes, RunnerOK, IsLeaving, NotifyPcs, StealPush, Goto
<1>16. ASSUME NEW a \in Tickers, TickSearch(a) PROVE \A r \in Runners : RunnerOK(r)'
  BY <1>0, <1>16 DEF StateTypes, QueueTypes, RunnerOK, IsLeaving, NotifyPcs, TickSearch, Goto
<1>17. ASSUME NEW a \in Pollers, Sleep(a) PROVE \A r \in Runners : RunnerOK(r)'
  BY <1>0, <1>17 DEF StateTypes, QueueTypes, RunnerOK, IsLeaving, NotifyPcs, Sleep, Goto
<1>18. ASSUME NEW a \in Pollers, Swap(a, "swap_slept", "search", "rest") PROVE \A r \in Runners : RunnerOK(r)'
  BY <1>0, <1>18 DEF StateTypes, QueueTypes, RunnerOK, IsLeaving, NotifyPcs, Swap, Goto
<1>19. ASSUME NEW a \in Pollers, Swap(a, "swap_found", "notify", "ticked") PROVE \A r \in Runners : RunnerOK(r)'
  BY <1>0, <1>19 DEF StateTypes, QueueTypes, RunnerOK, IsLeaving, NotifyPcs, Swap, Goto
<1>20. ASSUME NEW a \in Pollers, Swap(a, "swap_gone", "gone", "rest") PROVE \A r \in Runners : RunnerOK(r)'
  BY <1>0, <1>20 DEF StateTypes, QueueTypes, RunnerOK, IsLeaving, NotifyPcs, Swap, Goto
<1>21. ASSUME NEW a \in Pollers, Swap(a, "swap_pass", "notify", "gone") PROVE \A r \in Runners : RunnerOK(r)'
  BY <1>0, <1>21 DEF StateTypes, QueueTypes, RunnerOK, IsLeaving, NotifyPcs, Swap, Goto
<1>22. ASSUME NEW a \in Pollers, TickerWake(a) PROVE \A r \in Runners : RunnerOK(r)'
  BY <1>0, <1>22 DEF StateTypes, QueueTypes, RunnerOK, IsLeaving, NotifyPcs, TickerWake, Goto
<1>23. ASSUME NEW a \in Pollers, Awake(a, "found", "notify", "ticked") PROVE \A r \in Runners : RunnerOK(r)'
  BY <1>0, <1>23 DEF StateTypes, QueueTypes, RunnerOK, IsLeaving, NotifyPcs, Awake, Goto
<1>24. ASSUME NEW a \in Pollers, Awake(a, "drop", "gone", "rest") PROVE \A r \in Runners : RunnerOK(r)'
  BY <1>0, <1>24 DEF StateTypes, QueueTypes, RunnerOK, IsLeaving, NotifyPcs, Awake, Goto
<1>25. ASSUME NEW a \in Pollers, TickerDrop(a) PROVE \A r \in Runners : RunnerOK(r)'
  BY <1>0, <1>25 DEF StateTypes, QueueTypes, RunnerOK, IsLeaving, NotifyPcs, TickerDrop, Goto
<1>26. ASSUME NEW a \in Pollers, Ticked(a) PROVE \A r \in Runners : RunnerOK(r)'
  BY <1>0, <1>26 DEF StateTypes, QueueTypes, RunnerOK, IsLeaving, NotifyPcs, Ticked, Goto, StealFrom
<1>27. ASSUME NEW a \in Pollers, Runs(a) PROVE \A r \in Runners : RunnerOK(r)'
  BY <1>0, <1>27 DEF StateTypes, QueueTypes, RunnerOK, IsLeaving, NotifyPcs, Runs, RunEnds, Goto
<1>28. ASSUME NEW a \in Pollers, Ran(a) PROVE \A r \in Runners : RunnerOK(r)'
  BY <1>0, <1>28 DEF StateTypes, QueueTypes, RunnerOK, IsLeaving, NotifyPcs, Ran, Goto
<1>29. ASSUME NEW a \in Pollers, Poll(a) PROVE \A r \in Runners : RunnerOK(r)'
  BY <1>0, <1>29 DEF StateTypes, QueueTypes, RunnerOK, IsLeaving, NotifyPcs, Poll, Goto
<1>30. ASSUME NEW a \in Pollers, Stop(a) PROVE \A r \in Runners : RunnerOK(r)'
  BY <1>0, <1>30 DEF StateTypes, QueueTypes, RunnerOK, IsLeaving, NotifyPcs, Stop, Goto
<1>31. ASSUME NEW a \in Runners, Unregister(a) PROVE \A r \in Runners : RunnerOK(r)'
  BY <1>0, <1>31 DEF StateTypes, QueueTypes, RunnerOK, IsLeaving, NotifyPcs, Unregister, Goto
<1>32. ASSUME NEW a \in Runners, Drain(a) PROVE \A r \in Runners : RunnerOK(r)'
  <2>1. \A r \in Runners : r # a => RunnerOK(r)'
    BY ZenonT(60), <1>0, <1>a, <1>32 DEF StateTypes, QueueTypes, Drain, Goto
  <2>2. CASE local[a] = <<>>
    BY <1>0, <1>32, <2>1, <2>2 DEF StateTypes, RunnerOK, Drain, Goto
  <2>3. CASE local[a] # <<>>
    <3>1. pc'[a] = "push" /\ local'[a] = Tail(local[a]) /\ carry'[a] = carry[a] /\ pc[a] = "drain"
      BY <1>0, <1>32, <2>3 DEF StateTypes, QueueTypes, Drain, Goto
    <3>2. Len(local[a]) <= LocalCap /\ carry[a] = NULL
      BY <1>0, <1>c, <3>1 DEF RunnerOK
    <3>3. RunnerOK(a)'
      BY <1>c, <2>3, <3>1, <3>2 DEF RunnerOK, IsLeaving, NotifyPcs
    <3> QED BY <2>1, <3>3
  <2> QED BY <2>2, <2>3
<1>33. CASE DropStart
  BY <1>0, <1>33 DEF RunnerOK, DropStart
<1>34. CASE DropWake
  BY <1>0, <1>34 DEF RunnerOK, DropWake
<1>35. CASE DropDrain
  BY <1>0, <1>35 DEF RunnerOK, DropDrain
<1> QED BY <1>1, <1>2, <1>3, <1>4, <1>5, <1>6, <1>7, <1>8, <1>9, <1>10, <1>11, <1>12, <1>13, <1>14, <1>15, <1>16, <1>17, <1>18, <1>19, <1>20, <1>21, <1>22, <1>23, <1>24, <1>25, <1>26, <1>27, <1>28, <1>29, <1>30, <1>31, <1>32, <1>33, <1>34, <1>35 DEF Next, PollerStep, RunnerStep, Schedule

\* Every step keeps what is known of a poller: it holds the Mutex of the
\* Sleeper only at a swap, and is not registered once it runs a task or is
\* gone.
LEMMA PollersStep ==
    ASSUME ControlInv, Next PROVE \A p \in Pollers : PollerOK(p)'
<1> USE ExecutorAssumption DEF shared, sleepvs, steals, Actors
<1>0. /\ StateTypes /\ \A p \in Pollers : PollerOK(p) /\ PlaceOK(p, pc[p], ret[p], todo[p])
  BY DEF ControlInv, TypeOK, ActorOK
<1>d. NotifyPcs \cap SwapPcs = {} /\ "notify" \in NotifyPcs /\ "notify_lock" \in NotifyPcs /\ "notify_wake" \in NotifyPcs
      /\ "steal" \notin SwapPcs /\ "stow" \notin SwapPcs /\ "steal" \in StealPcs /\ "stow" \in StealPcs
  BY DEF NotifyPcs, SwapPcs, StealPcs
<1>e. \A p \in Pollers : pc[p] \in NotifyPcs \/ pc[p] = "steal" =>
           /\ ret[p] \notin SwapPcs /\ ret[p] \notin {"steal", "stow"}
           /\ IsUp(ret[p], "rest") => IsUp(pc[p], ret[p])
           /\ IsLeaving(ret[p], "rest") => IsLeaving(pc[p], ret[p])
           /\ pc[p] \in NotifyPcs => /\ IsUp("notify_lock", ret[p]) \/ IsUp("notify_wake", ret[p]) => IsUp(pc[p], ret[p])
                                     /\ IsLeaving("notify_lock", ret[p]) \/ IsLeaving("notify_wake", ret[p]) => IsLeaving(pc[p], ret[p])
  BY <1>0, ReturnPlaces
<1>1. ASSUME NEW a \in Actors, Push(a) PROVE \A p \in Pollers : PollerOK(p)'
  BY <1>0, <1>1 DEF StateTypes, PollerOK, SwapPcs, NotifyPcs, StealPcs, IsUp, Pollers, Push, Goto
<1>2. ASSUME NEW a \in Actors, NotifyCas(a) PROVE \A p \in Pollers : PollerOK(p)'
  <2>1. UNCHANGED <<lock, sleeping>> /\ \A p \in Pollers : p # a => pc'[p] = pc[p] /\ ret'[p] = ret[p]
    BY <1>0, <1>2 DEF StateTypes, NotifyCas, Goto, Return
  <2>2. pc[a] = "notify"
    BY <1>2 DEF NotifyCas
  <2>3. \/ pc'[a] = ret[a] /\ ret'[a] = "rest"
        \/ pc'[a] = "notify_lock" /\ ret'[a] = ret[a]
    BY <1>0, <1>2 DEF StateTypes, Pollers, NotifyCas, Goto, Return
  <2>4. a \in Pollers => pc'[a] \notin SwapPcs /\ pc[a] \notin SwapPcs /\ (IsUp(pc'[a], ret'[a]) => IsUp(pc[a], ret[a]))
    <3>1. CASE pc'[a] = ret[a] /\ ret'[a] = "rest"
      BY <1>d, <1>e, <2>2, <3>1
    <3>2. CASE pc'[a] = "notify_lock" /\ ret'[a] = ret[a]
      BY <1>d, <1>e, <2>2, <3>2 DEF IsLeaving, IsUp, SwapPcs, NotifyPcs, StealPcs
    <3> QED BY <2>3, <3>1, <3>2
  <2>5. \A p \in Pollers : p # a => PollerOK(p)'
    BY <1>0, <2>1 DEF PollerOK
  <2>6. a \in Pollers => PollerOK(a)'
    BY <1>0, <2>1, <2>4 DEF PollerOK
  <2> QED BY <2>5, <2>6
<1>3. ASSUME NEW a \in Actors, NotifyLock(a) PROVE \A p \in Pollers : PollerOK(p)'
  <2>1. UNCHANGED <<lock, sleeping>> /\ \A p \in Pollers : p # a => pc'[p] = pc[p] /\ ret'[p] = ret[p]
    BY <1>0, <1>3 DEF StateTypes, NotifyLock, Goto, Return
  <2>2. pc[a] = "notify_lock"
    BY <1>3 DEF NotifyLock
  <2>3. \/ pc'[a] = ret[a] /\ ret'[a] = "rest"
        \/ pc'[a] = "notify_wake" /\ ret'[a] = ret[a]
    BY <1>0, <1>3 DEF StateTypes, Pollers, NotifyLock, Goto, Return
  <2>4. a \in Pollers => pc'[a] \notin SwapPcs /\ pc[a] \notin SwapPcs /\ (IsUp(pc'[a], ret'[a]) => IsUp(pc[a], ret[a]))
    <3>1. CASE pc'[a] = ret[a] /\ ret'[a] = "rest"
      BY <1>d, <1>e, <2>2, <3>1
    <3>2. CASE pc'[a] = "notify_wake" /\ ret'[a] = ret[a]
      BY <1>d, <1>e, <2>2, <3>2 DEF IsLeaving, IsUp, SwapPcs, NotifyPcs, StealPcs
    <3> QED BY <2>3, <3>1, <3>2
  <2>5. \A p \in Pollers : p # a => PollerOK(p)'
    BY <1>0, <2>1 DEF PollerOK
  <2>6. a \in Pollers => PollerOK(a)'
    BY <1>0, <2>1, <2>4 DEF PollerOK
  <2> QED BY <2>5, <2>6
<1>4. ASSUME NEW a \in Actors, NotifyWake(a) PROVE \A p \in Pollers : PollerOK(p)'
  <2>1. UNCHANGED <<lock, sleeping>> /\ \A p \in Pollers : p # a => pc'[p] = pc[p] /\ ret'[p] = ret[p]
    BY <1>0, <1>4 DEF StateTypes, NotifyWake, Goto, Return
  <2>2. pc[a] = "notify_wake"
    BY <1>4 DEF NotifyWake
  <2>3. \/ pc'[a] = ret[a] /\ ret'[a] = "rest"
    BY <1>0, <1>4 DEF StateTypes, Pollers, NotifyWake, Goto, Return
  <2>4. a \in Pollers => pc'[a] \notin SwapPcs /\ pc[a] \notin SwapPcs /\ (IsUp(pc'[a], ret'[a]) => IsUp(pc[a], ret[a]))
    BY <1>d, <1>e, <2>2, <2>3
  <2>5. \A p \in Pollers : p # a => PollerOK(p)'
    BY <1>0, <2>1 DEF PollerOK
  <2>6. a \in Pollers => PollerOK(a)'
    BY <1>0, <2>1, <2>4 DEF PollerOK
  <2> QED BY <2>5, <2>6
<1>5. ASSUME NEW a \in Threads, \E t \in Tasks : Spawn(a, t) PROVE \A p \in Pollers : PollerOK(p)'
  BY <1>0, <1>5 DEF StateTypes, PollerOK, SwapPcs, NotifyPcs, StealPcs, IsUp, Pollers, Spawn, Goto
<1>6. ASSUME NEW a \in Threads, \E t \in Tasks : Wake(a, t) PROVE \A p \in Pollers : PollerOK(p)'
  BY <1>0, <1>6 DEF StateTypes, PollerOK, SwapPcs, NotifyPcs, StealPcs, IsUp, Pollers, Wake, Goto
<1>7. ASSUME NEW a \in Runners, Start(a) PROVE \A p \in Pollers : PollerOK(p)'
  BY <1>0, <1>7 DEF StateTypes, PollerOK, SwapPcs, NotifyPcs, StealPcs, IsUp, Pollers, Start, Goto
<1>8. ASSUME NEW a \in Tickers, StartTick(a, "search") PROVE \A p \in Pollers : PollerOK(p)'
  BY <1>0, <1>8 DEF StateTypes, PollerOK, SwapPcs, NotifyPcs, StealPcs, IsUp, Pollers, StartTick, Goto, shared, sleepvs, steals
<1>9. ASSUME NEW a \in Tickers, StartTick(a, "try") PROVE \A p \in Pollers : PollerOK(p)'
  BY <1>0, <1>9 DEF StateTypes, PollerOK, SwapPcs, NotifyPcs, StealPcs, IsUp, Pollers, StartTick, Goto
<1>10. ASSUME NEW a \in Runners, SearchLocal(a) PROVE \A p \in Pollers : PollerOK(p)'
  BY <1>0, <1>10 DEF StateTypes, PollerOK, SwapPcs, NotifyPcs, StealPcs, IsUp, Pollers, SearchLocal, Goto
<1>11. ASSUME NEW a \in Runners, SearchGlobal(a) PROVE \A p \in Pollers : PollerOK(p)'
  BY <1>0, <1>11 DEF StateTypes, PollerOK, SwapPcs, NotifyPcs, StealPcs, IsUp, Pollers, SearchGlobal, Goto, StealFrom
<1>12. ASSUME NEW a \in Runners, SearchOthers(a) PROVE \A p \in Pollers : PollerOK(p)'
  BY <1>0, <1>12 DEF StateTypes, PollerOK, SwapPcs, NotifyPcs, StealPcs, IsUp, Pollers, SearchOthers, Goto, StealFrom
<1>13. ASSUME NEW a \in Runners, StealLen(a) PROVE \A p \in Pollers : PollerOK(p)'
  BY <1>0, <1>13 DEF StateTypes, PollerOK, SwapPcs, NotifyPcs, StealPcs, IsUp, Pollers, StealLen, Goto
<1>14. ASSUME NEW a \in Runners, StealPop(a) PROVE \A p \in Pollers : PollerOK(p)'
  <2>1. UNCHANGED <<lock, sleeping>> /\ \A p \in Pollers : p # a => pc'[p] = pc[p] /\ ret'[p] = ret[p]
    BY <1>0, <1>14 DEF StateTypes, StealPop, Goto, Return
  <2>2. pc[a] = "steal"
    BY <1>14 DEF StealPop
  <2>3. \/ pc'[a] = ret[a] /\ ret'[a] = "rest"
        \/ pc'[a] = "stow" /\ ret'[a] = ret[a]
    BY <1>0, <1>14 DEF StateTypes, Pollers, StealPop, Goto, Return
  <2>4. a \in Pollers => pc'[a] \notin SwapPcs /\ pc[a] \notin SwapPcs /\ (IsUp(pc'[a], ret'[a]) => IsUp(pc[a], ret[a]))
    <3>1. CASE pc'[a] = ret[a] /\ ret'[a] = "rest"
      BY <1>d, <1>e, <2>2, <3>1 DEF IsUp, StealPcs, NotifyPcs
    <3>2. CASE pc'[a] = "stow" /\ ret'[a] = ret[a]
      BY <1>d, <1>e, <2>2, <3>2 DEF IsLeaving, IsUp, SwapPcs, NotifyPcs, StealPcs
    <3> QED BY <2>3, <3>1, <3>2
  <2>5. \A p \in Pollers : p # a => PollerOK(p)'
    BY <1>0, <2>1 DEF PollerOK
  <2>6. a \in Pollers => PollerOK(a)'
    BY <1>0, <2>1, <2>4 DEF PollerOK
  <2> QED BY <2>5, <2>6
<1>15. ASSUME NEW a \in Runners, StealPush(a) PROVE \A p \in Pollers : PollerOK(p)'
  BY <1>0, <1>15 DEF StateTypes, PollerOK, SwapPcs, NotifyPcs, StealPcs, IsUp, Pollers, StealPush, Goto
<1>16. ASSUME NEW a \in Tickers, TickSearch(a) PROVE \A p \in Pollers : PollerOK(p)'
  BY <1>0, <1>16 DEF StateTypes, PollerOK, SwapPcs, NotifyPcs, StealPcs, IsUp, Pollers, TickSearch, Goto
<1>17. ASSUME NEW a \in Pollers, Sleep(a) PROVE \A p \in Pollers : PollerOK(p)'
  BY <1>0, <1>17 DEF StateTypes, PollerOK, SwapPcs, NotifyPcs, StealPcs, IsUp, Pollers, Sleep, Goto
<1>18. ASSUME NEW a \in Pollers, Swap(a, "swap_slept", "search", "rest") PROVE \A p \in Pollers : PollerOK(p)'
  BY <1>0, <1>18 DEF StateTypes, PollerOK, SwapPcs, NotifyPcs, StealPcs, IsUp, Pollers, Swap, Goto
<1>19. ASSUME NEW a \in Pollers, Swap(a, "swap_found", "notify", "ticked") PROVE \A p \in Pollers : PollerOK(p)'
  BY <1>0, <1>19 DEF StateTypes, PollerOK, SwapPcs, NotifyPcs, StealPcs, IsUp, Pollers, Swap, Goto
<1>20. ASSUME NEW a \in Pollers, Swap(a, "swap_gone", "gone", "rest") PROVE \A p \in Pollers : PollerOK(p)'
  BY <1>0, <1>20 DEF StateTypes, PollerOK, SwapPcs, NotifyPcs, StealPcs, IsUp, Pollers, Swap, Goto
<1>21. ASSUME NEW a \in Pollers, Swap(a, "swap_pass", "notify", "gone") PROVE \A p \in Pollers : PollerOK(p)'
  BY <1>0, <1>21 DEF StateTypes, PollerOK, SwapPcs, NotifyPcs, StealPcs, IsUp, Pollers, Swap, Goto
<1>22. ASSUME NEW a \in Pollers, TickerWake(a) PROVE \A p \in Pollers : PollerOK(p)'
  BY <1>0, <1>22 DEF StateTypes, PollerOK, SwapPcs, NotifyPcs, StealPcs, IsUp, Pollers, TickerWake, Goto
<1>23. ASSUME NEW a \in Pollers, Awake(a, "found", "notify", "ticked") PROVE \A p \in Pollers : PollerOK(p)'
  BY <1>0, <1>23 DEF StateTypes, PollerOK, SwapPcs, NotifyPcs, StealPcs, IsUp, Pollers, Awake, Goto
<1>24. ASSUME NEW a \in Pollers, Awake(a, "drop", "gone", "rest") PROVE \A p \in Pollers : PollerOK(p)'
  BY <1>0, <1>24 DEF StateTypes, PollerOK, SwapPcs, NotifyPcs, StealPcs, IsUp, Pollers, Awake, Goto
<1>25. ASSUME NEW a \in Pollers, TickerDrop(a) PROVE \A p \in Pollers : PollerOK(p)'
  BY <1>0, <1>25 DEF StateTypes, PollerOK, SwapPcs, NotifyPcs, StealPcs, IsUp, Pollers, TickerDrop, Goto
<1>26. ASSUME NEW a \in Pollers, Ticked(a) PROVE \A p \in Pollers : PollerOK(p)'
  BY <1>0, <1>26 DEF StateTypes, PollerOK, SwapPcs, NotifyPcs, StealPcs, IsUp, Pollers, Ticked, Goto, StealFrom
<1>27. ASSUME NEW a \in Pollers, Runs(a) PROVE \A p \in Pollers : PollerOK(p)'
  BY <1>0, <1>27 DEF StateTypes, PollerOK, SwapPcs, NotifyPcs, StealPcs, IsUp, Pollers, Runs, RunEnds, Goto
<1>28. ASSUME NEW a \in Pollers, Ran(a) PROVE \A p \in Pollers : PollerOK(p)'
  BY <1>0, <1>28 DEF StateTypes, PollerOK, SwapPcs, NotifyPcs, StealPcs, IsUp, Pollers, Ran, Goto
<1>29. ASSUME NEW a \in Pollers, Poll(a) PROVE \A p \in Pollers : PollerOK(p)'
  BY <1>0, <1>29 DEF StateTypes, PollerOK, SwapPcs, NotifyPcs, StealPcs, IsUp, Pollers, Poll, Goto
<1>30. ASSUME NEW a \in Pollers, Stop(a) PROVE \A p \in Pollers : PollerOK(p)'
  BY <1>0, <1>30 DEF StateTypes, PollerOK, SwapPcs, NotifyPcs, StealPcs, IsUp, Pollers, Stop, Goto
<1>31. ASSUME NEW a \in Runners, Unregister(a) PROVE \A p \in Pollers : PollerOK(p)'
  BY <1>0, <1>31 DEF StateTypes, PollerOK, SwapPcs, NotifyPcs, StealPcs, IsUp, Pollers, Unregister, Goto
<1>32. ASSUME NEW a \in Runners, Drain(a) PROVE \A p \in Pollers : PollerOK(p)'
  BY <1>0, <1>32 DEF StateTypes, PollerOK, SwapPcs, NotifyPcs, StealPcs, IsUp, Pollers, Drain, Goto
<1>33. CASE DropStart
  BY <1>0, <1>33 DEF PollerOK, DropStart
<1>34. CASE DropWake
  BY <1>0, <1>34 DEF PollerOK, DropWake
<1>35. CASE DropDrain
  BY <1>0, <1>35 DEF PollerOK, DropDrain
<1> QED BY <1>1, <1>2, <1>3, <1>4, <1>5, <1>6, <1>7, <1>8, <1>9, <1>10, <1>11, <1>12, <1>13, <1>14, <1>15, <1>16, <1>17, <1>18, <1>19, <1>20, <1>21, <1>22, <1>23, <1>24, <1>25, <1>26, <1>27, <1>28, <1>29, <1>30, <1>31, <1>32, <1>33, <1>34, <1>35 DEF Next, PollerStep, RunnerStep, Schedule

-----------------------------------------------------------------------------
(***************************************************************************)
(* Counting Runnables.                                                     *)
(***************************************************************************)
PlacesOf(q, t)    == {i \in DOMAIN q : q[i] = t}
Count(q, t) == Cardinality(PlacesOf(q, t))
Is(u, t)    == IF u = t THEN 1 ELSE 0

\* Sets of the same size, by a function between them.
LEMMA SameSize ==
    ASSUME NEW S, IsFiniteSet(S), NEW T, NEW f \in [S -> T],
           \A x, y \in S : f[x] = f[y] => x = y, \A z \in T : \E x \in S : f[x] = z
    PROVE  IsFiniteSet(T) /\ Cardinality(T) = Cardinality(S)
<1>1. f \in Bijection(S, T)
  BY DEF Bijection, Injection, Surjection, IsInjective
<1>2. ExistsBijection(S, T)
  BY <1>1 DEF ExistsBijection
<1> QED BY <1>2, FS_Bijection

\* The copies of a Runnable in a queue are finitely many.
LEMMA CountType ==
    ASSUME NEW q \in Seq(Tasks), NEW t
    PROVE  IsFiniteSet(PlacesOf(q, t)) /\ Count(q, t) \in Nat
<1>1. DOMAIN q = 1 .. Len(q) /\ Len(q) \in Nat
  OBVIOUS
<1>2. IsFiniteSet(DOMAIN q) /\ PlacesOf(q, t) \subseteq DOMAIN q
  BY <1>1, UpToCount DEF PlacesOf
<1>3. IsFiniteSet(PlacesOf(q, t))
  BY <1>2, FS_Subset
<1> QED BY <1>3, FS_CardinalityType DEF Count

\* A pop takes one copy of what it returns.
LEMMA PopsCount ==
    ASSUME NEW q \in Seq(Tasks), NEW u, NEW rest, Pops(q, u, rest), NEW t
    PROVE  Count(rest, t) = Count(q, t) - Is(u, t)
<1> DEFINE A == PlacesOf(q, t)
           B == PlacesOf(rest, t)
           n == Len(q)
<1>1. /\ rest \in Seq(Tasks) /\ n \in Nat /\ n > 0
      /\ DOMAIN q = 1 .. n /\ DOMAIN rest = 1 .. n - 1
      /\ u = q[1] /\ \A i \in 1 .. n - 1 : rest[i] = q[i + 1]
  BY PopsFacts
<1>2. IsFiniteSet(A) /\ IsFiniteSet(B) /\ Cardinality(A) \in Nat
  BY <1>1, CountType DEF Count
<1> HIDE DEF n
<1>3. Cardinality(A \ {1}) = Cardinality(B)
  <2> DEFINE f == [i \in B |-> i + 1]
  <2>1. \A i \in B : i \in 1 .. n - 1 /\ q[i + 1] = t
    BY <1>1 DEF PlacesOf
  <2>2. f \in [B -> A \ {1}]
    BY <1>1, <2>1 DEF PlacesOf
  <2>3. \A x, y \in B : f[x] = f[y] => x = y
    BY <2>1
  <2>4. \A z \in A \ {1} : \E x \in B : f[x] = z
    <3> SUFFICES ASSUME NEW z \in A \ {1} PROVE \E x \in B : f[x] = z
      OBVIOUS
    <3>1. z \in 1 .. n /\ z # 1 /\ q[z] = t
      BY <1>1 DEF PlacesOf
    <3>2. z - 1 \in 1 .. n - 1 /\ (z - 1) + 1 = z
      BY <1>1, <3>1
    <3>3. rest[z - 1] = t
      BY <1>1, <3>1, <3>2
    <3>4. z - 1 \in B
      BY <1>1, <3>2, <3>3 DEF PlacesOf
    <3> QED BY <3>2, <3>4
  <2> HIDE DEF f
  <2> QED BY <1>2, <2>2, <2>3, <2>4, SameSize
<1>4. 1 \in A <=> u = t
  BY <1>1 DEF PlacesOf
<1>5. Cardinality(A \ {1}) = IF 1 \in A THEN Cardinality(A) - 1 ELSE Cardinality(A)
  BY <1>2, FS_RemoveElement
<1> HIDE DEF A, B
<1>6. Cardinality(B) = Cardinality(A) - Is(u, t)
  BY <1>2, <1>3, <1>4, <1>5 DEF Is
<1> QED BY <1>6 DEF A, B, Count

\* A push adds one copy of what it is given.
LEMMA PushesCount ==
    ASSUME NEW q \in Seq(Tasks), NEW u \in Tasks, NEW new, Pushes(q, u, new), NEW t
    PROVE  Count(new, t) = Count(q, t) + Is(u, t)
<1> DEFINE A == PlacesOf(q, t)
           B == PlacesOf(new, t)
           n == Len(q)
<1>1. /\ new \in Seq(Tasks) /\ n \in Nat
      /\ DOMAIN q = 1 .. n /\ DOMAIN new = 1 .. n + 1
      /\ u = new[n + 1] /\ \A i \in 1 .. n : new[i] = q[i]
  BY PushesFacts
<1>2. IsFiniteSet(A) /\ Cardinality(A) \in Nat
  BY CountType DEF Count
<1> HIDE DEF n
<1>3. CASE u = t
  <2>1. B = A \cup {n + 1} /\ n + 1 \notin A
    <3>1. 1 .. n + 1 = (1 .. n) \cup {n + 1} /\ n + 1 \notin 1 .. n
      BY <1>1
    <3>2. \A i : i \in B <=> i \in (1 .. n) \cup {n + 1} /\ new[i] = t
      BY <1>1, <3>1 DEF PlacesOf
    <3>3. \A i : i \in A <=> i \in 1 .. n /\ q[i] = t
      BY <1>1 DEF PlacesOf
    <3> HIDE DEF A, B
    <3> QED BY <1>1, <1>3, <3>1, <3>2, <3>3
  <2>2. Cardinality(B) = Cardinality(A) + 1
    BY <1>2, <2>1, FS_AddElement
  <2> QED BY <1>3, <2>2 DEF Count, Is
<1>4. CASE u # t
  <2>1. B = A
    BY <1>1, <1>4 DEF PlacesOf
  <2> QED BY <1>2, <1>4, <2>1 DEF Count, Is
<1> QED BY <1>3, <1>4

\* The Runnables of t in local queues.
Row(l, r, t) == {<<r, i>> : i \in PlacesOf(l[r], t)}
Rows(l, t)   == UNION {Row(l, r, t) : r \in Runners}
Fits(l)      == l \in [Runners -> Seq(Tasks)] /\ \A r \in Runners : Len(l[r]) <= LocalCap

\* The copies of a Runnable in the local queues are finitely many.
LEMMA RowsType ==
    ASSUME NEW l, Fits(l), NEW t
    PROVE  IsFiniteSet(Rows(l, t)) /\ Cardinality(Rows(l, t)) \in Nat
<1> DEFINE P == Runners \X (1 .. LocalCap)
<1>1. IsFiniteSet(P)
  BY ExecutorAssumption, UpToCount, FS_Product
<1>2. Rows(l, t) \subseteq P
  <2> SUFFICES ASSUME NEW r \in Runners, NEW i \in PlacesOf(l[r], t) PROVE <<r, i>> \in P
    BY DEF Rows, Row
  <2>1. l[r] \in Seq(Tasks) /\ Len(l[r]) <= LocalCap
    BY DEF Fits
  <2>2. i \in 1 .. Len(l[r]) /\ Len(l[r]) \in Nat
    BY <2>1 DEF PlacesOf
  <2> QED BY <2>1, <2>2, ExecutorAssumption
<1>3. IsFiniteSet(Rows(l, t))
  BY <1>1, <1>2, FS_Subset
<1> QED BY <1>3, FS_CardinalityType

\* What one local queue adds to them is its own count.
LEMMA RowSize ==
    ASSUME NEW l, Fits(l), NEW r \in Runners, NEW t
    PROVE  IsFiniteSet(Row(l, r, t)) /\ Cardinality(Row(l, r, t)) = Count(l[r], t)
<1> DEFINE S == PlacesOf(l[r], t)
           f == [i \in S |-> <<r, i>>]
<1>1. IsFiniteSet(S)
  BY CountType DEF Fits
<1>2. f \in [S -> Row(l, r, t)]
  BY DEF Row
<1>3. \A x, y \in S : f[x] = f[y] => x = y
  OBVIOUS
<1>4. \A z \in Row(l, r, t) : \E x \in S : f[x] = z
  BY DEF Row
<1> HIDE DEF f, S
<1>5. IsFiniteSet(Row(l, r, t)) /\ Cardinality(Row(l, r, t)) = Cardinality(S)
  BY <1>1, <1>2, <1>3, <1>4, SameSize
<1> QED BY <1>5 DEF Count, S

\* A change of one local queue changes their number by what it adds there.
LEMMA RowsChange ==
    ASSUME NEW l, Fits(l), NEW m, Fits(m), NEW s \in Runners, ChangedAt(l, m, s, Runners), NEW t
    PROVE  Cardinality(Rows(m, t)) = Cardinality(Rows(l, t)) + Count(m[s], t) - Count(l[s], t)
<1> DEFINE Rest == Rows(l, t) \ Row(l, s, t)
<1>0. /\ IsFiniteSet(Rows(l, t)) /\ IsFiniteSet(Row(l, s, t)) /\ IsFiniteSet(Row(m, s, t))
      /\ Cardinality(Row(l, s, t)) = Count(l[s], t) /\ Cardinality(Row(m, s, t)) = Count(m[s], t)
      /\ Count(l[s], t) \in Nat /\ Count(m[s], t) \in Nat
  BY RowsType, RowSize, CountType DEF Fits
<1>1. \A r \in Runners : r # s => Row(m, r, t) = Row(l, r, t)
  BY DEF Row, ChangedAt
<1>2. \A r, q \in Runners : \A x : x \in Row(l, r, t) /\ x \in Row(l, q, t) => r = q
  BY DEF Row
<1>2a. \A r \in Runners : \A x : r # s /\ x \in Row(l, r, t) => x \notin Row(m, s, t)
  BY DEF Row
<1>3. Rows(l, t) = Rest \cup Row(l, s, t) /\ Rest \cap Row(l, s, t) = {}
  BY DEF Rows
<1>4. Rows(m, t) = Rest \cup Row(m, s, t) /\ Rest \cap Row(m, s, t) = {}
  <2>1. \A x : x \in Rest <=> \E r \in Runners : r # s /\ x \in Row(l, r, t)
    BY <1>2 DEF Rows
  <2>2. \A x : x \in Rows(m, t) <=> (x \in Row(m, s, t) \/ \E r \in Runners : r # s /\ x \in Row(l, r, t))
    BY <1>1 DEF Rows
  <2> HIDE DEF Rest
  <2> QED BY <1>2a, <2>1, <2>2
<1>5. IsFiniteSet(Rest)
  BY <1>0, FS_Difference
<1> HIDE DEF Rest
<1>6. Cardinality(Rows(l, t)) = Cardinality(Rest) + Count(l[s], t) - Cardinality({})
  BY <1>0, <1>3, <1>5, FS_Union
<1>7. Cardinality(Rows(m, t)) = Cardinality(Rest) + Count(m[s], t) - Cardinality({})
  BY <1>0, <1>4, <1>5, FS_Union
<1>8. Cardinality({}) = 0 /\ Cardinality(Rest) \in Nat
  BY <1>5, FS_EmptySet, FS_CardinalityType
<1> QED BY <1>0, <1>6, <1>7, <1>8

\* Copies, by the kinds of place.
InQueue(q, t)  == Count(q, t)
InLocal(l, t)  == Cardinality(Rows(l, t))
InHands(d, t)  == Cardinality(Where(d, Actors, {t}))
Carries(c, t)  == Cardinality(Where(c, Runners, {t}))

\* A Runnable is in the global queue, in a local one, carried by steal or in
\* hand.
LEMMA CopiesParts ==
    ASSUME NEW t
    PROVE  /\ Copies(t) = InQueue(queue, t) + Carries(carry, t) + InHands(todo, t) + InLocal(local, t)
           /\ Copies(t)' = InQueue(queue', t) + Carries(carry', t) + InHands(todo', t) + InLocal(local', t)
<1>1. /\ Where(carry, Runners, {t}) = {r \in Runners : carry[r] = t}
      /\ Where(carry', Runners, {t}) = {r \in Runners : carry'[r] = t}
      /\ Where(todo, Actors, {t}) = {a \in Actors : todo[a] = t}
      /\ Where(todo', Actors, {t}) = {a \in Actors : todo'[a] = t}
  BY DEF Where
<1>2. Copies(t) = InQueue(queue, t) + Carries(carry, t) + InHands(todo, t) + InLocal(local, t)
  BY <1>1 DEF Copies, InQueue, Carries, InHands, InLocal, Count, PlacesOf, Rows, Row
<1>3. Copies(t)' = InQueue(queue', t) + Carries(carry', t) + InHands(todo', t) + InLocal(local', t)
  BY <1>1 DEF Copies, InQueue, Carries, InHands, InLocal, Count, PlacesOf, Rows, Row
<1> QED BY <1>2, <1>3

\* What the moves do to a queue, to the local queues and to the hands.
LEMMA HandChange ==
    ASSUME NEW d \in [Actors -> Tasks \cup {NULL}], NEW a \in Actors, NEW u, NEW e,
           Updated(d, a, u, e), NEW t
    PROVE  /\ InHands(d, t) \in Nat /\ InHands(e, t) \in Nat
           /\ InHands(e, t) = InHands(d, t) + Is(u, t) - Is(d[a], t)
<1>1. ChangedAt(d, e, a, Actors) /\ e[a] = u
  BY DEF ChangedAt, Updated
<1>2. IsFiniteSet(Actors)
  BY ExecutorAssumption, FS_Union DEF Actors, Pollers
<1>3. /\ Cardinality(Where(d, Actors, {t})) \in Nat
      /\ Cardinality(Where(e, Actors, {t})) = Cardinality(Where(d, Actors, {t})) + In(e[a], {t}) - In(d[a], {t})
  BY <1>1, <1>2, CountAfterChange
<1>4. Cardinality(Where(e, Actors, {t})) \in Nat
  <2>1. ChangedAt(e, e, a, Actors)
    BY DEF ChangedAt
  <2> QED BY <1>2, <2>1, CountAfterChange
<1>5. In(e[a], {t}) = Is(u, t) /\ In(d[a], {t}) = Is(d[a], t)
  BY <1>1 DEF In, Is
<1> QED BY <1>3, <1>4, <1>5 DEF InHands

\* What steal carries, after a change at one runner.
LEMMA CarryChange ==
    ASSUME NEW c \in [Runners -> Tasks \cup {NULL}], NEW r \in Runners, NEW u, NEW e,
           Updated(c, r, u, e), NEW t
    PROVE  /\ Carries(c, t) \in Nat
           /\ Carries(e, t) = Carries(c, t) + Is(u, t) - Is(c[r], t)
<1>1. ChangedAt(c, e, r, Runners) /\ e[r] = u
  BY DEF ChangedAt, Updated
<1>2. IsFiniteSet(Runners)
  BY ExecutorAssumption
<1>3. /\ Cardinality(Where(c, Runners, {t})) \in Nat
      /\ Cardinality(Where(e, Runners, {t})) = Cardinality(Where(c, Runners, {t})) + In(e[r], {t}) - In(c[r], {t})
  BY <1>1, <1>2, CountAfterChange
<1>5. In(e[r], {t}) = Is(u, t) /\ In(c[r], {t}) = Is(c[r], t)
  BY <1>1 DEF In, Is
<1> QED BY <1>3, <1>5 DEF Carries

\* What the local queues hold, after a change of one.
LEMMA LocalChange ==
    ASSUME NEW l, Fits(l), NEW r \in Runners, NEW q \in Seq(Tasks), NEW m, Fits(m), Updated(l, r, q, m), NEW t
    PROVE  InLocal(m, t) = InLocal(l, t) + Count(q, t) - Count(l[r], t)
<1>1. ChangedAt(l, m, r, Runners) /\ m[r] = q
  BY DEF ChangedAt, Fits, Updated
<1>2. Cardinality(Rows(m, t)) = Cardinality(Rows(l, t)) + Count(m[r], t) - Count(l[r], t)
  BY <1>1, RowsChange
<1> QED BY <1>1, <1>2 DEF InLocal

\* Where the Runnable of a task is: in one place if it is scheduled.
LEMMA PlacesStep ==
    ASSUME QueueTypes, st \in [Tasks -> {"new", "idle", "sched", "done", "dropped"}],
           RunnableInOnePlace, Fits(local), Fits(local'), Moves
    PROVE  RunnableInOnePlace'
<1> SUFFICES ASSUME NEW t \in Tasks PROVE InQueue(queue', t) + Carries(carry', t) + InHands(todo', t) + InLocal(local', t) = IF st'[t] = "sched" THEN 1 ELSE 0
  BY CopiesParts DEF RunnableInOnePlace
<1> DEFINE Q == InQueue(queue, t)
           C == Carries(carry, t)
           H == InHands(todo, t)
           L == InLocal(local, t)
           Sum == InQueue(queue', t) + Carries(carry', t) + InHands(todo', t) + InLocal(local', t)
<1>a. Q + C + H + L = IF st[t] = "sched" THEN 1 ELSE 0
  BY CopiesParts DEF RunnableInOnePlace
<1>b. /\ todo \in [Actors -> Tasks \cup {NULL}] /\ carry \in [Runners -> Tasks \cup {NULL}]
      /\ queue \in Seq(Tasks) /\ \A r \in Runners : local[r] \in Seq(Tasks)
  BY DEF QueueTypes
<1>c. Q \in Nat /\ L \in Nat /\ \A r \in Runners : Count(local[r], t) \in Nat
  BY <1>b, CountType, RowsType DEF InQueue, InLocal
<1>e. C \in Nat /\ H \in Nat
  <2>1. IsFiniteSet(Actors) /\ IsFiniteSet(Runners)
    BY ExecutorAssumption, FS_Union DEF Actors, Pollers
  <2>2. Where(carry, Runners, {t}) \subseteq Runners /\ Where(todo, Actors, {t}) \subseteq Actors
    BY DEF Where
  <2>3. IsFiniteSet(Where(carry, Runners, {t})) /\ IsFiniteSet(Where(todo, Actors, {t}))
    BY <2>1, <2>2, FS_Subset
  <2> QED BY <2>3, FS_CardinalityType DEF Carries, InHands
<1>f. Is(NULL, t) = 0 /\ \A u : Is(u, t) \in {0, 1} /\ (u = t => Is(u, t) = 1) /\ (u # t => Is(u, t) = 0)
  BY ExecutorAssumption DEF Is
<1>g. InQueue(queue, t) = Q /\ Carries(carry, t) = C /\ InHands(todo, t) = H /\ InLocal(local, t) = L
  OBVIOUS
<1> HIDE DEF Q, C, H, L
<1>1. CASE UNCHANGED <<queue, local, todo, carry, st>>
  BY <1>a, <1>g, <1>1
<1>2. ASSUME NEW a \in Actors, NEW u \in Tasks, Made(a, u) PROVE Sum = IF st'[t] = "sched" THEN 1 ELSE 0
  <2>1. InHands(todo', t) = H + Is(u, t) 
    BY <1>b, <1>g, <1>2, <1>f, HandChange DEF Made
  <2>2. UNCHANGED <<queue, local, carry>> /\ st[u] # "sched" /\ st'[t] = IF t = u THEN "sched" ELSE st[t]
    BY <1>2 DEF Made, Updated
  <2> QED BY <1>a, <1>c, <1>e, <1>f, <1>g, <2>1, <2>2
<1>3. ASSUME NEW a \in Actors, NEW u \in Tasks, Kept(a, u) PROVE Sum = IF st'[t] = "sched" THEN 1 ELSE 0
  <2>1. t = u => H > 0
    <3> DEFINE e == [todo EXCEPT ![a] = NULL]
    <3>0. Updated(todo, a, NULL, e)
      BY DEF Updated
    <3> HIDE DEF e
    <3>1. InHands(e, t) \in Nat /\ InHands(e, t) = H + Is(NULL, t) - Is(todo[a], t)
      BY <1>b, <1>g, <3>0, HandChange
    <3>2. todo[a] = u
      BY <1>3 DEF Kept
    <3> QED BY <1>e, <1>f, <3>1, <3>2
  <2>2. UNCHANGED <<queue, local, carry, todo>> /\ st'[t] = IF t = u THEN "sched" ELSE st[t]
    BY <1>3 DEF Kept, Updated
  <2> QED BY <1>a, <1>c, <1>e, <1>g, <2>1, <2>2
<1>4. ASSUME NEW a \in Actors, NEW u \in Tasks, NEW s \in {"done", "idle"}, Consumed(a, u, s)
      PROVE  Sum = IF st'[t] = "sched" THEN 1 ELSE 0
  <2>1. InHands(todo', t) = H - Is(u, t) /\ InHands(todo', t) \in Nat
    BY <1>b, <1>g, <1>4, <1>f, HandChange DEF Consumed
  <2>2. UNCHANGED <<queue, local, carry>> /\ st'[t] = IF t = u THEN s ELSE st[t]
    BY <1>4 DEF Consumed, Updated
  <2> QED BY <1>a, <1>c, <1>e, <1>f, <1>g, <2>1, <2>2
<1>5. ASSUME NEW a \in Actors, NEW u \in Tasks, NEW q \in Seq(Tasks), Queued(a, u, q)
      PROVE  Sum = IF st'[t] = "sched" THEN 1 ELSE 0
  <2>1. InHands(todo', t) = H - Is(u, t)
    BY <1>b, <1>g, <1>5, <1>f, HandChange DEF Queued
  <2>2. InQueue(queue', t) = Q + Is(u, t)
    BY <1>b, <1>g, <1>5, PushesCount DEF Queued, InQueue
  <2>3. UNCHANGED <<local, carry, st>>
    BY <1>5 DEF Queued
  <2> QED BY <1>a, <1>c, <1>e, <1>f, <1>g, <2>1, <2>2, <2>3
<1>6. ASSUME NEW a \in Actors, NEW u \in Tasks, NEW q \in Seq(Tasks), Taken(a, u, q)
      PROVE  Sum = IF st'[t] = "sched" THEN 1 ELSE 0
  <2>1. InHands(todo', t) = H + Is(u, t) 
    BY <1>b, <1>g, <1>6, <1>f, HandChange DEF Taken
  <2>2. InQueue(queue', t) = Q - Is(u, t)
    BY <1>b, <1>g, <1>6, PopsCount DEF Taken, InQueue
  <2>3. UNCHANGED <<local, carry, st>>
    BY <1>6 DEF Taken
  <2> QED BY <1>a, <1>c, <1>e, <1>f, <1>g, <2>1, <2>2, <2>3
<1>7. ASSUME NEW r \in Runners, NEW u \in Tasks, NEW q \in Seq(Tasks), TakenLocal(r, u, q)
      PROVE  Sum = IF st'[t] = "sched" THEN 1 ELSE 0
  <2>1. InHands(todo', t) = H + Is(u, t) 
    <3>1. r \in Actors
      BY DEF Actors, Pollers
    <3> QED BY <1>b, <1>g, <1>7, <1>f, <3>1, HandChange DEF TakenLocal
  <2>2. InLocal(local', t) = L + Count(q, t) - Count(local[r], t)
    BY <1>b, <1>g, <1>7, LocalChange DEF TakenLocal
  <2>3. Count(q, t) = Count(local[r], t) - Is(u, t)
    BY <1>b, <1>7, PopsCount DEF TakenLocal
  <2>4. UNCHANGED <<queue, carry, st>>
    BY <1>7 DEF TakenLocal
  <2> QED BY <1>a, <1>c, <1>e, <1>f, <1>g, <2>1, <2>2, <2>3, <2>4
<1>8. ASSUME NEW r \in Runners, NEW u \in Tasks, NEW q \in Seq(Tasks), Carried(r, u, q)
      PROVE  Sum = IF st'[t] = "sched" THEN 1 ELSE 0
  <2>1. Carries(carry', t) = C + Is(u, t) 
    BY <1>b, <1>g, <1>8, <1>f, CarryChange DEF Carried
  <2>2. InQueue(queue', t) = Q - Is(u, t)
    BY <1>b, <1>g, <1>8, PopsCount DEF Carried, InQueue
  <2>3. UNCHANGED <<local, todo, st>>
    BY <1>8 DEF Carried
  <2> QED BY <1>a, <1>c, <1>e, <1>f, <1>g, <2>1, <2>2, <2>3
<1>9. ASSUME NEW r \in Runners, NEW s \in Runners, NEW u \in Tasks, NEW q \in Seq(Tasks), CarriedLocal(r, s, u, q)
      PROVE  Sum = IF st'[t] = "sched" THEN 1 ELSE 0
  <2>1. Carries(carry', t) = C + Is(u, t) 
    BY <1>b, <1>g, <1>9, <1>f, CarryChange DEF CarriedLocal
  <2>2. InLocal(local', t) = L + Count(q, t) - Count(local[s], t)
    BY <1>b, <1>g, <1>9, LocalChange DEF CarriedLocal
  <2>3. Count(q, t) = Count(local[s], t) - Is(u, t)
    BY <1>b, <1>9, PopsCount DEF CarriedLocal
  <2>4. UNCHANGED <<queue, todo, st>>
    BY <1>9 DEF CarriedLocal
  <2> QED BY <1>a, <1>c, <1>e, <1>f, <1>g, <2>1, <2>2, <2>3, <2>4
<1>10. ASSUME NEW r \in Runners, NEW u \in Tasks, NEW q \in Seq(Tasks), Stowed(r, u, q)
      PROVE  Sum = IF st'[t] = "sched" THEN 1 ELSE 0
  <2>1. Carries(carry', t) = C - Is(u, t)
    BY <1>b, <1>g, <1>10, <1>f, CarryChange DEF Stowed
  <2>2. InLocal(local', t) = L + Count(q, t) - Count(local[r], t)
    BY <1>b, <1>g, <1>10, LocalChange DEF Stowed
  <2>3. Count(q, t) = Count(local[r], t) + Is(u, t)
    BY <1>b, <1>10, PushesCount DEF Stowed
  <2>4. UNCHANGED <<queue, todo, st>>
    BY <1>10 DEF Stowed
  <2> QED BY <1>a, <1>c, <1>e, <1>f, <1>g, <2>1, <2>2, <2>3, <2>4
<1>11. ASSUME NEW u \in Tasks, NEW q \in Seq(Tasks), Rescheduled(u, q)
      PROVE  Sum = IF st'[t] = "sched" THEN 1 ELSE 0
  <2>1. InQueue(queue', t) = Q + Is(u, t)
    BY <1>b, <1>g, <1>11, PushesCount DEF Rescheduled, InQueue
  <2>2. UNCHANGED <<local, carry, todo>> /\ st[u] = "idle" /\ st'[t] = IF t = u THEN "sched" ELSE st[t]
    BY <1>11 DEF Rescheduled, Updated
  <2> QED BY <1>a, <1>c, <1>e, <1>f, <1>g, <2>1, <2>2
<1>12. ASSUME NEW u \in Tasks, NEW q \in Seq(Tasks), Dropped(u, q)
      PROVE  Sum = IF st'[t] = "sched" THEN 1 ELSE 0
  <2>1. InQueue(queue', t) = Q - Is(u, t) /\ InQueue(queue', t) \in Nat
    BY <1>b, <1>g, <1>12, PopsCount, CountType DEF Dropped, InQueue
  <2>2. UNCHANGED <<local, carry, todo>> /\ st'[t] = IF t = u THEN "dropped" ELSE st[t]
    BY <1>12 DEF Dropped, Updated
  <2> QED BY <1>a, <1>c, <1>e, <1>f, <1>g, <2>1, <2>2
<1> QED BY <1>1, <1>2, <1>3, <1>4, <1>5, <1>6, <1>7, <1>8, <1>9, <1>10, <1>11, <1>12 DEF Moves

\* The types of the queues and of what is in hand are kept.
LEMMA QueueTypesStep ==
    ASSUME QueueTypes, Moves PROVE QueueTypes'
<1> USE ExecutorAssumption DEF Actors, Pollers
<1>1. CASE UNCHANGED <<queue, local, todo, carry, st>>
  BY <1>1 DEF QueueTypes
<1>2. ASSUME NEW a \in Actors, NEW t \in Tasks,
             Made(a, t) \/ Kept(a, t) \/ \E s \in {"done", "idle"} : Consumed(a, t, s)
      PROVE  QueueTypes'
  BY <1>2 DEF QueueTypes, Made, Kept, Consumed, Updated
<1>3. ASSUME NEW a \in Actors, NEW t \in Tasks, NEW q \in Seq(Tasks), Queued(a, t, q) \/ Taken(a, t, q)
      PROVE  QueueTypes'
  <2>1. CASE Queued(a, t, q)
    BY <1>3, <2>1 DEF QueueTypes, Queued, Updated
  <2>2. CASE Taken(a, t, q)
    BY <1>3, <2>2 DEF QueueTypes, Taken, Updated
  <2> QED BY <1>3, <2>1, <2>2
<1>4. ASSUME NEW r \in Runners, NEW t \in Tasks, NEW q \in Seq(Tasks),
             TakenLocal(r, t, q) \/ Carried(r, t, q) \/ Stowed(r, t, q)
      PROVE  QueueTypes'
  <2>1. CASE TakenLocal(r, t, q)
    BY <2>1 DEF QueueTypes, TakenLocal, Updated
  <2>2. CASE Carried(r, t, q)
    BY <2>2 DEF QueueTypes, Carried, Updated
  <2>3. CASE Stowed(r, t, q)
    BY <2>3 DEF QueueTypes, Stowed, Updated
  <2> QED BY <1>4, <2>1, <2>2, <2>3
<1>5. ASSUME NEW r \in Runners, NEW s \in Runners, NEW t \in Tasks, NEW q \in Seq(Tasks), CarriedLocal(r, s, t, q)
      PROVE  QueueTypes'
  BY <1>5 DEF QueueTypes, CarriedLocal, Updated
<1>6. ASSUME NEW t \in Tasks, NEW q \in Seq(Tasks), Rescheduled(t, q) \/ Dropped(t, q)
      PROVE  QueueTypes'
  BY <1>6 DEF QueueTypes, Rescheduled, Dropped
<1> QED BY <1>1, <1>2, <1>3, <1>4, <1>5, <1>6 DEF Moves

\* The control invariant is inductive.
LEMMA ControlStep ==
    ASSUME ControlInv, [Next]_vars PROVE ControlInv'
<1>1. CASE Next
  <2>1. Moves /\ QueueTypes
    BY <1>1, StepMoves DEF ControlInv, TypeOK
  <2>2. QueueTypes'
    BY <2>1, QueueTypesStep
  <2> QED BY <1>1, <2>2, StateTypesStep, ActorsStep, RunnersStep, PollersStep DEF ControlInv, TypeOK
<1>2. CASE UNCHANGED vars
  BY <1>2 DEF vars, shared, sleepvs, steals, ControlInv, TypeOK, QueueTypes, StateTypes, ActorOK, RunnerOK, PollerOK
<1> QED BY <1>1, <1>2

\* The control invariant holds when the executor is made.
LEMMA ControlInit == Init => ControlInv
<1> SUFFICES ASSUME Init PROVE ControlInv
  OBVIOUS
<1> USE ExecutorAssumption DEF Init, Actors, Pollers
<1>1. QueueTypes
  BY DEF QueueTypes
<1>2. StateTypes
  BY DEF StateTypes
<1>3. \A a \in Actors : ActorOK(a)
  BY DEF ActorOK, PlaceOK, PcsOf, RetsOf, HasTodo, ThreadPcs, PollerPcs, NotifyPcs, StealPcs, SwapPcs
<1>4. \A r \in Runners : RunnerOK(r)
  BY DEF RunnerOK
<1>5. \A p \in Pollers : PollerOK(p)
  BY DEF PollerOK, SwapPcs
<1> QED BY <1>1, <1>2, <1>3, <1>4, <1>5 DEF ControlInv, TypeOK

\* A runner's queue stays within its capacity, with what it is about to get.
LEMMA ControlFits == ControlInv => Fits(local) /\ StealFits
<1> SUFFICES ASSUME ControlInv, NEW r \in Runners PROVE Len(local[r]) <= LocalCap
  BY DEF Fits, StealFits, ControlInv, TypeOK, QueueTypes
<1>1. Len(local[r]) \in Nat /\ cnt[r] \in Nat /\ RunnerOK(r)
  BY DEF ControlInv, TypeOK, QueueTypes, StateTypes
<1> QED BY <1>1, ExecutorAssumption DEF RunnerOK

\* At first there is no Runnable.
LEMMA PlacesInit == Init => RunnableInOnePlace
<1> SUFFICES ASSUME Init, NEW t \in Tasks PROVE Copies(t) = 0
  BY DEF Init, RunnableInOnePlace
<1>0. NULL # t
  BY ExecutorAssumption
<1>1. PlacesOf(queue, t) = {} /\ Rows(local, t) = {} /\ Where(carry, Runners, {t}) = {} /\ Where(todo, Actors, {t}) = {}
  <2>1. PlacesOf(queue, t) = {}
    BY DEF Init, PlacesOf
  <2>2. \A r \in Runners : PlacesOf(local[r], t) = {}
    BY DEF Init, PlacesOf
  <2>3. Rows(local, t) = {}
    BY <2>2 DEF Rows, Row
  <2> QED BY <1>0, <2>1, <2>3 DEF Init, Where
<1>2. InQueue(queue, t) = 0 /\ Carries(carry, t) = 0 /\ InHands(todo, t) = 0 /\ InLocal(local, t) = 0
  BY <1>1, FS_EmptySet DEF InQueue, Count, Carries, InHands, InLocal
<1> QED BY <1>2, CopiesParts

\* What steal, Runner and the schedule closure do with Runnables.
Conserved == ControlInv /\ RunnableInOnePlace

\* Every step keeps each scheduled task's Runnable in exactly one place.
LEMMA ConservedStep ==
    ASSUME Conserved, [Next]_vars PROVE Conserved'
<1>1. ControlInv /\ ControlInv' /\ RunnableInOnePlace
  BY ControlStep DEF Conserved
<1>2. CASE Next
  <2>1. Moves
    BY <1>1, <1>2, StepMoves
  <2>2. Fits(local) /\ Fits(local')
    <3>1. (ControlInv => Fits(local) /\ StealFits)'
      BY ControlFits, PTL
    <3> QED BY <1>1, <3>1, ControlFits DEF Fits
  <2>3. QueueTypes /\ st \in [Tasks -> {"new", "idle", "sched", "done", "dropped"}]
    BY <1>1 DEF ControlInv, TypeOK, StateTypes
  <2> QED BY <1>1, <2>1, <2>2, <2>3, PlacesStep DEF Conserved
<1>3. CASE UNCHANGED vars
  BY <1>1, <1>3 DEF vars, shared, steals, RunnableInOnePlace, Copies, Conserved
<1> QED BY <1>2, <1>3

\* Stealing, rescheduling and draining keep the Runnable of every scheduled
\* task in exactly one place, whatever the interleaving, and what steal pushes
\* always fits into the local queue of its runner, as steal asserts: for any
\* number of runners, tickers, threads and tasks and any capacity.
THEOREM RunnablesAreConserved == Spec => []RunnablesConserved
<1>1. Init => Conserved
  BY ControlInit, PlacesInit DEF Conserved
<1>2. Conserved /\ [Next]_vars => Conserved'
  BY ConservedStep
<1>3. Conserved => RunnablesConserved
  BY ControlFits DEF Conserved, RunnablesConserved
<1> QED BY <1>1, <1>2, <1>3, PTL DEF Spec

-----------------------------------------------------------------------------
(***************************************************************************)
(* What is left when runners and the executor are dropped.                 *)
(***************************************************************************)
\* The four counts of a Runnable are numbers, of finite sets.
LEMMA CopiesTypes ==
    ASSUME Conserved, NEW t \in Tasks
    PROVE  /\ InQueue(queue, t) \in Nat /\ Carries(carry, t) \in Nat /\ InHands(todo, t) \in Nat /\ InLocal(local, t) \in Nat
           /\ IsFiniteSet(PlacesOf(queue, t)) /\ IsFiniteSet(Rows(local, t))
           /\ IsFiniteSet(Where(carry, Runners, {t})) /\ IsFiniteSet(Where(todo, Actors, {t}))
<1>1. queue \in Seq(Tasks) /\ Fits(local)
  BY ControlFits DEF Conserved, ControlInv, TypeOK, QueueTypes
<1>2. IsFiniteSet(Actors) /\ IsFiniteSet(Runners)
  BY ExecutorAssumption, FS_Union DEF Actors, Pollers
<1>3. Where(carry, Runners, {t}) \subseteq Runners /\ Where(todo, Actors, {t}) \subseteq Actors
  BY DEF Where
<1>4. IsFiniteSet(Where(carry, Runners, {t})) /\ IsFiniteSet(Where(todo, Actors, {t}))
  BY <1>2, <1>3, FS_Subset
<1> QED BY <1>1, <1>4, CountType, RowsType, FS_CardinalityType DEF InQueue, InLocal, InHands, Carries

\* Who holds a Runnable holds it of a scheduled task.
LEMMA HeldIsScheduled ==
    ASSUME Conserved, NEW a \in Actors, NEW t \in Tasks, todo[a] = t PROVE st[t] = "sched"
<1> DEFINE W == Where(todo, Actors, {t})
<1>1. a \in W
  BY DEF Where
<1>2. InHands(todo, t) # 0
  <2>1. IsFiniteSet(W)
    BY CopiesTypes
  <2> HIDE DEF W
  <2> QED BY <1>1, <2>1, FS_EmptySet DEF W, InHands
<1>3. InQueue(queue, t) + Carries(carry, t) + InHands(todo, t) + InLocal(local, t) = IF st[t] = "sched" THEN 1 ELSE 0
  BY CopiesParts DEF Conserved, RunnableInOnePlace
<1>4. /\ InQueue(queue, t) \in Nat /\ Carries(carry, t) \in Nat
      /\ InHands(todo, t) \in Nat /\ InLocal(local, t) \in Nat
  BY CopiesTypes
<1> QED BY <1>2, <1>3, <1>4

\* A scheduled task has its Runnable somewhere.
LEMMA ScheduledIsSomewhere ==
    ASSUME Conserved, NEW t \in Tasks, st[t] = "sched"
    PROVE  \/ \E i \in DOMAIN queue : queue[i] = t
           \/ \E r \in Runners : carry[r] = t
           \/ \E a \in Actors : todo[a] = t
           \/ \E r \in Runners : local[r] # <<>>
<1> SUFFICES ASSUME ~\E i \in DOMAIN queue : queue[i] = t, ~\E r \in Runners : carry[r] = t,
                    ~\E a \in Actors : todo[a] = t, ~\E r \in Runners : local[r] # <<>>
             PROVE  FALSE
  OBVIOUS
<1>1. PlacesOf(queue, t) = {} /\ Where(carry, Runners, {t}) = {} /\ Where(todo, Actors, {t}) = {}
  BY DEF PlacesOf, Where
<1>2. Rows(local, t) = {}
  <2>1. \A r \in Runners : PlacesOf(local[r], t) = {}
    BY DEF PlacesOf
  <2> QED BY <2>1 DEF Rows, Row
<1>3. InQueue(queue, t) = 0 /\ Carries(carry, t) = 0 /\ InHands(todo, t) = 0 /\ InLocal(local, t) = 0
  BY <1>1, <1>2, FS_EmptySet DEF InQueue, Count, Carries, InHands, InLocal
<1>4. InQueue(queue, t) + Carries(carry, t) + InHands(todo, t) + InLocal(local, t) = 1
  BY CopiesParts DEF Conserved, RunnableInOnePlace
<1> QED BY <1>3, <1>4

\* Which steps change the state of a task, the active tasks or how far the drop
\* is.
LEMMA TaskSteps ==
  ASSUME Next
  PROVE  \/ UNCHANGED <<active, exec, st>>
         \/ \E h \in Threads, t \in Tasks : Spawn(h, t) \/ Wake(h, t)
         \/ \E p \in Pollers : Runs(p)
         \/ DropStart \/ DropWake \/ DropDrain
BY DEF Next, PollerStep, RunnerStep, Schedule, Pollers, Actors, shared, 
   Push, NotifyCas, NotifyLock, NotifyWake, Start, StartTick, SearchLocal, SearchGlobal, SearchOthers,
   StealLen, StealPop, StealPush, TickSearch, Sleep, Swap, TickerWake, TickerDrop,
   Awake, Ticked, Ran, Poll, Stop, Unregister, Drain

\* Once the executor is dropped nobody polls.
LEMMA NobodyPolls ==
  ASSUME StateTypes, Next, exec # "alive", \A p \in Pollers : pc[p] \in {"off", "gone"}
  PROVE  /\ exec' # "alive" /\ \A p \in Pollers : pc'[p] = pc[p]
         /\ ~\E p \in Pollers : Runs(p)
<1> USE ExecutorAssumption DEF Actors, Pollers
<1>1. /\ ~\E p \in Pollers : PollerStep(p) \/ Runs(p) \/ Poll(p) \/ Stop(p)
      /\ ~\E r \in Runners : Start(r) \/ RunnerStep(r)
      /\ ~\E k \in Tickers : StartTick(k, "search") \/ StartTick(k, "try") \/ TickSearch(k)
  BY DEF PollerStep, RunnerStep, Schedule, 
   Push, NotifyCas, NotifyLock, NotifyWake, Start, StartTick, SearchLocal, SearchGlobal, SearchOthers,
   StealLen, StealPop, StealPush, TickSearch, Sleep, Swap, TickerWake, TickerDrop, Runs, RunEnds,
   Awake, Ticked, Ran, Poll, Stop, Unregister, Drain
<1>2. CASE \E h \in Threads : \/ Schedule(h) \/ \E t \in Tasks : Spawn(h, t) \/ Wake(h, t)
  <2>1. PICK h \in Threads : \/ Schedule(h) \/ \E t \in Tasks : Spawn(h, t) \/ Wake(h, t)
    BY <1>2
  <2>2. exec' = exec /\ \A p \in Pollers : pc'[p] = pc[p]
    BY <2>1 DEF Schedule, Push, NotifyCas, NotifyLock, NotifyWake, Spawn, Wake, Goto, Return, StateTypes
  <2> QED BY <1>1, <2>2
<1>3. CASE DropStart \/ DropWake \/ DropDrain
  BY <1>1, <1>3 DEF DropStart, DropWake, DropDrain
<1> QED BY <1>1, <1>2, <1>3 DEF Next

\* Every step keeps the drop invariant: a task that is idle while the executor
\* lives, or is being woken by its drop, is in the slab of active tasks.
LEMMA DropInvStep ==
    ASSUME Conserved, DropInv, [Next]_vars PROVE DropInv'
<1>0. StateTypes /\ QueueTypes
  BY DEF Conserved, ControlInv, TypeOK
<1>1. CASE UNCHANGED vars
  BY <1>1 DEF vars, shared, DropInv, PollersGone, TasksKnown
<1>2. CASE Next
  <2>1. exec' # "alive" => \A p \in Pollers : pc'[p] \in {"off", "gone"}
    <3>1. CASE exec = "alive"
      <4>1. CASE exec' = "alive"
        BY <4>1
      <4>2. CASE exec' # "alive"
        <5>1. DropStart
          BY <1>2, <3>1, <4>2, TaskSteps DEF DropWake, DropDrain, Spawn, Wake, Runs, RunEnds
        <5> QED BY <5>1 DEF DropStart
      <4> QED BY <4>1, <4>2
    <3>2. CASE exec # "alive"
      BY <1>0, <1>2, <3>2, NobodyPolls DEF DropInv, PollersGone
    <3> QED BY <3>1, <3>2
  <2>2. TasksKnown /\ st \in [Tasks -> {"new", "idle", "sched", "done", "dropped"}] /\ active \subseteq Tasks
    BY <1>0 DEF DropInv, StateTypes
  <2>3. ASSUME UNCHANGED <<active, exec, st>> PROVE TasksKnown'
    BY <2>2, <2>3 DEF TasksKnown
  <2>4. ASSUME NEW h \in Threads, NEW t \in Tasks, Spawn(h, t) PROVE TasksKnown'
    BY <2>2, <2>4 DEF Spawn, TasksKnown
  <2>5. ASSUME NEW h \in Threads, NEW t \in Tasks, Wake(h, t) PROVE TasksKnown'
    BY <2>2, <2>5 DEF Wake, TasksKnown
  <2>6. ASSUME NEW p \in Pollers, Runs(p) PROVE TasksKnown'
    <3>1. todo[p] \in Tasks /\ pc[p] = "run" /\ p \in Actors
      BY <1>0, <2>6 DEF Conserved, ControlInv, ActorOK, PlaceOK, HasTodo, QueueTypes, Runs, RunEnds, Actors
    <3>2. st[todo[p]] = "sched"
      BY <3>1, HeldIsScheduled
    <3>3. exec = "alive"
      BY <3>1 DEF DropInv, PollersGone
    <3>4. todo[p] \in active
      BY <2>2, <3>1, <3>2, <3>3 DEF TasksKnown
    <3> QED BY <2>2, <2>6, <3>1, <3>3, <3>4 DEF Runs, RunEnds, TasksKnown
  <2>7. ASSUME DropStart PROVE TasksKnown'
    BY <2>2, <2>7 DEF DropStart, TasksKnown
  <2>8. ASSUME DropWake PROVE TasksKnown'
    <3>1. CASE active = {} /\ exec' = "draining" /\ UNCHANGED <<active, st, queue>>
      BY <2>2, <2>8, <3>1 DEF DropWake, TasksKnown
    <3>2. ASSUME NEW t \in active, active' = active \ {t}, UNCHANGED exec,
                 IF st[t] = "idle" THEN st' = [st EXCEPT ![t] = "sched"] ELSE UNCHANGED st
          PROVE  TasksKnown'
      <4>1. exec' = "waking"
        BY <2>8, <3>2 DEF DropWake
      <4>2. \A u \in Tasks : st'[u] = "idle" => st[u] = "idle" /\ u # t
        BY <2>2, <3>2
      <4> QED BY <2>2, <2>8, <3>2, <4>1, <4>2 DEF TasksKnown, DropWake
    <3> QED BY <2>8, <3>1, <3>2 DEF DropWake
  <2>9. ASSUME DropDrain PROVE TasksKnown'
    <3>1. CASE queue = <<>>
      BY <2>2, <2>9, <3>1 DEF DropDrain, TasksKnown
    <3>2. CASE queue # <<>>
      <4>1. Head(queue) \in Tasks
        BY <1>0, <3>2 DEF QueueTypes
      <4>2. exec = "draining" /\ exec' = "draining" /\ st' = [st EXCEPT ![Head(queue)] = "dropped"]
        BY <2>9, <3>2 DEF DropDrain
      <4>3. \A u \in Tasks : st'[u] = "idle" => st[u] = "idle"
        BY <2>2, <4>1, <4>2
      <4> QED BY <2>2, <4>2, <4>3 DEF TasksKnown
    <3> QED BY <3>1, <3>2
  <2>10. TasksKnown'
    BY <1>2, <2>3, <2>4, <2>5, <2>6, <2>7, <2>8, <2>9, TaskSteps
  <2> QED BY <2>1, <2>10 DEF DropInv, PollersGone
<1> QED BY <1>1, <1>2

\* With every Runnable in one place, the drop invariant says that nothing is
\* left.
LEMMA DropInvIsEnough == Conserved /\ DropInv => DropsComplete
<1> SUFFICES ASSUME Conserved, DropInv PROVE DropsComplete
  OBVIOUS
<1>0. \A r \in Runners : RunnerOK(r) /\ PlaceOK(r, pc[r], ret[r], todo[r])
  BY DEF Conserved, ControlInv, ActorOK, Actors, Pollers
<1>1. NothingLeftBehind
  BY <1>0 DEF NothingLeftBehind, RunnerOK, IsLeaving
<1>2. DropDropsTasks
  <2> SUFFICES ASSUME exec = "gone", NEW t \in Tasks, st[t] \notin {"new", "done", "dropped"},
                      ~\E i \in DOMAIN queue : queue[i] = t
               PROVE  \E h \in Threads : todo[h] = t
    BY DEF DropDropsTasks
  <2>1. st[t] = "sched"
    BY DEF DropInv, TasksKnown, Conserved, ControlInv, TypeOK, StateTypes
  <2>2. \A p \in Pollers : pc[p] \in {"off", "gone"}
    BY DEF DropInv, PollersGone
  <2>3. \A r \in Runners : local[r] = <<>> /\ carry[r] # t
    BY <1>0, <1>1, <2>2, ExecutorAssumption DEF NothingLeftBehind, RunnerOK, Pollers
  <2>4. \A p \in Pollers : todo[p] # t
    <3>1. \A p \in Pollers : PlaceOK(p, pc[p], ret[p], todo[p])
      BY DEF Conserved, ControlInv, ActorOK, Actors
    <3> QED BY <2>2, <3>1, ExecutorAssumption DEF PlaceOK, HasTodo, NotifyPcs, StealPcs
  <2>5. \E a \in Actors : todo[a] = t
    BY <2>1, <2>3, ScheduledIsSomewhere
  <2> QED BY <2>4, <2>5 DEF Actors
<1> QED BY <1>1, <1>2 DEF DropsComplete

\* A runner that is gone has left nothing in its local queue, and an executor
\* that is gone has dropped every task but the ones another thread was just
\* scheduling.
THEOREM DropsAreComplete == Spec => []DropsComplete
<1>1. Init => Conserved /\ DropInv
  <2>1. Init => DropInv
    BY DEF Init, DropInv, PollersGone, TasksKnown
  <2> QED BY <2>1, ControlInit, PlacesInit DEF Conserved
<1>2. Conserved /\ DropInv /\ [Next]_vars => Conserved' /\ DropInv'
  BY ConservedStep, DropInvStep
<1> QED BY <1>1, <1>2, DropInvIsEnough, PTL DEF Spec

-----------------------------------------------------------------------------
(***************************************************************************)
(* The operations of the Sleeper keep its ids and its list in order.       *)
(***************************************************************************)
\* The sleepers are finitely many.
LEMMA UsedFinite == ASSUME NEW f PROVE IsFiniteSet(UsedBy(f)) /\ Cardinality(UsedBy(f)) \in Nat
<1>1. IsFiniteSet(Pollers)
  BY ExecutorAssumption, FS_Union DEF Pollers
<1>2. UsedBy(f) \subseteq Pollers
  BY DEF UsedBy
<1> QED BY <1>1, <1>2, FS_Subset, FS_CardinalityType

\* The sleepers that have a waker in the list are as many as its entries.
LEMMA ListLengths ==
    ASSUME NEW s, NEW f, SleeperOK(s, f)
    PROVE  /\ Len(s.wakers) <= s.count
           /\ UsedBy(f) \subseteq ListedIn(s.wakers) => s.count = Len(s.wakers)
           /\ s.count # 0 <=> UsedBy(f) # {}
<1> DEFINE w == s.wakers
           U == UsedBy(f)
           g == [i \in 1 .. Len(w) |-> w[i].who]
<1>0. s.count = Cardinality(U) /\ IsFiniteSet(U) /\ Cardinality(U) \in Nat
  BY UsedFinite DEF SleeperOK, IdsOK
<1>1. Len(w) \in Nat /\ DOMAIN w = 1 .. Len(w) /\ \A i \in DOMAIN w : w[i].who \in Pollers
  BY SleeperParts DEF SleeperOK
<1>2. IsFiniteSet(1 .. Len(w)) /\ Cardinality(1 .. Len(w)) = Len(w)
  BY <1>1, UpToCount
<1>3. /\ \A i \in 1 .. Len(w) : f[w[i].who] # 0
      /\ \A i, j \in 1 .. Len(w) : w[i].who = w[j].who => i = j
  BY <1>1 DEF SleeperOK, WakersOK
<1>4. g \in Injection(1 .. Len(w), U)
  BY <1>1, <1>3 DEF Injection, IsInjective, UsedBy
<1>5. Len(w) <= s.count
  BY <1>0, <1>2, <1>4, FS_Injection DEF ExistsInjection
<1>6. ASSUME U \subseteq ListedIn(w) PROVE s.count = Len(w)
  <2>1. g \in Surjection(1 .. Len(w), U)
    BY <1>1, <1>4, <1>6 DEF Surjection, Injection, ListedIn
  <2>2. s.count <= Len(w)
    BY <1>0, <1>2, <2>1, FS_Surjection DEF ExistsSurjection
  <2> QED BY <1>0, <1>1, <1>5, <2>2
<1>7. s.count # 0 <=> U # {}
  BY <1>0, FS_EmptySet
<1> QED BY <1>5, <1>6, <1>7

\* update and remove find an id in the list exactly if it is its owner's waker.
LEMMA PresentIsListed ==
    ASSUME NEW s, NEW f, SleeperOK(s, f), NEW p \in Pollers, f[p] # 0
    PROVE  Present(s, f[p]) <=> p \in ListedIn(s.wakers)
<1>1. \A i \in DOMAIN s.wakers : s.wakers[i].who \in Pollers /\ f[s.wakers[i].who] = s.wakers[i].id
  BY SleeperParts DEF SleeperOK, WakersOK
<1>2. \A i \in DOMAIN s.wakers : s.wakers[i].id = f[p] <=> s.wakers[i].who = p
  BY <1>1 DEF SleeperOK, IdsOK
<1> QED BY <1>2 DEF Present, ListedIn

\* A waker is appended.
LEMMA AppendWaker ==
    ASSUME NEW w \in Seq(WakerSet), NEW f, NEW g, WakersOK(w, f), NEW p \in Pollers, NEW id \in Nat, id # 0,
           g[p] = id, \A q \in Pollers : q # p => g[q] = f[q], p \notin ListedIn(w)
    PROVE  LET new == Append(w, [id |-> id, who |-> p])
           IN  WakersOK(new, g) /\ ListedIn(new) = ListedIn(w) \cup {p} /\ Len(new) = Len(w) + 1
<1> DEFINE e == [id |-> id, who |-> p]
           new == Append(w, e)
<1>1. e \in WakerSet /\ e.who = p /\ e.id = id
  BY DEF WakerSet
<1>2. DOMAIN w = 1 .. Len(w) /\ Len(w) \in Nat /\ \A i \in 1 .. Len(w) : w[i].who \in Pollers /\ w[i].who # p
  <2>1. DOMAIN w = 1 .. Len(w) /\ Len(w) \in Nat /\ \A i \in DOMAIN w : w[i] \in WakerSet
    BY SeqElements
  <2>2. \A x \in WakerSet : x.who \in Pollers
    BY DEF WakerSet
  <2> QED BY <2>1, <2>2 DEF ListedIn
<1> HIDE DEF e
<1>3. /\ Len(new) = Len(w) + 1 /\ DOMAIN new = 1 .. Len(w) + 1
      /\ \A i \in 1 .. Len(w) : new[i] = w[i]
      /\ new[Len(w) + 1] = e
  BY <1>1, AppendSeq
<1> HIDE DEF new
<1>4. WakersOK(new, g)
  BY <1>1, <1>2, <1>3 DEF WakersOK
<1>5. ListedIn(new) = ListedIn(w) \cup {p}
  BY <1>1, <1>2, <1>3 DEF ListedIn
<1> QED BY <1>3, <1>4, <1>5 DEF new, e

\* Sleeper::insert gives out an id nobody has.
LEMMA InsertOK ==
    ASSUME NEW s, NEW f, SleeperOK(s, f), NEW p \in Pollers, f[p] = 0
    PROVE  /\ SleeperOK(SleeperInsert(s, p), [f EXCEPT ![p] = NewId(s)])
           /\ ListedIn(SleeperInsert(s, p).wakers) = ListedIn(s.wakers) \cup {p}
<1> DEFINE new == SleeperInsert(s, p)
           id == NewId(s)
           g == [f EXCEPT ![p] = id]
<1>0. s \in SleeperSet /\ f \in [Pollers -> Nat] /\ IdsOK(s.count, s.free_ids, f) /\ WakersOK(s.wakers, f)
  BY DEF SleeperOK
<1>1. /\ new \in SleeperSet /\ id \in Nat /\ new.count = s.count + 1
      /\ new.wakers = Append(s.wakers, [id |-> id, who |-> p])
      /\ \/ s.free_ids = <<>> /\ id = s.count + 1 /\ new.free_ids = s.free_ids
         \/ s.free_ids # <<>> /\ id = Last(s.free_ids) /\ new.free_ids = Front(s.free_ids)
  BY <1>0, InsertParts
<1>2. /\ s.count \in Nat /\ s.wakers \in Seq(WakerSet) /\ s.free_ids \in Seq(Nat)
      /\ Len(s.free_ids) \in Nat /\ DOMAIN s.free_ids = 1 .. Len(s.free_ids)
      /\ \A i \in DOMAIN s.free_ids : s.free_ids[i] \in Nat
  BY <1>0, SleeperParts
<1> HIDE DEF new, id
<1>3. g \in [Pollers -> Nat] /\ g[p] = id /\ \A q \in Pollers : q # p => g[q] = f[q]
  BY <1>0, <1>1
<1>4. id # 0 /\ \A q \in Pollers : f[q] # id
  <2>1. CASE s.free_ids = <<>>
    BY <1>0, <1>1, <1>2, <2>1 DEF IdsOK
  <2>2. CASE s.free_ids # <<>>
    <3>1. Len(s.free_ids) \in DOMAIN s.free_ids /\ id = s.free_ids[Len(s.free_ids)]
      BY <1>1, <1>2, <2>2, FrontSeq
    <3> QED BY <1>0, <1>2, <3>1 DEF IdsOK
  <2> QED BY <2>1, <2>2
<1>5. p \notin ListedIn(s.wakers)
  BY <1>0 DEF ListedIn, WakersOK
<1>6. WakersOK(new.wakers, g) /\ ListedIn(new.wakers) = ListedIn(s.wakers) \cup {p}
  <2> HIDE DEF g
  <2>1. LET a == Append(s.wakers, [id |-> id, who |-> p])
        IN  WakersOK(a, g) /\ ListedIn(a) = ListedIn(s.wakers) \cup {p} /\ Len(a) = Len(s.wakers) + 1
    BY <1>0, <1>1, <1>2, <1>3, <1>4, <1>5, AppendWaker
  <2> QED BY <1>1, <2>1
<1>7. new.count = Cardinality(UsedBy(g))
  <2>1. UsedBy(g) = UsedBy(f) \cup {p} /\ p \notin UsedBy(f)
    BY <1>3, <1>4 DEF UsedBy
  <2>2. s.count = Cardinality(UsedBy(f)) /\ IsFiniteSet(UsedBy(f))
    BY <1>0, UsedFinite DEF IdsOK
  <2>3. Cardinality(UsedBy(f) \cup {p}) = Cardinality(UsedBy(f)) + 1
    BY <2>1, <2>2, FS_AddElement
  <2> QED BY <1>1, <2>1, <2>2, <2>3
<1>8. IdsOK(new.count, new.free_ids, g)
  <2> DEFINE F == s.free_ids
             G == new.free_ids
  <2>1. CASE F = <<>>
    BY <1>0, <1>1, <1>2, <1>3, <1>4, <1>7, <2>1 DEF IdsOK
  <2>2. CASE F # <<>>
    <3>1. /\ Len(G) = Len(F) - 1 /\ DOMAIN G = 1 .. Len(F) - 1 /\ Len(F) > 0 /\ id = F[Len(F)]
          /\ \A i \in 1 .. Len(F) - 1 : G[i] = F[i]
      <4>0. F \in Seq(Nat) /\ G = Front(F) /\ id = Last(F)
        BY <1>1, <1>2, <2>2
      <4> HIDE DEF F, G
      <4> QED BY <2>2, <4>0, FrontSeq
    <3>2. new.count + Len(G) = s.count + Len(F)
      BY <1>1, <1>2, <3>1
    <3> HIDE DEF G, F
    <3>3. /\ \A q, r \in Pollers : f[q] # 0 /\ f[q] = f[r] => q = r
          /\ \A q \in Pollers : f[q] <= s.count + Len(F) /\ \A i \in DOMAIN F : F[i] # f[q]
          /\ \A i \in DOMAIN F : 0 < F[i] /\ F[i] <= s.count + Len(F)
          /\ \A i, j \in DOMAIN F : F[i] = F[j] => i = j
          /\ DOMAIN F = 1 .. Len(F) /\ Len(F) \in Nat
      BY <1>0, <1>2 DEF IdsOK, F
    <3>4. \A q, r \in Pollers : g[q] # 0 /\ g[q] = g[r] => q = r
      BY <1>3, <1>4, <3>3
    <3>5. \A q \in Pollers : g[q] <= s.count + Len(F) /\ \A i \in DOMAIN G : G[i] # g[q]
      BY <1>3, <1>4, <3>1, <3>3
    <3>6. \A i \in DOMAIN G : 0 < G[i] /\ G[i] <= s.count + Len(F)
      BY <3>1, <3>3
    <3>7. \A i, j \in DOMAIN G : G[i] = G[j] => i = j
      BY <3>1, <3>3
    <3> QED BY <1>7, <3>2, <3>4, <3>5, <3>6, <3>7 DEF IdsOK, G
  <2> QED BY <2>1, <2>2
<1> QED BY <1>1, <1>3, <1>6, <1>8 DEF SleeperOK, new, id

\* Sleeper::update puts a waker that was taken back into the list.
LEMMA UpdateOK ==
    ASSUME NEW s, NEW f, SleeperOK(s, f), NEW p \in Pollers, f[p] # 0, ~Present(s, f[p])
    PROVE  /\ SleeperOK(SleeperUpdate(s, f[p], p), f)
           /\ ListedIn(SleeperUpdate(s, f[p], p).wakers) = ListedIn(s.wakers) \cup {p}
<1> DEFINE new == SleeperUpdate(s, f[p], p)
<1>0. s \in SleeperSet /\ f \in [Pollers -> Nat] /\ IdsOK(s.count, s.free_ids, f) /\ WakersOK(s.wakers, f)
  BY DEF SleeperOK
<1>1. /\ new \in SleeperSet /\ new.count = s.count /\ new.free_ids = s.free_ids
      /\ new.wakers = Append(s.wakers, [id |-> f[p], who |-> p])
  BY <1>0, UpdateParts
<1>2. s.wakers \in Seq(WakerSet) /\ f[p] \in Nat
  BY <1>0, SleeperParts
<1>3. p \notin ListedIn(s.wakers)
  BY PresentIsListed
<1> HIDE DEF new
<1>4. WakersOK(new.wakers, f) /\ ListedIn(new.wakers) = ListedIn(s.wakers) \cup {p}
  BY <1>0, <1>1, <1>2, <1>3, AppendWaker
<1> QED BY <1>0, <1>1, <1>4 DEF SleeperOK, new

\* Sleeper::notify takes the last waker.
LEMMA PopOK ==
    ASSUME NEW s, NEW f, SleeperOK(s, f), s.wakers # <<>>
    PROVE  LET new == [s EXCEPT !.wakers = Front(@)]
           IN  /\ SleeperOK(new, f) /\ new.count = s.count /\ Len(new.wakers) = Len(s.wakers) - 1
               /\ Last(s.wakers).who \in Pollers
               /\ ListedIn(s.wakers) \subseteq ListedIn(new.wakers) \cup {Last(s.wakers).who}
<1> DEFINE new == [s EXCEPT !.wakers = Front(s.wakers)]
           w == s.wakers
           v == Front(w)
<1>0. s \in SleeperSet /\ f \in [Pollers -> Nat] /\ IdsOK(s.count, s.free_ids, f) /\ WakersOK(w, f)
  BY DEF SleeperOK
<1>1. s.count \in Nat /\ w \in Seq(WakerSet) /\ s.free_ids \in Seq(Nat)
  BY <1>0, SleeperParts
<1>2. /\ v \in Seq(WakerSet) /\ Len(v) = Len(w) - 1 /\ Len(w) > 0 /\ Len(w) \in Nat
      /\ Last(w) = w[Len(w)] /\ Last(w) \in WakerSet
      /\ DOMAIN v = 1 .. Len(w) - 1 /\ DOMAIN w = 1 .. Len(w)
      /\ \A i \in 1 .. Len(w) - 1 : v[i] = w[i]
  BY <1>1, FrontSeq, SeqElements
<1>3. Last(w).who \in Pollers
  BY <1>2 DEF WakerSet
<1>4. new \in SleeperSet /\ new.count = s.count /\ new.free_ids = s.free_ids /\ new.wakers = v
  BY <1>0, <1>1, <1>2 DEF SleeperSet
<1> HIDE DEF v, w, new
<1>5. WakersOK(v, f)
  BY <1>0, <1>2 DEF WakersOK
<1>6. ListedIn(w) \subseteq ListedIn(v) \cup {Last(w).who}
  <2> SUFFICES ASSUME NEW i \in DOMAIN w PROVE w[i].who \in ListedIn(v) \cup {Last(w).who}
    BY DEF ListedIn
  <2>1. i = Len(w) \/ i \in DOMAIN v
    BY <1>2
  <2> QED BY <1>2, <2>1 DEF ListedIn
<1> QED BY <1>0, <1>2, <1>3, <1>4, <1>5, <1>6 DEF SleeperOK, w, new, v

\* Sleeper::remove frees the id, and takes nobody else's waker out.
LEMMA RemoveOK ==
    ASSUME NEW s, NEW f, SleeperOK(s, f), NEW p \in Pollers, f[p] # 0
    PROVE  LET new == SleeperRemove(s, f[p])
           IN  /\ SleeperOK(new, [f EXCEPT ![p] = 0])
               /\ new.count = s.count - 1
               /\ Present(s, f[p]) => Len(new.wakers) = Len(s.wakers) - 1
               /\ ListedIn(s.wakers) \ {p} \subseteq ListedIn(new.wakers)
<1> DEFINE id == f[p]
           new == SleeperRemove(s, f[p])
           g == [f EXCEPT ![p] = 0]
           w == s.wakers
           v == new.wakers
           F == s.free_ids
           G == new.free_ids
<1>0. s \in SleeperSet /\ f \in [Pollers -> Nat] /\ IdsOK(s.count, F, f) /\ WakersOK(w, f)
  BY DEF SleeperOK
<1>1. /\ s.count \in Nat /\ w \in Seq(WakerSet) /\ F \in Seq(Nat)
      /\ Len(F) \in Nat /\ DOMAIN F = 1 .. Len(F) /\ Len(w) \in Nat /\ DOMAIN w = 1 .. Len(w)
      /\ \A i \in DOMAIN w : w[i].who \in Pollers
      /\ \A i \in DOMAIN F : F[i] \in Nat
  BY <1>0, SleeperParts
<1>2. /\ \A q, r \in Pollers : f[q] # 0 /\ f[q] = f[r] => q = r
      /\ \A q \in Pollers : f[q] <= s.count + Len(F) /\ \A i \in DOMAIN F : F[i] # f[q]
      /\ \A i \in DOMAIN F : 0 < F[i] /\ F[i] <= s.count + Len(F)
      /\ \A i, j \in DOMAIN F : F[i] = F[j] => i = j
  BY <1>0 DEF IdsOK
<1>3. /\ \A i \in DOMAIN w : f[w[i].who] = w[i].id /\ w[i].id # 0
      /\ \A i, j \in DOMAIN w : w[i].who = w[j].who => i = j
  BY <1>0 DEF WakersOK
<1>4. s.count > 0 /\ id \in Nat
  <2>1. p \in UsedBy(f)
    BY DEF UsedBy
  <2> QED BY <1>0, <1>1, <2>1, ListLengths
<1>5. \A i, j \in DOMAIN w : w[i].id = w[j].id => i = j
  BY <1>1, <1>2, <1>3
<1>6. /\ new \in SleeperSet /\ new.count = s.count - 1 /\ G = Append(F, id)
      /\ ~Present(s, id) => v = w
      /\ Present(s, id) =>
            \E i \in DOMAIN w :
               /\ w[i].id = id /\ Len(v) = Len(w) - 1
               /\ \A j \in 1 .. Len(w) - 1 : v[j] = IF j < i THEN w[j] ELSE w[j + 1]
  BY ZenonT(60), <1>0, <1>4, <1>5, RemoveParts
<1>7. DOMAIN v = 1 .. Len(v) /\ Len(v) \in Nat
  BY <1>6, SleeperParts
<1> HIDE DEF new, v, w, G, F, id
<1>8. g \in [Pollers -> Nat] /\ g[p] = 0 /\ \A q \in Pollers : q # p => g[q] = f[q]
  BY <1>0
<1>9. /\ WakersOK(v, g) /\ ListedIn(w) \ {p} \subseteq ListedIn(v)
      /\ Present(s, id) => Len(v) = Len(w) - 1
  <2>1. \A i \in DOMAIN w : w[i].who = p <=> w[i].id = id
    BY <1>1, <1>2, <1>3, <1>4 DEF id
  <2>2. CASE ~Present(s, id)
    <3>1. \A i \in DOMAIN w : w[i].who # p
      BY <2>1, <2>2 DEF Present, w
    <3> QED BY <1>1, <1>3, <1>6, <1>8, <2>2, <3>1 DEF WakersOK
  <2>3. CASE Present(s, id)
    <3>1. PICK i \in DOMAIN w :
               /\ w[i].id = id /\ Len(v) = Len(w) - 1
               /\ \A j \in 1 .. Len(w) - 1 : v[j] = IF j < i THEN w[j] ELSE w[j + 1]
      BY <1>6, <2>3
    <3>2. \A j \in DOMAIN v : \E k \in DOMAIN w : k # i /\ v[j] = w[k] /\ (k = IF j < i THEN j ELSE j + 1)
      BY <1>1, <1>7, <3>1
    <3>3. \A k \in DOMAIN w : k # i => \E j \in DOMAIN v : v[j] = w[k]
      <4> SUFFICES ASSUME NEW k \in DOMAIN w, k # i PROVE \E j \in DOMAIN v : v[j] = w[k]
        OBVIOUS
      <4>1. CASE k < i
        <5>1. k \in 1 .. Len(w) - 1 /\ k \in DOMAIN v
          BY <1>1, <1>7, <3>1, <4>1
        <5>2. v[k] = w[k]
          BY <3>1, <4>1, <5>1
        <5> QED BY <5>1, <5>2
      <4>2. CASE k > i
        <5>1. k - 1 \in 1 .. Len(w) - 1 /\ ~(k - 1 < i) /\ (k - 1) + 1 = k /\ k - 1 \in DOMAIN v
          BY <1>1, <1>7, <3>1, <4>2
        <5>2. v[k - 1] = w[k]
          BY <3>1, <5>1
        <5> QED BY <5>1, <5>2
      <4> QED BY <1>1, <4>1, <4>2
    <3>4. \A k \in DOMAIN w : k # i => w[k].who # p
      BY <1>3, <2>1, <3>1
    <3>5. \A j \in DOMAIN v : g[v[j].who] = v[j].id /\ v[j].id # 0
      BY <1>1, <1>3, <1>8, <3>2, <3>4
    <3>6. \A j, k \in DOMAIN v : v[j].who = v[k].who => j = k
      <4> SUFFICES ASSUME NEW j \in DOMAIN v, NEW k \in DOMAIN v, v[j].who = v[k].who PROVE j = k
        OBVIOUS
      <4>1. PICK x \in DOMAIN w : v[j] = w[x] /\ (x = IF j < i THEN j ELSE j + 1)
        BY <3>2
      <4>2. PICK y \in DOMAIN w : v[k] = w[y] /\ (y = IF k < i THEN k ELSE k + 1)
        BY <3>2
      <4>3. x = y
        BY <1>3, <4>1, <4>2
      <4> QED BY <1>1, <1>7, <4>1, <4>2, <4>3
    <3>7. ListedIn(w) \ {p} \subseteq ListedIn(v)
      BY <2>1, <3>1, <3>3 DEF ListedIn
    <3> QED BY <3>1, <3>5, <3>6, <3>7 DEF WakersOK
  <2> QED BY <2>2, <2>3
<1>10. IdsOK(new.count, G, g)
  <2>1. /\ Len(G) = Len(F) + 1 /\ DOMAIN G = 1 .. Len(F) + 1 /\ G[Len(F) + 1] = id
        /\ \A i \in 1 .. Len(F) : G[i] = F[i]
    <3>1. G = Append(F, id) /\ F \in Seq(Nat) /\ id \in Nat
      BY <1>1, <1>4, <1>6
    <3> QED BY <3>1, AppendSeq
  <2>2. new.count + Len(G) = s.count + Len(F)
    <3>1. new.count = s.count - 1 /\ s.count \in Nat /\ Len(F) \in Nat
      BY <1>1, <1>6
    <3> QED BY <2>1, <3>1
  <2>3. \A q, r \in Pollers : g[q] # 0 /\ g[q] = g[r] => q = r
    BY <1>2, <1>8
  <2>4. \A i \in DOMAIN G : (i = Len(F) + 1 /\ G[i] = id) \/ (i \in DOMAIN F /\ G[i] = F[i])
    <3>1. DOMAIN F = 1 .. Len(F) /\ Len(F) \in Nat
      BY <1>1
    <3> SUFFICES ASSUME NEW i \in DOMAIN G
                 PROVE  (i = Len(F) + 1 /\ G[i] = id) \/ (i \in DOMAIN F /\ G[i] = F[i])
      OBVIOUS
    <3>2. i = Len(F) + 1 \/ i \in 1 .. Len(F)
      BY <2>1, <3>1
    <3> QED BY <2>1, <3>1, <3>2
  <2>5. \A i \in DOMAIN F : F[i] # id
    BY <1>2 DEF id
  <2>6. 0 < id /\ id <= s.count + Len(F)
    BY <1>2, <1>4 DEF id
  <2>7. \A i \in DOMAIN G : 0 < G[i] /\ G[i] <= s.count + Len(F)
    BY <1>2, <2>4, <2>6
  <2>8. \A i, j \in DOMAIN G : G[i] = G[j] => i = j
    BY <1>2, <2>4, <2>5
  <2>9. \A q \in Pollers : g[q] <= s.count + Len(F) /\ \A i \in DOMAIN G : G[i] # g[q]
    <3> SUFFICES ASSUME NEW q \in Pollers PROVE g[q] <= s.count + Len(F) /\ \A i \in DOMAIN G : G[i] # g[q]
      OBVIOUS
    <3>1. CASE q = p
      BY <1>1, <1>8, <2>7, <3>1
    <3>2. CASE q # p
      <4>1. f[q] # id
        BY <1>2, <3>2 DEF id
      <4> QED BY <1>2, <1>8, <2>4, <3>2, <4>1
    <3> QED BY <3>1, <3>2
  <2>10. new.count = Cardinality(UsedBy(g))
    <3>1. UsedBy(g) = UsedBy(f) \ {p} /\ p \in UsedBy(f)
      BY <1>8 DEF UsedBy
    <3> QED BY <1>0, <1>6, <3>1, UsedFinite, FS_RemoveElement DEF IdsOK
  <2> QED BY <2>2, <2>3, <2>7, <2>8, <2>9, <2>10 DEF IdsOK
<1> QED BY <1>6, <1>8, <1>9, <1>10 DEF SleeperOK, new, v, w, G, F, id

-----------------------------------------------------------------------------
(***************************************************************************)
(* Most steps of an actor leave the Sleeper alone.  Such a step is quiet:  *)
(* if it takes an actor away that would have seen the global queue, the    *)
(* queue is empty or the actor goes on to notify.                          *)
(***************************************************************************)
Still(a) == \A b \in Actors : b # a => pc'[b] = pc[b] /\ ret'[b] = ret[b]

StaysAlert(a) ==
    \/ queue' = <<>> \/ pc'[a] = "notify" \/ (a \in Pollers /\ IsKeen(pc'[a], ret'[a]))
    \/ ~IsKeen(pc[a], ret[a]) /\ (queue' # <<>> => queue # <<>>)

Quiet(a) ==
    /\ Still(a) /\ UNCHANGED <<sleepers, sleeping, notified, hit>>
    /\ pc[a] \notin NotifyPcs \cup SwapPcs /\ pc'[a] # "notify_wake"
    /\ woken \ {a} \subseteq woken' /\ woken' \subseteq woken \cup Pollers
    /\ pc'[a] = "pending" => a \in woken'
    /\ StaysAlert(a)

\* Every step is quiet, or is one of notify, of a critical section of the
\* Sleeper or of the drop.
LEMMA QuietSteps ==
    ASSUME ControlInv, Next
    PROVE  \/ \E a \in Actors : Quiet(a) \/ NotifyCas(a) \/ NotifyLock(a) \/ NotifyWake(a)
           \/ \E p \in Pollers :
                 \/ Sleep(p) \/ TickerWake(p) \/ TickerDrop(p)
                 \/ Swap(p, "swap_slept", "search", "rest") \/ Swap(p, "swap_found", "notify", "ticked")
                 \/ Swap(p, "swap_gone", "gone", "rest") \/ Swap(p, "swap_pass", "notify", "gone")
           \/ DropStart \/ DropWake \/ DropDrain
<1> USE ExecutorAssumption DEF shared, sleepvs, steals, Pollers, Actors
<1>0. StateTypes /\ QueueTypes
  BY DEF ControlInv, TypeOK
<1>a. \A a \in Runners : pc[a] = "steal" => ret[a] \in {"found", "check", "run"}
  BY DEF ControlInv, ActorOK, PlaceOK, RetsOf, StealPcs, NotifyPcs
<1>1. ASSUME NEW a \in Actors, Push(a) PROVE Quiet(a)
  <2>1. Still(a) /\ UNCHANGED <<sleepers, sleeping, notified, hit>>
    BY <1>0, <1>1 DEF StateTypes, Still, Push, Goto
  <2>2. pc[a] = "push" /\ pc'[a] = "notify"
    BY <1>0, <1>1 DEF StateTypes, Push, Goto
  <2>3. woken' = woken
    BY <1>1 DEF Push, Goto
  <2> QED BY <2>1, <2>2, <2>3 DEF Quiet, StaysAlert, IsKeen, KeenPcs, NotifyPcs, SwapPcs, StealPcs
<1>2. ASSUME NEW a \in Threads, \E t \in Tasks : Spawn(a, t) PROVE Quiet(a)
  <2>1. Still(a) /\ UNCHANGED <<sleepers, sleeping, notified, hit>>
    BY <1>0, <1>2 DEF StateTypes, Still, Spawn, Goto
  <2>2. pc[a] = "rest" /\ pc'[a] = "push" /\ queue' = queue
    BY <1>0, <1>2 DEF StateTypes, Spawn, Goto
  <2>3. woken' = woken
    BY <1>2 DEF Spawn, Goto
  <2> QED BY <2>1, <2>2, <2>3 DEF Quiet, StaysAlert, IsKeen, KeenPcs, NotifyPcs, SwapPcs, StealPcs
<1>3. ASSUME NEW a \in Threads, \E t \in Tasks : Wake(a, t) PROVE Quiet(a)
  <2>1. Still(a) /\ UNCHANGED <<sleepers, sleeping, notified, hit>>
    BY <1>0, <1>3 DEF StateTypes, Still, Wake, Goto
  <2>2. pc[a] = "rest" /\ pc'[a] = "push" /\ queue' = queue
    BY <1>0, <1>3 DEF StateTypes, Wake, Goto
  <2>3. woken' = woken
    BY <1>3 DEF Wake, Goto
  <2> QED BY <2>1, <2>2, <2>3 DEF Quiet, StaysAlert, IsKeen, KeenPcs, NotifyPcs, SwapPcs, StealPcs
<1>4. ASSUME NEW a \in Runners, Start(a) PROVE Quiet(a)
  <2>1. Still(a) /\ UNCHANGED <<sleepers, sleeping, notified, hit>>
    BY <1>0, <1>4 DEF StateTypes, Still, Start, Goto
  <2>2. pc[a] = "off" /\ pc'[a] = "search"
    BY <1>0, <1>4 DEF StateTypes, Start, Goto
  <2>3. woken' = woken
    BY <1>4 DEF Start, Goto
  <2> QED BY <2>1, <2>2, <2>3 DEF Quiet, StaysAlert, IsKeen, KeenPcs, NotifyPcs, SwapPcs, StealPcs
<1>5. ASSUME NEW a \in Tickers, StartTick(a, "search") PROVE Quiet(a)
  <2>1. Still(a) /\ UNCHANGED <<sleepers, sleeping, notified, hit>>
    BY <1>0, <1>5 DEF StateTypes, Still, StartTick, Goto
  <2>2. pc[a] = "off" /\ pc'[a] = "search"
    BY <1>0, <1>5 DEF StateTypes, StartTick, Goto
  <2>3. woken' = woken
    BY <1>5 DEF StartTick, Goto
  <2> QED BY <2>1, <2>2, <2>3 DEF Quiet, StaysAlert, IsKeen, KeenPcs, NotifyPcs, SwapPcs, StealPcs
<1>6. ASSUME NEW a \in Tickers, StartTick(a, "try") PROVE Quiet(a)
  <2>1. Still(a) /\ UNCHANGED <<sleepers, sleeping, notified, hit>>
    BY <1>0, <1>6 DEF StateTypes, Still, StartTick, Goto
  <2>2. pc[a] = "off" /\ pc'[a] = "try" /\ queue' = queue
    BY <1>0, <1>6 DEF StateTypes, StartTick, Goto
  <2>3. woken' = woken
    BY <1>6 DEF StartTick, Goto
  <2> QED BY <2>1, <2>2, <2>3 DEF Quiet, StaysAlert, IsKeen, KeenPcs, NotifyPcs, SwapPcs, StealPcs
<1>7. ASSUME NEW a \in Runners, SearchLocal(a) PROVE Quiet(a)
  <2>1. Still(a) /\ UNCHANGED <<sleepers, sleeping, notified, hit>>
    BY <1>0, <1>7 DEF StateTypes, Still, SearchLocal, Goto
  <2>2. /\ pc[a] \in {"search", "check"} /\ queue' = queue
        /\ pc'[a] \in {"found", "global"} \/ (pc[a] = "check" /\ pc'[a] = "others")
    BY <1>0, <1>7 DEF StateTypes, SearchLocal, Goto
  <2>3. woken' = woken
    BY <1>7 DEF SearchLocal, Goto
  <2> QED BY <2>1, <2>2, <2>3 DEF Quiet, StaysAlert, IsKeen, KeenPcs, NotifyPcs, SwapPcs, StealPcs
<1>8. ASSUME NEW a \in Runners, SearchGlobal(a) PROVE Quiet(a)
  <2>1. Still(a) /\ UNCHANGED <<sleepers, sleeping, notified, hit>>
    BY <1>0, <1>8 DEF StateTypes, Still, SearchGlobal, Goto, StealFrom
  <2>2. /\ pc[a] = "global"
        /\ (pc'[a] = "count" /\ ret'[a] = "found") \/ (queue' = <<>> /\ pc'[a] = "others")
    BY <1>0, <1>8 DEF StateTypes, SearchGlobal, Goto, StealFrom
  <2>3. woken' = woken
    BY <1>8 DEF SearchGlobal, Goto, StealFrom
  <2> QED BY <2>1, <2>2, <2>3 DEF Quiet, StaysAlert, IsKeen, KeenPcs, NotifyPcs, SwapPcs, StealPcs
<1>9. ASSUME NEW a \in Runners, SearchOthers(a) PROVE Quiet(a)
  <2>1. Still(a) /\ UNCHANGED <<sleepers, sleeping, notified, hit>>
    BY <1>0, <1>9 DEF StateTypes, Still, SearchOthers, Goto, StealFrom
  <2>2. pc[a] = "others" /\ pc'[a] \in {"sleep", "count"} /\ queue' = queue
    BY <1>0, <1>9 DEF StateTypes, SearchOthers, Goto, StealFrom
  <2>3. woken' = woken
    BY <1>9 DEF SearchOthers, Goto, StealFrom
  <2> QED BY <2>1, <2>2, <2>3 DEF Quiet, StaysAlert, IsKeen, KeenPcs, NotifyPcs, SwapPcs, StealPcs
<1>10. ASSUME NEW a \in Runners, StealLen(a) PROVE Quiet(a)
  <2>1. Still(a) /\ UNCHANGED <<sleepers, sleeping, notified, hit>>
    BY <1>0, <1>10 DEF StateTypes, Still, StealLen, Goto
  <2>2. pc[a] = "count" /\ pc'[a] = "steal" /\ ret'[a] = ret[a] /\ queue' = queue
    BY <1>0, <1>10 DEF StateTypes, StealLen, Goto
  <2>3. woken' = woken
    BY <1>10 DEF StealLen, Goto
  <2> QED BY <2>1, <2>2, <2>3 DEF Quiet, StaysAlert, IsKeen, KeenPcs, NotifyPcs, SwapPcs, StealPcs
<1>11. ASSUME NEW a \in Runners, StealPop(a) PROVE Quiet(a)
  <2>1. Still(a) /\ UNCHANGED <<sleepers, sleeping, notified, hit>>
    BY <1>0, <1>11 DEF StateTypes, Still, StealPop, Goto, Return, Source
  <2>2. /\ pc[a] = "steal" /\ (queue' # <<>> => queue # <<>>)
        /\ (pc'[a] = "stow" /\ ret'[a] = ret[a]) \/ pc'[a] = ret[a]
    BY <1>0, <1>11 DEF StateTypes, StealPop, Goto, Return, Source
  <2>3. woken' = woken
    BY <1>11 DEF StealPop, Goto, Return, Source
  <2> QED BY <1>a, <2>1, <2>2, <2>3 DEF Quiet, StaysAlert, IsKeen, KeenPcs, NotifyPcs, SwapPcs, StealPcs
<1>12. ASSUME NEW a \in Runners, StealPush(a) PROVE Quiet(a)
  <2>1. Still(a) /\ UNCHANGED <<sleepers, sleeping, notified, hit>>
    BY <1>0, <1>12 DEF StateTypes, Still, StealPush, Goto
  <2>2. pc[a] = "stow" /\ pc'[a] = "steal" /\ ret'[a] = ret[a] /\ queue' = queue
    BY <1>0, <1>12 DEF StateTypes, StealPush, Goto
  <2>3. woken' = woken
    BY <1>12 DEF StealPush, Goto
  <2> QED BY <2>1, <2>2, <2>3 DEF Quiet, StaysAlert, IsKeen, KeenPcs, NotifyPcs, SwapPcs, StealPcs
<1>13. ASSUME NEW a \in Tickers, TickSearch(a) PROVE Quiet(a)
  <2>1. Still(a) /\ UNCHANGED <<sleepers, sleeping, notified, hit>>
    BY <1>0, <1>13 DEF StateTypes, Still, TickSearch, Goto
  <2>2. /\ pc[a] \in {"search", "try"}
        /\ pc'[a] = "found" \/ (queue' = <<>> /\ pc'[a] \in {"gone", "sleep"})
    BY <1>0, <1>13 DEF StateTypes, TickSearch, Goto
  <2>3. woken' = woken
    BY <1>13 DEF TickSearch, Goto
  <2> QED BY <2>1, <2>2, <2>3 DEF Quiet, StaysAlert, IsKeen, KeenPcs, NotifyPcs, SwapPcs, StealPcs
<1>14. ASSUME NEW a \in Pollers, Awake(a, "found", "notify", "ticked") PROVE Quiet(a)
  <2>1. Still(a) /\ UNCHANGED <<sleepers, sleeping, notified, hit>>
    BY <1>0, <1>14 DEF StateTypes, Still, Awake, Goto
  <2>2. pc[a] = "found" /\ pc'[a] = "notify"
    BY <1>0, <1>14 DEF StateTypes, Awake, Goto
  <2>3. woken' = woken
    BY <1>14 DEF Awake, Goto
  <2> QED BY <2>1, <2>2, <2>3 DEF Quiet, StaysAlert, IsKeen, KeenPcs, NotifyPcs, SwapPcs, StealPcs
<1>15. ASSUME NEW a \in Pollers, Awake(a, "drop", "gone", "rest") PROVE Quiet(a)
  <2>1. Still(a) /\ UNCHANGED <<sleepers, sleeping, notified, hit>>
    BY <1>0, <1>15 DEF StateTypes, Still, Awake, Goto
  <2>2. pc[a] = "drop" /\ pc'[a] = "gone" /\ queue' = queue
    BY <1>0, <1>15 DEF StateTypes, Awake, Goto
  <2>3. woken' = woken
    BY <1>15 DEF Awake, Goto
  <2> QED BY <2>1, <2>2, <2>3 DEF Quiet, StaysAlert, IsKeen, KeenPcs, NotifyPcs, SwapPcs, StealPcs
<1>16. ASSUME NEW a \in Pollers, Ticked(a) PROVE Quiet(a)
  <2>1. Still(a) /\ UNCHANGED <<sleepers, sleeping, notified, hit>>
    BY <1>0, <1>16 DEF StateTypes, Still, Ticked, Goto, StealFrom
  <2>2. pc[a] = "ticked" /\ pc'[a] \in {"run", "count"} /\ queue' = queue
    BY <1>0, <1>16 DEF StateTypes, Ticked, Goto, StealFrom
  <2>3. woken' = woken
    BY <1>16 DEF Ticked, Goto, StealFrom
  <2> QED BY <2>1, <2>2, <2>3 DEF Quiet, StaysAlert, IsKeen, KeenPcs, NotifyPcs, SwapPcs, StealPcs
<1>17. ASSUME NEW a \in Pollers, Runs(a) PROVE Quiet(a)
  <2>1. Still(a) /\ UNCHANGED <<sleepers, sleeping, notified, hit>>
    BY <1>0, <1>17 DEF StateTypes, Still, Runs, RunEnds, Goto
  <2>2. pc[a] = "run" /\ pc'[a] \in {"push", "ran"} /\ queue' = queue
    BY <1>0, <1>17 DEF StateTypes, Runs, RunEnds, Goto
  <2>3. woken' = woken
    BY <1>17 DEF Runs, RunEnds, Goto
  <2> QED BY <2>1, <2>2, <2>3 DEF Quiet, StaysAlert, IsKeen, KeenPcs, NotifyPcs, SwapPcs, StealPcs
<1>18. ASSUME NEW a \in Pollers, Ran(a) PROVE Quiet(a)
  <2>1. Still(a) /\ UNCHANGED <<sleepers, sleeping, notified, hit>>
    BY <1>0, <1>18 DEF StateTypes, Still, Ran, Goto
  <2>2. /\ pc[a] = "ran" /\ queue' = queue
        /\ pc'[a] \in {"gone", "search"} \/ (pc'[a] = "pending" /\ a \in woken')
    BY <1>0, <1>18 DEF StateTypes, Ran, Goto
  <2>3. woken' = woken \/ woken' = woken \cup {a}
    BY <1>18 DEF Ran, Goto
  <2> QED BY <2>1, <2>2, <2>3 DEF Quiet, StaysAlert, IsKeen, KeenPcs, NotifyPcs, SwapPcs, StealPcs
<1>19. ASSUME NEW a \in Pollers, Poll(a) PROVE Quiet(a)
  <2>1. Still(a) /\ UNCHANGED <<sleepers, sleeping, notified, hit>>
    BY <1>0, <1>19 DEF StateTypes, Still, Poll, Goto
  <2>2. pc[a] = "pending" /\ pc'[a] = "search"
    BY <1>0, <1>19 DEF StateTypes, Poll, Goto
  <2>3. woken' = woken \ {a}
    BY <1>19 DEF Poll, Goto
  <2> QED BY <2>1, <2>2, <2>3 DEF Quiet, StaysAlert, IsKeen, KeenPcs, NotifyPcs, SwapPcs, StealPcs
<1>20. ASSUME NEW a \in Pollers, Stop(a) PROVE Quiet(a)
  <2>1. Still(a) /\ UNCHANGED <<sleepers, sleeping, notified, hit>>
    BY <1>0, <1>20 DEF StateTypes, Still, Stop, Goto
  <2>2. pc[a] = "pending" /\ pc'[a] \in {"unregister", "drop"} /\ queue' = queue
    BY <1>0, <1>20 DEF StateTypes, Stop, Goto
  <2>3. woken' = woken
    BY <1>20 DEF Stop, Goto
  <2> QED BY <2>1, <2>2, <2>3 DEF Quiet, StaysAlert, IsKeen, KeenPcs, NotifyPcs, SwapPcs, StealPcs
<1>21. ASSUME NEW a \in Runners, Unregister(a) PROVE Quiet(a)
  <2>1. Still(a) /\ UNCHANGED <<sleepers, sleeping, notified, hit>>
    BY <1>0, <1>21 DEF StateTypes, Still, Unregister, Goto
  <2>2. pc[a] = "unregister" /\ pc'[a] = "drain" /\ queue' = queue
    BY <1>0, <1>21 DEF StateTypes, Unregister, Goto
  <2>3. woken' = woken
    BY <1>21 DEF Unregister, Goto
  <2> QED BY <2>1, <2>2, <2>3 DEF Quiet, StaysAlert, IsKeen, KeenPcs, NotifyPcs, SwapPcs, StealPcs
<1>22. ASSUME NEW a \in Runners, Drain(a) PROVE Quiet(a)
  <2>1. Still(a) /\ UNCHANGED <<sleepers, sleeping, notified, hit>>
    BY <1>0, <1>22 DEF StateTypes, Still, Drain, Goto
  <2>2. pc[a] = "drain" /\ pc'[a] \in {"drop", "push"} /\ queue' = queue
    BY <1>0, <1>22 DEF StateTypes, Drain, Goto
  <2>3. woken' = woken
    BY <1>22 DEF Drain, Goto
  <2> QED BY <2>1, <2>2, <2>3 DEF Quiet, StaysAlert, IsKeen, KeenPcs, NotifyPcs, SwapPcs, StealPcs
<1> QED BY <1>1, <1>2, <1>3, <1>4, <1>5, <1>6, <1>7, <1>8, <1>9, <1>10, <1>11, <1>12, <1>13, <1>14, <1>15, <1>16, <1>17, <1>18, <1>19, <1>20, <1>21, <1>22 DEF Next, PollerStep, RunnerStep, Schedule

\* Where notify returns to.
LEMMA NotifyReturns ==
    ASSUME ControlInv, NEW a \in Actors, pc[a] \in NotifyPcs
    PROVE  ret[a] \in {"rest", "ran", "drain", "ticked", "gone"}
<1>1. ret[a] \in RetsOf(a, pc[a])
  BY DEF ControlInv, ActorOK, PlaceOK
<1>2. pc[a] \in {"push"} \cup NotifyPcs
  OBVIOUS
<1>3. RetsOf(a, pc[a]) = IF a \in Threads THEN {"rest"}
                         ELSE {"ran"} \cup (IF a \in Runners THEN {"drain"} ELSE {})
                              \cup IF pc[a] = "push" THEN {} ELSE {"ticked", "gone"}
  BY <1>2 DEF RetsOf, NotifyPcs, StealPcs
<1> QED BY <1>1, <1>3

\* A quiet step keeps the invariant of the Sleeper.
LEMMA QuietKeeps ==
    ASSUME SleepInv, NEW a \in Actors, Quiet(a) PROVE SleepInv'
<1>0. /\ \A b \in Actors : b # a => pc'[b] = pc[b] /\ ret'[b] = ret[b]
      /\ sleepers' = sleepers /\ sleeping' = sleeping /\ notified' = notified /\ hit' = hit
      /\ pc[a] \notin NotifyPcs \cup SwapPcs /\ pc'[a] # "notify_wake"
      /\ woken \ {a} \subseteq woken' /\ woken' \subseteq woken \cup Pollers
      /\ pc'[a] = "pending" => a \in woken'
  BY DEF Quiet, Still
<1>1. Hits'
  BY <1>0 DEF SleepInv, Hits
<1>2. AsleepInv'
  BY <1>0 DEF SleepInv, AsleepInv, NotifyPcs, Actors
<1>3. FlagInv'
  BY <1>0 DEF SleepInv, FlagInv, NotifyPcs, SwapPcs, Actors
<1>4. AlertInv'
  <2>1. CASE queue' = <<>>
    BY <2>1 DEF AlertInv
  <2>2. CASE pc'[a] = "notify" \/ (a \in Pollers /\ IsKeen(pc'[a], ret'[a]))
    BY <2>2 DEF AlertInv
  <2>3. CASE ~IsKeen(pc[a], ret[a]) /\ (queue' # <<>> => queue # <<>>)
    <3> SUFFICES ASSUME queue' # <<>> PROVE AlertInv'
      BY DEF AlertInv
    <3>1. \/ \E b \in Actors : pc[b] \in {"notify", "notify_lock"}
          \/ \E p \in Pollers : IsKeen(pc[p], ret[p])
          \/ SleeperIsNotified(sleepers)
      BY <2>3 DEF SleepInv, AlertInv
    <3>2. \A p \in Pollers : IsKeen(pc[p], ret[p]) => IsKeen(pc'[p], ret'[p])
      BY <1>0, <2>3 DEF Actors
    <3>3. \A b \in Actors : pc[b] \in {"notify", "notify_lock"} => pc'[b] \in {"notify", "notify_lock"}
      BY <1>0 DEF NotifyPcs
    <3> QED BY <1>0, <3>1, <3>2, <3>3 DEF AlertInv
  <2> QED BY <2>1, <2>2, <2>3 DEF Quiet, StaysAlert
<1> QED BY <1>0, <1>1, <1>2, <1>3, <1>4 DEF SleepInv

\* notify(): who finds the flag set leaves the waking to who set it.
LEMMA NotifyCasKeeps ==
    ASSUME ControlInv, SleepInv, NEW a \in Actors, NotifyCas(a) PROVE SleepInv'
<1>0. /\ \A b \in Actors : b # a => pc'[b] = pc[b] /\ ret'[b] = ret[b]
      /\ sleepers' = sleepers /\ sleeping' = sleeping /\ hit' = hit /\ woken' = woken /\ queue' = queue
      /\ pc[a] = "notify" /\ notified'
      /\ (notified /\ pc'[a] = ret[a]) \/ pc'[a] = "notify_lock"
  BY DEF ControlInv, TypeOK, StateTypes, NotifyCas, Goto, Return
<1>a. ret[a] \in {"rest", "ran", "drain", "ticked", "gone"}
  BY <1>0, NotifyReturns DEF NotifyPcs
<1>1. Hits'
  BY <1>0, <1>a DEF SleepInv, Hits
<1>2. AsleepInv'
  BY <1>0, <1>a DEF SleepInv, AsleepInv, Actors
<1>3. FlagInv'
  BY <1>0, <1>a DEF SleepInv, FlagInv, Actors
<1>4. AlertInv'
  BY <1>0, <1>3 DEF FlagInv, AlertInv, IsKeen, KeenPcs
<1> QED BY <1>0, <1>1, <1>2, <1>3, <1>4 DEF SleepInv

\* It takes the last waker, unless a sleeper it woke before is still up.
LEMMA NotifyLockKeeps ==
    ASSUME ControlInv, SleepInv, NEW a \in Actors, NotifyLock(a) PROVE SleepInv'
<1>0. /\ \A b \in Actors : b # a => pc'[b] = pc[b] /\ ret'[b] = ret[b]
      /\ sleeping' = sleeping /\ woken' = woken
      /\ pc[a] = "notify_lock" /\ DOMAIN hit = Actors
  BY DEF ControlInv, TypeOK, StateTypes, NotifyLock, Goto, Return
<1>a. ret[a] \in {"rest", "ran", "drain", "ticked", "gone"}
  BY <1>0, NotifyReturns DEF NotifyPcs
<1>b. SleeperOK(sleepers, sleeping) /\ Hits /\ AsleepInv
  BY DEF SleepInv
<1>c. Len(sleepers.wakers) <= sleepers.count /\ sleepers.count \in Nat /\ Len(sleepers.wakers) \in Nat
  BY <1>b, ListLengths, SleeperParts DEF SleeperOK
<1>1. CASE SleeperNotifies(sleepers)
  <2> DEFINE who == Last(sleepers.wakers).who
  <2>1. /\ sleepers' = [sleepers EXCEPT !.wakers = Front(@)]
        /\ hit'[a] = who /\ \A b \in Actors : b # a => hit'[b] = hit[b]
        /\ pc'[a] = "notify_wake"
        /\ sleepers.wakers # <<>> /\ Len(sleepers.wakers) = sleepers.count
    BY <1>0, <1>1 DEF ControlInv, TypeOK, StateTypes, NotifyLock, SleeperNotifies, Goto
  <2>2. /\ SleeperOK(sleepers', sleeping) /\ sleepers'.count = sleepers.count
        /\ Len(sleepers'.wakers) = Len(sleepers.wakers) - 1
        /\ who \in Pollers
        /\ ListedIn(sleepers.wakers) \subseteq ListedIn(sleepers'.wakers) \cup {who}
    BY <1>b, <2>1, PopOK
  <2>3. SleeperIsNotified(sleepers')
    BY <1>c, <2>1, <2>2 DEF SleeperIsNotified
  <2> HIDE DEF who
  <2>4. Hits'
    BY <1>0, <1>b, <2>1, <2>2 DEF Hits
  <2>5. AsleepInv'
    <3> SUFFICES ASSUME NEW p \in Pollers, pc'[p] = "pending", p \notin woken
                 PROVE  /\ sleeping[p] # 0
                        /\ p \in ListedIn(sleepers'.wakers) \/ \E b \in Actors : pc'[b] = "notify_wake" /\ hit'[b] = p
      BY <1>0 DEF AsleepInv
    <3>1. pc[p] = "pending"
      BY <1>0, <2>1 DEF Actors
    <3>2. /\ sleeping[p] # 0
          /\ p \in ListedIn(sleepers.wakers) \/ \E b \in Actors : pc[b] = "notify_wake" /\ hit[b] = p
      BY <1>b, <3>1 DEF AsleepInv
    <3>3. CASE p \in ListedIn(sleepers.wakers)
      BY <2>1, <2>2, <3>2, <3>3
    <3>4. ASSUME NEW b \in Actors, pc[b] = "notify_wake", hit[b] = p PROVE pc'[b] = "notify_wake" /\ hit'[b] = p
      BY <1>0, <2>1, <3>4
    <3> QED BY <3>2, <3>3, <3>4
  <2> QED BY <1>0, <2>2, <2>3, <2>4, <2>5 DEF SleepInv, FlagInv, AlertInv
<1>2. CASE ~SleeperNotifies(sleepers)
  <2>1. sleepers' = sleepers /\ hit' = hit /\ pc'[a] = ret[a]
    BY <1>0, <1>2 DEF ControlInv, TypeOK, StateTypes, NotifyLock, Goto, Return
  <2>2. SleeperIsNotified(sleepers)
    <3>1. CASE sleepers.wakers = <<>>
      BY <1>c, <3>1 DEF SleeperIsNotified
    <3>2. CASE sleepers.wakers # <<>>
      BY <1>2, <1>c, <3>2 DEF SleeperIsNotified, SleeperNotifies
    <3> QED BY <3>1, <3>2
  <2>3. Hits'
    BY <1>0, <1>a, <1>b, <2>1 DEF Hits
  <2>4. AsleepInv'
    BY <1>0, <1>a, <1>b, <2>1 DEF AsleepInv, Actors
  <2> QED BY <1>0, <1>b, <2>1, <2>2, <2>3, <2>4 DEF SleepInv, FlagInv, AlertInv
<1> QED BY <1>1, <1>2

\* The waker that was taken is woken after the Mutex was released.
LEMMA NotifyWakeKeeps ==
    ASSUME ControlInv, SleepInv, NEW a \in Actors, NotifyWake(a) PROVE SleepInv'
<1>0. /\ \A b \in Actors : b # a => pc'[b] = pc[b] /\ ret'[b] = ret[b] /\ hit'[b] = hit[b]
      /\ sleepers' = sleepers /\ sleeping' = sleeping /\ notified' = notified /\ queue' = queue
      /\ pc[a] = "notify_wake" /\ pc'[a] = ret[a] /\ woken' = woken \cup {hit[a]}
  BY DEF ControlInv, TypeOK, StateTypes, NotifyWake, Goto, Return, sleepvs
<1>a. ret[a] \in {"rest", "ran", "drain", "ticked", "gone"}
  BY <1>0, NotifyReturns DEF NotifyPcs
<1>1. Hits'
  BY <1>0, <1>a DEF SleepInv, Hits
<1>2. AsleepInv'
  <2> SUFFICES ASSUME NEW p \in Pollers, pc'[p] = "pending", p \notin woken'
               PROVE  /\ sleeping[p] # 0
                      /\ p \in ListedIn(sleepers.wakers) \/ \E b \in Actors : pc'[b] = "notify_wake" /\ hit'[b] = p
    BY <1>0 DEF AsleepInv
  <2>1. pc[p] = "pending" /\ p \notin woken /\ p # hit[a]
    BY <1>0, <1>a DEF Actors
  <2>2. /\ sleeping[p] # 0
        /\ p \in ListedIn(sleepers.wakers) \/ \E b \in Actors : pc[b] = "notify_wake" /\ hit[b] = p
    BY <2>1 DEF SleepInv, AsleepInv
  <2>3. ASSUME NEW b \in Actors, pc[b] = "notify_wake", hit[b] = p PROVE pc'[b] = "notify_wake" /\ hit'[b] = p
    BY <1>0, <2>1, <2>3
  <2> QED BY <2>2, <2>3
<1>3. FlagInv'
  BY <1>0 DEF SleepInv, FlagInv, Actors
<1>4. AlertInv'
  <2>1. \A p \in Pollers : IsKeen(pc[p], ret[p]) => pc'[p] = pc[p] /\ ret'[p] = ret[p]
    BY <1>0 DEF IsKeen, KeenPcs, StealPcs, Actors
  <2> QED BY <1>0, <2>1 DEF SleepInv, AlertInv
<1> QED BY <1>0, <1>1, <1>2, <1>3, <1>4 DEF SleepInv

\* A poller that does not find anything registers, and looks once more.
LEMMA SleepKeeps ==
    ASSUME ControlInv, SleepInv, NEW p \in Pollers, Sleep(p) PROVE SleepInv'
<1>0. /\ \A b \in Actors : b # p => pc'[b] = pc[b] /\ ret'[b] = ret[b]
      /\ hit' = hit /\ woken' = woken /\ notified' = notified /\ queue' = queue
      /\ pc[p] = "sleep" /\ p \in Actors
  BY DEF ControlInv, TypeOK, StateTypes, Sleep, Goto, Actors, shared
<1>b. SleeperOK(sleepers, sleeping) /\ Hits /\ AsleepInv /\ FlagInv /\ AlertInv
  BY DEF SleepInv
<1>1. CASE pc'[p] = "swap_slept" /\ SleeperOK(sleepers', sleeping') /\ ListedIn(sleepers.wakers) \subseteq ListedIn(sleepers'.wakers)
           /\ \A q \in Pollers : q # p => sleeping'[q] = sleeping[q]
  <2>1. Hits'
    BY <1>0, <1>b, <1>1 DEF Hits
  <2>2. AsleepInv'
    BY <1>0, <1>b, <1>1 DEF AsleepInv, Actors
  <2>3. FlagInv' /\ AlertInv'
    BY <1>1 DEF FlagInv, AlertInv, IsKeen, KeenPcs
  <2> QED BY <1>1, <2>1, <2>2, <2>3 DEF SleepInv
<1>2. CASE sleeping[p] = 0
  <2>1. /\ sleeping' = [sleeping EXCEPT ![p] = NewId(sleepers)] /\ sleepers' = SleeperInsert(sleepers, p)
        /\ pc'[p] = "swap_slept"
    BY <1>0, <1>2 DEF ControlInv, TypeOK, StateTypes, Sleep, Goto
  <2>2. SleeperOK(sleepers', sleeping') /\ ListedIn(sleepers'.wakers) = ListedIn(sleepers.wakers) \cup {p}
    BY <1>b, <1>2, <2>1, InsertOK
  <2>3. \A q \in Pollers : q # p => sleeping'[q] = sleeping[q]
    BY <1>b, <2>1 DEF SleeperOK
  <2> QED BY <1>1, <2>1, <2>2, <2>3
<1>3. CASE sleeping[p] # 0 /\ ~Present(sleepers, sleeping[p])
  <2>1. sleeping' = sleeping /\ sleepers' = SleeperUpdate(sleepers, sleeping[p], p) /\ pc'[p] = "swap_slept"
    BY <1>0, <1>3 DEF ControlInv, TypeOK, StateTypes, Sleep, Goto
  <2>2. SleeperOK(sleepers', sleeping') /\ ListedIn(sleepers'.wakers) = ListedIn(sleepers.wakers) \cup {p}
    BY <1>b, <1>3, <2>1, UpdateOK
  <2> QED BY <1>1, <2>1, <2>2
<1>4. CASE sleeping[p] # 0 /\ Present(sleepers, sleeping[p])
  <2>1. sleeping' = sleeping /\ sleepers' = sleepers /\ pc'[p] = "pending"
    BY <1>0, <1>4 DEF ControlInv, TypeOK, StateTypes, Sleep, Goto
  <2>2. p \in ListedIn(sleepers.wakers)
    BY <1>b, <1>4, PresentIsListed
  <2>3. Hits'
    BY <1>0, <1>b, <2>1 DEF Hits
  <2>4. AsleepInv'
    <3>1. \A b \in Actors : pc[b] = "notify_wake" => pc'[b] = "notify_wake"
      BY <1>0
    <3> QED BY <1>0, <1>b, <1>4, <2>1, <2>2, <3>1 DEF AsleepInv, Actors
  <2>5. FlagInv'
    BY <1>0, <1>b, <2>1 DEF FlagInv, Actors
  <2>6. AlertInv'
    <3>1. \A q \in Pollers : IsKeen(pc[q], ret[q]) => pc'[q] = pc[q] /\ ret'[q] = ret[q]
      BY <1>0 DEF IsKeen, KeenPcs, StealPcs, Actors
    <3> QED BY <1>0, <1>b, <2>1, <3>1 DEF AlertInv
  <2> QED BY <1>b, <2>1, <2>3, <2>4, <2>5, <2>6 DEF SleepInv
<1> QED BY <1>2, <1>3, <1>4

\* The end of a critical section sets the flag to what the Sleeper says.
LEMMA SwapKeeps ==
    ASSUME ControlInv, SleepInv, NEW p \in Pollers,
           \/ Swap(p, "swap_slept", "search", "rest") \/ Swap(p, "swap_found", "notify", "ticked")
           \/ Swap(p, "swap_gone", "gone", "rest") \/ Swap(p, "swap_pass", "notify", "gone")
    PROVE  SleepInv'
<1>0. /\ \A b \in Actors : b # p => pc'[b] = pc[b] /\ ret'[b] = ret[b]
      /\ hit' = hit /\ woken' = woken /\ queue' = queue /\ sleepers' = sleepers /\ sleeping' = sleeping
      /\ notified' = SleeperIsNotified(sleepers)
      /\ p \in Actors
      /\ (pc[p] = "swap_gone" /\ pc'[p] = "gone") \/ (pc[p] \in SwapPcs /\ pc'[p] \in {"search", "notify"})
  BY DEF ControlInv, TypeOK, StateTypes, Swap, Goto, Actors, shared, SwapPcs
<1>1. Hits'
  BY <1>0 DEF SleepInv, Hits
<1>2. AsleepInv'
  BY <1>0 DEF SleepInv, AsleepInv, Actors, SwapPcs
<1>3. FlagInv'
  BY <1>0 DEF FlagInv
<1>4. AlertInv'
  <2>1. CASE pc'[p] \in {"search", "notify"}
    BY <1>0, <2>1 DEF AlertInv, IsKeen, KeenPcs
  <2>2. CASE pc[p] = "swap_gone" /\ pc'[p] = "gone"
    <3>1. \A q \in Pollers : IsKeen(pc[q], ret[q]) => pc'[q] = pc[q] /\ ret'[q] = ret[q]
      BY <1>0, <2>2 DEF IsKeen, KeenPcs, StealPcs, Actors
    <3> QED BY <1>0, <2>2, <3>1 DEF SleepInv, AlertInv
  <2> QED BY <1>0, <2>1, <2>2
<1> QED BY <1>0, <1>1, <1>2, <1>3, <1>4 DEF SleepInv

\* Ticker::wake and Drop for Ticker take a sleeper out.
LEMMA RemoveKeeps ==
    ASSUME ControlInv, SleepInv, NEW p \in Pollers, TickerWake(p) \/ TickerDrop(p) PROVE SleepInv'
<1>0. /\ \A b \in Actors : b # p => pc'[b] = pc[b] /\ ret'[b] = ret[b]
      /\ hit' = hit /\ woken' = woken /\ notified' = notified /\ queue' = queue
      /\ pc[p] \in {"found", "drop"} /\ p \in Actors
      /\ sleeping[p] # 0 /\ sleepers' = SleeperRemove(sleepers, sleeping[p])
      /\ sleeping' = [sleeping EXCEPT ![p] = 0]
      /\ pc'[p] \in {"swap_found", "swap_pass"} \/ (pc[p] = "drop" /\ pc'[p] = "swap_gone" /\ Present(sleepers, sleeping[p]))
  BY DEF ControlInv, TypeOK, StateTypes, TickerWake, TickerDrop, Goto, Actors, shared
<1>b. SleeperOK(sleepers, sleeping) /\ Hits /\ AsleepInv /\ FlagInv /\ AlertInv
  BY DEF SleepInv
<1>1. /\ SleeperOK(sleepers', sleeping') /\ sleepers'.count = sleepers.count - 1
      /\ Present(sleepers, sleeping[p]) => Len(sleepers'.wakers) = Len(sleepers.wakers) - 1
      /\ ListedIn(sleepers.wakers) \ {p} \subseteq ListedIn(sleepers'.wakers)
  BY <1>0, <1>b, RemoveOK
<1>2. \A q \in Pollers : q # p => sleeping'[q] = sleeping[q]
  BY <1>0, <1>b DEF SleeperOK
<1>3. Hits'
  BY <1>0, <1>b DEF Hits
<1>4. AsleepInv'
  <2>1. \A b \in Actors : pc[b] = "notify_wake" => pc'[b] = "notify_wake"
    BY <1>0
  <2>2. \A q \in Pollers : pc'[q] = "pending" => pc[q] = "pending" /\ q # p
    BY <1>0 DEF Actors
  <2> QED BY <1>0, <1>b, <1>1, <1>2, <2>1, <2>2 DEF AsleepInv
<1>5. CASE pc'[p] \in {"swap_found", "swap_pass"}
  <2>1. FlagInv' /\ AlertInv'
    BY <1>5 DEF FlagInv, AlertInv, IsKeen, KeenPcs
  <2> QED BY <1>1, <1>3, <1>4, <2>1 DEF SleepInv
<1>6. CASE pc[p] = "drop" /\ pc'[p] = "swap_gone" /\ Present(sleepers, sleeping[p])
  <2>1. sleepers.count \in Nat /\ Len(sleepers.wakers) \in Nat /\ sleepers.count # 0
    <3>1. p \in UsedBy(sleeping)
      BY <1>0 DEF UsedBy
    <3> QED BY <1>b, <3>1, ListLengths, SleeperParts DEF SleeperOK
  <2>2. SleeperIsNotified(sleepers) => SleeperIsNotified(sleepers')
    BY <1>1, <1>6, <2>1 DEF SleeperIsNotified
  <2>3. FlagInv'
    BY <1>0, <1>b, <1>6, <2>2 DEF FlagInv, Actors
  <2>4. AlertInv'
    <3>1. \A q \in Pollers : IsKeen(pc[q], ret[q]) => pc'[q] = pc[q] /\ ret'[q] = ret[q]
      BY <1>0, <1>6 DEF IsKeen, KeenPcs, StealPcs, Actors
    <3> QED BY <1>0, <1>b, <1>6, <2>2, <3>1 DEF AlertInv
  <2> QED BY <1>1, <1>3, <1>4, <2>3, <2>4 DEF SleepInv
<1> QED BY <1>0, <1>5, <1>6

\* While the executor is dropped nobody sleeps.
LEMMA DropKeeps ==
    ASSUME ControlInv, DropInv, SleepInv, DropStart \/ DropWake \/ DropDrain PROVE SleepInv'
<1>0. /\ pc' = pc /\ ret' = ret /\ hit' = hit /\ woken' = woken /\ notified' = notified
      /\ sleepers' = sleepers /\ sleeping' = sleeping
  BY DEF DropStart, DropWake, DropDrain, sleepvs
<1>1. AlertInv'
  <2>1. CASE DropStart
    BY <1>0, <2>1 DEF DropStart, SleepInv, AlertInv
  <2>2. CASE DropWake \/ DropDrain
    <3>1. \A p \in Pollers : pc[p] \in {"off", "gone"}
      BY <2>2 DEF DropInv, PollersGone, DropWake, DropDrain
    <3>2. \A p \in Pollers : sleeping[p] = 0
      BY <3>1 DEF ControlInv, PollerOK, IsUp
    <3>3. sleepers.count = 0
      BY <3>2, ListLengths DEF SleepInv, UsedBy
    <3> QED BY <1>0, <3>3 DEF AlertInv, SleeperIsNotified
  <2> QED BY <2>1, <2>2
<1> QED BY <1>0, <1>1 DEF SleepInv, Hits, AsleepInv, FlagInv

\* The invariant of the Sleeper is inductive, given where the actors are.
LEMMA SleepInvStep ==
    ASSUME ControlInv, DropInv, SleepInv, [Next]_vars PROVE SleepInv'
<1>1. CASE Next
  BY <1>1, QuietSteps, QuietKeeps, NotifyCasKeeps, NotifyLockKeeps, NotifyWakeKeeps, SleepKeeps, SwapKeeps,
     RemoveKeeps, DropKeeps
<1>2. CASE UNCHANGED vars
  BY <1>2 DEF vars, shared, sleepvs, SleepInv, Hits, AsleepInv, FlagInv, AlertInv
<1> QED BY <1>1, <1>2

\* At first nobody sleeps.
LEMMA SleepInvInit == Init => SleepInv
<1> SUFFICES ASSUME Init PROVE SleepInv
  OBVIOUS
<1>1. SleeperOK(sleepers, sleeping)
  <2>1. sleepers = NoSleepers /\ sleeping = [p \in Pollers |-> 0]
    BY DEF Init
  <2>2. NoSleepers \in SleeperSet /\ NoSleepers.count = 0 /\ NoSleepers.wakers = <<>> /\ NoSleepers.free_ids = <<>>
    BY DEF NoSleepers, SleeperSet
  <2>3. UsedBy(sleeping) = {}
    BY <2>1 DEF UsedBy
  <2>4. Cardinality(UsedBy(sleeping)) = 0
    BY <2>3, FS_EmptySet
  <2> QED BY <2>1, <2>2, <2>4 DEF SleeperOK, IdsOK, WakersOK
<1>2. Hits /\ AsleepInv
  BY DEF Init, Hits, AsleepInv, Actors
<1>3. FlagInv /\ AlertInv
  BY DEF Init, FlagInv, AlertInv, SleeperIsNotified, NoSleepers
<1> QED BY <1>1, <1>2, <1>3 DEF SleepInv

\* Everything the invariants say of the executor.
ExecutorInv == Conserved /\ DropInv /\ SleepInv

\* The invariant of the executor holds in every reachable state.
LEMMA ExecutorInvHolds == Spec => []ExecutorInv
<1>1. Init => ExecutorInv
  <2>1. Init => DropInv
    BY DEF Init, DropInv, PollersGone, TasksKnown
  <2> QED BY <2>1, ControlInit, PlacesInit, SleepInvInit DEF Conserved, ExecutorInv
<1>2. ExecutorInv /\ [Next]_vars => ExecutorInv'
  BY ConservedStep, DropInvStep, SleepInvStep DEF ExecutorInv, Conserved
<1> QED BY <1>1, <1>2, PTL DEF Spec

\* The ids of the Sleeper: insert, update, remove and notify never let two
\* pollers share an id or free one in use, the count is the number of ids in
\* use, and each waker in the list is that of the poller that sleeps with its
\* id.
THEOREM SleeperIsSound == Spec => []SleeperSound
<1>1. ExecutorInv => SleeperSound
  <2> SUFFICES ASSUME SleeperOK(sleepers, sleeping) PROVE SleeperSound
    BY DEF ExecutorInv, SleepInv
  <2>1. IdsOK(sleepers.count, sleepers.free_ids, sleeping) /\ WakersOK(sleepers.wakers, sleeping)
    BY DEF SleeperOK
  <2> QED BY <2>1 DEF SleeperSound, IdsOK, WakersOK, UsedBy
<1> QED BY <1>1, ExecutorInvHolds, PTL

\* While a Runnable is in the global queue and some poller sleeps, a poller is
\* awake or a thread is about to notify: setting `notified` in notify and
\* swapping it at the end of the critical sections of Ticker never loses the
\* wake-up of a task.
THEOREM NoWakeupIsLost == Spec => []NoLostWakeup
<1>1. ExecutorInv => NoLostWakeup
  <2> SUFFICES ASSUME ControlInv, SleepInv, queue # <<>>, NEW z \in Pollers, pc[z] = "pending",
                      \A p \in Pollers : ~IsAwake(p)
               PROVE  \E h \in Threads : pc[h] \in {"notify", "notify_lock", "notify_wake"}
    BY DEF ExecutorInv, Conserved, NoLostWakeup
  <2>1. \A p \in Pollers : pc[p] \in {"off", "gone"} \/ (pc[p] = "pending" /\ p \notin woken)
    BY DEF IsAwake
  <2>2. \A p \in Pollers : ~IsKeen(pc[p], ret[p])
    BY <2>1 DEF IsKeen, KeenPcs, StealPcs
  <2>3. \A a \in Actors : pc[a] \in {"notify", "notify_lock", "notify_wake"} => a \in Threads
    BY <2>1 DEF Actors
  <2>4. CASE \E a \in Actors : pc[a] \in {"notify", "notify_lock"}
    BY <2>3, <2>4
  <2>5. CASE SleeperIsNotified(sleepers)
    <3>1. SleeperOK(sleepers, sleeping) /\ AsleepInv
      BY DEF SleepInv
    <3>2. sleeping[z] # 0
      BY <2>1, <3>1 DEF AsleepInv
    <3>3. sleepers.count > Len(sleepers.wakers) /\ sleepers.count \in Nat /\ Len(sleepers.wakers) \in Nat
      <4>1. UsedBy(sleeping) # {}
        BY <3>2 DEF UsedBy
      <4> QED BY <2>5, <3>1, <4>1, ListLengths, SleeperParts DEF SleeperIsNotified, SleeperOK
    <3>4. PICK p \in UsedBy(sleeping) : p \notin ListedIn(sleepers.wakers)
      BY <3>1, <3>3, ListLengths
    <3>5. p \in Pollers /\ sleeping[p] # 0
      BY DEF UsedBy
    <3>6. pc[p] \notin {"off", "gone"}
      BY <3>5 DEF ControlInv, PollerOK, IsUp
    <3>7. \E a \in Actors : pc[a] = "notify_wake" /\ hit[a] = p
      BY <2>1, <3>1, <3>4, <3>5, <3>6 DEF AsleepInv
    <3> QED BY <2>3, <3>7
  <2> QED BY <2>2, <2>4, <2>5 DEF SleepInv, AlertInv
<1> QED BY <1>1, ExecutorInvHolds, PTL

-----------------------------------------------------------------------------
(* block_on and the io thread: Worker, for every set of threads in it.     *)

WkTypeOK ==
    /\ ev \in [Blockers -> {"none", "raised", "seen"}]
    /\ bpc \in [Blockers -> {"poll", "zero", "try0", "try", "look", "looked", "arm", "check", "wait",
                             "waited", "hand_over", "park", "end", "left", "returned"}]
    /\ stub \subseteq Blockers /\ cached \subseteq Blockers /\ flag \in BOOLEAN
    /\ waking \in [Callers -> SUBSET Blockers] /\ mid \in [Callers -> Blockers \cup {None}]

\* who uses the poller has its lock
LockHeld ==
    /\ \A b \in Blockers :
          bpc[b] \in {"look", "looked", "arm", "check", "wait", "waited"} => holder = b
    /\ iopc \in {"react", "reacted"} => holder = "io"

\* only a thread that has just polled the reactor has wakers to call
WakesInReact ==
    /\ \A b \in Blockers : waking[b] # {} => bpc[b] \in {"looked", "waited"}
    /\ waking["io"] # {} => iopc = "reacted"

\* from its poll on, a future that has missed its event is to be woken
Missed ==
    \A b \in Blockers :
       bpc[b] \in {"zero", "try", "arm", "check", "wait", "waited", "hand_over", "park"} /\ ev[b] = "seen"
          => b \in token \/ \E c \in Callers : b \in waking[c]

\* and who was woken does not stay in the poller
Interrupted ==
    \A b \in Blockers :
       /\ bpc[b] \in {"check", "wait"} => b \in stub
       /\ bpc[b] = "wait" /\ b \in token => flag \/ \E c \in Callers : mid[c] = b

WkInv == WkTypeOK /\ LockHeld /\ WakesInReact /\ Missed /\ Interrupted

USE DEF None, Callers

\* Nobody waits, and nobody is to be woken, at first.
LEMMA InitHolds == WkInit => WkInv
  BY ZenonT(60), BlockersAssumption DEF WkInit, WkInv, WkTypeOK, LockHeld, WakesInReact, Missed, Interrupted

\* An event comes: the future is awake or the thread it came from has its waker.
LEMMA OccursHolds == ASSUME WkInv, NEW b \in Blockers, Occurs(b) PROVE WkInv'
<1>1. WkTypeOK'
  BY DEF Occurs, WkInv, WkTypeOK
<1>2. LockHeld' /\ WakesInReact'
  BY BlockersAssumption DEF Occurs, WkInv, WkTypeOK, LockHeld, WakesInReact
<1>3. Missed'
  BY BlockersAssumption DEF Occurs, WkInv, WkTypeOK, Missed
<1>4. Interrupted'
  BY DEF Occurs, WkInv, Interrupted
<1> QED BY <1>1, <1>2, <1>3, <1>4 DEF WkInv

\* A call of a waker unparks its thread, and notifies the poller next unless the
\* thread polls the reactor itself, when no other thread can be in the poller.
LEMMA CallWakerHolds == ASSUME WkInv, NEW c \in Callers, CallWaker(c) PROVE WkInv'
<1> PICK b \in waking[c] :
          /\ waking' = [waking EXCEPT ![c] = @ \ {b}] /\ token' = token \cup {b}
          /\ mid' = IF b \in token \/ c \in cached THEN mid ELSE [mid EXCEPT ![c] = b]
  BY DEF CallWaker
<1>0. b \in Blockers /\ mid[c] = None
  BY DEF WkInv, WkTypeOK, CallWaker
<1>1. WkTypeOK'
  BY <1>0 DEF CallWaker, WkInv, WkTypeOK
<1>2. LockHeld' /\ WakesInReact'
  BY BlockersAssumption DEF CallWaker, WkInv, WkTypeOK, LockHeld, WakesInReact
<1>3. Missed'
  BY DEF CallWaker, WkInv, WkTypeOK, Missed
<1>4. ASSUME NEW x \in Blockers, bpc[x] = "wait", x \in token' PROVE flag \/ \E d \in Callers : mid'[d] = x
  <2>1. CASE x \in token
    <3>1. CASE flag
      BY <3>1
    <3>2. PICK d \in Callers : mid[d] = x \/ flag
      BY <2>1, <1>4 DEF WkInv, Interrupted
    <3>3. CASE mid[d] = x
      <4>1. d # c
        BY <1>0, <3>3, BlockersAssumption
      <4>2. mid'[d] = x
        BY <3>3, <4>1 DEF WkInv, WkTypeOK
      <4> QED BY <4>2
    <3> QED BY <3>1, <3>2, <3>3
  <2>2. CASE x \notin token
    <3>1. x = b
      BY <1>4, <2>2
    <3>2. c \notin cached
      <4> SUFFICES ASSUME c \in cached PROVE FALSE
        OBVIOUS
      <4>1. c \in Blockers /\ waking[c] # {}
        BY DEF WkInv, WkTypeOK
      <4>2. bpc[c] \in {"looked", "waited"}
        BY <4>1 DEF WkInv, WakesInReact
      <4>3. holder = c /\ holder = x
        BY <4>1, <4>2, <1>4 DEF WkInv, LockHeld
      <4> QED BY <4>2, <4>3, <1>4
    <3>3. mid'[c] = x
      BY <2>2, <3>1, <3>2 DEF WkInv, WkTypeOK
    <3> QED BY <3>3
  <2> QED BY <2>1, <2>2
<1>5. Interrupted'
  BY <1>4 DEF CallWaker, WkInv, Interrupted
<1> QED BY <1>1, <1>2, <1>3, <1>5 DEF WkInv

\* The poller is notified while block_stub says that the thread is in it.
LEMMA NotifyPollerHolds == ASSUME WkInv, NEW c \in Callers, NotifyPoller(c) PROVE WkInv'
<1>1. WkTypeOK'
  BY DEF NotifyPoller, WkInv, WkTypeOK
<1>2. LockHeld' /\ WakesInReact' /\ Missed'
  BY DEF NotifyPoller, WkInv, LockHeld, WakesInReact, Missed
<1>3. ASSUME NEW x \in Blockers, bpc[x] = "wait", x \in token PROVE flag' \/ \E d \in Callers : mid'[d] = x
  <2>1. flag \/ \E d \in Callers : mid[d] = x
    BY <1>3 DEF WkInv, Interrupted
  <2>2. x \in stub
    BY <1>3 DEF WkInv, Interrupted
  <2> QED BY ZenonT(60), <2>1, <2>2 DEF NotifyPoller, WkInv, WkTypeOK
<1>4. Interrupted'
  BY <1>3 DEF NotifyPoller, WkInv, Interrupted
<1> QED BY <1>1, <1>2, <1>4 DEF WkInv

\* A thread that polls the reactor has its lock, so no other one misses the
\* notification it takes away, and has called all the wakers of its last poll.
LEMMA ReactHolds ==
    ASSUME WkInv, NEW b \in Blockers, Look(b) \/ Wait(b) PROVE WkInv'
<1>0. holder = b /\ waking[b] = {} /\ b # "io"
  BY BlockersAssumption DEF Look, Wait, At, WkInv, LockHeld, WakesInReact
<1>1. WkTypeOK'
  <2>1. PICK to \in {"looked", "waited"} : Move(b, to)
    BY DEF Look, Wait
  <2>2. bpc' \in [Blockers -> {"poll", "zero", "try0", "try", "look", "looked", "arm", "check", "wait",
                               "waited", "hand_over", "park", "end", "left", "returned"}]
    BY <2>1 DEF Move, WkInv, WkTypeOK
  <2>3. PICK wait : Reports(b, wait)
    BY DEF Look, Wait
  <2> QED BY <2>2, <2>3 DEF Reports, Raised, WkInv, WkTypeOK
<1>2. LockHeld' /\ WakesInReact'
  BY <1>0, BlockersAssumption DEF Look, Wait, At, Reports, Move, Raised, WkInv, WkTypeOK, LockHeld, WakesInReact
<1>3. Missed'
  BY <1>0, BlockersAssumption DEF Look, Wait, At, Reports, Move, Raised, WkInv, WkTypeOK, Missed
<1>4. Interrupted'
  BY <1>0, BlockersAssumption DEF Look, Wait, At, Reports, Move, WkInv, WkTypeOK, LockHeld, Interrupted
<1> QED BY <1>1, <1>2, <1>3, <1>4 DEF WkInv

\* So does cynthia-io.
LEMMA IoReactHolds == ASSUME WkInv, IoReact PROVE WkInv'
<1>0. holder = "io" /\ waking["io"] = {} /\ "io" \notin Blockers
  BY BlockersAssumption DEF IoReact, WkInv, LockHeld, WakesInReact
<1>1. WkTypeOK'
  BY DEF IoReact, Reports, Raised, WkInv, WkTypeOK
<1>2. LockHeld' /\ WakesInReact'
  BY <1>0 DEF IoReact, Reports, Raised, WkInv, WkTypeOK, LockHeld, WakesInReact
<1>3. Missed'
  BY <1>0 DEF IoReact, Reports, Raised, WkInv, WkTypeOK, Missed
<1>4. Interrupted'
  BY <1>0 DEF IoReact, Reports, WkInv, WkTypeOK, LockHeld, Interrupted
<1> QED BY <1>1, <1>2, <1>3, <1>4 DEF WkInv

\* The steps of block_on between two calls of react.
LEMMA BlockOnHolds ==
    ASSUME WkInv, NEW b \in Blockers,
           \/ PollFuture(b) \/ Zero(b) \/ TryLook(b) \/ TryWait(b) \/ Arm(b) \/ Looked(b) \/ Check(b)
           \/ CheckAgain(b) \/ HandOver(b) \/ Park(b) \/ Leave(b) \/ LeaveWake(b)
    PROVE  WkInv'
<1>0. UNCHANGED <<ev, waking, mid, flag, iopc>>
  BY DEF PollFuture, Zero, TryLook, TryWait, Arm, Looked, Check, CheckAgain, HandOver, Park, Leave, LeaveWake, Break, Io
<1>1. WkTypeOK'
  BY <1>0 DEF PollFuture, Zero, TryLook, TryWait, Arm, Looked, Check, CheckAgain, HandOver, Park, Leave, LeaveWake,
              Break, Move, WkInv, WkTypeOK
<1>2. LockHeld'
  BY <1>0, BlockersAssumption
     DEF PollFuture, Zero, TryLook, TryWait, Arm, Looked, Check, CheckAgain, HandOver, Park, Leave, LeaveWake,
         Break, Move, At, WkInv, WkTypeOK, LockHeld
<1>3. WakesInReact'
  BY <1>0 DEF PollFuture, Zero, TryLook, TryWait, Arm, Looked, Check, CheckAgain, HandOver, Park, Leave, LeaveWake,
              Break, Move, At, Called, WkInv, WkTypeOK, WakesInReact
<1>4. Missed'
  BY <1>0, BlockersAssumption
     DEF PollFuture, Zero, TryLook, TryWait, Arm, Looked, Check, CheckAgain, HandOver, Park, Leave, LeaveWake,
         Break, Move, At, WkInv, WkTypeOK, Missed
<1>5. Interrupted'
  BY <1>0, BlockersAssumption
     DEF PollFuture, Zero, TryLook, TryWait, Arm, Looked, Check, CheckAgain, HandOver, Park, Leave, LeaveWake,
         Break, Move, At, WkInv, WkTypeOK, Interrupted
<1> QED BY <1>1, <1>2, <1>3, <1>4, <1>5 DEF WkInv

\* The steps of cynthia-io between two calls of react.
LEMMA IoHolds == ASSUME WkInv, IoTick \/ IoLock \/ IoReacted \/ IoCount \/ IoPark PROVE WkInv'
<1>0. UNCHANGED <<ev, bpc, stub, cached, waking, mid, flag>> /\ token \cap Blockers \subseteq token'
                /\ token' \subseteq token
  BY BlockersAssumption DEF IoTick, IoLock, IoReacted, IoCount, IoPark, IoStep
<1>1. LockHeld'
  BY <1>0, BlockersAssumption DEF IoTick, IoLock, IoReacted, IoCount, IoPark, IoStep, WkInv, LockHeld
<1>2. WakesInReact'
  BY <1>0 DEF IoTick, IoLock, IoReacted, IoCount, IoPark, IoStep, Called, WkInv, WakesInReact
<1>3. WkTypeOK' /\ Missed' /\ Interrupted'
  BY <1>0 DEF WkInv, WkTypeOK, Missed, Interrupted
<1> QED BY <1>1, <1>2, <1>3 DEF WkInv

\* Every step preserves the invariant.
LEMMA StepHolds == WkInv /\ [WkNext]_wkvars => WkInv'
<1> SUFFICES ASSUME WkInv, [WkNext]_wkvars PROVE WkInv'
  OBVIOUS
<1>1. CASE UNCHANGED wkvars
  BY <1>1 DEF wkvars, WkInv, WkTypeOK, LockHeld, WakesInReact, Missed, Interrupted
<1>2. ASSUME NEW c \in Callers, Calls(c) PROVE WkInv'
  BY <1>2, CallWakerHolds, NotifyPollerHolds DEF Calls
<1>3. ASSUME NEW b \in Blockers, Occurs(b) \/ BlockOn(b) PROVE WkInv'
  <2>1. b \in Callers
    OBVIOUS
  <2> QED BY <1>2, <1>3, <2>1, OccursHolds, ReactHolds, BlockOnHolds DEF BlockOn
<1>4. ASSUME CycleEntry \/ Calls("other") PROVE WkInv'
  BY <1>2, <1>4, IoReactHolds, IoHolds DEF CycleEntry
<1> QED BY <1>1, <1>3, <1>4 DEF WkNext

\* A thread that sleeps in block_on, in the poller or on its parker, is never
\* left there once its event has come: it is about to be woken, and a call that
\* unparked a thread in the poller has notified the poller or is about to,
\* however many threads and cynthia-io compete for the reactor.
THEOREM WokenAreSeen == WkSpec => []WokenIsSeen
<1>1. WkInit => WkInv
  BY InitHolds
<1>2. WkInv /\ [WkNext]_wkvars => WkInv'
  BY StepHolds
<1>3. WkInv => WokenIsSeen
  BY DEF WkInv, Missed, Interrupted, WokenIsSeen, Sleeping
<1> QED BY <1>1, <1>2, <1>3, PTL DEF WkSpec
=============================================================================
