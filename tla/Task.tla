-------------------------------- MODULE Task --------------------------------
(***************************************************************************)
(* The life of one spawned task: runtime/task/{raw,header,task,runnable}.rs *)
(*                                                                         *)
(* A task is one heap cell reached through three kinds of pointers: the    *)
(* Runnable (a permit to poll, held by the executor's queue or by the      *)
(* thread that polls), the Wakers cloned out of it and the Task handle.    *)
(* They synchronise on the word `state` of the header only, so one action  *)
(* below is one atomic access of that word together with the private code  *)
(* around it.  A compare-exchange loop is the one action of its last       *)
(* iteration: the word is compared as a whole, so its decisions were taken *)
(* on the value it replaces.                                               *)
(***************************************************************************)
EXTENDS Integers, FiniteSets

CONSTANTS
    Runners,     \* threads that take a Runnable and run or drop it
    Wakers,      \* places where a clone of the task's Waker may be kept
    Parents,     \* wakers of the tasks that may await the handle
    NoWaker,     \* None in Header.awaiter
    Handle,      \* the owner of the Task<T>
    SizedSched,  \* mem::size_of::<S>() > 0 for the schedule closure
    MayPanic     \* whether the future's poll may panic

ASSUME ActorsAssumption ==
    /\ IsFiniteSet(Runners) /\ IsFiniteSet(Wakers)
    /\ Runners \cap Wakers = {}
    /\ Handle \notin Runners \cup Wakers
    /\ NoWaker \notin Parents
    /\ SizedSched \in BOOLEAN /\ MayPanic \in BOOLEAN

Actors == Runners \cup Wakers \cup {Handle}

VARIABLES
    hdr,     \* Header.state, one field per bit and the reference count
    slot,    \* Header.awaiter
    mem,     \* the allocation: "live" or "freed"
    future,  \* "live", "dropped", or "twice" when dropped again
    output,  \* "none", "live", "moved" (read or dropped), or "twice"
    queue,   \* how many Runnables of this task the executor's queue holds
    pc,      \* where each actor is
    got,     \* the awaiter an actor took out and has yet to wake
    poller,  \* the waker of the handle's latest poll
    goal,    \* why the handle is in set_canceled / poll_task / notify
    woken,   \* parents' wakers that were woken since their last poll
    due      \* a wake() not yet followed by a poll

vars == <<hdr, slot, mem, future, output, queue, pc, got, poller, goal, woken, due>>
cell == <<slot, mem, future, output>>
side == <<queue, poller, goal, woken, due>>

Goto(a, l) == pc' = [pc EXCEPT ![a] = l]

DropFuture == future' = IF future = "live" THEN "dropped" ELSE "twice"
MoveOutput == output' = IF output = "live" THEN "moved" ELSE "twice"

(***************************************************************************)
(* What the operations write into the header word.                         *)
(***************************************************************************)

\* RawTask::allocate: SCHEDULED | TASK | REFERENCE
NewHdr == [sched |-> TRUE, run |-> FALSE, comp |-> FALSE, closed |-> FALSE,
           task |-> TRUE, awaiter |-> FALSE, reg |-> FALSE, notif |-> FALSE,
           ref |-> 1]

\* SCHEDULED | CLOSED | REFERENCE, stored when the last pointer goes away
\* while the future is alive: one more run, to drop the future.
LastRunHdr == [NewHdr EXCEPT !.task = FALSE, !.closed = TRUE]

Finished(h) == h.comp \/ h.closed

\* run: a clear SCHEDULED and a set RUNNING
StartRunHdr(h) == [h EXCEPT !.sched = FALSE, !.run = TRUE]

\* run, Poll::Ready
ReadyHdr(h) == [h EXCEPT !.run = FALSE, !.sched = FALSE, !.comp = TRUE,
                         !.closed = @ \/ ~h.task]

\* run, Poll::Pending: a wake-up that came during the poll stays in SCHEDULED
PendingHdr(h) == IF h.closed
                 THEN [h EXCEPT !.run = FALSE, !.sched = FALSE]
                 ELSE [h EXCEPT !.run = FALSE]

\* Guard::drop: the poll panicked
PanicHdr(h) == [h EXCEPT !.run = FALSE, !.sched = FALSE, !.closed = TRUE]

\* mutants: the new Runnable is not counted; a wake-up during a poll is dropped
WakeUncounted(h) == IF Finished(h) THEN h ELSE [h EXCEPT !.sched = TRUE]
WakeIgnoredWhileRunning(h) ==
    IF Finished(h) \/ h.sched \/ h.run THEN h
    ELSE [h EXCEPT !.sched = TRUE, !.ref = @ + 1]

\* wake_by_ref
WakeByRefHdr(h) == IF Finished(h) \/ h.sched THEN h
                   ELSE IF h.run THEN [h EXCEPT !.sched = TRUE]
                   ELSE [h EXCEPT !.sched = TRUE, !.ref = @ + 1]

\* Task::set_canceled
CancelHdr(h) == IF Finished(h) THEN h
                ELSE IF h.sched \/ h.run THEN [h EXCEPT !.closed = TRUE]
                ELSE [h EXCEPT !.sched = TRUE, !.closed = TRUE, !.ref = @ + 1]

\* mutant: RUNNING is not looked at
RunnableWhileRunning(h) == ~Finished(h) /\ ~h.sched

\* a wake-up makes a Runnable exactly when nobody has one
MakesRunnable(h) == ~Finished(h) /\ ~h.sched /\ ~h.run

\* mutant: the handle is forgotten
LastRefNoTask(h) == h.ref = 0

LastRef(h) == h.ref = 0 /\ ~h.task

-----------------------------------------------------------------------------
Init ==
    /\ hdr = NewHdr /\ slot = NoWaker
    /\ mem = "live" /\ future = "live" /\ output = "none"
    /\ queue = 1                   \* the Runnable of spawn, scheduled at once
    /\ pc = [a \in Actors |-> IF a \in Wakers THEN "none" ELSE "idle"]
    /\ got = [a \in Actors |-> NoWaker]
    /\ poller = NoWaker /\ goal = "none" /\ woken = {} /\ due = FALSE

(***************************************************************************)
(* Header::take in two steps: announce NOTIFYING, then empty the slot and  *)
(* clear the bit.  `in` is where the caller is, `hit` where it goes when   *)
(* the slot is its own, `miss` where it goes when another actor is at it.  *)
(***************************************************************************)
\* mutant: take does not respect REGISTERING
TakeDuringRegister(a, in, hit, miss) ==
    /\ pc[a] = in
    /\ hdr' = [hdr EXCEPT !.notif = TRUE]
    /\ Goto(a, IF ~hdr.notif THEN hit ELSE miss)
    /\ UNCHANGED <<cell, side, got>>

TakeBegin(a, in, hit, miss) ==
    /\ pc[a] = in
    /\ hdr' = [hdr EXCEPT !.notif = TRUE]
    /\ Goto(a, IF ~hdr.notif /\ ~hdr.reg THEN hit ELSE miss)
    /\ UNCHANGED <<cell, side, got>>

TakenHdr(h) == [h EXCEPT !.notif = FALSE, !.awaiter = FALSE]

TakeEnd(a, in, next) ==
    /\ pc[a] = in
    /\ hdr' = TakenHdr(hdr)
    /\ slot' = NoWaker
    /\ got' = [got EXCEPT ![a] = slot]
    /\ Goto(a, next)
    /\ UNCHANGED <<mem, future, output, side>>

\* mutant: an empty slot is woken
WakeNone(a, in, next) ==
    /\ pc[a] = in
    /\ woken' = woken \cup {got[a]}
    /\ got' = [got EXCEPT ![a] = NoWaker]
    /\ Goto(a, next)
    /\ UNCHANGED <<hdr, cell, queue, poller, goal, due>>

\* the taken awaiter is woken, if there is one
WakeTaken(a, in, next) ==
    /\ pc[a] = in
    /\ woken' = woken \cup ({got[a]} \ {NoWaker})
    /\ got' = [got EXCEPT ![a] = NoWaker]
    /\ Goto(a, next)
    /\ UNCHANGED <<hdr, cell, queue, poller, goal, due>>

(***************************************************************************)
(* RawTask::schedule: a closure with state is protected by a Waker clone   *)
(* while it pushes the Runnable.                                           *)
(***************************************************************************)
Schedule(a, in, push) ==
    /\ pc[a] = in
    /\ hdr' = IF SizedSched THEN [hdr EXCEPT !.ref = @ + 1] ELSE hdr
    /\ Goto(a, push)
    /\ UNCHANGED <<cell, side, got>>

Push(a, in, next) ==
    /\ pc[a] = in
    /\ queue' = queue + 1
    /\ Goto(a, next)
    /\ UNCHANGED <<hdr, cell, got, poller, goal, woken, due>>

\* drop_waker, whose last reference schedules an unfinished task once more
DropWaker(a, in, resched, next) ==
    /\ pc[a] = in
    /\ LET h == [hdr EXCEPT !.ref = @ - 1]
       IN  \/ /\ ~LastRef(h)
              /\ hdr' = h /\ Goto(a, next) /\ UNCHANGED mem
           \/ /\ LastRef(h) /\ ~Finished(h)
              /\ hdr' = LastRunHdr /\ Goto(a, resched) /\ UNCHANGED mem
           \/ /\ LastRef(h) /\ Finished(h)
              /\ hdr' = h /\ mem' = "freed" /\ Goto(a, next)
    /\ UNCHANGED <<slot, future, output, side, got>>

\* drop_ref, whose last reference destroys the cell
DropRef(a, in, next) ==
    /\ pc[a] = in
    /\ LET h == [hdr EXCEPT !.ref = @ - 1]
       IN  /\ hdr' = h
           /\ mem' = IF LastRef(h) THEN "freed" ELSE mem
    /\ Goto(a, next)
    /\ UNCHANGED <<slot, future, output, side, got>>

\* mutant: a cancelled task does not notify
TakeIfOpen(h) == IF h.awaiter /\ ~h.closed THEN "take" ELSE "drop_ref"

TakeIf(h) == IF h.awaiter THEN "take" ELSE "drop_ref"

-----------------------------------------------------------------------------
(***************************************************************************)
(* A thread with a Runnable: RawTask::run, or Drop for Runnable.           *)
(***************************************************************************)

\* run() it, drop it ("discard"), or schedule() it again ("resched")
Pop(r, l) ==
    /\ pc[r] = "idle" /\ queue > 0
    /\ queue' = queue - 1
    /\ Goto(r, l)
    /\ UNCHANGED <<hdr, cell, got, poller, goal, woken, due>>

\* mutant: the future of a cancelled task is not dropped
RunClosedKeep(r) ==
    /\ pc[r] = "run" /\ hdr.closed
    /\ Goto(r, "run_closed")
    /\ UNCHANGED <<hdr, cell, side, got>>

RunClosed(r) ==
    /\ pc[r] = "run" /\ hdr.closed
    /\ DropFuture
    /\ Goto(r, "run_closed")
    /\ UNCHANGED <<hdr, slot, mem, output, side, got>>

RunClosedEnd(r) ==
    /\ pc[r] = "run_closed"
    /\ hdr' = [hdr EXCEPT !.sched = FALSE]
    /\ Goto(r, TakeIf(hdr))
    /\ UNCHANGED <<cell, side, got>>

RunStart(r) ==
    /\ pc[r] = "run" /\ ~hdr.closed
    /\ hdr' = StartRunHdr(hdr)
    /\ due' = FALSE
    /\ Goto(r, "polling")
    /\ UNCHANGED <<cell, queue, poller, goal, woken, got>>

\* the future keeps a clone of the waker it is polled with
PollClone(r, w) ==
    /\ pc[r] = "polling" /\ pc[w] = "none"
    /\ hdr' = [hdr EXCEPT !.ref = @ + 1]
    /\ Goto(w, "held")
    /\ UNCHANGED <<cell, side, got>>

\* the future wakes itself while it is polled, as yield_now does
PollYield(r) ==
    /\ pc[r] = "polling"
    /\ hdr' = WakeByRefHdr(hdr)
    /\ due' = (due \/ ~Finished(hdr))
    /\ UNCHANGED <<cell, queue, poller, goal, woken, pc, got>>

PollReady(r) ==
    /\ pc[r] = "polling"
    /\ DropFuture
    /\ output' = "live"
    /\ Goto(r, "ready")
    /\ UNCHANGED <<hdr, slot, mem, side, got>>

PollPending(r) ==
    /\ pc[r] = "polling"
    /\ Goto(r, "pending")
    /\ UNCHANGED <<hdr, cell, side, got>>

PollPanic(r) ==
    /\ MayPanic
    /\ pc[r] = "polling"
    /\ Goto(r, "guard")
    /\ UNCHANGED <<hdr, cell, side, got>>

\* mutant: run leaves the output to a handle that was cancelled meanwhile
ReadyKeepsOutput(r) ==
    /\ pc[r] = "ready"
    /\ hdr' = ReadyHdr(hdr)
    /\ IF ~hdr.task THEN MoveOutput ELSE UNCHANGED output
    /\ Goto(r, TakeIf(hdr))
    /\ UNCHANGED <<slot, mem, future, side, got>>

Ready(r) ==
    /\ pc[r] = "ready"
    /\ hdr' = ReadyHdr(hdr)
    /\ IF ~hdr.task \/ hdr.closed THEN MoveOutput ELSE UNCHANGED output
    /\ Goto(r, TakeIf(hdr))
    /\ UNCHANGED <<slot, mem, future, side, got>>

\* the future of a closed task is dropped before RUNNING is cleared
PendingClosed(r) ==
    /\ pc[r] = "pending" /\ hdr.closed
    /\ DropFuture
    /\ Goto(r, "pending_closed")
    /\ UNCHANGED <<hdr, slot, mem, output, side, got>>

PendingClosedEnd(r) ==
    /\ pc[r] = "pending_closed"
    /\ hdr' = PendingHdr(hdr)
    /\ Goto(r, TakeIf(hdr))
    /\ UNCHANGED <<cell, side, got>>

Pending(r) ==
    /\ pc[r] = "pending" /\ ~hdr.closed
    /\ hdr' = PendingHdr(hdr)
    /\ Goto(r, IF hdr.sched THEN "resched" ELSE "drop_ref")
    /\ UNCHANGED <<cell, side, got>>

\* Guard::drop; when it finds the task closed it decides on the awaiter with
\* the word it loaded, not with the one fetch_and returns.
GuardClosed(r) ==
    /\ pc[r] = "guard" /\ hdr.closed
    /\ DropFuture
    /\ Goto(r, IF hdr.awaiter THEN "guard_take" ELSE "guard_skip")
    /\ UNCHANGED <<hdr, slot, mem, output, side, got>>

GuardClosedEnd(r) ==
    /\ pc[r] \in {"guard_take", "guard_skip"}
    /\ hdr' = [hdr EXCEPT !.run = FALSE, !.sched = FALSE]
    /\ Goto(r, IF pc[r] = "guard_take" THEN "take" ELSE "drop_ref")
    /\ UNCHANGED <<cell, side, got>>

Guard(r) ==
    /\ pc[r] = "guard" /\ ~hdr.closed
    /\ hdr' = PanicHdr(hdr)
    /\ Goto(r, IF hdr.awaiter THEN "guard_drop_take" ELSE "guard_drop")
    /\ UNCHANGED <<cell, side, got>>

GuardDrop(r) ==
    /\ pc[r] \in {"guard_drop", "guard_drop_take"}
    /\ DropFuture
    /\ Goto(r, IF pc[r] = "guard_drop_take" THEN "take" ELSE "drop_ref")
    /\ UNCHANGED <<hdr, slot, mem, output, side, got>>

\* Drop for Runnable: close, drop the future, clear SCHEDULED, notify
Discard(r) ==
    /\ pc[r] = "discard"
    /\ hdr' = IF Finished(hdr) THEN hdr ELSE [hdr EXCEPT !.closed = TRUE]
    /\ DropFuture
    /\ Goto(r, "discard_end")
    /\ UNCHANGED <<slot, mem, output, side, got>>

DiscardEnd(r) ==
    /\ pc[r] = "discard_end"
    /\ hdr' = [hdr EXCEPT !.sched = FALSE]
    /\ Goto(r, IF hdr.awaiter THEN "d_take" ELSE "drop_ref")
    /\ UNCHANGED <<cell, side, got>>

PollEnd(r) == PollReady(r) \/ PollPending(r) \/ PollPanic(r)

RunnerStep(r) ==
    \/ RunClosed(r) \/ RunClosedEnd(r) \/ RunStart(r)
    \/ Ready(r) \/ PendingClosed(r) \/ PendingClosedEnd(r) \/ Pending(r)
    \/ GuardClosed(r) \/ GuardClosedEnd(r) \/ Guard(r) \/ GuardDrop(r)
    \/ Discard(r) \/ DiscardEnd(r)
    \* run notifies the awaiter after it gave up its reference
    \/ TakeBegin(r, "take", "taking", "drop_ref")
    \/ TakeEnd(r, "taking", "drop_ref")
    \/ DropRef(r, "drop_ref", "wake")
    \/ WakeTaken(r, "wake", "idle")
    \* Drop for Runnable notifies before
    \/ TakeBegin(r, "d_take", "d_taking", "drop_ref")
    \/ TakeEnd(r, "d_taking", "d_wake")
    \/ WakeTaken(r, "d_wake", "drop_ref")
    \/ Schedule(r, "resched", "push")
    \/ Push(r, "push", IF SizedSched THEN "drop_waker" ELSE "idle")
    \/ DropWaker(r, "drop_waker", "resched", "idle")

-----------------------------------------------------------------------------
(***************************************************************************)
(* A kept Waker: the RawWakerVTable.                                       *)
(***************************************************************************)

CloneWaker(w, v) ==
    /\ pc[w] = "held" /\ pc[v] = "none"
    /\ hdr' = [hdr EXCEPT !.ref = @ + 1]
    /\ Goto(v, "held")
    /\ UNCHANGED <<cell, side, got>>

\* wake_by_ref, and wake when the schedule closure has state
WakeByRef(w, push, done) ==
    /\ pc[w] = "held"
    /\ hdr' = WakeByRefHdr(hdr)
    /\ due' = (due \/ ~Finished(hdr))
    /\ Goto(w, IF MakesRunnable(hdr) THEN push ELSE done)
    /\ UNCHANGED <<cell, queue, poller, goal, woken, got>>

\* wake with a zero-sized closure hands its own reference to the Runnable
WakeZst(w) ==
    /\ pc[w] = "held"
    /\ hdr' = IF Finished(hdr) THEN hdr ELSE [hdr EXCEPT !.sched = TRUE]
    /\ due' = (due \/ ~Finished(hdr))
    /\ Goto(w, IF MakesRunnable(hdr) THEN "resched" ELSE "drop_waker")
    /\ UNCHANGED <<cell, queue, poller, goal, woken, got>>

WakerOp(w) ==
    \/ \E v \in Wakers : CloneWaker(w, v)
    \/ WakeByRef(w, "wake_ref_push", "held")
    \/ SizedSched /\ WakeByRef(w, "wake_push", "drop_waker")
    \/ ~SizedSched /\ WakeZst(w)
    \/ DropWaker(w, "held", "resched", "none")

WakerStep(w) ==
    \/ Push(w, "wake_ref_push", "held")
    \/ Push(w, "wake_push", "drop_waker")
    \/ Schedule(w, "resched", "push")
    \/ Push(w, "push", IF SizedSched THEN "drop_waker" ELSE "none")
    \/ DropWaker(w, "drop_waker", "resched", "none")

-----------------------------------------------------------------------------
(***************************************************************************)
(* The Task handle: poll, cancel, detach, drop.                            *)
(***************************************************************************)

Resting == {"idle", "waiting"}

\* Future::poll of the handle, or of the future cancel() returned
HandlePoll(p) ==
    /\ pc[Handle] \in Resting
    /\ poller' = p
    /\ woken' = woken \ {p}
    /\ Goto(Handle, "poll")
    /\ UNCHANGED <<hdr, cell, queue, goal, due, got>>

\* poll_task, one turn of its loop
PollTask ==
    /\ pc[Handle] = "poll"
    /\ \/ /\ hdr.closed /\ (hdr.sched \/ hdr.run)
          /\ Goto(Handle, "reg_closed") /\ UNCHANGED <<hdr, output>>
       \/ /\ hdr.closed /\ ~hdr.sched /\ ~hdr.run
          /\ Goto(Handle, "notify_none") /\ UNCHANGED <<hdr, output>>
       \/ /\ ~hdr.closed /\ ~hdr.comp
          /\ Goto(Handle, "reg_open") /\ UNCHANGED <<hdr, output>>
       \/ /\ ~hdr.closed /\ hdr.comp
          /\ hdr' = [hdr EXCEPT !.closed = TRUE]
          /\ Goto(Handle, IF hdr.awaiter THEN "notify_some" ELSE "read")
          /\ UNCHANGED output
    /\ UNCHANGED <<slot, mem, future, side, got>>

\* mutant: after registering, only SCHEDULED is looked at
RecheckSchedOnly ==
    /\ pc[Handle] = "recheck_closed"
    /\ Goto(Handle, IF hdr.sched THEN "waiting" ELSE "notify_none")
    /\ UNCHANGED <<hdr, cell, side, got>>

\* the loads after Header::register
RecheckClosed ==
    /\ pc[Handle] = "recheck_closed"
    /\ Goto(Handle, IF hdr.sched \/ hdr.run THEN "waiting" ELSE "notify_none")
    /\ UNCHANGED <<hdr, cell, side, got>>

RecheckOpen ==
    /\ pc[Handle] = "recheck_open"
    /\ Goto(Handle,
            IF hdr.closed THEN IF hdr.sched \/ hdr.run THEN "reg_closed" ELSE "notify_none"
            ELSE IF hdr.comp THEN "poll" ELSE "waiting")
    /\ UNCHANGED <<hdr, cell, side, got>>

ReadOutput ==
    /\ pc[Handle] = "read"
    /\ MoveOutput
    /\ Goto(Handle, "done")
    /\ UNCHANGED <<hdr, slot, mem, future, side, got>>

\* Header::register: REGISTERING guards the slot, NOTIFYING wakes at once
RegBegin(in, store, recheck) ==
    /\ pc[Handle] = in
    /\ IF hdr.notif
       THEN /\ woken' = woken \cup {poller}
            /\ Goto(Handle, recheck) /\ UNCHANGED hdr
       ELSE /\ hdr' = [hdr EXCEPT !.reg = TRUE]
            /\ Goto(Handle, store) /\ UNCHANGED woken
    /\ UNCHANGED <<cell, queue, poller, goal, due, got>>

RegStore(in, end) ==
    /\ pc[Handle] = in
    /\ slot' = poller
    /\ Goto(Handle, end)
    /\ UNCHANGED <<hdr, mem, future, output, side, got>>

\* a notification that came meanwhile is ours to deliver
RegEndHdr(h) == [h EXCEPT !.reg = FALSE, !.notif = FALSE, !.awaiter = ~h.notif]

RegEnd(in, wake) ==
    /\ pc[Handle] = in
    /\ hdr' = RegEndHdr(hdr)
    /\ slot' = IF hdr.notif THEN NoWaker ELSE slot
    /\ got' = [got EXCEPT ![Handle] = IF hdr.notif THEN slot ELSE NoWaker]
    /\ Goto(Handle, wake)
    /\ UNCHANGED <<mem, future, output, side>>

\* Header::notify(Some(cx.waker())): an awaiter that is the poller is dropped
NotifyTake(in, next) ==
    /\ pc[Handle] = in
    /\ hdr' = TakenHdr(hdr)
    /\ slot' = NoWaker
    /\ woken' = woken \cup ({slot} \ {NoWaker, poller})
    /\ Goto(Handle, next)
    /\ UNCHANGED <<mem, future, output, queue, poller, goal, due, got>>

\* set_canceled, for cancel() and for drop; the awaiter is notified last
Cancel(g) ==
    /\ pc[Handle] \in Resting \cup {"done"}
    /\ g = "cancel" => pc[Handle] # "done" /\ goal # "cancel"
    /\ goal' = g
    /\ hdr' = CancelHdr(hdr)
    /\ LET aw == ~Finished(hdr) /\ hdr.awaiter
       IN  Goto(Handle, IF MakesRunnable(hdr)
                        THEN IF aw THEN "c_sched_aw" ELSE "c_sched"
                        ELSE IF aw THEN "c_take" ELSE "c_done")
    /\ UNCHANGED <<cell, queue, poller, woken, due, got>>

\* cancel() goes on to await the task, drop to set_detached
CancelDone ==
    /\ pc[Handle] = "c_done"
    /\ Goto(Handle, IF goal = "cancel" THEN "idle" ELSE "detach")
    /\ UNCHANGED <<hdr, cell, side, got>>

Detach ==
    /\ pc[Handle] \in Resting \cup {"done"}
    /\ goal # "cancel"
    /\ Goto(Handle, "detach")
    /\ UNCHANGED <<hdr, cell, side, got>>

\* set_detached: take an output nobody read, then give up TASK
DetachOutput ==
    /\ pc[Handle] = "detach" /\ hdr.comp /\ ~hdr.closed
    /\ hdr' = [hdr EXCEPT !.closed = TRUE]
    /\ MoveOutput
    /\ UNCHANGED <<slot, mem, future, side, pc, got>>

\* mutants: a closed task is scheduled once more; nobody destroys the cell
DetachReruns ==
    /\ pc[Handle] = "detach" /\ (~hdr.comp \/ hdr.closed)
    /\ IF hdr.ref = 0
       THEN hdr' = LastRunHdr /\ Goto(Handle, "d_sched")
       ELSE hdr' = [hdr EXCEPT !.task = FALSE] /\ Goto(Handle, "gone")
    /\ UNCHANGED <<cell, side, got>>
DetachLeaks ==
    /\ pc[Handle] = "detach" /\ (~hdr.comp \/ hdr.closed)
    /\ IF hdr.ref = 0 /\ ~hdr.closed
       THEN hdr' = LastRunHdr /\ Goto(Handle, "d_sched")
       ELSE hdr' = [hdr EXCEPT !.task = FALSE] /\ Goto(Handle, "gone")
    /\ UNCHANGED <<cell, side, got>>

DetachTask ==
    /\ pc[Handle] = "detach" /\ (~hdr.comp \/ hdr.closed)
    /\ IF hdr.ref = 0 /\ ~hdr.closed
       THEN hdr' = LastRunHdr /\ Goto(Handle, "d_sched") /\ UNCHANGED mem
       ELSE /\ hdr' = [hdr EXCEPT !.task = FALSE]
            /\ mem' = IF hdr.ref = 0 THEN "freed" ELSE mem
            /\ Goto(Handle, "gone")
    /\ UNCHANGED <<slot, future, output, side, got>>

HandleStep ==
    \/ PollTask \/ RecheckClosed \/ RecheckOpen \/ ReadOutput
    \/ RegBegin("reg_closed", "store_closed", "recheck_closed")
    \/ RegStore("store_closed", "regend_closed")
    \/ RegEnd("regend_closed", "regwake_closed")
    \/ WakeTaken(Handle, "regwake_closed", "recheck_closed")
    \/ RegBegin("reg_open", "store_open", "recheck_open")
    \/ RegStore("store_open", "regend_open")
    \/ RegEnd("regend_open", "regwake_open")
    \/ WakeTaken(Handle, "regwake_open", "recheck_open")
    \/ TakeBegin(Handle, "notify_none", "notifying_none", "done")
    \/ NotifyTake("notifying_none", "done")
    \/ TakeBegin(Handle, "notify_some", "notifying_some", "read")
    \/ NotifyTake("notifying_some", "read")
    \/ Schedule(Handle, "c_sched", "c_push")
    \/ Schedule(Handle, "c_sched_aw", "c_push_aw")
    \/ Push(Handle, "c_push", IF SizedSched THEN "c_drop" ELSE "c_done")
    \/ Push(Handle, "c_push_aw", IF SizedSched THEN "c_drop_aw" ELSE "c_take")
    \/ DropWaker(Handle, "c_drop", "c_sched", "c_done")
    \/ DropWaker(Handle, "c_drop_aw", "c_sched_aw", "c_take")
    \/ TakeBegin(Handle, "c_take", "c_taking", "c_done")
    \/ TakeEnd(Handle, "c_taking", "c_wake")
    \/ WakeTaken(Handle, "c_wake", "c_done")
    \/ CancelDone \/ DetachOutput \/ DetachTask
    \/ Schedule(Handle, "d_sched", "d_push")
    \/ Push(Handle, "d_push", IF SizedSched THEN "d_drop" ELSE "gone")
    \/ DropWaker(Handle, "d_drop", "d_sched", "gone")

Next ==
    \/ \E r \in Runners : \/ Pop(r, "run") \/ Pop(r, "discard") \/ Pop(r, "resched")
                          \/ RunnerStep(r) \/ PollEnd(r) \/ PollYield(r)
                          \/ \E w \in Wakers : PollClone(r, w)
    \/ \E w \in Wakers : WakerOp(w) \/ WakerStep(w)
    \/ \E p \in Parents : HandlePoll(p)
    \/ Cancel("cancel") \/ Cancel("drop") \/ Detach \/ HandleStep

(***************************************************************************)
(* A thread that is inside the code goes on (no lock is ever held across   *)
(* these steps), a poll returns, and executor threads keep running what    *)
(* they pop: a Runnable is rescheduled only when an executor's Runner goes *)
(* away, so not for ever (strong fairness).  What the user calls and when  *)
(* is not fair.                                                            *)
(***************************************************************************)
Fairness ==
    /\ \A r \in Runners : WF_vars(RunnerStep(r)) /\ WF_vars(PollEnd(r))
    /\ SF_vars(\E r \in Runners : Pop(r, "run"))
    /\ \A w \in Wakers : WF_vars(WakerStep(w))
    /\ WF_vars(HandleStep)

Spec == Init /\ [][Next]_vars
FairSpec == Spec /\ Fairness

-----------------------------------------------------------------------------
(***************************************************************************)
(* Properties                                                              *)
(***************************************************************************)

RunnerPcs == {"idle", "run", "discard", "run_closed", "polling", "ready", "pending",
              "pending_closed", "guard", "guard_take", "guard_skip", "guard_drop",
              "guard_drop_take", "discard_end", "take", "taking", "drop_ref", "wake",
              "d_take", "d_taking", "d_wake", "resched", "push", "drop_waker"}
WakerPcs  == {"none", "held", "wake_ref_push", "wake_push", "resched", "push", "drop_waker"}
HandlePcs == {"idle", "waiting", "poll", "reg_closed", "store_closed", "regend_closed",
              "regwake_closed", "recheck_closed", "reg_open", "store_open", "regend_open",
              "regwake_open", "recheck_open", "notify_none", "notifying_none", "notify_some",
              "notifying_some", "read", "done", "c_sched", "c_sched_aw", "c_push",
              "c_push_aw", "c_drop", "c_drop_aw", "c_take", "c_taking", "c_wake", "c_done",
              "detach", "d_sched", "d_push", "d_drop", "gone"}

Header == [sched: BOOLEAN, run: BOOLEAN, comp: BOOLEAN, closed: BOOLEAN, task: BOOLEAN,
           awaiter: BOOLEAN, reg: BOOLEAN, notif: BOOLEAN, ref: Int]

AllPcs == RunnerPcs \cup WakerPcs \cup HandlePcs

\* where poll_task may use the waker it was called with
PollingPcs == {"poll", "reg_closed", "store_closed", "regend_closed", "regwake_closed",
               "recheck_closed", "reg_open", "store_open", "regend_open", "regwake_open",
               "recheck_open"}

PcsOf(a) == IF a \in Runners THEN RunnerPcs ELSE IF a \in Wakers THEN WakerPcs ELSE HandlePcs

\* The type of every variable of the task cell and its actors.
TypeOK ==
    /\ hdr \in Header
    /\ slot \in Parents \cup {NoWaker}
    /\ mem \in {"live", "freed"}
    /\ future \in {"live", "dropped", "twice"}
    /\ output \in {"none", "live", "moved", "twice"}
    /\ queue \in Nat
    /\ pc \in [Actors -> AllPcs]
    /\ \A a \in Actors : pc[a] \in PcsOf(a)
    /\ got \in [Actors -> Parents \cup {NoWaker}]
    /\ poller \in Parents \cup {NoWaker}
    /\ pc[Handle] \in PollingPcs => poller \in Parents
    /\ goal \in {"none", "cancel", "drop"}
    /\ woken \in SUBSET Parents
    /\ due \in BOOLEAN

\* Where an actor owns one reference of the count, and where it owns a second
\* one (the Runnable it is about to push).
RefPcs  == ((RunnerPcs \cup WakerPcs) \ {"idle", "wake", "none"})
           \cup {"c_sched", "c_sched_aw", "c_push", "c_push_aw", "c_drop", "c_drop_aw",
                 "d_sched", "d_push", "d_drop"}
Ref2Pcs == {"wake_ref_push", "wake_push"}
           \cup IF SizedSched THEN {"push", "c_push", "c_push_aw", "d_push"} ELSE {}

At(P) == {a \in Actors : pc[a] \in P}

\* The reference count of raw.rs is exact in every interleaving of clone_waker,
\* drop_waker, drop_ref, wake, run and set_canceled: it is the number of queued
\* Runnables and of references threads own, so it never goes below zero and no
\* pointer is unaccounted for.
RefCountExact == hdr.ref = queue + Cardinality(At(RefPcs)) + Cardinality(At(Ref2Pcs))

\* Where an actor holds the right to poll or to drop the future: from taking or
\* making the Runnable to giving it up.
PermitPcs == {"run", "discard", "run_closed", "polling", "ready", "pending", "pending_closed",
              "guard", "guard_take", "guard_skip", "guard_drop", "guard_drop_take",
              "discard_end", "resched", "push", "wake_ref_push", "wake_push",
              "c_sched", "c_sched_aw", "c_push", "c_push_aw", "d_sched", "d_push"}

\* At most one Runnable of a task exists, in the queue or in a thread's hands,
\* so two threads never poll or drop the same future at once, however wakes,
\* cancellation and polls race.
OneRunnable ==
    /\ queue \in {0, 1}
    /\ queue = 1 => At(PermitPcs) = {}
    /\ \A a, b \in At(PermitPcs) : a = b

\* Where an actor is inside Header::take or Header::register.
TakePcs == {"taking", "d_taking", "c_taking", "notifying_none", "notifying_some"}
RegPcs  == {"store_closed", "regend_closed", "store_open", "regend_open"}

\* Header.awaiter is an unsynchronised UnsafeCell: NOTIFYING and REGISTERING
\* must let at most one actor be inside its critical sections.
SlotExclusive == \A a, b \in At(TakePcs \cup RegPcs) : a = b

\* Where the future is being polled, and where the handle is no more.
RunningPcs  == {"polling", "ready", "pending", "pending_closed", "guard", "guard_take", "guard_skip"}
DetachedPcs == {"d_sched", "d_push", "d_drop", "gone"}

PermitBits == queue = 1 \/ At(PermitPcs) # {} => hdr.sched \/ hdr.run \/ hdr.closed
RunningBit == At(RunningPcs) # {} => hdr.run
NotifyBit  == At(TakePcs) # {} => hdr.notif
HandleBits == /\ hdr.task <=> pc[Handle] \notin DetachedPcs
              /\ hdr.reg <=> pc[Handle] \in RegPcs
FreedAtLast == mem = "freed" <=> LastRef(hdr)

\* The bits of the header word tell the truth about the actors, which is what
\* every operation relies on when it decides by them: a Runnable exists only
\* while SCHEDULED, RUNNING or CLOSED is set, the future is polled only while
\* RUNNING is, TASK is the handle's, NOTIFYING and REGISTERING are set by whoever
\* is at the slot, and the cell is freed exactly when its last pointer is gone.
BitsAgree == PermitBits /\ RunningBit /\ NotifyBit /\ HandleBits /\ FreedAtLast

\* The inductive invariant: the count is exact because only the holder of the
\* permit may clear RUNNING, the permit is unique because the bits agree, and
\* they agree because the count tells who is the last.
IInv == TypeOK /\ RefCountExact /\ OneRunnable /\ SlotExclusive /\ BitsAgree

\* The future is dropped at most once, never while it is polled, and before the
\* cell is freed on the completion, cancel, panic and drop paths.  (A task that
\* is none of these has its future forgotten: run's drop_ref destroys a
\* detached task whose poll returned Pending without keeping a Waker.)
FutureDroppedOnce ==
    /\ future # "twice"
    /\ (\E r \in Runners : pc[r] = "polling") => future = "live"
    /\ mem = "freed" /\ Finished(hdr) => future = "dropped"

\* The output is read or dropped at most once, by run, poll_task or
\* set_detached, and is not lost in a freed cell.
OutputMovedOnce ==
    /\ output # "twice"
    /\ mem = "freed" => output # "live"

\* Future and output are each dropped or moved once, whatever order cancel,
\* detach, drop, run and poll come in.
DroppedOnce == FutureDroppedOnce /\ OutputMovedOnce

\* Nobody touches the cell after destroy: a freed cell has no queued Runnable,
\* no Waker, and no thread in code that still reads the header.
NoUseAfterFree ==
    mem = "freed" =>
        /\ queue = 0
        /\ \A r \in Runners : pc[r] \in {"idle", "wake"}
        /\ \A w \in Wakers : pc[w] = "none"
        /\ pc[Handle] = "gone"

\* destroy does run: when the handle, the Wakers and the Runnable are gone, so
\* is the cell.
NoLeak ==
    /\ queue = 0 /\ pc[Handle] = "gone"
    /\ \A r \in Runners : pc[r] = "idle"
    /\ \A w \in Wakers : pc[w] = "none"
    => mem = "freed"

\* Once cancel().await has returned, the future is dropped and is never polled
\* again (for futures that do not panic: Guard::drop clears RUNNING before it
\* drops the future).
CancelStops == goal = "cancel" /\ pc[Handle] = "done" => future = "dropped"

\* A handle that was told Pending is woken after the task completes, is
\* cancelled or fails: no interleaving of register, take and notify loses it.
AwaiterWoken ==
    (pc[Handle] = "waiting" /\ (hdr.comp \/ (hdr.closed /\ ~hdr.sched /\ ~hdr.run)))
        ~> (pc[Handle] # "waiting" \/ poller \in woken)

\* A wake() of an unfinished task is followed by a poll, or the task finishes:
\* the SCHEDULED bit set while RUNNING is not lost when the poll returns.
WakeLeadsToPoll == due ~> (~due \/ Finished(hdr))

\* A cancelled task's future is dropped, so that cancel().await can return:
\* whoever finds nothing scheduled or running schedules one more run.
CancelledIsDropped == hdr.closed ~> (future = "dropped")
=============================================================================
