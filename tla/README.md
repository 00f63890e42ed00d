# cynthia: models, model checks and proofs

cynthia is an asynchronous runtime for Rust: "a multithreaded, work-stealing
based task scheduler" and an "event-driven, non-blocking I/O platform"
(`src/README.md`). This directory holds TLA+ models of its core, the TLC
configurations that check them, and TLAPS proofs. All paths below are relative
to `src/cynthia/src/`.

## Inventory

| part | state | operations | what it relies on |
|---|---|---|---|
| task cell `runtime/task/` | header word (6 flags, REGISTERING, NOTIFYING, reference count), awaiter slot, future or output | `Runnable::{run, schedule, drop}`, `Waker::{clone, wake, wake_by_ref, drop}`, `Task::{poll, cancel, detach, drop}` | atomics only |
| executor `runtime/executor.rs`, `platform/waker/sleeper.rs` | global queue, local queues, `notified`, `Sleeper`, active tasks | `spawn`, `run`, `tick`, `try_tick`, `schedule`, stealing, drop of Runner, Ticker, Executor | task cell, queues, Mutex, RwLock |
| event `platform/event/listener.rs` | linked list of entries, count of notified ones, lock-free hint | `listen`, `notify`, `notify_additional`, poll, `wait`, `wait_timeout`, `discard`, drop | Mutex, atomics, thread parking |
| async mutex `platform/lock/mutex.rs` | word: locked bit + 2 x starved lockers; event | `lock`, `try_lock`, unlock, cancellation | event |
| blocking mutex `platform/mutex/`, dup | the same word | `lock`, `try_lock`, unlock | event (blocking wait) |
| rwlock `platform/lock/rwlock.rs` | word: writer bit + 2 x readers; mutex; two events | read, upgradable read, write, upgrade, downgrade, drops, cancellation | async mutex, event |
| semaphore, barrier, wait group | a counter (and a generation), event or captured waker | acquire, release; wait; `wait_clone`, `done`, poll | event, async mutex |
| queues `platform/queue/` | slots with stamps, head, tail (or blocks) | push, pop, len, close | atomics |
| channel `platform/channel/` | queue, three events, sender and receiver counts | send, recv, stream, close, clone, drop | queues, event |
| parker `platform/parking/` | EMPTY / PARKED / NOTIFIED, lock, condvar | park, park_timeout, unpark | atomics |
| `block_on` and the io thread `io/worker.rs` | count of blocked threads, flags of each waker, the reactor's lock | `block_on`, its waker, `cycle_entry` | parker, reactor |
| reactor `io/reactor.rs`, `Async`, `Timer` `io/mod.rs` | sources with ticks and wakers; timer map and bounded queue of timer operations | `poll_ready`, `ready`, `react`; add, remove and fire timers | OS poller, slab, queue |
| atomic waker, pipe `runtime/blocking/blocking.rs` | ring with two indices, `closed`, one waker a side | drain, fill, drop | atomics |
| blocking pool | idle and thread counts, queue of Runnables | schedule, grow, time-out | task cell |
| `Unblock`, `fs::File` | Idle / Reader / Writer / Seeking with the task on the pool; `read_pos`, `is_dirty` | read, write, flush, seek, sync, set_len, close | pipe, pool |
| slab `utils/colo.rs`, byte pool | vector with a free list; blocks by size | insert, remove, retain; alloc, free | none |
| future and stream combinators `future/future.rs`, `stream.rs`, `timeout.rs` | the fields of each adaptor | poll | their inner futures |
| readers and writers `future/swap.rs` | buffers and counts of each future | poll, fill, consume, seek, flush | inner readers and writers |
| transports, connect, fs functions, process, pollers | OS handles | I/O | reactor, blocking pool |
| utilities, macros | none shared | | none |

How they interact. `Executor::spawn` makes a task cell whose schedule closure
pushes the Runnable into the executor's global queue and notifies a sleeping
runner. A runner pops (or steals) a Runnable and runs it; what the future waits
for keeps a Waker of the cell, and waking it calls the schedule closure again.
The handle (`Task`) is itself a future with one awaiter, stored in the cell.
Locks and channels keep waiting tasks in an event, which holds their wakers. The
reactor and the blocking pool are further sources of wake-ups: the reactor is
polled by whichever thread of `block_on`, or the io thread, has its lock; a file
is used by a task on the pool, with which it exchanges bytes through a pipe.
On top of all this lie the combinators, which keep state between polls and may
be dropped or left Pending at any of them.

What is hard. Nearly everything is lock-free: the cell is freed by whichever of
the pointers goes last; a wake-up may come at any point of a poll; a future may
be dropped at any await, having just been notified; runners fall asleep while
others push; time-outs race with notifications. The unit a test sees (one
future, one thread) is not where any of this can go wrong. `PROJECT.json` lists
the hazards line by line with the properties that cover them.

## Modules

Every action is one atomic access (or one critical section) with the private
code around it; all other actors may move between two actions. Memory is
sequentially consistent, so fences and orderings are not distinguished.

### Task, TaskProofs, MCTask

One task cell. `hdr` is the header word with a field per bit and `ref` for the
count; `slot` is the awaiter; `future`, `output` and `mem` record what was
dropped, moved and freed (`"twice"` marks a double drop). The actors are
`Runners` (threads that got the Runnable: `RawTask::run` or `Drop for
Runnable`), `Wakers` (places where a cloned Waker is kept) and `Handle`; `pc`
says where each one is in the code, with the names of the functions. Loops on
`compare_exchange_weak` are the action of their last iteration. `SizedSched`
chooses between the two codes of `wake` and `schedule` (raw.rs:132, 279): the
executor's closure holds an Arc, the blocking pool's is zero-sized. `MayPanic`
enables the panic guard of `run`. `Parents` are the wakers of tasks that await
the handle, so a handle can be passed from one to another between polls.

| code | actions |
|---|---|
| `run` raw.rs:314-512 | `RunClosed` ... `RunStart`, `PollReady`/`PollPending`/`PollPanic`, `Ready`, `Pending*`, `Guard*` |
| `Drop for Runnable` | `Discard`, `DiscardEnd` |
| wakers raw.rs:131-263 | `WakeByRef`, `WakeZst*`, `CloneWaker`, `DropWaker`, `Schedule`, `Push` |
| `Header::take`, `register`, `notify` | `TakeBegin`, `TakeEnd`, `RegBegin`, `RegStore`, `RegEnd`, `NotifyTake`, `WakeTaken` |
| `Task` | `HandlePoll`, `PollTask`, `Recheck*`, `ReadOutput`, `Cancel`, `CancelDone`, `Detach*` |

### EventList, EventSpec, Event, EventProofs, MCEvent

`EventList` says what an Event promises, as operators on the sequence of its
listeners. `EventSpec` is the specification in which each of them takes effect
in one step between call and return. `Event` is the code: the doubly linked list
with `head`, `tail`, `start`, the cached first entry, the Mutex, and the hint
`notified` that `notify` reads without it. It is shown to implement `EventSpec`
with `ev <- shown`, where the history variable `shown` is the order of the list as
it was when the lock was last released. This is the right linearisation point:
the hint becomes visible just then, and a `notify` that skips the lock because
of the hint agrees with that list.

### AsyncMutex, MCAsyncMutex

`acquire_slow` with its two loops, `try_lock`, the unlock of both guards, and
the drop of a `lock()` future at either of its awaits (`MayCancel`). The Event
below is `EventList`, which `Event` was shown to implement. Whether 500
microseconds have passed is a nondeterministic choice.

### Executor, ExecutorProofs, MCExecutor

Several `Runners` (futures of `Executor::run`), `Tickers` (`tick`, `try_tick`)
and `Threads` that spawn and wake. A task is what `Task` guarantees: at most one
Runnable, made when an idle task is woken. The queues are FIFOs (the interface
of `platform/queue`, external to this module). A critical section of the
sleepers' Mutex is two steps, because `notified.swap` at its end is read without
the Mutex by `State::notify`. `steal` pops and pushes one Runnable at a time;
the one being carried is visible to nobody. Of a steal only the two lengths are
read in one step. Tasks that spawn or wake from inside a poll are represented by
`Threads`. The 64-tick steal and the 200-tick yield may happen at any tick.

### Fifo, SingleQueue, BoundedQueue, UnboundedQueue, their proofs, MCQueues

`Fifo` is what a `ConcurrentQueue` promises: one closable sequence on which
push, pop, len, close and the final drop each act in one step between call and
return. The three queues are the code, one action per atomic access, and each
is shown to implement `Fifo`; `Items` (the sequence) and `Calls` (what every
thread has called or been answered) are the refinement mappings. A push takes
effect when it moves `tail` (or sets PUSHED), before it writes its slot, and a
pop when it moves `head`; a value that was pushed and not written yet is
therefore read from its producer. `Strict = FALSE` states what the queue of
capacity one does not promise: a push may be told Full while a pop that has
cleared PUSHED has not cleared LOCKED. Two verdicts are given after the instant
they speak of (Full of the array queue, and len): the instant is noted in `call`
("sawfull", "looked"), which no guard reads. `dropped` is what the drop of the
queue dropped. In `UnboundedQueue` pointers are positions in `blocks`, so an
allocation is a new pointer; `frees` counts how often a block was freed. LAP is
a variable fixed in `Init`, so that a block has one or three slots instead of 31. Words are
integers with the code's layout and do not wrap within `MaxPush` pushes.

### Channel, MCChannel

The tasks of `Senders` and `Receivers`, each with its handle: `Push`/`Pop` are
one try of the queue, followed by one action per notification in the order of
the code; `ListenFor` and `Await` are the two rounds of the loops. `op` says
which call a task is in, so that the listener of `recv`, of `send` and of the
stream (which lives in the handle across polls) are told apart. Every handle but
the first two is born by `Clone`; a task may drop its future at the await
(`Cancel`), drop its handle or close. The queue is its length; for capacity one
`SeemsFull` is the weakness that `SingleQueue` was found to have and `UnlockSlot`
the step that ends it.

### RwLock

`pc` is where a task is, or which guard it holds ("reading", "upgradable",
"writing"). The mutex is held by one task, as proved for `AsyncMutex`; the word
is an integer as in the code. `write` and `upgrade` share their waiting loop, and
a future dropped in it (`Cancel` at "wawait") drops the write guard it has built.
The drop of an upgradable guard drops its reader first and then unlocks.
`untold` is a history variable: see Observations.

### Semaphore, Barrier, WaitGroup, BlockingMutex, SyncProofs

Four users of an event or a waker. `Semaphore`: the load, the compare-exchange,
listen, the second look and the wait, the release of a guard (`count` first,
notification second), and an `acquire` dropped while it waits, which passes a
notification on. `Barrier`: what is done under its mutex is one step; a task
waits for the generation it arrived in, and a faster task may be back for the
next one before it wakes. `WaitGroup`: the poll of the source ignores its
context, and who is woken is the task that made the last child. `Cloners` are
the tasks that make children: the one that awaits the source, before it does (as
in `examples/wait_group.rs`), and any other, at any time. `rang` is a history
variable, the task that was woken last since the source was polled:
`LastChildWakes` excepts a source asleep whose last child woke another task (see
Observations) and nothing else. `BlockingMutex` takes the actions it shares with
`AsyncMutex` from there (`INSTANCE`), adds the ten looks of `lock`, and replaces
the starved loop, whose `Err(s)` arm is not that of the async mutex.

### Parker, Worker

`Parker` is `park`, `park_timeout` and `unpark`, one action per access of the
state, the lock and the condition variable, under the `block_on` of
`future/block_on.rs`; the condition variable wakes spuriously. `Worker` is the
other `block_on`, that of `io/worker.rs`: a thread takes the reactor's lock and
polls, or parks; its waker sets a flag, unparks it and, if it may be in the
poller, notifies the reactor; when it leaves with others still blocked it hands
over to one of them. `cynthia-io` does the same with an event of its own and
insists on the lock after `MaxSleeps` sleeps. A parker is a token here, as
`UnparkNotLost` allows; each future waits for one event, which the poller
reports (`kind` "kernel") or another thread brings.

### Pipe, BlockingPool, AsyncFile, IoProofs

`Pipe` has one action per access to what the two sides share: the indices (each
side caches the other's), `closed`, and the two atomic wakers, whose three-state
word (`aw`) is modelled access by access, since `register`, `take` and `wake` of
the two sides meet there. `BlockingPool` has one step per critical section:
`schedule` and `grow_pool`, a thread that takes a Runnable, waits, times out,
goes on or leaves. `AsyncFile` puts `fs::File` on `Unblock` on a task and a
pipe: `want` and `upos` are the file and the position as its user has to see
them, `content` and `pos` the real ones, `ring` the pipe, `st` the state of
`Unblock`, `task` how far the task on the pool is. `adrift` marks the cases in
which the two come apart by the code's design (see Observations); the model ends
there, and `FileSequential` says that they are the only ones of the calls that
are modelled. A seek that fails and a `set_len` below the user's position are
not.

### Timers, Readiness

`Timers`: owners of one `Timer` each set, poll and drop it; insertions and
removals go through the bounded queue `ops`, which whoever finds it full empties
into the map, as does the reactor before it looks for what is due; the reactor
then sleeps until its `deadline` or a notification (`flag`). The clock is a
variable that moves at any time. `Readiness` is one `Source` with its two
directions: three tasks wait for it with `poll_readable`, with `readable()` and
through `write_with`; the reactor polls in two steps (the tick is taken before
the poll and stored with the events after it), and the poller reports once and
has to be armed again. In both, the poller is external.

### Streams, Futures, Readers, BufferReader, BufferWriter, Colo

The sequential part of the library, against reference definitions: each adaptor
of `stream.rs` against an operator on the sequences its inner streams hold, each
combinator of `future.rs` and `timeout.rs` against what its inner futures came
to, the futures of `swap.rs` against the bytes of their source, the buffered
reader and writer against one position and one sequence, and the slab against a
partial function (`held`) and what `insert` answered last (`inserted`). The inner parts answer Pending at any poll, errors where they
may, and divide the bytes as they like; one step is one turn of the loop of a
poll, so what is checked is precisely the state kept from one poll to the next.
`Chain` is read in each of its three ways: into one or several buffers
(`ChainRead`), into buffers that are all empty (`ChainSkip`, after which its
first reader is left wherever it is), and through `poll_fill_buf` and `consume`
(`ChainFill`). `errs` keeps what the line buffer held at each error of the
source, which is what `Lines` then drops. These two losses, and the key 0 of a
slab at its limit, are the exceptions that `BytesInOrder` and `SlabSound` state.

### MCAdapters, MCIo, MCRuntime

`MCAdapters` instantiates the sequential modules, `MCIo` adds pipe, pool, file,
timers and readiness, and `MCRuntime` the locks, barrier, wait group and parker.
`which` picks one of them in `Init` and never changes, so the state spaces add
up and do not multiply; `SyncProofs` and `IoProofs` are about the same specification.
`MCQueues` does the same for the queues: it extends `UnboundedQueue`, instantiates the
other two, runs the queue of capacity one and the one-slot array with the threads `Trio`
and at most `MaxSmall` pushes, the array of `Cap` slots with `MaxBounded`, and states the
refinement of `Fifo` once for all of them (`QueuesAreFifos`). The properties in these modules are those of the parts, under the condition that the part runs
or conjoined.

### ProofLemmas

Lemmas that the proof modules share: the cardinality of "the actors at these
places" when one actor moves, and what every operation of `EventList` does to
the set of listeners (`Ids`) and to those that were notified (`Told`); and facts on
numbers: a non-empty set of naturals has a least one, division and remainder.

## Runs

| run | states | instance | shows |
|---|---|---|---|
| `task_sized` | 143,045 | 2 runners, 2 wakers, 2 parents, closure with state, panics | count exact, one Runnable, slot exclusive, future and output dropped once, no use after free, no leak |
| `task_live` | 154,908 | 2 runners, 1 waker, 2 parents, zero-sized closure, no panics | awaiter woken, wake leads to a poll, cancelled future dropped, `cancel().await` stops the task |
| `event` | 677,268 | 3 listeners, 1 notifier, n <= 2 | list sound and nobody notified asleep (`EventSound`), implements EventSpec, no deadlock |
| `mutex` | 301,393 | 4 lockers, cancellation | exclusion, exact word, no barging, a free lock is taken, no deadlock |
| `executor_safe` | 3,982,582 | 2 runners, 1 thread, 3 tasks, local capacity 1 | Runnables conserved, sleepers sound, no lost wake-up, drops complete |
| `executor_live` | 173,905 | 1 runner, 1 ticker, 1 thread, 1 task | a scheduled task is run, with `tick` and `try_tick` beside the runner |
| `queues` | 987,111 | capacity one and the array of one slot: 3 threads; array of 2 slots: 2 threads, 5 pushes; linked, 1 or 3 slots a block: 2 threads, 3 pushes | each implements Fifo; blocks are freed once and not while in use |
| `channel_safe` | 4,935,434 | 2 senders, 2 receivers, capacity 2, 3 messages | nobody sleeps beside a message, room or the end |
| `channel_live` | 280,463 | 2 senders, 1 receiver, capacity 1, 3 messages | who waits gets to try again |
| `block_on` | 152,671 | 2 threads in `block_on`, the io thread, another thread | who was woken is not left in the poller; every `block_on` returns |
| `runtime` | 979,615 | seventeen parts, one at a time, see below | locks, permits, barrier, wait group, parker: nobody stranded; pipe, pool, file, timers, readiness; combinators, readers, writers, slab conform |
| `lines` | violation | a source of 4 bytes that fails once | the `debug_assert` of `read_line_internal` fails |

What the parts of `runtime` show. `GuardsExclude` and `WaitsForSomeone`: rwlock,
4 tasks. `PermitsConserved`: 3 tasks, 2 permits. `NobodyStranded` conjoins:
nobody waits on permits that are all free, in a past generation of a barrier (4
tasks, 3 needed, up to 3 generations), for children that are all done (3, made by the
task that waits or by another, unless the last is the other's), on a
free blocking mutex (3 threads, unless two starve), or in the condition variable
after an unpark (3 unparkers). `PipeSound`: every byte in order, neither side
asleep with something to do, no end before the last byte that was visible.
`NoStrandedRunnable`: a queued Runnable always has a thread on its way to it, so
that it never depends on one that may block for ever, and the counts are exact.
`FileSequential`: one file with one position, whatever is read ahead, written
behind or given up. `TimersFire`: no registration lost or stale in the queue, no
timer early, the reactor never sleeps past one. `AwaitsEvents`: no event missed,
none of an older poll believed. `Conforms`, `BytesInOrder`, `SlabSound`: see the
modules; each names its exceptions.

Why these bounds. Two runners are enough for a Runnable to be run by one thread
while a second one could only come from a wrong bit; two wakers let one be last
while the other is in use; two parents exercise a handle that changes its
awaiter. Three listeners give a first, a middle and a last entry of the list and
n = 2 a notification of fewer than all; the notifier races for the lock with the
listeners, which also notify when they are dropped. Four lockers give an owner,
two starved ones and a newcomer. Three tasks and a local capacity of one make local queues full and
steals compete. The safety run of the task has the closure with state, in which
`schedule` clones a Waker, and the liveness run the zero-sized one, in which
`wake` has a code of its own besides that of `wake_by_ref`.
Five pushes on two slots go through the array queue two and a half times; one
slot with three threads lets a stale stamp, an old head and a full verdict meet
while the third measures or closes. Three pushes on blocks of one slot link
three of them, which is when `head` is marked on entering a block, and fill a
block of three. Two senders and two receivers let a notification go to one
while the other waits, and three messages on capacity two make a sender wait.
Four tasks give the rwlock a writer that waits for readers, a reader that waits
for the writer and one that chains the wake-up; three on two permits and three
on the blocking mutex give an owner and two that wait. Four tasks on a barrier
of three let one be a generation ahead. Two blockers and the io thread give a
poller, a parked thread and one that takes over; `MaxSleeps` is 2 for 10. Six
bytes through a ring of two wrap its indices, which run to twice the capacity.
Four pool threads with one for every two queued (500 and 5 in the code) make the
pool grow, be full, and shrink. A file of three bytes read ahead by two with one
written byte and one error covers every order of the calls, because polls, not
bytes, are what races. Two timers and an operation queue of two (1000) make it
full; two registrations suffice for an insertion and a removal to pass each
other. A tick of two has an older poll and a newer one. Streams hold up to three
items, texts four bytes with one error, so that a line may be split at any
byte.
The reference counts are bounded by the actors and need no bound of their own.
`CHECK_DEADLOCK FALSE` is set where the system may come to its end (a finished
task, a dropped executor, a closed file, an exhausted stream). Symmetry is used
in runs of safety properties only (invariants, and the refinements of `Fifo` and
`EventSpec`, which have no fairness); in `runtime` it permutes the three tasks
`t1`, `t2`, `t3`, which every part treats alike.

Fairness. A thread inside the code goes on, and a poll of a user's future
returns: weak fairness of the actors' steps. The actors of the executor are
strongly fair, since a step may wait for a Mutex or RwLock: critical sections
are short and the standard library's locks let a waiting thread in eventually.
`task_live` needs strong
fairness of "some runner runs a popped Runnable" since a runner that goes away
may reschedule instead, though not for ever. A poller whose waker was woken is
polled again (the executor's thread is in `block_on`); `channel_live` assumes no
more than this and that a call goes on (weak fairness of `Step`). `block_on`
assumes that threads of the operating system go on and that the poller returns
when it has something to report (`WkFair`); nothing obliges a time-out to pass.
No user is obliged to call, wake, cancel, spawn, or let a deadline pass.

## Proofs

TLAPS proves the following for every value of the constants; the assumptions
are named in the modules that declare the constants, and TLC evaluates them in
every run. Each inductive invariant was checked by TLC before it was proved.

`TaskProofs` (for every choice of `SizedSched` and `MayPanic`):
`Invariant` shows `Spec => []IInv`; from it follow `TypeCorrect`,
`CountIsExact`, `RunnableIsUnique`, `SlotIsExclusive`, `BitsAreTrue`,
`MemoryIsSafe` (no use after free) and `MemoryIsFreed` (no leak). The assumption
is `ActorsAssumption`: finite, disjoint sets of actors.

    IInv == TypeOK /\ RefCountExact /\ OneRunnable /\ SlotExclusive /\ BitsAgree

No conjunct is inductive alone. The count changes by what a thread decides from
the flags, so exactness needs `BitsAgree`; a wake-up makes a Runnable when
SCHEDULED, RUNNING and CLOSED are clear, so uniqueness of the Runnable needs
that some of them is set while one exists; that bit stays set because only the
holder of the unique Runnable clears it; `DropWaker` overwrites the whole word,
which is sound because the exact count says that nobody else is there. The proof
uses that every step moves at most one actor (two for a waker clone): a step is
described by how it changes the count (`RefCountExact` through the lemma
`CountAfterChange`), who holds the permit, who is at the slot, and the bits of
the handle; one lemma per action establishes this description and one general
lemma turns it into `IInv'`.

`FutureAndOutputDropOnce` (`DroppedOnce`) and `CancelIsFinal` (`CancelStops`,
for futures that do not panic, see Observations) rest on a second invariant,

    Fate == FutureFate /\ BitsFate /\ OutputFate

which follows the one Runnable (`Permit`: queued, nowhere, or where its holder
is). The future is alive exactly while the Runnable may still poll it, the flags
tell whether there is a Runnable, and the output is alive from the poll that
made it until `run`, the handle or its drop has moved it. `Fate` is inductive
relative to `IInv`: who reads COMPLETED or CLOSED and then drops the future or
takes the output is alone, because the Runnable and the handle are unique.

`ExecutorProofs`: `RunnablesAreConserved`, `DropsAreComplete`, `SleeperIsSound`
and `NoWakeupIsLost`, for every number of runners, tickers, threads and tasks and
every capacity of the local queues (`ExecutorAssumption`: the sets of actors are
finite and disjoint, the capacity is positive, NULL is none of them). Four
invariants, each inductive with those before it:

- `ControlInv`: what an actor has in hand follows from where it is, and a local
  queue never exceeds its capacity, the stolen Runnable under way included;
- `Conserved`: a task is scheduled exactly when its Runnable is in one place. A
  step moves at most one Runnable, from one end of a queue to a hand or back;
- `DropInv`: while the executor is dropped every task that is neither done nor
  scheduled is still in `active`;
- `SleepInv`: the ids in the Sleeper are distinct and counted, its wakers are
  those of sleeping pollers, and (`AsleepInv`) who is asleep is in the list or
  about to be woken. The heart is `FlagInv`: `notified` keeps others from
  notifying only while somebody is about to lock the Sleeper or to store the flag
  again, or while a sleeper that was woken has not gone back to the list; and
  `AlertInv`: while something is in the global queue somebody is on the way to
  notify or to look, or such a sleeper exists. `NoLostWakeup` follows because in
  a state in which everybody rests none of these can be the case.

`EventProofs`, of the async mutex: `Invariant` for

    MutexInv == MutexTypeOK /\ WordExact /\ Cardinality(Owners) \in {0, 1}

and from it `WordIsExact`, `MutexIsExclusive` and the action property
`NobodyBarges`. A compare-exchange is safe because the word counts the owners;
the word counts them because there is at most one. `LockersAssumption` (a finite
set of lockers) is the only assumption.

The reader-writer lock (in `SyncProofs`, about `Spec` of `RwLock`): `Invariant`
for

    IInv == /\ TypeOK
            /\ state = 2 * #(tasks that count as readers) + #(tasks that set the bit)
            /\ who is past the mutex holds it
            /\ who has the write guard sees the word 1

and from it `GuardsAreExclusive`. The two counts cannot be read off the word
unless at most one task has set the bit, which the mutex gives; and the word
stays 1 under a write guard because a reader enters only when the bit is clear
and only the mutex's holder may add an upgradable reader. One lemma
(`MovePreserves`) says what a step that moves one task owes to the invariant;
the actions are then grouped by what they touch. `NobodyWaitsForNobody`
(`WaitsForSomeone`) needs in addition

    WaitInv == Listeners /\ WriterHears /\ ReadersHear

who listens where; a waiting writer is notified, or a reader is left, or one is
about to notify; a waiting reader is notified, or the bit is set, or a reader
that was notified is about to notify the next, or the downgrade that tells
nobody came in between (`untold`). The assumption is `RwLockAssumption`: a finite
set of tasks, None not among them.

The rest of `SyncProofs`, and `IoProofs`, are about `MCSpec` of `MCRuntime`, in which a step is a step of
one part and leaves the others alone (`StepOfParts`); each part has an inductive
invariant of its own:

- `SemInv` (`PermitsAreConserved`, and in `NobodyIsStranded`): the count and the
  guards add up, which every step keeps because it takes from the one what it
  adds to the other; and while anybody waits there is a guard, a notification, or
  a task about to notify or to look again;
- `BarInv`, `WgInv`, `BmInv`, `PaInv` (`NobodyIsStranded`): who waits in a barrier
  waits for the current generation, which is not full, or was notified; the count
  of a wait group is exact, every child that is to be done has the waker of its
  maker, and while the source sleeps a child is to be done or the last one woke
  another task, for any set of tasks that make children; while a thread waits for the blocking mutex one was notified, or one is
  inside, or two starve; an unpark that finds the thread about to sleep waits for
  its lock, so that it notifies the condition variable afterwards;
- `BpInv` (`NoRunnableIsStranded`): the counts of the pool are exact and a queued
  Runnable has a thread on its way to it, or the pool is full; while a thread is
  in its wait one is on its way for every queued Runnable;
- `RdInv` (`EventsAreAwaited`): the ticks of a source are of polls that have
  begun, whoever sleeps is registered or among those being woken, and the poller
  is armed for every direction somebody is registered for;
- `PiInv` (`PipeIsSound`): the six copies of the two indices lie on one line, in
  the order writer's head, head, reader's head, reader's tail, tail, writer's
  tail, no longer than the capacity (`PiOrder`); what lies between the reader's
  head and the writer's tail are the bytes not yet received, in order (`PiBytes`);
  the bits of an atomic waker tell who is at it and its side is woken or its
  waker there (`PiWaker`); and who is asleep or about to be has nothing to do
  unless the peer is on its way to wake it (`PiHeard`). The indices run through
  twice the capacity, and the lemmas on `Pos` and `InLine` are what makes their
  wrapping harmless;
- `TiInv` (`TimersAlwaysFire`): a timer that its owner left waiting is in the map
  at its time, or will be when the operations queued in front of it are applied
  (`Emptied`), or has fired; ids are used once; the reactor's deadline is no later
  than what is registered unless a notification is on its way;
- `FiInv` (`FileIsSequential`): until the model is `adrift`, the file that the user
  has to see is the real one with what the pipe still holds written over it
  (`FileAgrees`), the position follows from `read_pos` and the pipe, and what a poll
  answers agrees with both (`PollAgrees`). The lemmas `OverIs`, `OverNone` and
  `OverTwice` say what writing a sequence of bytes over another does;
- `SlabInv` (`SlabIsSound`): every slot is occupied under its key or vacant, and some
  function ranks the vacant ones by how many follow them in the list from `head`.
  A rank decides which slot the n-th step along the list reaches, so the list runs
  through each once; insert, remove, retain and swap each give the next rank
  function. `Answered` follows, because `next_vacant` is not in use and the vector never
  outgrows the limit, so that key 0 is in use when the slab is full.

The assumptions are `SemaphoreAssumption` (finitely many users),
`RuntimeAssumption` (finite sets, a natural number of parties, and `NoTask` is no
task), `IoAssumption` (the pipe's capacity is positive, as `pipe` asserts; finitely
many pool threads; every waiter of a source waits for reading or for writing; the
bounds of the file model are natural numbers) and `AdaptersAssumption` (so is the
bound on the slots).

`EventProofs`, of the channel: `NobodyIsStuck` (`NobodyStuck`), for every capacity, any number of
messages and any finite disjoint sets of senders and receivers
(`ChannelAssumption`), by

    ChannelInv == ControlInv /\ SendInv /\ RecvInv /\ StreamInv

`ControlInv` says which call a task may be in where it is, and that a bounded
queue is never longer than its capacity. The other three say of each event who is
in its list and why nobody in it is forgotten. `stream_ops` is told of every
message, so whoever is in its list was told unless a sender is about to tell all.
`send_ops` and `recv_ops` are told of one at a time: while there is room (a
message) and somebody waits, one of those who wait was told, or a task is about
to tell (`TellsRoom`, `TellsMessage`), or is about to try and then tells the next.
With capacity one a sender that succeeds tells no other, since there is no room
left; and while the queue only seems full, because a receiver has yet to unlock it,
that receiver is itself about to tell. Closing tells all three events in turn, and who listens after that
looks again and finds the queue closed.

`EventProofs`, of the event itself: `EventIsSound` (`EventSound`) and `EventIsAtomic`
(`ImplementsEvent`), for every finite set of listeners (`EventAssumption`). A list is
sound when some injective order `o` of its `n` entries exists,

    Sound(L, n, o) == ListTypes(L) /\ Lists(L, n, o) /\ Links(L, n, o) /\ Marks(L, n, o) /\ Cache(L)

whose links are those of the order, whose first entries up to `start` are the
notified ones, as many as are counted, and in which the cached entry is used by at
most one. One lemma per method of `List` gives the order after it (`InsertSound`,
`RemoveSound`, `TurnedSound`), and one says that what the method does to the order is
what `EventList`'s operator does to its sequence (`InsertShows`, `RemoveShows`,
`NotifyShows`, `DropShows`). The loops of `notify` and `notify_additional`, and the walk
that reads the list off its links, are recursive functions over numbers: a witness
satisfies their equation, and two that do agree, since there is no least number
at which they differ.

    EventInv == PlacesInv /\ ListInv /\ ShownInv

says where everybody is, that the list is sound whenever its lock is free (and what
its holder has made of it when it is not), and that `shown` is the list as it was
last released. The refinement maps a step to one of `EventSpec` when it releases the
lock, or at `LoadHint` when the hint says that nobody is left to notify; all others
stutter. The async mutex and the channel are proved in the same module, over
`EventList`.

`ExecutorProofs` also holds `WokenAreSeen`, for every set of threads in `block_on`, by
`WkInv`: who uses the poller has its lock, a future that was polled before its event
came has its token or is among those being woken, and a thread that waits in the
poller has said so before (`stub`), so that whoever gave it a token has notified the
reactor or is about to.

`BoundedQueueProofs`: `SingleQueueIsFifo` and `BoundedQueueIsFifo`, the refinements of
`Fifo` by the queue of capacity one and by the array queue, for any threads, values
and capacity, None not among the values (`QueuesAssumption` has it). Of the queue of
capacity one, LOCKED makes one thread the owner of the slot; what the owner is about
to do decides what the slot holds (`SlotInv`), and hence what the abstract queue does.
Of the array queue, the stamp of a slot says which lap it waits for: a producer that
has moved `tail` and not written yet, and a consumer that has moved `head` and not
read yet, own their slot, and no other of the same index is there, because the two
words are never more than a lap apart. Verdicts of full, empty and len are true of
the instant noted in `call`. The words are numbers of a lap and an index, which is
what the lemmas on division in `ProofLemmas` are for.

`UnboundedQueueProofs`: `UnboundedBlocksFreedOnce` (`BlocksFreedOnce`) and
`UnboundedQueueIsFifo`, for every length of a block (`Laps`, numbers from 2 on) and any
threads and values. The invariant is a conjunction of what holds of `tail` and of
`head` (`TailInv`, `HeadInv`), of the links from block to block (`LinksInv`), of each
thread by where it is (`ThreadsInv`), of who owns which slot (`OwnersInv`, `SlotsInv`),
of the bits by which the destruction of a block is handed on (`AskedInv`) and of the
blocks that were freed (`FreedInv`). A block that head has left is to be freed by
exactly one thread: the pop of its last slot, until it meets a slot whose reader is
still inside and leaves the duty to it; whoever has the duty, or reads there, keeps
the block alive. For the refinement, what a slot holds or its producer will write is
known from the moment `tail` moves, and the drop's walk, a recursive function on a
finite set of positions, yields these values in order.

Only model-checked:

- all liveness properties: liveness under fairness is out of the prover's reach;
- `Conforms` and `BytesInOrder`: their reference definitions compute on sequences of
  any length, adaptor by adaptor, and the bounded instance is where a mistake in a
  poll would show.

The library's induction theorems take an operator as a parameter and cannot be
used. Where a proof needs induction it takes the least counterexample
(`LeastNumber`, by the well-foundedness of the natural numbers) and, of a recursive
function, that a witness satisfies its equation and is the only one.

## Findings

- `read_line_internal` (future/swap.rs:892) asserts `debug_assert_eq!(*read, 0)`
  before it looks at the result of `read_until_internal`. That function returns
  early on an I/O error (`?`, line 797) and leaves in `*read` how many bytes it
  has appended so far. A source that delivers part of a line and then fails makes
  the assertion fail; without debug assertions the partial line is stored, and
  the next poll of `Lines` overwrites it, so its bytes are lost (line 893), where
  `Split` keeps them. Run `lines` shows the assertion violated; in `runtime`,
  `BytesInOrder` excepts the bytes that `Lines` drops so, and only those.

## Observations

What modelling showed and no doc, comment or test of the repository speaks
about; none is stated as a property that the code is said to have.

- `Guard::drop` of `run` (raw.rs:465-475) tests AWAITER on the word it loaded,
  where the corresponding code in `run` (raw.rs:326) uses the word `fetch_and`
  returned. If the poll panics after the task was cancelled and the awaiter
  registers in between, it is not woken. `task_live` therefore has no panics.
  For the same reason `CancelStops` is about futures that do not panic.
- A detached task whose poll returns Pending and that kept no Waker is destroyed
  by `drop_ref` (raw.rs:435), which frees the cell and does not drop the future.
  `FutureDroppedOnce` speaks of finished tasks only.
- `destroy` does not drop `Header.awaiter`, and the store of
  `SCHEDULED | CLOSED | REFERENCE` (raw.rs:255) clears AWAITER: the waker of a
  handle that was polled and then detached may be leaked.
- The blocking mutex (`platform/mutex/mutex.rs:108`) takes every failed
  compare-exchange in its `Err(s)` arm, so the `notify(1)` at line 115 is not
  reached, unlike in the async mutex (`platform/lock/mutex.rs:105`).
- `RwLockWriteGuard::downgrade_to_upgradable` (rwlock.rs:361-375) clears the
  writer bit and notifies nobody, where `downgrade` (rwlock.rs:354) notifies
  `no_writer`. A reader that waits then sleeps on although it could read, until
  another writer goes. `WaitsForSomeone` excepts exactly this (`untold`), and
  fails without the exception.
- A push into a queue of capacity one may be told Full though the queue is empty,
  while a pop finishes (single.rs:37). The channel copes: the pop notifies a
  sender afterwards.
- The 64-tick steal (executor.rs:206) comes after the notification of
  `runnable_with`; what it takes waits for the runner's task to return.
- A thread that has marked a task SCHEDULED and not pushed yet when the executor
  is dropped leaves its Runnable in the dead executor's queue;
  `DropDropsTasks` allows exactly this.
- Two starved threads of the blocking mutex can sleep for ever on a free lock:
  both have added their 2, so neither compare-exchange from 2 succeeds, and both
  go to sleep through the `Err(s)` arm, without the `notify(1)` of line 115.
  `SleepsOnHeldLock` excepts exactly two starved threads.
- `SemaphoreGuard::drop` uses `notify(1)`, which does nothing while an earlier
  notification is unused. Two guards dropped in a row wake one waiter; another
  may sleep beside a free permit until the next guard is dropped.
- A `WaitGroup` child made by a task other than the one that awaits the source
  captures that task's waker: if it is the last, the source is not woken.
  `LastChildWakes` excepts exactly this (`rang`), and fails without the exception.
- A barrier's `wait` that is dropped after it has arrived still counts, so the
  barrier opens with fewer tasks than `n`.
- `Pipe`: `drain` looks at `tail` and then at `closed`, which are two loads. What
  is published between them is not delivered: the reader says it is at the end.
  A `fill` on a pipe that was closed meanwhile returns a count it does not
  publish.
- `File`: the bytes read ahead are dropped by `flush` (when dirty), `sync_all`,
  `sync_data` and `set_len`, and by a `poll_write` or `poll_seek` that is left
  Pending after it has stopped the reader, while `read_pos` still says where the
  task had been: the next read skips them. A background write error that a
  `poll_read` meets is kept in `read_pos` and not told. These are the cases
  `adrift` ends the model at.
- Reactor: `modify` failing with `?` in `react` loses the wakers that were
  drained, and in `poll_ready` leaves a waker registered and the poller not armed.
- Pool: when a thread cannot be spawned `grow_pool` panics under the pool's lock.
- Streams: `or` and `race` poll an ended stream again; a `race` between two ended
  streams returns Pending with no waker; `or` ends when the second stream does,
  though the first is only pending. `Bytes` answers Pending to Interrupted
  without a waker. `Chain` takes the 0 of a vectored read into empty buffers
  (swap.rs:1385) for the end of its first reader, whose other bytes are then
  skipped; `BytesInOrder` excepts them. `FillBuf` polls its reader twice.
- `Colo::insert` at its limit drops the object and returns 0 (colo.rs:87), the key
  of another object; `SlabSound` excepts this answer. Nothing in the
  repository makes a slab with a limit.
- `utils/parking.rs` is a second copy of `platform/parking/parking.rs`.
- No individual locker of the async mutex is guaranteed the lock; `NoBarging`
  and `FreeLockIsTaken` are what the protocol gives.

## Not modelled

Each has its line in `PROJECT.json`; the reasons are these.

- No protocol of their own: `Dup`, the threads that run the global executor,
  `MonoExecutor` and `local.rs` (the same `State` on one thread), the byte pool
  (one queue per size class), transports, connect, the functions of `fs` (one
  `unblock` call each), `split` halves, `Repeat`, `Empty`, `Sink`, `BlockOn`, the
  write side of `AssertAsync`.
- System calls and what they return: epoll, kqueue and wepoll, file descriptors,
  processes and their reaper, failures of `add` and `delete` on the poller. What
  the models need of them is external in `Readiness`, `Timers` and `Worker`.
- `Unblock` over a closure (`WithMut`) or an iterator (`Streaming`): the same
  state machine as `AsyncFile` with a channel in the place of the pipe.
- Memory orderings weaker than sequential consistency, counters that wrap after
  2^63 steps, allocation failure.
- Random numbers, padding, buffers, macros, examples.

## Plan

Done, in this order: task cell, event, async mutex, executor, queues, channel,
rwlock; semaphore, barrier, wait group, blocking mutex, parker; pipe, pool and
file; timers, readiness and `block_on`; combinators, readers and writers, slab.

Proved since: see Proofs. Left, of what is only model-checked: the references
of single adaptors.
