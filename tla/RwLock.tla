------------------------------- MODULE RwLock --------------------------------
(***************************************************************************)
(* platform/lock/rwlock.rs: the asynchronous reader-writer lock.  The word *)
(* `state` is the writer bit plus twice the number of readers; writers and *)
(* upgradable readers hold a mutex as well (AsyncMutex: one holder at a    *)
(* time, waited for in lock()).  One action is one atomic access of the    *)
(* word or one call of the mutex or of an Event; a load and the exchange   *)
(* that follows it are one access, since a failed exchange is a new load.  *)
(***************************************************************************)
EXTENDS EventList

CONSTANTS Tasks, None

ASSUME RwLockAssumption == IsFiniteSet(Tasks) /\ None \notin Tasks

VARIABLES
    state,       \* RwLock.state
    mutex,       \* who holds RwLock.mutex
    no_readers, no_writer,
    pc,          \* where each task is, or the guard it holds
    untold       \* history: the writer bit was cleared and nobody notified

vars == <<state, mutex, no_readers, no_writer, pc, untold>>

Writer  == state % 2 = 1
Readers == state \div 2

Goto(t, l) == pc' = [pc EXCEPT ![t] = l]

Init ==
    /\ state = 0 /\ mutex = None
    /\ no_readers = NoListeners /\ no_writer = NoListeners
    /\ pc = [t \in Tasks |-> "idle"]
    /\ untold = FALSE

Call(t) ==
    /\ pc[t] = "idle"
    /\ \E l \in {"read", "try_read", "write", "try_write", "upgradable_read",
                 "try_upgradable_read"} : Goto(t, l)
    /\ UNCHANGED <<state, mutex, no_readers, no_writer, untold>>

(***************************************************************************)
(* try_read and read                                                       *)
(***************************************************************************)
TakeRead(t) ==
    /\ pc[t] \in {"read", "try_read"} /\ ~Writer
    /\ state' = state + 2
    /\ Goto(t, "reading")
    /\ UNCHANGED <<mutex, no_readers, no_writer, untold>>

FailRead(t) ==
    /\ pc[t] \in {"read", "try_read"} /\ Writer
    /\ Goto(t, IF pc[t] = "read" THEN "rlisten" ELSE "idle")
    /\ UNCHANGED <<state, mutex, no_readers, no_writer, untold>>

ReadListen(t) ==
    /\ pc[t] = "rlisten"
    /\ no_writer' = Listen(no_writer, t)
    /\ Goto(t, "rcheck")
    /\ UNCHANGED <<state, mutex, no_readers, untold>>

ReadCheck(t) ==
    /\ pc[t] = "rcheck"
    /\ Goto(t, IF Writer THEN "rawait" ELSE "rload")
    /\ UNCHANGED <<state, mutex, no_readers, no_writer, untold>>

\* the word is loaded before the listener is dropped
ReadLoad(t) ==
    /\ pc[t] = "rload"
    /\ Goto(t, IF Writer THEN "rdroplisten" ELSE "rdrop")
    /\ UNCHANGED <<state, mutex, no_readers, no_writer, untold>>

ReadDrop(t) ==
    /\ pc[t] \in {"rdrop", "rdroplisten"}
    /\ no_writer' = DropListener(no_writer, t)
    /\ Goto(t, IF pc[t] = "rdrop" THEN "read" ELSE "rlisten")
    /\ UNCHANGED <<state, mutex, no_readers, untold>>

ReadAwait(t) ==
    /\ pc[t] = "rawait" /\ IsNotified(no_writer, t)
    /\ no_writer' = Consume(no_writer, t)
    /\ Goto(t, "rnotify")
    /\ UNCHANGED <<state, mutex, no_readers, untold>>

\* mutant: the reader that was woken does not wake the next one
ReadNoNotify(t) ==
    /\ pc[t] = "rnotify"
    /\ Goto(t, "read")
    /\ UNCHANGED <<state, mutex, no_readers, no_writer, untold>>

\* the readers wake one another
ReadNotify(t) ==
    /\ pc[t] = "rnotify"
    /\ no_writer' = Notify(no_writer, 1)
    /\ Goto(t, "read")
    /\ untold' = FALSE
    /\ UNCHANGED <<state, mutex, no_readers>>

(***************************************************************************)
(* try_write, write, try_upgradable_read and upgradable_read               *)
(***************************************************************************)
Reserve(t) ==
    /\ pc[t] \in {"write", "try_write", "upgradable_read", "try_upgradable_read"}
    /\ mutex = None
    /\ mutex' = t
    /\ Goto(t, CASE pc[t] = "write" -> "wset" [] pc[t] = "try_write" -> "wcas"
                 [] OTHER -> "uadd")
    /\ UNCHANGED <<state, no_readers, no_writer, untold>>

FailReserve(t) ==
    /\ pc[t] \in {"try_write", "try_upgradable_read"} /\ mutex # None
    /\ Goto(t, "idle")
    /\ UNCHANGED <<state, mutex, no_readers, no_writer, untold>>

WriteCas(t) ==
    /\ pc[t] = "wcas"
    /\ IF state = 0 THEN state' = 1 /\ Goto(t, "writing")
       ELSE Goto(t, "unlock") /\ UNCHANGED state
    /\ UNCHANGED <<mutex, no_readers, no_writer, untold>>

WriteSet(t) ==
    /\ pc[t] = "wset"
    /\ state' = 2 * Readers + 1
    /\ Goto(t, "wload")
    /\ UNCHANGED <<mutex, no_readers, no_writer, untold>>

\* mutant: a writer takes its own bit for the lock
WriteLoadBit(t) ==
    /\ pc[t] = "wload"
    /\ Goto(t, IF Writer THEN "writing" ELSE "wlisten")
    /\ UNCHANGED <<state, mutex, no_readers, no_writer, untold>>

WriteLoad(t) ==
    /\ pc[t] = "wload"
    /\ Goto(t, IF state = 1 THEN "writing" ELSE "wlisten")
    /\ UNCHANGED <<state, mutex, no_readers, no_writer, untold>>

WriteListen(t) ==
    /\ pc[t] = "wlisten"
    /\ no_readers' = Listen(no_readers, t)
    /\ Goto(t, "wcheck")
    /\ UNCHANGED <<state, mutex, no_writer, untold>>

WriteCheck(t) ==
    /\ pc[t] = "wcheck"
    /\ Goto(t, IF state = 1 THEN "wdrop" ELSE "wawait")
    /\ UNCHANGED <<state, mutex, no_readers, no_writer, untold>>

WriteDrop(t) ==
    /\ pc[t] = "wdrop"
    /\ no_readers' = DropListener(no_readers, t)
    /\ Goto(t, "wload")
    /\ UNCHANGED <<state, mutex, no_writer, untold>>

WriteAwait(t) ==
    /\ pc[t] = "wawait" /\ IsNotified(no_readers, t)
    /\ no_readers' = Consume(no_readers, t)
    /\ Goto(t, "wload")
    /\ UNCHANGED <<state, mutex, no_writer, untold>>

UpgradableAdd(t) ==
    /\ pc[t] = "uadd"
    /\ state' = state + 2
    /\ Goto(t, "upgradable")
    /\ UNCHANGED <<mutex, no_readers, no_writer, untold>>

(***************************************************************************)
(* The guards: dropped, upgraded and downgraded                            *)
(***************************************************************************)
\* the reader goes; an upgradable one has the mutex to unlock afterwards
ReadRelease(t) ==
    /\ pc[t] \in {"reading", "upgradable"}
    /\ state' = state - 2
    /\ Goto(t, IF Readers = 1 THEN "lastreader" ELSE IF mutex = t THEN "unlock" ELSE "idle")
    /\ UNCHANGED <<mutex, no_readers, no_writer, untold>>

LastReader(t) ==
    /\ pc[t] = "lastreader"
    /\ no_readers' = Notify(no_readers, 1)
    /\ Goto(t, IF mutex = t THEN "unlock" ELSE "idle")
    /\ UNCHANGED <<state, mutex, no_writer, untold>>

WriteRelease(t) ==
    /\ pc[t] \in {"writing", "wcancel"}
    /\ state' = 2 * Readers
    /\ Goto(t, "wnotify")
    /\ UNCHANGED <<mutex, no_readers, no_writer, untold>>

WriteNotify(t) ==
    /\ pc[t] \in {"wnotify", "dnotify"}
    /\ no_writer' = Notify(no_writer, 1)
    /\ Goto(t, IF pc[t] = "wnotify" THEN "unlock" ELSE "dunlock")
    /\ untold' = FALSE
    /\ UNCHANGED <<state, mutex, no_readers>>

Unlock(t) ==
    /\ pc[t] \in {"unlock", "dunlock"}
    /\ mutex' = None
    /\ Goto(t, IF pc[t] = "unlock" THEN "idle" ELSE "reading")
    /\ UNCHANGED <<state, no_readers, no_writer, untold>>

\* RwLockUpgradableReadGuard::downgrade
DowngradeUpgradable(t) ==
    /\ pc[t] = "upgradable"
    /\ Goto(t, "dunlock")
    /\ UNCHANGED <<state, mutex, no_readers, no_writer, untold>>

TryUpgrade(t) ==
    /\ pc[t] = "upgradable" /\ state = 2
    /\ state' = 1
    /\ Goto(t, "writing")
    /\ UNCHANGED <<mutex, no_readers, no_writer, untold>>

\* the reader becomes a writer that waits for the other readers
Upgrade(t) ==
    /\ pc[t] = "upgradable"
    /\ state' = state - 1
    /\ Goto(t, "wload")
    /\ UNCHANGED <<mutex, no_readers, no_writer, untold>>

Downgrade(t) ==
    /\ pc[t] = "writing"
    /\ state' = state + 1
    /\ Goto(t, "dnotify")
    /\ UNCHANGED <<mutex, no_readers, no_writer, untold>>

\* unlike downgrade, this notifies nobody
DowngradeToUpgradable(t) ==
    /\ pc[t] = "writing"
    /\ state' = state + 1
    /\ Goto(t, "upgradable")
    /\ untold' = TRUE
    /\ UNCHANGED <<mutex, no_readers, no_writer>>

\* the future is dropped where it waits: for the mutex, for the writer to go,
\* or, with a write guard in hand, for the readers to go
Cancel(t) ==
    /\ \/ /\ pc[t] \in {"write", "upgradable_read"}
          /\ Goto(t, "idle") /\ UNCHANGED <<no_readers, no_writer>>
       \/ /\ pc[t] = "rawait"
          /\ no_writer' = DropListener(no_writer, t)
          /\ Goto(t, "idle") /\ UNCHANGED no_readers
       \/ /\ pc[t] = "wawait"
          /\ no_readers' = DropListener(no_readers, t)
          /\ Goto(t, "wcancel") /\ UNCHANGED no_writer
    /\ UNCHANGED <<state, mutex, untold>>

-----------------------------------------------------------------------------
Step(t) ==
    \/ TakeRead(t) \/ FailRead(t) \/ ReadListen(t) \/ ReadCheck(t) \/ ReadLoad(t)
    \/ ReadDrop(t) \/ ReadAwait(t) \/ ReadNotify(t)
    \/ Reserve(t) \/ FailReserve(t) \/ WriteCas(t) \/ WriteSet(t) \/ WriteLoad(t)
    \/ WriteListen(t) \/ WriteCheck(t) \/ WriteDrop(t) \/ WriteAwait(t)
    \/ UpgradableAdd(t) \/ LastReader(t) \/ WriteNotify(t) \/ Unlock(t)

Guards(t) ==
    \/ ReadRelease(t) \/ WriteRelease(t) \/ DowngradeUpgradable(t)
    \/ TryUpgrade(t) \/ Upgrade(t)
    \/ Downgrade(t) \/ DowngradeToUpgradable(t)

Next == \E t \in Tasks : Call(t) \/ Step(t) \/ Guards(t) \/ Cancel(t)

Spec == Init /\ [][Next]_vars

-----------------------------------------------------------------------------
\* the places where a task counts as a reader, or has set the writer bit, and
\* those where it holds the mutex for sure (a last reader may hold it too)
ReaderPcs == {"reading", "upgradable", "dnotify", "dunlock"}
WriterPcs == {"wload", "wlisten", "wcheck", "wdrop", "wawait", "writing", "wcancel"}
MutexPcs  == WriterPcs \cup {"wset", "wcas", "uadd", "upgradable", "wnotify", "dnotify",
                             "dunlock", "unlock"}
Pcs == ReaderPcs \cup MutexPcs \cup
       {"idle", "read", "try_read", "write", "try_write", "upgradable_read",
        "try_upgradable_read", "rlisten", "rcheck", "rawait", "rload", "rdrop",
        "rdroplisten", "rnotify", "lastreader"}

At(T) == {t \in Tasks : pc[t] \in T}

TypeOK ==
    /\ state \in Nat /\ mutex \in Tasks \cup {None}
    /\ pc \in [Tasks -> Pcs]

\* The word counts the readers and the writer that set the bit, one at a time
\* because it holds the mutex; a write guard is handed out when both counts
\* say that nobody else is in.
IInv ==
    /\ TypeOK
    /\ state = 2 * Cardinality(At(ReaderPcs)) + Cardinality(At(WriterPcs))
    /\ \A t \in Tasks : pc[t] \in MutexPcs => mutex = t
    /\ \A t \in Tasks : pc[t] = "writing" => state = 1

Holding(l) == {t \in Tasks : pc[t] = l}

\* A write guard excludes every other guard, and an upgradable guard every
\* other upgradable one, through upgrades, downgrades and dropped futures.
GuardsExclude ==
    /\ Holding("writing") # {} =>
          Cardinality(Holding("writing") \cup Holding("reading") \cup Holding("upgradable")) = 1
    /\ Cardinality(Holding("upgradable")) <= 1

\* a task that will not move by itself: out, holding a guard, or waiting
Resting(t) ==
    \/ pc[t] \in {"idle", "reading", "writing", "upgradable"}
    \/ pc[t] = "rawait" /\ ~IsNotified(no_writer, t)
    \/ pc[t] = "wawait" /\ ~IsNotified(no_readers, t)
    \/ pc[t] \in {"write", "upgradable_read"} /\ mutex # None

\* No wake-up is lost: when no task moves, a reader waits only for a writer
\* and a writer only for readers.  A write guard that was downgraded to an
\* upgradable one is the exception: it tells no reader that the writer went.
WaitsForSomeone ==
    (\A t \in Tasks : Resting(t)) =>
       \A t \in Tasks : /\ pc[t] = "rawait" => Writer \/ untold
                        /\ pc[t] = "wawait" => Readers > 0
=============================================================================
