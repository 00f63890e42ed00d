--------------------------- MODULE BlockingMutex ----------------------------
(***************************************************************************)
(* platform/mutex/mutex.rs: the Mutex of threads.  It has the protocol of  *)
(* the asynchronous one (M), with ten looks before the first loop, waits   *)
(* that cannot be cancelled, and a starved locker that notifies nobody.    *)
(***************************************************************************)
EXTENDS EventList

CONSTANTS Lockers

VARIABLES state, ev, pc

M == INSTANCE AsyncMutex WITH MayCancel <- FALSE, locker_pc <- pc

mvars == <<state, ev, pc>>

BmInit == M!MutexInit

\* lock, try_lock, and lock_slow's ten looks, after the last of which it goes
\* on as acquire_slow does
Lock(l) == M!TryLock(l)
Spin(l) == pc[l] = "listen" /\ state = 0 /\ state' = 1 /\ M!LockerGoto(l, "in") /\ UNCHANGED ev

\* the arm Err(s) takes every failure of the CAS
StarvedCas(l) ==
    /\ pc[l] = "s_cas"
    /\ IF state = 2 THEN state' = 3 /\ M!LockerGoto(l, "s_drop")
       ELSE M!LockerGoto(l, "s_await") /\ UNCHANGED state
    /\ UNCHANGED ev

\* mutant: the lock is free before its guard has notified
DropGuardSilent(l) == pc[l] = "in" /\ state' = state - 1 /\ M!LockerGoto(l, "out") /\ UNCHANGED ev
DropGuard(l) == M!Release(l)

BmStep(l) ==
    \/ Spin(l) \/ M!ListenForLock(l, "listen", "cas") \/ M!Cas(l)
    \/ M!DropFor(l, "drop_in", "in") \/ M!DropFor(l, "drop_starve", "starve")
    \/ M!AwaitTurn(l, "await", "cas_again") \/ M!CasAgain(l)
    \/ M!NotifyFor(l, "notify_starve", "starve") \/ M!Starve(l)
    \/ M!ListenForLock(l, "s_listen", "s_cas") \/ StarvedCas(l)
    \/ M!DropFor(l, "s_drop", "s_end")
    \/ M!AwaitTurn(l, "s_await", "s_or") \/ M!SOr(l)
    \/ M!EndStarve(l, "s_end", "in") \/ M!NotifyFor(l, "notify_out", "out")

BmNext == \E l \in Lockers : Lock(l) \/ BmStep(l) \/ DropGuard(l)

-----------------------------------------------------------------------------
\* Two threads never hold the lock, and a free lock is not slept on, unless
\* two threads starve for it: with all awake threads gone somebody is notified.
\* Two that starve may sleep on a free lock for ever: see the README.
SleepsOnHeldLock ==
    /\ M!MutualExclusion
    /\ \/ \A l \in Lockers : pc[l] \in {"await", "s_await"} => IsNotified(ev, l)
       \/ \E l \in Lockers : pc[l] \notin {"out", "await", "s_await"}
       \/ NotifiedCount(ev) > 0
       \/ Cardinality(M!Starved) >= 2
=============================================================================
