----------------------------- MODULE AsyncMutex ------------------------------
(***************************************************************************)
(* platform/lock/mutex.rs: the asynchronous Mutex.  The word `state` is    *)
(* the locked bit plus twice the number of starved lockers; lock_ops is an *)
(* Event.  One action is one atomic access of the word or one call of the  *)
(* Event.                                                                  *)
(***************************************************************************)
EXTENDS EventList

CONSTANTS
    Lockers,    \* the tasks that use the mutex
    MayCancel   \* whether a lock() future may be dropped while it waits

ASSUME LockersAssumption == IsFiniteSet(Lockers) /\ MayCancel \in BOOLEAN

VARIABLES
    state,  \* Mutex.state
    ev,     \* Mutex.lock_ops
    locker_pc   \* where each locker is

mutexVars == <<state, ev, locker_pc>>

LockerGoto(l, to) == locker_pc' = [locker_pc EXCEPT ![l] = to]

MutexInit ==
    /\ state = 0
    /\ ev = NoListeners
    /\ locker_pc = [l \in Lockers |-> "out"]

\* mutant: a locker ignores those that starve
CasBarging(l, won, locked, starving) ==
    IF state % 2 = 0 THEN state' = state + 1 /\ LockerGoto(l, won)
    ELSE /\ LockerGoto(l, IF state = 1 THEN locked ELSE starving)
         /\ UNCHANGED state

\* what a locker finds in the word: free, locked, or lockers are starving
CasFree(l, won, locked, starving) ==
    IF state = 0 THEN state' = 1 /\ LockerGoto(l, won)
    ELSE /\ LockerGoto(l, IF state = 1 THEN locked ELSE starving)
         /\ UNCHANGED state

(***************************************************************************)
(* lock, lock_arc, and try_lock when it succeeds.                          *)
(***************************************************************************)
TryLock(l) ==
    /\ locker_pc[l] = "out"
    /\ CasFree(l, "in", "listen", "listen")
    /\ UNCHANGED ev

(***************************************************************************)
(* acquire_slow while nobody starves.                                      *)
(***************************************************************************)
ListenForLock(l, in, next) ==
    /\ locker_pc[l] = in
    /\ ev' = Listen(ev, l)
    /\ LockerGoto(l, next)
    /\ UNCHANGED state

Cas(l) ==
    /\ locker_pc[l] = "cas"
    /\ CasFree(l, "drop_in", "await", "drop_starve")
    /\ UNCHANGED ev

\* the listener goes out of scope
DropFor(l, in, next) ==
    /\ locker_pc[l] = in
    /\ ev' = DropListener(ev, l)
    /\ LockerGoto(l, next)
    /\ UNCHANGED state

\* listener.await returns
AwaitTurn(l, in, next) ==
    /\ locker_pc[l] = in /\ IsNotified(ev, l)
    /\ ev' = Consume(ev, l)
    /\ LockerGoto(l, next)
    /\ UNCHANGED state

\* the second look; 500 microseconds may have passed
CasAgain(l) ==
    /\ locker_pc[l] = "cas_again"
    /\ \E late \in BOOLEAN : CasFree(l, "in", IF late THEN "starve" ELSE "listen", "notify_starve")
    /\ UNCHANGED ev

NotifyFor(l, in, next) ==
    /\ locker_pc[l] = in
    /\ ev' = Notify(ev, 1)
    /\ LockerGoto(l, next)
    /\ UNCHANGED state

(***************************************************************************)
(* acquire_slow once the locker starves.                                   *)
(***************************************************************************)
Starve(l) ==
    /\ locker_pc[l] = "starve"
    /\ state' = state + 2
    /\ LockerGoto(l, "s_listen")
    /\ UNCHANGED ev

\* mutant: nobody is notified of a free lock that several starve for
SCasSilent(l) ==
    /\ locker_pc[l] = "s_cas"
    /\ IF state = 2 THEN state' = 3 /\ LockerGoto(l, "s_drop")
       ELSE LockerGoto(l, "s_await") /\ UNCHANGED state
    /\ UNCHANGED ev

\* a free lock that several lockers starve for: see that one is notified
SCas(l) ==
    /\ locker_pc[l] = "s_cas"
    /\ IF state = 2 THEN state' = 3 /\ LockerGoto(l, "s_drop")
       ELSE /\ LockerGoto(l, IF state % 2 = 1 THEN "s_await" ELSE "s_notify")
            /\ UNCHANGED state
    /\ UNCHANGED ev

\* mutant: the bit fetch_or found is not looked at
SOrBlind(l) ==
    /\ locker_pc[l] = "s_or"
    /\ state' = IF state % 2 = 0 THEN state + 1 ELSE state
    /\ LockerGoto(l, "s_end")
    /\ UNCHANGED ev

\* fetch_or(1)
SOr(l) ==
    /\ locker_pc[l] = "s_or"
    /\ IF state % 2 = 0 THEN state' = state + 1 /\ LockerGoto(l, "s_end")
       ELSE LockerGoto(l, "s_listen") /\ UNCHANGED state
    /\ UNCHANGED ev

\* mutant: a cancelled locker stays counted
EndStarveNotOnCancel(l, in, next) ==
    /\ locker_pc[l] = in
    /\ state' = IF in = "s_cancel" THEN state ELSE state - 2
    /\ LockerGoto(l, next)
    /\ UNCHANGED ev

\* CallOnDrop
EndStarve(l, in, next) ==
    /\ locker_pc[l] = in
    /\ state' = state - 2
    /\ LockerGoto(l, next)
    /\ UNCHANGED ev

(***************************************************************************)
(* Drop for MutexGuard and MutexGuardArc, and of a lock() future.          *)
(***************************************************************************)
Release(l) ==
    /\ locker_pc[l] = "in"
    /\ state' = state - 1
    /\ LockerGoto(l, "notify_out")
    /\ UNCHANGED ev

CancelLock(l) ==
    /\ MayCancel
    /\ \/ DropFor(l, "await", "out")
       \/ DropFor(l, "s_await", "s_cancel")

LockerStep(l) ==
    \/ ListenForLock(l, "listen", "cas") \/ Cas(l)
    \/ DropFor(l, "drop_in", "in") \/ DropFor(l, "drop_starve", "starve")
    \/ AwaitTurn(l, "await", "cas_again") \/ CasAgain(l)
    \/ NotifyFor(l, "notify_starve", "starve") \/ Starve(l)
    \/ ListenForLock(l, "s_listen", "s_cas") \/ SCas(l)
    \/ DropFor(l, "s_drop", "s_end") \/ NotifyFor(l, "s_notify", "s_await")
    \/ AwaitTurn(l, "s_await", "s_or") \/ SOr(l)
    \/ EndStarve(l, "s_end", "in") \/ EndStarve(l, "s_cancel", "out")
    \/ NotifyFor(l, "notify_out", "out")

MutexNext == \E l \in Lockers : TryLock(l) \/ LockerStep(l) \/ Release(l) \/ CancelLock(l)

(***************************************************************************)
(* A locker that can go on does, a guard is dropped at some time; nobody   *)
(* has to lock or to cancel.                                               *)
(***************************************************************************)
MutexFairness == \A l \in Lockers : WF_mutexVars(LockerStep(l)) /\ WF_mutexVars(Release(l))

MutexSpec == MutexInit /\ [][MutexNext]_mutexVars
FairMutexSpec == MutexSpec /\ MutexFairness

-----------------------------------------------------------------------------
(***************************************************************************)
(* Properties                                                              *)
(***************************************************************************)

LockerPcs == {"out", "listen", "cas", "drop_in", "drop_starve", "await", "cas_again",
        "notify_starve", "starve", "s_listen", "s_cas", "s_drop", "s_notify", "s_await",
        "s_or", "s_end", "s_cancel", "in", "notify_out"}

\* Lockers that own the lock, and lockers counted as starved in the word.
OwnerPcs   == {"drop_in", "in", "s_drop", "s_end"}
StarvedPcs == {"s_listen", "s_cas", "s_drop", "s_notify", "s_await", "s_or", "s_end", "s_cancel"}
Owners     == {l \in Lockers : locker_pc[l] \in OwnerPcs}
Starved    == {l \in Lockers : locker_pc[l] \in StarvedPcs}

\* The type of the word and of the program counters.
MutexTypeOK == state \in Nat /\ locker_pc \in [Lockers -> LockerPcs]

\* At most one locker holds a guard, whichever of the three ways (CAS 0 to 1,
\* CAS 2 to 3, fetch_or) it took the lock.
MutualExclusion == \A l, m \in Owners : l = m

\* The word always is the locked bit plus twice the number of starved lockers,
\* in every interleaving of acquire, unlock and cancellation.
WordExact == state = 2 * Cardinality(Starved) + Cardinality(Owners)

\* Neither is inductive alone: a CAS on the word is safe because the word counts
\* the owners, and it counts them because there is at most one.
MutexInv == MutexTypeOK /\ WordExact /\ Cardinality(Owners) \in {0, 1}

\* No wake-up is lost: if cancellations stop at some time, a free lock that
\* somebody awaits is taken, also when the lockers notified first were
\* cancelled.
Awaited == \E l \in Lockers : locker_pc[l] \in {"await", "s_await"}
FreeLockIsTaken ==
    <>[][\A l \in Lockers : ~CancelLock(l)]_mutexVars
        => ((Owners = {} /\ Awaited) ~> (Owners # {} \/ ~Awaited))

\* While a locker starves, only starved lockers get the lock: newcomers and
\* lockers still in the first loop cannot overtake it.
Barging   == Owners = {} /\ Starved # {} /\ ~(Owners' \subseteq Starved)
NoBarging == [][~Barging]_mutexVars
=============================================================================
