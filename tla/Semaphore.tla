----------------------------- MODULE Semaphore ------------------------------
(***************************************************************************)
(* platform/lock/semaphore.rs: a counter and an Event.  The CAS loop of    *)
(* try_acquire is one step, the CAS that succeeds or the load of 0.        *)
(***************************************************************************)
EXTENDS EventList

CONSTANTS
    Users,    \* the tasks
    Permits   \* Semaphore::new(n)

ASSUME SemaphoreAssumption == IsFiniteSet(Users) /\ Permits \in Nat

VARIABLES
    count,   \* Semaphore.count
    event,   \* Semaphore.event
    user     \* where each task is

svars == <<count, event, user>>

Moves(u, here, to) == user[u] = here /\ user' = [user EXCEPT ![u] = to]

SInit == count = Permits /\ event = NoListeners /\ user = [u \in Users |-> "out"]

-----------------------------------------------------------------------------
\* mutant: the count is read and written apart
TryAcquireBlind(u, here, won, lost) ==
    /\ Moves(u, here, IF count > 0 \/ here = "look_again" THEN won ELSE lost)
    /\ count' = IF count > 0 THEN count - 1 ELSE count
    /\ UNCHANGED event

\* try_acquire, try_acquire_arc
TryAcquire(u, here, won, lost) ==
    /\ Moves(u, here, IF count > 0 THEN won ELSE lost)
    /\ count' = IF count > 0 THEN count - 1 ELSE count
    /\ UNCHANGED event

\* acquire, acquire_arc: the loop without, and with, a listener
Acquire(u)   == TryAcquire(u, "out", "in", "listen")
GiveUp(u)    == Moves(u, "listen", "out") /\ UNCHANGED <<count, event>>   \* try_acquire returned None
ListenTo(u)  == Moves(u, "listen", "look_again") /\ event' = Listen(event, u) /\ UNCHANGED count
LookAgain(u) == TryAcquire(u, "look_again", "drop_listener", "await")
DropIt(u)    == Moves(u, "drop_listener", "in") /\ event' = DropListener(event, u) /\ UNCHANGED count
Awaited(u)   == IsNotified(event, u) /\ Moves(u, "await", "look") /\ event' = Consume(event, u) /\ UNCHANGED count
Look(u)      == TryAcquire(u, "look", "in", "listen")
\* the acquire future is dropped
CancelAcquire(u)    == Moves(u, "await", "out") /\ event' = DropListener(event, u) /\ UNCHANGED count

\* Drop for SemaphoreGuard and SemaphoreGuardArc
Release(u)    == Moves(u, "in", "notify") /\ count' = count + 1 /\ UNCHANGED event
NotifyOne(u)  == Moves(u, "notify", "out") /\ event' = Notify(event, 1) /\ UNCHANGED count

SNext == \E u \in Users :
    \/ Acquire(u) \/ GiveUp(u) \/ ListenTo(u) \/ LookAgain(u) \/ DropIt(u) \/ Awaited(u) \/ Look(u)
    \/ CancelAcquire(u) \/ Release(u) \/ NotifyOne(u)

SSpec == SInit /\ [][SNext]_svars

-----------------------------------------------------------------------------
GuardPcs == {"in", "drop_listener"}
PermitGuards == {u \in Users : user[u] \in GuardPcs}

\* Permits are conserved: what the counter has left and the guards that exist
\* add up to n, in every interleaving of acquires, releases and cancellations.
PermitsConserved == count + Cardinality(PermitGuards) = Permits

\* A task that waits, with nobody notified or about to look or to notify, waits
\* for a guard that exists: the permits cannot all be free, if there are any.  A
\* weaker claim than for the locks, because notify(1) for a second permit does
\* nothing while the first notification is unused: see the README.
WaitsForGuard ==
    Permits > 0 /\ (\E u \in Users : user[u] = "await" /\ ~IsNotified(event, u)) =>
       \/ PermitGuards # {}
       \/ NotifiedCount(event) > 0
       \/ \E u \in Users : user[u] \in {"notify", "look"}
=============================================================================
