-------------------------------- MODULE Parker -------------------------------
(***************************************************************************)
(* platform/parking/parking.rs, and its use by block_on of                 *)
(* future/block_on.rs: a thread polls a future and parks until it is       *)
(* ready, which other threads make it; each of them then unparks.  The     *)
(* thread may also use park_timeout.  One step is one atomic access, or    *)
(* what the Condvar does in one.                                           *)
(***************************************************************************)
EXTENDS Integers, FiniteSets

CONSTANTS Unparkers

VARIABLES
    pstate,     \* Inner.state
    plock,      \* who holds Inner.lock: "thread", "nobody"
    kpc, timed, \* where the parking thread is, and whether it gave a timeout
    upc,        \* where each unparker is
    happened,   \* what the future waits for, as far as it has happened
    told        \* history: unparks since park returned last

kvars == <<pstate, plock, kpc, timed, upc, happened, told>>

KInit ==
    /\ pstate = "EMPTY" /\ plock = "nobody" /\ kpc = "poll" /\ timed = FALSE
    /\ upc = [u \in Unparkers |-> "start"] /\ happened = {} /\ told = FALSE

-----------------------------------------------------------------------------
\* a turn of the loop of block_on
PollFuture ==
    /\ kpc = "poll" /\ kpc' = IF happened = Unparkers THEN "returned" ELSE "park"
    /\ timed' \in BOOLEAN /\ UNCHANGED <<pstate, plock, upc, happened, told>>

\* park: an unpark that came before is used up; a timeout of zero returns at once
ParkFast ==
    /\ kpc = "park"
    /\ \/ pstate = "NOTIFIED" /\ pstate' = "EMPTY" /\ kpc' = "poll" /\ told' = FALSE
       \/ pstate # "NOTIFIED" /\ kpc' = "lock" /\ UNCHANGED <<pstate, told>>
       \/ pstate # "NOTIFIED" /\ timed /\ kpc' = "poll" /\ UNCHANGED <<pstate, told>>
    /\ UNCHANGED <<plock, timed, upc, happened>>
ParkLock ==
    /\ kpc = "lock" /\ plock = "nobody" /\ plock' = "thread" /\ kpc' = "locked"
    /\ UNCHANGED <<pstate, timed, upc, happened, told>>
ParkCas ==
    /\ kpc = "locked"
    /\ IF pstate = "EMPTY" THEN pstate' = "PARKED" /\ kpc' = "waiting" /\ UNCHANGED <<plock, told>>
       ELSE pstate' = "EMPTY" /\ kpc' = "poll" /\ plock' = "nobody" /\ told' = FALSE
    /\ UNCHANGED <<timed, upc, happened>>
\* the Condvar lets go of the lock and sleeps; it may return of itself
ParkWait ==
    /\ kpc = "waiting" /\ plock' = "nobody" /\ kpc' = "asleep"
    /\ UNCHANGED <<pstate, timed, upc, happened, told>>
ParkWakes ==
    /\ kpc = "asleep" /\ kpc' = "awake" /\ UNCHANGED <<pstate, plock, timed, upc, happened, told>>
\* with the lock again: what came in the meantime; without a timeout, sleep on
ParkLook ==
    /\ kpc = "awake" /\ plock = "nobody"
    /\ IF pstate = "NOTIFIED" \/ timed
       THEN pstate' = "EMPTY" /\ kpc' = "poll" /\ UNCHANGED plock /\ told' = FALSE
       ELSE kpc' = "waiting" /\ plock' = "thread" /\ UNCHANGED <<pstate, told>>
    /\ UNCHANGED <<timed, upc, happened>>

-----------------------------------------------------------------------------
To(u, l) == upc' = [upc EXCEPT ![u] = l]
Happens(u) ==
    /\ upc[u] = "start" /\ happened' = happened \cup {u} /\ To(u, "unpark")
    /\ UNCHANGED <<pstate, plock, kpc, timed, told>>
Unpark(u) ==
    /\ upc[u] = "unpark" /\ pstate' = "NOTIFIED" /\ told' = TRUE
    /\ To(u, IF pstate = "PARKED" THEN "lock" ELSE "end")
    /\ UNCHANGED <<plock, kpc, timed, happened>>
\* mutant: the lock is not taken in between
UnparkBarges(u) ==
    /\ upc[u] = "lock" /\ To(u, "notify") /\ UNCHANGED <<pstate, plock, kpc, timed, happened, told>>
UnparkLock(u) ==
    /\ upc[u] = "lock" /\ plock = "nobody" /\ To(u, "notify")
    /\ UNCHANGED <<pstate, plock, kpc, timed, happened, told>>
NotifyOne(u) ==
    /\ upc[u] = "notify" /\ To(u, "end") /\ kpc' = (IF kpc = "asleep" THEN "awake" ELSE kpc)
    /\ UNCHANGED <<pstate, plock, timed, happened, told>>

KNext ==
    \/ PollFuture \/ ParkFast \/ ParkLock \/ ParkCas \/ ParkWait \/ ParkWakes \/ ParkLook
    \/ \E u \in Unparkers : Happens(u) \/ Unpark(u) \/ UnparkLock(u) \/ NotifyOne(u)

-----------------------------------------------------------------------------
Notifying == \E u \in Unparkers : upc[u] \in {"lock", "notify"}

\* No unpark is lost: a thread asleep in the Condvar with an unpark since park
\* returned last, or with all done that its future waits for, has an unparker
\* that is yet to notify it.  And the state word is one of a thread that parks,
\* so that none of the asserts and panics on it can fail.
UnparkNotLost ==
    /\ kpc = "asleep" /\ told => Notifying
    /\ kpc = "asleep" /\ happened = Unparkers => \E u \in Unparkers : upc[u] # "end"
    /\ told <=> pstate = "NOTIFIED"
    /\ pstate = "PARKED" => kpc \in {"waiting", "asleep", "awake"}
    /\ kpc \in {"waiting", "asleep", "awake"} => pstate # "EMPTY"
=============================================================================
