------------------------------ MODULE MCRuntime ------------------------------
(* The rwlock, the semaphore, the barrier, the wait group, the blocking      *)
(* mutex, the parker, and the parts of MCIo and MCAdapters, for TLC: one of  *)
(* them, which, runs, and the others stay as they began.                     *)
EXTENDS MCIo, RwLock, Semaphore

CONSTANTS
    Parties, Needed, MaxGens,               \* Barrier
    Children, Main, Cloners, NoTask,        \* WaitGroup
    Lockers,                                \* BlockingMutex
    Unparkers                               \* Parker

ASSUME RuntimeAssumption ==
    /\ NoTask \notin Cloners \cup {Main}
    /\ Needed \in Nat /\ \A S \in {Parties, Children, Lockers} : IsFiniteSet(S)

VARIABLES
    arrived, generation, bell, party, mine,                 \* Barrier
    pending, child, captured, source, rang,                 \* WaitGroup
    bstate, bev, bpc,                                       \* BlockingMutex
    pstate, plock, kpc, timed, upc, happened, told          \* Parker

Bar == INSTANCE Barrier
Wg  == INSTANCE WaitGroup
Bm  == INSTANCE BlockingMutex WITH state <- bstate, ev <- bev, pc <- bpc
Pa  == INSTANCE Parker

bavars == <<arrived, generation, bell, party, mine>>
wgvars == <<pending, child, captured, source, rang>>
mvars  == <<bstate, bev, bpc>>
kvars  == <<pstate, plock, kpc, timed, upc, happened, told>>

Syncs  == {"rwlock", "semaphore", "barrier", "wait_group", "blocking_mutex", "parker"}
syvars == <<vars, svars, bavars, wgvars, mvars, kvars>>

SyInit == Init /\ SInit /\ Bar!BaInit /\ Wg!WgInit /\ Bm!BmInit /\ Pa!KInit

SyNext ==
    \/ which = "rwlock" /\ Next /\ UNCHANGED <<svars, bavars, wgvars, mvars, kvars>>
    \/ which = "semaphore" /\ SNext /\ UNCHANGED <<vars, bavars, wgvars, mvars, kvars>>
    \/ which = "barrier" /\ Bar!BaNext /\ UNCHANGED <<vars, svars, wgvars, mvars, kvars>>
    \/ which = "wait_group" /\ Wg!WgNext /\ UNCHANGED <<vars, svars, bavars, mvars, kvars>>
    \/ which = "blocking_mutex" /\ Bm!BmNext /\ UNCHANGED <<vars, svars, bavars, wgvars, kvars>>
    \/ which = "parker" /\ Pa!KNext /\ UNCHANGED <<vars, svars, bavars, wgvars, mvars>>

MCInit == which \in Syncs \cup IoParts \cup Adapters /\ SyInit /\ IoInit /\ AdInit
MCNext ==
    /\ UNCHANGED which
    /\ \/ which \in Syncs /\ SyNext /\ UNCHANGED <<iovars, advars>>
       \/ which \in IoParts /\ IoNext /\ UNCHANGED <<syvars, advars>>
       \/ which \in Adapters /\ AdNext /\ UNCHANGED <<syvars, iovars>>
MCSpec == MCInit /\ [][MCNext]_<<which, syvars, iovars, advars>>

\* Nobody waits for what has happened or cannot happen: on permits that are all
\* free, in a barrier's past generation, for children that are all done, on a
\* free blocking mutex, or parked after an unpark.  Each part is stated in its
\* module, with its exceptions, which are the code's: a source sleeps on when the
\* last child is one that another task made, and two starved threads of a free
\* blocking mutex may both sleep, since neither notifies.
NobodyStranded ==
    /\ WaitsForGuard /\ Bar!NobodyLeftBehind /\ Wg!LastChildWakes
    /\ Bm!SleepsOnHeldLock /\ Pa!UnparkNotLost

\* three tasks on one source: a poll_readable, a readable() and a write_with
MCWaiters == {"a", "b", "c"}
MCKind    == [t \in MCWaiters |-> CASE t = "a" -> "poll" [] t = "b" -> "ready" [] t = "c" -> "with"]
MCDir     == [t \in MCWaiters |-> IF t = "c" THEN "write" ELSE "read"]

MCSymmetry == Permutations(Users)
=============================================================================
