------------------------------ MODULE Barrier -------------------------------
(***************************************************************************)
(* platform/lock/barrier.rs.  Everything but the wait for the event        *)
(* happens under the Mutex of its state, so what a task does from one lock *)
(* to the next unlock is one step.                                         *)
(***************************************************************************)
EXTENDS EventList

CONSTANTS
    Parties,  \* the tasks
    Needed,   \* Barrier::new(n)
    MaxGens   \* bound: how often it opens; the generation wraps after 2^64

VARIABLES
    arrived, generation,  \* State
    bell,                 \* Barrier.event
    party,                \* where each task is
    mine                  \* local_gen, the generation it arrived in

bavars == <<arrived, generation, bell, party, mine>>

BaInit ==
    /\ arrived = 0 /\ generation = 0 /\ bell = NoListeners
    /\ party = [p \in Parties |-> "out"]
    /\ mine = [p \in Parties |-> 0]

Goes(p, to) == party' = [party EXCEPT ![p] = to]

\* wait: lock, arrive, and listen or let all go
Arrive(p) ==
    /\ party[p] = "out"
    /\ mine' = [mine EXCEPT ![p] = generation]
    /\ IF arrived + 1 < Needed
       THEN /\ arrived' = arrived + 1 /\ bell' = Listen(bell, p) /\ Goes(p, "await")
            /\ UNCHANGED generation
       ELSE /\ arrived' = 0 /\ generation' = generation + 1 /\ generation < MaxGens
            /\ bell' = Notify(bell, Cardinality(Parties))
            /\ Goes(p, "out")

\* the listener's await returns; the lock is still to be taken
Rung(p) ==
    /\ party[p] = "await" /\ IsNotified(bell, p)
    /\ bell' = Consume(bell, p) /\ Goes(p, "relock")
    /\ UNCHANGED <<arrived, generation, mine>>

\* mutant: the count alone tells whether the barrier has opened
RecheckCount(p) ==
    /\ party[p] = "relock"
    /\ IF arrived < Needed /\ arrived > 0
       THEN bell' = Listen(bell, p) /\ Goes(p, "await") ELSE Goes(p, "out") /\ UNCHANGED bell
    /\ UNCHANGED <<arrived, generation, mine>>

\* the condition of the while
Recheck(p) ==
    /\ party[p] = "relock"
    /\ IF mine[p] = generation /\ arrived < Needed
       THEN bell' = Listen(bell, p) /\ Goes(p, "await") ELSE Goes(p, "out") /\ UNCHANGED bell
    /\ UNCHANGED <<arrived, generation, mine>>

\* the wait future is dropped; its arrival still counts
Leave(p) ==
    /\ party[p] \in {"await", "relock"} /\ bell' = DropListener(bell, p)
    /\ Goes(p, "left") /\ UNCHANGED <<arrived, generation, mine>>

BaNext == \E p \in Parties : Arrive(p) \/ Rung(p) \/ Recheck(p) \/ Leave(p)

-----------------------------------------------------------------------------
\* Nobody is left behind: a task that waits un-notified arrived in the current
\* generation, which still lacks an arrival; tasks of an older one are awake
\* or notified, also when a faster task is already back for the next round.
NobodyLeftBehind ==
    \A p \in Parties :
       party[p] = "await" /\ ~IsNotified(bell, p) => mine[p] = generation /\ arrived < Needed /\ arrived > 0
=============================================================================
