------------------------------ MODULE MCQueues -------------------------------
(***************************************************************************)
(* The three queues for TLC, one at a time: the linked queue, with its own *)
(* variables, and the queue with one slot and the array queue, which share *)
(* theirs.  Threads and values are interchangeable.                        *)
(***************************************************************************)
EXTENDS UnboundedQueue, TLC

CONSTANTS
    Trio,                 \* the threads of the single queue and the array queue with one
                          \* slot; Threads are those of the linked queue and the array queue
    Cap,                  \* the slots of the array queue
    MaxSmall, MaxBounded  \* bounds: the pushes into the array queue with one slot and with Cap

ASSUME QueuesAssumption ==
    /\ Cap \in Nat \ {0} /\ {MaxSmall, MaxBounded, MaxPush} \subseteq Nat /\ None \notin Values
    /\ Laps \subseteq {2^i : i \in 1 .. 5}

VARIABLES
    which, word, slot, expect, buffer, other,
    front, rear, saw,  \* head, tail and seen of the array queue
    at, asked, lost    \* pc, call and dropped of both

Single  == INSTANCE SingleQueue WITH Threads <- Trio, pc <- at, call <- asked, dropped <- lost
Small   == INSTANCE BoundedQueue WITH
             Threads <- Trio, Cap <- 1, MaxPush <- MaxSmall, head <- front, tail <- rear, seen <- saw,
             pc <- at, call <- asked, dropped <- lost
Bounded == INSTANCE BoundedQueue WITH
             MaxPush <- MaxBounded, head <- front, tail <- rear, seen <- saw,
             pc <- at, call <- asked, dropped <- lost

ofSingle  == <<word, slot, expect>>
ofBounded == <<buffer, other, front, rear, saw>>
ofRings   == <<ofSingle, ofBounded, at, asked, lost>>
mcvars    == <<which, vars, ofRings>>

\* the queues that are not looked at rest in one state
Rest == Init /\ lap = CHOOSE l \in Laps : TRUE

MCInit ==
    \/ /\ which = "single" /\ Single!Init /\ Rest
       /\ buffer = 0 /\ other = 0 /\ front = 0 /\ rear = 0 /\ saw = 0
    \/ /\ \/ which = "small" /\ Small!Init
          \/ which = "bounded" /\ Bounded!Init
       /\ Rest /\ word = 0 /\ slot = 0 /\ expect = 0
    \/ /\ which = "unbounded" /\ Init
       /\ word = 0 /\ slot = 0 /\ expect = 0 /\ at = 0 /\ asked = 0 /\ lost = 0
       /\ buffer = 0 /\ other = 0 /\ front = 0 /\ rear = 0 /\ saw = 0

MCNext ==
    /\ \/ which = "single" /\ Single!Next /\ UNCHANGED <<vars, ofBounded>>
       \/ which = "small" /\ Small!Next /\ UNCHANGED <<vars, ofSingle>>
       \/ which = "bounded" /\ Bounded!Next /\ UNCHANGED <<vars, ofSingle>>
       \/ which = "unbounded" /\ Next /\ UNCHANGED ofRings
    /\ UNCHANGED which

MCSpec == MCInit /\ [][MCNext]_mcvars

\* Each queue implements the closable FIFO: see ImplementsFifo in its module.
\* Calls take effect at one instant between call and return, and no value is
\* lost, duplicated or read before it is written.
StartsAsFifo ==
    /\ which = "single" => Single!Q!Init
    /\ which = "small" => Small!Q!Init
    /\ which = "bounded" => Bounded!Q!Init
    /\ which = "unbounded" => Q!Init
FifoStep ==
    /\ which = "single" => [Single!Q!Next]_(Single!Q!fvars)
    /\ which = "small" => [Small!Q!Next]_(Small!Q!fvars)
    /\ which = "bounded" => [Bounded!Q!Next]_(Bounded!Q!fvars)
    /\ which = "unbounded" => [Q!Next]_(Q!fvars)
QueuesAreFifos == StartsAsFifo /\ [][FifoStep]_mcvars

MCSymmetry == Permutations(Trio) \cup Permutations(Threads) \cup Permutations(Values)
=============================================================================
