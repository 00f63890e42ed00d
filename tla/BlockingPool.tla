---------------------------- MODULE BlockingPool ----------------------------
(***************************************************************************)
(* The thread pool of runtime/blocking/blocking.rs.  A critical section of *)
(* its Mutex is one step.  What a runnable does is left out, so it is only *)
(* counted; it may block for ever.                                         *)
(***************************************************************************)
EXTENDS Integers, FiniteSets

CONSTANTS
    Pool,     \* the threads there may be: 500 in the code
    PerIdle,  \* how many queued runnables an idle thread is to take: 5 in the code
    MaxQueue  \* bound: the queue

VARIABLES
    queue,                      \* how many runnables are queued
    idle_count, thread_count,   \* the fields of Inner
    tpc                         \* where each thread is

bpvars == <<queue, idle_count, thread_count, tpc>>

In(S) == {t \in Pool : tpc[t] \in S}

BpInit == queue = 0 /\ idle_count = 0 /\ thread_count = 0 /\ tpc = [t \in Pool |-> "none"]

\* notify_one and notify_all
NotifyOne(p) ==
    LET waiting == {t \in Pool : p[t] = "waiting"} IN
    IF waiting = {} THEN {p} ELSE {[p EXCEPT ![t] = "notified"] : t \in waiting}
NotifyAll(p) == [t \in Pool |-> IF p[t] = "waiting" THEN "notified" ELSE p[t]]

\* the loop of grow_pool has started k threads when it ends, and not sooner
Grown(len, idle, k) ==
    /\ k = Cardinality(Pool) - thread_count \/ len <= (idle + k) * PerIdle
    /\ \A j \in 0 .. k - 1 : len > (idle + j) * PerIdle

\* grow_pool, with len runnables queued, idle threads, and the threads at p
Grow(len, idle, p) ==
    \E k \in 0 .. Cardinality(Pool) - thread_count :
       /\ Grown(len, idle, k)
       /\ queue' = len /\ idle_count' = idle + k /\ thread_count' = thread_count + k
       /\ \E new \in {S \in SUBSET {t \in Pool : p[t] = "none"} : Cardinality(S) = k} :
             tpc' = [t \in Pool |-> IF t \in new THEN "starting" ELSE IF k > 0 THEN NotifyAll(p)[t] ELSE p[t]]

Schedule ==
    /\ queue < MaxQueue
    /\ \E p \in NotifyOne(tpc) : Grow(queue + 1, idle_count, p)

\* the inner loop of cycle_entry from the lock on, with the count of idle threads there
PopOrWait(t, idle) ==
    IF queue > 0 THEN Grow(queue - 1, idle, [tpc EXCEPT ![t] = "running"])
    ELSE /\ idle_count' = idle + 1 /\ tpc' = [tpc EXCEPT ![t] = "waiting"]
         /\ UNCHANGED <<queue, thread_count>>

Enter(t)   == tpc[t] \in {"starting", "notified"} /\ PopOrWait(t, idle_count - 1)
RunDone(t) == tpc[t] = "running" /\ PopOrWait(t, idle_count)    \* or it has panicked
TimeOut(t) == tpc[t] = "waiting" /\ tpc' = [tpc EXCEPT ![t] = "timed_out"]
              /\ UNCHANGED <<queue, idle_count, thread_count>>

Leaves(t) ==
    /\ idle_count' = idle_count - 1 /\ thread_count' = thread_count - 1
    /\ tpc' = [tpc EXCEPT ![t] = "none"] /\ UNCHANGED queue
\* mutant: a thread that timed out leaves, come what may
LeaveAnyway(t) == tpc[t] = "timed_out" /\ Leaves(t)
TimedOut(t) ==
    /\ tpc[t] = "timed_out"
    /\ IF queue = 0 THEN Leaves(t) ELSE PopOrWait(t, idle_count - 1)

BpNext == Schedule \/ \E t \in Pool : Enter(t) \/ RunDone(t) \/ TimeOut(t) \/ TimedOut(t)

-----------------------------------------------------------------------------
\* A queued runnable never depends on one that runs, and may block for ever:
\* some thread is on its way to the queue, unless the pool is as large as it
\* may be.  And the counts by which the pool decides to grow are exact.
NoStrandedRunnable ==
    /\ queue > 0 /\ thread_count < Cardinality(Pool) => In({"starting", "notified", "timed_out"}) # {}
    /\ idle_count = Cardinality(In({"starting", "notified", "timed_out", "waiting"}))
    /\ thread_count = Cardinality(Pool \ In({"none"}))
=============================================================================
