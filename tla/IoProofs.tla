------------------------------ MODULE IoProofs ------------------------------
(***************************************************************************)
(* Proofs about what MCRuntime runs of the reactor, the blocking pool and  *)
(* their users, for every value of the constants: the blocking pool, the   *)
(* readiness of sources, the pipe of Unblock, the slab, the timers and the *)
(* file.  Each has an inductive invariant of its own; a step of MCSpec is  *)
(* a step of one of them and leaves the others alone.                      *)
(***************************************************************************)
EXTENDS MCRuntime, ProofLemmas

(***************************************************************************)
(* BlockingPool                                                            *)
(***************************************************************************)
BpPcs     == {"none", "starting", "notified", "running", "waiting", "timed_out"}
OnWayPcs  == {"starting", "notified", "timed_out"}
BpIdlePcs == {"starting", "notified", "timed_out", "waiting"}
ThreadPcs == {"starting", "notified", "running", "waiting", "timed_out"}
OnWay(p)  == Where(p, Pool, OnWayPcs)

\* the counts are exact
BpCounts(idle, p) ==
    /\ p \in [Pool -> BpPcs]
    /\ idle = Cardinality(Where(p, Pool, BpIdlePcs)) /\ thread_count = Cardinality(Where(p, Pool, ThreadPcs))
\* while a thread waits, one is on its way for every runnable
BpEnough(queued, p) == (\E t \in Pool : p[t] = "waiting") => Cardinality(OnWay(p)) >= queued

BpInv ==
    /\ queue \in Nat /\ BpCounts(idle_count, tpc) /\ BpEnough(queue, tpc)
    /\ queue > 0 /\ thread_count < Cardinality(Pool) => OnWay(tpc) # {}

\* The instance counts as this module does.
LEMMA BpSame == \A S : Bp!Cardinality(S) = Cardinality(S)
BY DEF Bp!Cardinality, Cardinality

\* The counts are numbers.
LEMMA BpNumbers ==
    ASSUME NEW p, NEW T
    PROVE  IsFiniteSet(Where(p, Pool, T)) /\ Cardinality(Where(p, Pool, T)) \in Nat
<1>1. Where(p, Pool, T) \subseteq Pool
  BY DEF Where
<1> QED BY <1>1, IoAssumption, FS_Subset, FS_CardinalityType

\* grow_pool starts threads until there are enough or it may not start more.
LEMMA GrowHolds ==
    ASSUME NEW queued \in Nat, NEW idle, NEW p, BpCounts(idle, p), BpEnough(queued, p), Bp!Grow(queued, idle, p)
    PROVE  BpInv'
<1> DEFINE room == Cardinality(Pool) - thread_count
<1>1. PICK k \in 0 .. room, new \in SUBSET {t \in Pool : p[t] = "none"} :
        /\ k = room \/ queued <= (idle + k) * PerIdle
        /\ queue' = queued /\ idle_count' = idle + k /\ thread_count' = thread_count + k /\ Cardinality(new) = k
        /\ tpc' = [t \in Pool |-> IF t \in new THEN "starting"
                                  ELSE IF k > 0 THEN IF p[t] = "waiting" THEN "notified" ELSE p[t] ELSE p[t]]
  BY BpSame DEF Bp!Grow, Bp!Grown, Bp!NotifyAll
<1> DEFINE I == Where(p, Pool, BpIdlePcs)
           A == Where(p, Pool, ThreadPcs)
<1>2. /\ IsFiniteSet(I) /\ IsFiniteSet(A) /\ IsFiniteSet(new) /\ Cardinality(Pool) \in Nat
      /\ Cardinality(I) \in Nat /\ Cardinality(A) \in Nat /\ Cardinality(new) \in Nat /\ k \in Nat
  <2>1. IsFiniteSet(Pool) /\ new \subseteq Pool
    BY IoAssumption
  <2>2. IsFiniteSet(new) /\ Cardinality(new) \in Nat /\ Cardinality(Pool) \in Nat
    BY <2>1, FS_Subset, FS_CardinalityType
  <2> QED BY <1>1, <2>2, BpNumbers
<1>3. I \cap new = {} /\ A \cap new = {}
  BY DEF Where, BpIdlePcs, ThreadPcs
<1>4. Cardinality(I \cup new) = idle + k /\ Cardinality(A \cup new) = thread_count + k
  <2>1. Cardinality(I \cup new) = Cardinality(I) + Cardinality(new) - Cardinality(I \cap new)
    BY <1>2, FS_Union
  <2>2. Cardinality(A \cup new) = Cardinality(A) + Cardinality(new) - Cardinality(A \cap new)
    BY <1>2, FS_Union
  <2>3. Cardinality(I \cap new) = 0 /\ Cardinality(A \cap new) = 0
    BY <1>3, FS_EmptySet
  <2>4. Cardinality(I) = idle /\ Cardinality(A) = thread_count /\ Cardinality(new) = k
    BY <1>1 DEF BpCounts
  <2> HIDE DEF I, A
  <2> QED BY <1>2, <2>1, <2>2, <2>3, <2>4
<1>5. tpc' \in [Pool -> BpPcs]
  BY <1>1 DEF BpCounts, BpPcs
<1>6. Where(tpc', Pool, BpIdlePcs) = I \cup new /\ Where(tpc', Pool, ThreadPcs) = A \cup new
  BY <1>1 DEF Where, BpIdlePcs, ThreadPcs
<1>7. BpCounts(idle_count, tpc)'
  BY <1>1, <1>4, <1>5, <1>6 DEF BpCounts
<1>8. k = 0 => tpc' = p
  <2> SUFFICES ASSUME k = 0 PROVE tpc' = p
    OBVIOUS
  <2>1. new = {}
    BY <1>1, <1>2, FS_EmptySet
  <2> QED BY <1>1, <2>1 DEF BpCounts
<1>9. BpEnough(queue, tpc)'
  <2>1. CASE k = 0
    BY <1>1, <1>8, <2>1 DEF BpEnough
  <2>2. CASE k > 0
    BY <1>1, <2>2 DEF BpEnough
  <2> QED BY <1>2, <2>1, <2>2
<1>10. ASSUME queue' > 0, thread_count' < Cardinality(Pool) PROVE OnWay(tpc') # {}
  <2>1. CASE k > 0
    <3>1. new # {}
      BY <1>1, <1>2, <2>1, FS_EmptySet
    <3>2. \A t \in new : tpc'[t] = "starting" /\ t \in Pool
      BY <1>1
    <3> QED BY <3>1, <3>2 DEF OnWay, Where, OnWayPcs
  <2>2. CASE k = 0
    <3>1. queued > 0 /\ queued <= idle * PerIdle /\ idle \in Nat /\ PerIdle \in Nat
      BY <1>1, <1>2, <1>10, <2>2, IoAssumption DEF BpCounts
    <3>2. idle # 0
      BY <3>1
    <3>3. I # {}
      BY <3>2, FS_EmptySet DEF BpCounts
    <3>4. OnWay(p) # {} \/ \E t \in Pool : p[t] = "waiting"
      BY <3>3 DEF OnWay, Where, BpIdlePcs, OnWayPcs
    <3>5. (\E t \in Pool : p[t] = "waiting") => Cardinality(OnWay(p)) > 0
      <4>1. Cardinality(OnWay(p)) \in Nat
        BY BpNumbers DEF OnWay
      <4> QED BY <3>1, <4>1 DEF BpEnough
    <3>6. OnWay(p) # {}
      BY <3>4, <3>5, FS_EmptySet
    <3> QED BY <1>8, <2>2, <3>6
  <2> QED BY <1>2, <2>1, <2>2
<1> QED BY <1>1, <1>7, <1>9, <1>10 DEF BpInv

\* A step of one thread changes the counts by what its places bring.
LEMMA BpMove ==
    ASSUME BpInv, NEW t \in Pool, NEW to \in BpPcs, to # "none", tpc[t] # "none"
    PROVE  LET p == [tpc EXCEPT ![t] = to] IN
           /\ p \in [Pool -> BpPcs] /\ idle_count \in Nat /\ thread_count \in Nat /\ Cardinality(OnWay(tpc)) \in Nat
           /\ thread_count = Cardinality(Where(p, Pool, ThreadPcs))
           /\ Cardinality(Where(p, Pool, BpIdlePcs)) = idle_count + In(to, BpIdlePcs) - In(tpc[t], BpIdlePcs)
           /\ Cardinality(OnWay(p)) = Cardinality(OnWay(tpc)) + In(to, OnWayPcs) - In(tpc[t], OnWayPcs)
<1> DEFINE p == [tpc EXCEPT ![t] = to]
<1>1. tpc \in [Pool -> BpPcs]
  BY DEF BpInv, BpCounts
<1>2. p = [tpc EXCEPT ![t] = to] /\ p \in [Pool -> BpPcs]
  BY <1>1
<1> HIDE DEF p
<1>c. \A T : /\ Cardinality(Where(tpc, Pool, T)) \in Nat
             /\ Cardinality(Where(p, Pool, T)) = Cardinality(Where(tpc, Pool, T)) + In(to, T) - In(tpc[t], T)
  <2>1. ChangedAt(tpc, p, t, Pool) /\ p[t] = to
    BY <1>1, <1>2 DEF ChangedAt
  <2> QED BY <2>1, IoAssumption, CountAfterChange
<1>3. /\ idle_count \in Nat
      /\ Cardinality(Where(p, Pool, BpIdlePcs)) = idle_count + In(to, BpIdlePcs) - In(tpc[t], BpIdlePcs)
  BY <1>c DEF BpInv, BpCounts
<1>4. /\ Cardinality(OnWay(tpc)) \in Nat
      /\ Cardinality(OnWay(p)) = Cardinality(OnWay(tpc)) + In(to, OnWayPcs) - In(tpc[t], OnWayPcs)
  BY <1>c DEF OnWay
<1>5. In(to, ThreadPcs) = 1 /\ In(tpc[t], ThreadPcs) = 1
  BY <1>1 DEF In, ThreadPcs, BpPcs
<1>6. /\ Cardinality(Where(tpc, Pool, ThreadPcs)) \in Nat
      /\ Cardinality(Where(p, Pool, ThreadPcs)) =
           Cardinality(Where(tpc, Pool, ThreadPcs)) + In(to, ThreadPcs) - In(tpc[t], ThreadPcs)
  BY <1>c
<1>7. thread_count \in Nat /\ thread_count = Cardinality(Where(p, Pool, ThreadPcs))
  BY <1>5, <1>6 DEF BpInv, BpCounts
<1> QED BY <1>2, <1>3, <1>4, <1>7 DEF p

\* A thread at the queue takes a runnable, and has the pool grow, or waits.
LEMMA PopOrWaitHolds ==
    ASSUME BpInv, NEW t \in Pool, tpc[t] \in OnWayPcs \cup {"running"}, NEW idle,
           idle = idle_count - In(tpc[t], BpIdlePcs), Bp!PopOrWait(t, idle)
    PROVE  BpInv'
<1>0. /\ queue \in Nat /\ tpc \in [Pool -> BpPcs] /\ tpc[t] # "none" /\ "running" \in BpPcs /\ "waiting" \in BpPcs
      /\ "running" # "none" /\ "waiting" # "none"
      /\ In("running", BpIdlePcs) = 0 /\ In("waiting", BpIdlePcs) = 1
      /\ In("running", OnWayPcs) = 0 /\ In(tpc[t], OnWayPcs) \in {0, 1} /\ In(tpc[t], BpIdlePcs) \in {0, 1}
  BY DEF BpInv, BpCounts, BpPcs, OnWayPcs, BpIdlePcs, In
<1>1. CASE queue > 0
  <2> DEFINE p == [tpc EXCEPT ![t] = "running"]
  <2>1. /\ p \in [Pool -> BpPcs] /\ idle_count \in Nat /\ Cardinality(OnWay(tpc)) \in Nat
        /\ thread_count = Cardinality(Where(p, Pool, ThreadPcs))
        /\ Cardinality(Where(p, Pool, BpIdlePcs)) = idle_count + 0 - In(tpc[t], BpIdlePcs)
        /\ Cardinality(OnWay(p)) = Cardinality(OnWay(tpc)) + 0 - In(tpc[t], OnWayPcs)
    BY <1>0, BpMove
  <2>2. BpCounts(idle, p)
    BY <1>0, <2>1 DEF BpCounts
  <2>3. ASSUME NEW x \in Pool, p[x] = "waiting" PROVE Cardinality(OnWay(p)) >= queue - 1
    <3>1. tpc[x] = "waiting"
      BY <1>0, <2>3
    <3>2. Cardinality(OnWay(tpc)) >= queue
      BY <3>1 DEF BpInv, BpEnough
    <3> QED BY <1>0, <2>1, <3>2
  <2>4. Bp!Grow(queue - 1, idle, p) /\ queue - 1 \in Nat
    BY <1>0, <1>1 DEF Bp!PopOrWait
  <2> HIDE DEF p
  <2>5. BpEnough(queue - 1, p)
    BY <2>3 DEF BpEnough
  <2> QED BY <2>2, <2>4, <2>5, GrowHolds
<1>2. CASE ~(queue > 0)
  <2> DEFINE p == [tpc EXCEPT ![t] = "waiting"]
  <2>1. idle_count' = idle + 1 /\ tpc' = p /\ UNCHANGED <<queue, thread_count>> /\ queue = 0
    BY <1>0, <1>2 DEF Bp!PopOrWait
  <2>2. /\ p \in [Pool -> BpPcs] /\ idle_count \in Nat
        /\ thread_count = Cardinality(Where(p, Pool, ThreadPcs))
        /\ Cardinality(Where(p, Pool, BpIdlePcs)) = idle_count + 1 - In(tpc[t], BpIdlePcs)
    BY <1>0, BpMove
  <2>3. BpCounts(idle_count, tpc)'
    BY <1>0, <2>1, <2>2 DEF BpCounts
  <2>4. Cardinality(OnWay(tpc')) \in Nat
    BY BpNumbers DEF OnWay
  <2> QED BY <2>1, <2>3, <2>4 DEF BpInv, BpEnough
<1> QED BY <1>1, <1>2

\* The pool's invariant holds at first.
LEMMA BpInitHolds == Bp!BpInit => BpInv
<1> SUFFICES ASSUME Bp!BpInit PROVE BpInv
  OBVIOUS
<1>1. queue = 0 /\ idle_count = 0 /\ thread_count = 0 /\ tpc = [t \in Pool |-> "none"]
  BY DEF Bp!BpInit
<1>2. Where(tpc, Pool, BpIdlePcs) = {} /\ Where(tpc, Pool, ThreadPcs) = {}
  BY <1>1 DEF Where, BpIdlePcs, ThreadPcs
<1>3. BpCounts(idle_count, tpc)
  BY <1>1, <1>2, FS_EmptySet DEF BpCounts, BpPcs
<1> QED BY <1>1, <1>3 DEF BpInv, BpEnough

\* See BpInitHolds.
LEMMA BpStepHolds == BpInv /\ [Bp!BpNext]_bpvars => BpInv'
<1> SUFFICES ASSUME BpInv, [Bp!BpNext]_bpvars PROVE BpInv'
  OBVIOUS
<1>0. queue \in Nat /\ tpc \in [Pool -> BpPcs]
  BY DEF BpInv, BpCounts
<1>1. CASE UNCHANGED bpvars
  BY <1>1 DEF bpvars, BpInv, BpCounts, BpEnough
<1>2. CASE Bp!Schedule
  <2>1. PICK p \in Bp!NotifyOne(tpc) : Bp!Grow(queue + 1, idle_count, p)
    BY <1>2 DEF Bp!Schedule
  <2>2. CASE \A t \in Pool : tpc[t] # "waiting"
    <3>1. p = tpc
      BY <2>1, <2>2 DEF Bp!NotifyOne
    <3>2. BpEnough(queue + 1, p) /\ BpCounts(idle_count, p)
      BY <2>2, <3>1 DEF BpEnough, BpInv
    <3> QED BY <1>0, <2>1, <3>2, GrowHolds
  <2>3. CASE \E t \in Pool : tpc[t] = "waiting"
    <3>1. PICK t \in Pool : tpc[t] = "waiting" /\ p = [tpc EXCEPT ![t] = "notified"]
      BY <2>1, <2>3 DEF Bp!NotifyOne
    <3>2. /\ In("notified", BpIdlePcs) = 1 /\ In("waiting", BpIdlePcs) = 1 /\ "notified" \in BpPcs
          /\ In("notified", OnWayPcs) = 1 /\ In("waiting", OnWayPcs) = 0
      BY DEF In, BpIdlePcs, OnWayPcs, BpPcs
    <3>3. /\ p \in [Pool -> BpPcs] /\ idle_count \in Nat /\ Cardinality(OnWay(tpc)) \in Nat
          /\ thread_count = Cardinality(Where(p, Pool, ThreadPcs))
          /\ Cardinality(Where(p, Pool, BpIdlePcs)) = idle_count + 1 - 1
          /\ Cardinality(OnWay(p)) = Cardinality(OnWay(tpc)) + 1 - 0
      BY <3>1, <3>2, BpMove
    <3>4. Cardinality(OnWay(tpc)) >= queue
      BY <2>3 DEF BpInv, BpEnough
    <3>5. BpEnough(queue + 1, p) /\ BpCounts(idle_count, p)
      BY <1>0, <3>3, <3>4 DEF BpEnough, BpCounts
    <3> QED BY <1>0, <2>1, <3>5, GrowHolds
  <2> QED BY <2>2, <2>3
<1>3. ASSUME NEW t \in Pool, Bp!Enter(t) \/ Bp!RunDone(t) PROVE BpInv'
  <2>1. CASE Bp!Enter(t)
    <3>1. tpc[t] \in {"starting", "notified"} /\ Bp!PopOrWait(t, idle_count - 1)
      BY <2>1 DEF Bp!Enter
    <3>2. In(tpc[t], BpIdlePcs) = 1 /\ tpc[t] \in OnWayPcs \cup {"running"}
      BY <3>1 DEF In, BpIdlePcs, OnWayPcs
    <3> QED BY <3>1, <3>2, PopOrWaitHolds
  <2>2. CASE Bp!RunDone(t)
    <3>1. tpc[t] = "running" /\ Bp!PopOrWait(t, idle_count)
      BY <2>2 DEF Bp!RunDone
    <3>2. In(tpc[t], BpIdlePcs) = 0 /\ tpc[t] \in OnWayPcs \cup {"running"}
      BY <3>1 DEF In, BpIdlePcs, OnWayPcs
    <3>3. idle_count \in Nat
      BY BpNumbers DEF BpInv, BpCounts
    <3>4. idle_count = idle_count - In(tpc[t], BpIdlePcs)
      BY <3>2, <3>3
    <3> QED BY <3>1, <3>2, <3>4, PopOrWaitHolds
  <2> QED BY <1>3, <2>1, <2>2
<1>4. ASSUME NEW t \in Pool, Bp!TimeOut(t) PROVE BpInv'
  <2>1. tpc[t] = "waiting" /\ tpc' = [tpc EXCEPT ![t] = "timed_out"] /\ UNCHANGED <<queue, idle_count, thread_count>>
    BY <1>4 DEF Bp!TimeOut
  <2>2. /\ In("timed_out", BpIdlePcs) = 1 /\ In("waiting", BpIdlePcs) = 1 /\ "timed_out" \in BpPcs
        /\ In("timed_out", OnWayPcs) = 1 /\ In("waiting", OnWayPcs) = 0
    BY DEF In, BpIdlePcs, OnWayPcs, BpPcs
  <2>3. /\ tpc' \in [Pool -> BpPcs] /\ idle_count \in Nat /\ Cardinality(OnWay(tpc)) \in Nat
        /\ thread_count = Cardinality(Where(tpc', Pool, ThreadPcs))
        /\ Cardinality(Where(tpc', Pool, BpIdlePcs)) = idle_count + 1 - 1
        /\ Cardinality(OnWay(tpc')) = Cardinality(OnWay(tpc)) + 1 - 0
    BY <2>1, <2>2, BpMove
  <2>4. Cardinality(OnWay(tpc)) >= queue
    BY <2>1 DEF BpInv, BpEnough
  <2>5. BpCounts(idle_count, tpc)' /\ BpEnough(queue, tpc)'
    BY <1>0, <2>1, <2>3, <2>4 DEF BpEnough, BpCounts
  <2>6. OnWay(tpc') # {}
    BY <1>0, <2>1 DEF OnWay, Where, OnWayPcs
  <2> QED BY <1>0, <2>1, <2>5, <2>6 DEF BpInv
<1>5. ASSUME NEW t \in Pool, Bp!TimedOut(t) PROVE BpInv'
  <2>1. tpc[t] = "timed_out" /\ In(tpc[t], BpIdlePcs) = 1 /\ tpc[t] \in OnWayPcs \cup {"running"}
    BY <1>5 DEF Bp!TimedOut, In, BpIdlePcs, OnWayPcs
  <2>2. CASE queue # 0
    <3>1. Bp!PopOrWait(t, idle_count - 1)
      BY <1>5, <2>2 DEF Bp!TimedOut
    <3> QED BY <2>1, <3>1, PopOrWaitHolds
  <2>3. CASE queue = 0
    <3>1. /\ idle_count' = idle_count - 1 /\ thread_count' = thread_count - 1
          /\ tpc' = [tpc EXCEPT ![t] = "none"] /\ UNCHANGED queue
      BY <1>5, <2>3 DEF Bp!TimedOut, Bp!Leaves
    <3>2. /\ In("none", BpIdlePcs) = 0 /\ In("none", ThreadPcs) = 0 /\ In("timed_out", ThreadPcs) = 1 /\ "none" \in BpPcs
      BY DEF In, BpIdlePcs, ThreadPcs, BpPcs
    <3>0. \A T : /\ Cardinality(Where(tpc, Pool, T)) \in Nat /\ tpc' \in [Pool -> BpPcs]
                 /\ Cardinality(Where(tpc', Pool, T)) =
                      Cardinality(Where(tpc, Pool, T)) + In("none", T) - In("timed_out", T)
      <4>1. ChangedAt(tpc, tpc', t, Pool) /\ tpc'[t] = "none" /\ tpc' \in [Pool -> BpPcs]
        BY <1>0, <3>1, <3>2 DEF ChangedAt
      <4> QED BY <2>1, <4>1, IoAssumption, CountAfterChange
    <3>3. /\ Cardinality(Where(tpc', Pool, BpIdlePcs)) = Cardinality(Where(tpc, Pool, BpIdlePcs)) + 0 - 1
          /\ Cardinality(Where(tpc, Pool, BpIdlePcs)) \in Nat /\ tpc' \in [Pool -> BpPcs]
      BY <2>1, <3>0, <3>2
    <3>4. /\ Cardinality(Where(tpc', Pool, ThreadPcs)) = Cardinality(Where(tpc, Pool, ThreadPcs)) + 0 - 1
          /\ Cardinality(Where(tpc, Pool, ThreadPcs)) \in Nat
      BY <2>1, <3>0, <3>2
    <3>5. BpCounts(idle_count, tpc)'
      BY <3>1, <3>3, <3>4 DEF BpInv, BpCounts
    <3>6. Cardinality(OnWay(tpc')) \in Nat
      BY BpNumbers DEF OnWay
    <3> QED BY <2>3, <3>1, <3>5, <3>6 DEF BpInv, BpEnough
  <2> QED BY <2>2, <2>3
<1> QED BY <1>1, <1>2, <1>3, <1>4, <1>5 DEF Bp!BpNext

\* See BpInitHolds.
LEMMA BpInvSays == BpInv => NoStrandedRunnable
<1> SUFFICES ASSUME BpInv PROVE NoStrandedRunnable
  OBVIOUS
<1>1. /\ Bp!In({"starting", "notified", "timed_out"}) = OnWay(tpc)
      /\ Bp!In({"starting", "notified", "timed_out", "waiting"}) = Where(tpc, Pool, BpIdlePcs)
      /\ Pool \ Bp!In({"none"}) = Where(tpc, Pool, ThreadPcs)
  BY DEF Bp!In, OnWay, Where, OnWayPcs, BpIdlePcs, ThreadPcs, BpInv, BpCounts, BpPcs
<1> QED BY <1>1, BpSame DEF NoStrandedRunnable, Bp!NoStrandedRunnable, BpInv, BpCounts

(***************************************************************************)
(* Readiness                                                               *)
(***************************************************************************)
Ticks == Nat \X Nat \cup {Re!NoTicks}

RdTypeOK ==
    /\ ticker \in Nat /\ rtick = ticker /\ tick \in [Re!Dirs -> Nat]
    /\ slot \in [Re!Dirs -> Waiters \cup {Re!Unset}] /\ slab \in [Re!Dirs -> SUBSET Waiters]
    /\ ticks \in [Re!Dirs -> Ticks] /\ fticks \in [Waiters -> Ticks]
    /\ wpc \in [Waiters -> {"try", "wait", "asleep"}] /\ interest \subseteq Re!Dirs
    /\ events \subseteq Re!Dirs /\ drained \subseteq Waiters
    /\ rspc \in {"idle", "polling", "events", "wake"}

\* a task asleep is woken, or its waker is where it will be called
Heard == \A t \in Waiters : wpc[t] = "asleep" /\ t \notin roused =>
            t \in slab[ReadyDir[t]] \cup {slot[ReadyDir[t]]} \cup drained
\* the poller is armed, or has an event that was not processed
Armed == \A d \in Re!Dirs : Re!Registered(d, slot, slab) => d \in interest \/ rspc = "events"
\* ticks that were taken are the ticker's, and the direction's, of their time
TicksPast(tk, d) == tk # Re!NoTicks => tk[1] <= ticker /\ (tick[d] \in {tk[1], tk[2]} \/ tick[d] > tk[1])

RdInv ==
    /\ RdTypeOK /\ Heard /\ Armed
    /\ rspc # "wake" => drained = {}
    /\ \A d \in Re!Dirs : tick[d] <= ticker /\ TicksPast(ticks[d], d)
    /\ \A t \in Waiters : TicksPast(fticks[t], ReadyDir[t])

\* The invariant of a source holds at first.
LEMMA RdInitHolds == Re!RdInit => RdInv
BY IoAssumption
   DEF Re!RdInit, RdInv, RdTypeOK, Heard, Armed, TicksPast, Re!Registered, Re!Dirs, Re!NoTicks, Re!Unset, Ticks

\* Ticks taken now are of now.
LEMMA TicksNow ==
    ASSUME RdInv, NEW d \in Re!Dirs
    PROVE  <<ticker, tick[d]>> \in Ticks /\ TicksPast(<<ticker, tick[d]>>, d) /\ TicksPast(Re!NoTicks, d)
           /\ Re!NoTicks \in Ticks
BY DEF RdInv, RdTypeOK, TicksPast, Ticks

\* A task that waits is registered, and the poller armed.
LEMMA WaitsHolds ==
    ASSUME RdInv, NEW t \in Waiters, NEW sl, NEW sb, NEW woke, Re!Waits(t, sl, sb, woke),
           \/ sl = [slot EXCEPT ![ReadyDir[t]] = t] /\ sb = slab /\ woke = {slot[ReadyDir[t]]} \ {Re!Unset, t}
           \/ sl = slot /\ sb = [slab EXCEPT ![ReadyDir[t]] = @ \cup {t}] /\ woke = {},
           UNCHANGED <<rspc, drained>>
    PROVE  /\ slot' \in [Re!Dirs -> Waiters \cup {Re!Unset}] /\ slab' \in [Re!Dirs -> SUBSET Waiters]
           /\ wpc' \in [Waiters -> {"try", "wait", "asleep"}] /\ interest' \subseteq Re!Dirs
           /\ Heard' /\ Armed'
<1>0. ReadyDir[t] \in Re!Dirs /\ Re!Unset \notin Waiters /\ \A x \in Waiters : ReadyDir[x] \in Re!Dirs
  BY IoAssumption DEF Re!Dirs, Re!Unset
<1>1. /\ slot' = sl /\ slab' = sb /\ wpc' = [wpc EXCEPT ![t] = "asleep"] /\ roused' = (roused \cup woke) \ {t}
      /\ interest' = (IF Re!Registered(ReadyDir[t], slot, slab) THEN interest ELSE Re!Interests(sl, sb))
  BY DEF Re!Waits, Re!Goes
<1>2. /\ slot' \in [Re!Dirs -> Waiters \cup {Re!Unset}] /\ slab' \in [Re!Dirs -> SUBSET Waiters]
      /\ wpc' \in [Waiters -> {"try", "wait", "asleep"}] /\ interest' \subseteq Re!Dirs
  BY <1>0, <1>1 DEF RdInv, RdTypeOK, Re!Interests
<1>3. Heard'
  BY <1>0, <1>1 DEF RdInv, RdTypeOK, Heard
<1>4. Armed'
  <2>1. CASE Re!Registered(ReadyDir[t], slot, slab)
    <3>1. \A d \in Re!Dirs : Re!Registered(d, slot', slab') => Re!Registered(d, slot, slab)
      BY <1>0, <1>1, <2>1 DEF RdInv, RdTypeOK, Re!Registered
    <3> QED BY <1>1, <2>1, <3>1 DEF RdInv, Armed
  <2>2. CASE ~Re!Registered(ReadyDir[t], slot, slab)
    BY <1>1, <2>2 DEF Armed, Re!Interests
  <2> QED BY <2>1, <2>2
<1> QED BY <1>2, <1>3, <1>4

\* See RdInitHolds.
LEMMA RdTasksHold ==
    ASSUME RdInv, NEW t \in Waiters, Re!Try(t) \/ Re!PollReady(t) \/ Re!Ready(t) \/ Re!Again(t)
    PROVE  RdInv'
<1>0. /\ ReadyDir[t] \in Re!Dirs /\ Re!Unset \notin Waiters /\ \A x \in Waiters : ReadyDir[x] \in Re!Dirs
      /\ RdTypeOK
  BY IoAssumption DEF Re!Dirs, Re!Unset, RdInv
<1>1. CASE Re!Try(t)
  BY <1>0, <1>1 DEF Re!Try, Re!Goes, RdInv, RdTypeOK, Heard, Armed, TicksPast
<1>2. CASE Re!PollReady(t)
  <2>0. UNCHANGED <<able, ticker, tick, fticks, rspc, rtick, events, drained>>
    BY <1>2 DEF Re!PollReady
  <2>1. CASE wpc' = [wpc EXCEPT ![t] = "try"] /\ UNCHANGED <<slot, slab, interest, roused>>
             /\ ticks' = [ticks EXCEPT ![ReadyDir[t]] = Re!NoTicks]
    BY <1>0, <2>0, <2>1, TicksNow DEF RdInv, RdTypeOK, Heard, Armed, TicksPast
  <2>2. CASE /\ Re!Waits(t, [slot EXCEPT ![ReadyDir[t]] = t], slab, {slot[ReadyDir[t]]} \ {Re!Unset, t})
             /\ ticks' = IF slot[ReadyDir[t]] = t THEN ticks
                         ELSE [ticks EXCEPT ![ReadyDir[t]] = <<ticker, tick[ReadyDir[t]]>>]
    <3>1. /\ slot' \in [Re!Dirs -> Waiters \cup {Re!Unset}] /\ slab' \in [Re!Dirs -> SUBSET Waiters]
          /\ wpc' \in [Waiters -> {"try", "wait", "asleep"}] /\ interest' \subseteq Re!Dirs
          /\ Heard' /\ Armed'
      BY <2>0, <2>2, WaitsHolds
    <3>2. /\ ticks' \in [Re!Dirs -> Ticks]
          /\ \A d \in Re!Dirs : ticks'[d] = ticks[d] \/ ticks'[d] = <<ticker, tick[d]>>
      BY <1>0, <2>2, TicksNow DEF RdTypeOK
    <3>3. \A d \in Re!Dirs : TicksPast(ticks[d], d)'
      BY <2>0, <3>2, TicksNow DEF RdInv, TicksPast
    <3> QED BY <2>0, <3>1, <3>2, <3>3 DEF RdInv, RdTypeOK, TicksPast
  <2> QED BY <1>2, <2>1, <2>2 DEF Re!PollReady, Re!Goes
<1>3. CASE Re!Ready(t)
  <2>0. UNCHANGED <<able, ticker, tick, ticks, rspc, rtick, events, drained>>
    BY <1>3 DEF Re!Ready
  <2>1. CASE wpc' = [wpc EXCEPT ![t] = "try"] /\ UNCHANGED <<slot, interest, roused>>
             /\ fticks' = [fticks EXCEPT ![t] = Re!NoTicks] /\ slab' = [slab EXCEPT ![ReadyDir[t]] = @ \ {t}]
    BY <1>0, <2>0, <2>1, TicksNow DEF RdInv, RdTypeOK, Heard, Armed, TicksPast, Re!Registered
  <2>2. CASE /\ Re!Waits(t, slot, [slab EXCEPT ![ReadyDir[t]] = @ \cup {t}], {})
             /\ fticks' = IF fticks[t] = Re!NoTicks
                          THEN [fticks EXCEPT ![t] = <<ticker, tick[ReadyDir[t]]>>] ELSE fticks
    <3>1. /\ slot' \in [Re!Dirs -> Waiters \cup {Re!Unset}] /\ slab' \in [Re!Dirs -> SUBSET Waiters]
          /\ wpc' \in [Waiters -> {"try", "wait", "asleep"}] /\ interest' \subseteq Re!Dirs
          /\ Heard' /\ Armed'
      BY <2>0, <2>2, WaitsHolds
    <3>2. /\ fticks' \in [Waiters -> Ticks]
          /\ \A x \in Waiters : fticks'[x] = fticks[x] \/ fticks'[x] = <<ticker, tick[ReadyDir[x]]>>
      BY <1>0, <2>2, TicksNow DEF RdTypeOK
    <3>3. \A x \in Waiters : TicksPast(fticks[x], ReadyDir[x])'
      BY <1>0, <2>0, <3>2, TicksNow DEF RdInv, TicksPast
    <3> QED BY <2>0, <3>1, <3>2, <3>3 DEF RdInv, RdTypeOK, TicksPast
  <2> QED BY <1>3, <2>1, <2>2 DEF Re!Ready, Re!Goes
<1>4. CASE Re!Again(t)
  <2>0. UNCHANGED <<able, interest, ticker, tick, slot, ticks, roused, rspc, rtick, events, drained>>
    BY <1>4 DEF Re!Again
  <2>1. /\ \E l \in {"try", "wait"} : wpc' = [wpc EXCEPT ![t] = l]
        /\ \/ UNCHANGED <<slab, fticks>>
           \/ slab' = [slab EXCEPT ![ReadyDir[t]] = @ \ {t}] /\ fticks' = [fticks EXCEPT ![t] = Re!NoTicks]
    BY <1>4 DEF Re!Again, Re!Goes
  <2>2. RdTypeOK'
    <3>1. wpc' \in [Waiters -> {"try", "wait", "asleep"}]
      BY <1>0, <2>1 DEF RdTypeOK
    <3>2. slab' \in [Re!Dirs -> SUBSET Waiters]
      BY <1>0, <2>1 DEF RdTypeOK
    <3>3. fticks' \in [Waiters -> Ticks]
      BY <1>0, <2>1, TicksNow DEF RdTypeOK
    <3> QED BY <1>0, <2>0, <3>1, <3>2, <3>3 DEF RdTypeOK
  <2>3. Heard' /\ Armed'
    BY <1>0, <2>0, <2>1 DEF RdInv, RdTypeOK, Heard, Armed, Re!Registered
  <2>4. \A x \in Waiters : TicksPast(fticks[x], ReadyDir[x])'
    BY <1>0, <2>0, <2>1, TicksNow DEF RdInv, RdTypeOK, TicksPast
  <2> QED BY <2>0, <2>2, <2>3, <2>4 DEF RdInv, TicksPast
<1> QED BY <1>1, <1>2, <1>3, <1>4

\* See RdInitHolds.
LEMMA RdStepHolds == RdInv /\ [Re!RdNext]_rdvars => RdInv'
<1> SUFFICES ASSUME RdInv, [Re!RdNext]_rdvars PROVE RdInv'
  OBVIOUS
<1>0. /\ Re!Unset \notin Waiters /\ \A x \in Waiters : ReadyDir[x] \in Re!Dirs
  BY IoAssumption DEF Re!Dirs, Re!Unset
<1>1. CASE UNCHANGED rdvars
  BY <1>1 DEF rdvars, RdInv, RdTypeOK, Heard, Armed, TicksPast
<1>2. ASSUME NEW d \in Re!Dirs, Re!Becomes(d) PROVE RdInv'
  BY <1>2 DEF Re!Becomes, RdInv, RdTypeOK, Heard, Armed, TicksPast
<1>3. CASE Re!React
  <2>1. /\ ticker' = ticker + 1 /\ rtick' = ticker + 1 /\ rspc = "idle" /\ rspc' = "polling"
        /\ UNCHANGED <<able, interest, tick, slot, ticks, slab, fticks, wpc, roused, events, drained>>
    BY <1>3 DEF Re!React
  <2>2. RdTypeOK' /\ Heard' /\ Armed' /\ \A d \in Re!Dirs : tick'[d] <= ticker'
    BY <2>1 DEF RdInv, RdTypeOK, Heard, Armed
  <2>3. ASSUME NEW tk \in Ticks, NEW d \in Re!Dirs, TicksPast(tk, d) PROVE TicksPast(tk, d)'
    <3>1. CASE tk = Re!NoTicks
      BY <3>1 DEF TicksPast
    <3>2. CASE tk \in Nat \X Nat /\ tk # Re!NoTicks
      BY <2>1, <2>3, <3>2 DEF RdInv, RdTypeOK, TicksPast
    <3> QED BY <3>1, <3>2 DEF Ticks
  <2>4. \A d \in Re!Dirs : TicksPast(ticks[d], d)'
    BY <2>1, <2>3 DEF RdInv, RdTypeOK, TicksPast
  <2>5. \A t \in Waiters : TicksPast(fticks[t], ReadyDir[t])'
    BY <1>0, <2>1, <2>3 DEF RdInv, RdTypeOK, TicksPast
  <2> QED BY <2>1, <2>2, <2>4, <2>5 DEF RdInv
<1>4. CASE Re!PollerReports
  BY <1>4 DEF Re!PollerReports, RdInv, RdTypeOK, Heard, Armed, TicksPast
<1>5. CASE Re!Process
  <2>1. /\ rspc = "events" /\ rspc' = "wake" /\ events' = {}
        /\ tick' = [d \in Re!Dirs |-> IF d \in events THEN rtick ELSE tick[d]]
        /\ drained' = UNION {slab[d] \cup ({slot[d]} \ {Re!Unset}) : d \in events}
        /\ slot' = [d \in Re!Dirs |-> IF d \in events THEN Re!Unset ELSE slot[d]]
        /\ slab' = [d \in Re!Dirs |-> IF d \in events THEN {} ELSE slab[d]]
        /\ interest' = Re!Rearm(slot', slab')
        /\ UNCHANGED <<able, ticker, ticks, fticks, wpc, roused, rtick>>
    BY <1>5 DEF Re!Process
  <2>2. RdTypeOK'
    BY <2>1 DEF RdInv, RdTypeOK, Re!Rearm, Re!Interests
  <2>3. Armed'
    BY <2>1 DEF Armed, Re!Rearm, Re!Interests
  <2>4. Heard'
    BY <1>0, <2>1 DEF RdInv, RdTypeOK, Heard
  <2>5. ASSUME NEW tk \in Ticks, NEW d \in Re!Dirs, TicksPast(tk, d) PROVE TicksPast(tk, d)'
    <3>1. CASE tk = Re!NoTicks
      BY <3>1 DEF TicksPast
    <3>2. CASE tk \in Nat \X Nat /\ tk # Re!NoTicks
      <4>1. tk[1] \in Nat /\ tk[1] <= ticker /\ (tick[d] \in {tk[1], tk[2]} \/ tick[d] > tk[1])
        BY <2>5, <3>2 DEF TicksPast
      <4>2. ticker' = ticker /\ ticker \in Nat /\ tick'[d] \in {tick[d], ticker}
        BY <2>1 DEF RdInv, RdTypeOK
      <4> QED BY <4>1, <4>2 DEF TicksPast
    <3> QED BY <3>1, <3>2 DEF Ticks
  <2>6. \A d \in Re!Dirs : tick'[d] <= ticker'
    BY <2>1 DEF RdInv, RdTypeOK
  <2>7. \A d \in Re!Dirs : TicksPast(ticks[d], d)'
    BY <2>1, <2>5 DEF RdInv, RdTypeOK, TicksPast
  <2>8. \A t \in Waiters : TicksPast(fticks[t], ReadyDir[t])'
    BY <1>0, <2>1, <2>5 DEF RdInv, RdTypeOK, TicksPast
  <2> QED BY <2>1, <2>2, <2>3, <2>4, <2>6, <2>7, <2>8 DEF RdInv
<1>6. CASE Re!WakeDrained
  BY <1>6 DEF Re!WakeDrained, RdInv, RdTypeOK, Heard, Armed, TicksPast
<1> QED BY <1>1, <1>2, <1>3, <1>4, <1>5, <1>6, RdTasksHold DEF Re!RdNext

\* See RdInitHolds.
LEMMA RdInvSays == RdInv => AwaitsEvents
BY IoAssumption
   DEF RdInv, AwaitsEvents, Re!AwaitsEvents, Heard, Armed, TicksPast, Re!Fired, Re!Dirs

(***************************************************************************)
(* Pipe                                                                    *)
(***************************************************************************)
(***************************************************************************)
(* Pipe.  The bytes between the oldest index anybody has of the reader     *)
(* (the writer's copy) and the newest of the writer (its own) fit into the *)
(* ring, and all other indices lie between; so distances from the former   *)
(* can be compared, however often the indices have wrapped.                *)
(***************************************************************************)
Wrapped == 0 .. 2 * PipeCap - 1

\* the index k places on
Pos(x, k) == IF x + k < 2 * PipeCap THEN x + k ELSE x + k - 2 * PipeCap

\* The indices in their order, from the writer's copy b of the reader's: ir and
\* iw are what is published, rr and rw the reader's copies, ww the writer's own;
\* d bytes are yet to be taken.
InLine(b, ir, rr, rw, iw, ww, d) ==
    /\ {b, ir, rr, rw, iw, ww} \subseteq Wrapped /\ d \in Int
    /\ Pi!distance(b, ir) <= Pi!distance(b, rr) /\ Pi!distance(b, rr) <= Pi!distance(b, rw)
    /\ Pi!distance(b, rw) <= Pi!distance(b, iw) /\ Pi!distance(b, iw) <= Pi!distance(b, ww)
    /\ Pi!distance(b, ww) <= PipeCap
    /\ d = Pi!distance(b, ww) - Pi!distance(b, rr)

\* A side loads or stores an index.
LEMMA LineLoads ==
    ASSUME NEW b, NEW ir, NEW rr, NEW rw, NEW iw, NEW ww, NEW d, InLine(b, ir, rr, rw, iw, ww, d)
    PROVE  /\ InLine(ir, ir, rr, rw, iw, ww, d) /\ InLine(b, ir, rr, iw, iw, ww, d)
           /\ InLine(b, rr, rr, rw, iw, ww, d) /\ InLine(b, ir, rr, rw, ww, ww, d)
<1>1. PipeCap \in Nat /\ PipeCap > 0
  BY IoAssumption
<1>2. InLine(ir, ir, rr, rw, iw, ww, d)
  BY <1>1 DEF InLine, Wrapped, Pi!distance
<1>3. InLine(b, ir, rr, iw, iw, ww, d)
  BY <1>1 DEF InLine, Wrapped, Pi!distance
<1>4. InLine(b, rr, rr, rw, iw, ww, d) /\ InLine(b, ir, rr, rw, ww, ww, d)
  BY <1>1 DEF InLine, Wrapped, Pi!distance
<1> QED BY <1>2, <1>3, <1>4

\* What is in the ring and what each side sees of it.
LEMMA LineSays ==
    ASSUME NEW b, NEW ir, NEW rr, NEW rw, NEW iw, NEW ww, NEW d, InLine(b, ir, rr, rw, iw, ww, d)
    PROVE  /\ d \in 0 .. PipeCap /\ ww = Pos(rr, d)
           /\ Pi!distance(rr, rw) \in 0 .. d /\ Pi!distance(rr, iw) \in 0 .. d
           /\ Pi!distance(b, ww) \in 0 .. PipeCap /\ Pi!distance(b, ww) >= d
           /\ Pi!distance(ir, iw) <= PipeCap
<1>1. PipeCap \in Nat /\ PipeCap > 0
  BY IoAssumption
<1>2. d \in 0 .. PipeCap /\ ww = Pos(rr, d)
  BY <1>1 DEF InLine, Wrapped, Pi!distance, Pos
<1>3. Pi!distance(rr, rw) \in 0 .. d /\ Pi!distance(rr, iw) \in 0 .. d
  BY <1>1 DEF InLine, Wrapped, Pi!distance
<1>4. /\ Pi!distance(b, ww) \in 0 .. PipeCap /\ Pi!distance(b, ww) >= d
      /\ Pi!distance(ir, iw) <= PipeCap
  BY <1>1 DEF InLine, Wrapped, Pi!distance
<1> QED BY <1>2, <1>3, <1>4

\* The destination takes n bytes that the reader sees.
LEMMA LineDrains ==
    ASSUME NEW b, NEW ir, NEW rr, NEW rw, NEW iw, NEW ww, NEW d, InLine(b, ir, rr, rw, iw, ww, d),
           NEW n \in Nat, n <= Pi!distance(rr, rw)
    PROVE  InLine(b, ir, Pos(rr, n), rw, iw, ww, d - n)
<1>1. PipeCap \in Nat /\ PipeCap > 0
  BY IoAssumption
<1>2. {b, ir, rr, rw, iw, ww} \subseteq Wrapped /\ Pi!distance(b, rr) + n <= Pi!distance(b, rw)
  BY <1>1 DEF InLine, Wrapped, Pi!distance
<1>3. Pi!distance(b, rw) <= PipeCap
  BY <1>1 DEF InLine, Wrapped, Pi!distance
<1>4. Pos(rr, n) \in Wrapped /\ Pi!distance(b, Pos(rr, n)) = Pi!distance(b, rr) + n
  BY <1>1, <1>2, <1>3 DEF Wrapped, Pi!distance, Pos
<1>5. \A x \in Wrapped : Pi!distance(b, x) \in Nat
  BY <1>1, <1>2 DEF Wrapped, Pi!distance
<1> QED BY <1>1, <1>2, <1>4, <1>5 DEF InLine

\* The source gives n bytes, for which the writer sees room.
LEMMA LineFills ==
    ASSUME NEW b, NEW ir, NEW rr, NEW rw, NEW iw, NEW ww, NEW d, InLine(b, ir, rr, rw, iw, ww, d),
           NEW n \in Nat, n <= PipeCap - Pi!distance(b, ww)
    PROVE  InLine(b, ir, rr, rw, iw, Pos(ww, n), d + n) /\ d + n <= PipeCap
<1>1. PipeCap \in Nat /\ PipeCap > 0
  BY IoAssumption
<1>2. /\ {b, ir, rr, rw, iw, ww} \subseteq Wrapped /\ Pi!distance(b, ww) + n <= PipeCap
      /\ \A x \in Wrapped : Pi!distance(b, x) \in Nat
  BY <1>1 DEF InLine, Wrapped, Pi!distance
<1>3. Pos(ww, n) \in Wrapped /\ Pi!distance(b, Pos(ww, n)) = Pi!distance(b, ww) + n
  BY <1>1, <1>2 DEF Wrapped, Pi!distance, Pos
<1> QED BY <1>1, <1>2, <1>3 DEF InLine

\* A copy ends at the end of the ring at the latest.
LEMMA AdvancedIs ==
    ASSUME NEW x \in Wrapped, NEW n \in Nat, n <= PipeCap - Pi!real_index(x)
    PROVE  /\ Pi!Advanced(x, n) = Pos(x, n) /\ Pos(x, n) \in Wrapped /\ Pos(x, 0) = x
           /\ \A j \in 0 .. n - 1 : Pi!real_index(Pos(x, j)) = Pi!real_index(x) + j
BY IoAssumption DEF Pi!distance, Pi!real_index, Pi!Advanced, Wrapped, Pos

\* Places less than the capacity apart are different slots.
LEMMA SlotsDiffer ==
    ASSUME NEW x \in Wrapped, NEW j \in Nat, NEW k \in Nat, j < PipeCap, k < PipeCap, j # k
    PROVE  Pi!real_index(Pos(x, j)) # Pi!real_index(Pos(x, k))
BY IoAssumption DEF Pi!real_index, Wrapped, Pos

\* A place is a slot, and places add up.
LEMMA SlotIs ==
    ASSUME NEW x \in Wrapped
    PROVE  Pi!real_index(x) \in 0 .. PipeCap - 1
BY IoAssumption DEF Pi!real_index, Wrapped

\* Two moves forward are one.
LEMMA PosAdds ==
    ASSUME NEW x \in Wrapped, NEW j \in Nat, NEW k \in Nat, j + k <= PipeCap
    PROVE  Pos(x, j) \in Wrapped /\ Pos(Pos(x, j), k) = Pos(x, j + k)
BY IoAssumption DEF Wrapped, Pos

-----------------------------------------------------------------------------
PiPcs == {"idle", "pending", "over", "look", "take", "register", "registered", "relook", "closed",
          "taken", "yield", "copy", "check", "store", "wake", "waking", "drop", "dropping", "gone"}

PiTypeOK ==
    /\ index \in [Pi!Sides -> Wrapped] /\ copy \in [Pi!Sides -> [Pi!Sides -> Wrapped]]
    /\ ring \in [0 .. PipeCap - 1 -> Nat] /\ closed \in BOOLEAN
    /\ aw \in [Pi!Sides -> [bits : SUBSET {"registering", "waking"}, waker : BOOLEAN]]
    /\ pwoken \in [Pi!Sides -> BOOLEAN] /\ ppc \in [Pi!Sides -> PiPcs]
    /\ sent \in Nat /\ received \in Seq(Nat)

PiOrder == InLine(copy["w"]["r"], index["r"], copy["r"]["r"], copy["r"]["w"], index["w"],
                  copy["w"]["w"], sent - Len(received))

\* the bytes in the ring, and those that came out
PiBytes ==
    /\ \A k \in 0 .. sent - Len(received) - 1 :
          ring[Pi!real_index(Pos(copy["r"]["r"], k))] = Len(received) + k + 1
    /\ \A i \in 1 .. Len(received) : received[i] = i

PiData == PiTypeOK /\ PiOrder /\ PiBytes

\* A side loads the other's index.
LEMMA LoadData ==
    ASSUME PiData, NEW s \in Pi!Sides,
           copy' = [copy EXCEPT ![s] = [copy[s] EXCEPT ![Pi!Peer(s)] = index[Pi!Peer(s)]]],
           UNCHANGED <<index, ring, sent, received>>, PiTypeOK'
    PROVE  PiData'
<1>1. PiOrder /\ PiTypeOK /\ PiBytes
  BY DEF PiData
<1>2. /\ copy'["r"]["r"] = copy["r"]["r"] /\ copy'["w"]["w"] = copy["w"]["w"]
      /\ \/ copy'["w"]["r"] = copy["w"]["r"] /\ copy'["r"]["w"] = index["w"]
         \/ copy'["w"]["r"] = index["r"] /\ copy'["r"]["w"] = copy["r"]["w"]
  BY <1>1 DEF PiTypeOK, Pi!Sides, Pi!Peer
<1>3. PiOrder'
  BY <1>1, <1>2, LineLoads DEF PiOrder
<1> QED BY <1>1, <1>2, <1>3 DEF PiData, PiBytes

\* A side publishes its own index.
LEMMA StoreData ==
    ASSUME PiData, NEW s \in Pi!Sides, index' = [index EXCEPT ![s] = copy[s][s]],
           UNCHANGED <<copy, ring, sent, received>>, PiTypeOK'
    PROVE  PiData'
<1>1. PiOrder /\ PiTypeOK /\ PiBytes
  BY DEF PiData
<1>2. \/ index'["r"] = copy["r"]["r"] /\ index'["w"] = index["w"]
      \/ index'["w"] = copy["w"]["w"] /\ index'["r"] = index["r"]
  BY <1>1 DEF PiTypeOK, Pi!Sides
<1>3. PiOrder'
  BY <1>1, <1>2, LineLoads DEF PiOrder
<1> QED BY <1>1, <1>3 DEF PiData, PiBytes

\* The destination takes the next bytes.
LEMMA DrainData ==
    ASSUME PiData, Pi!Drain, PiTypeOK'
    PROVE  PiData'
<1> DEFINE rr == copy["r"]["r"]
           from == Pi!real_index(rr)
           R == Len(received)
           seen == Pi!distance(rr, copy["r"]["w"])
<1>1. PiOrder /\ PiTypeOK /\ PiBytes
  BY DEF PiData
<1>2. PipeCap \in Nat /\ R \in Nat /\ sent \in Nat /\ rr \in Wrapped
  BY <1>1, IoAssumption DEF PiTypeOK, Pi!Sides
<1>3. sent - R \in 0 .. PipeCap /\ seen \in 0 .. sent - R
  BY <1>1, LineSays DEF PiOrder
<1>4. from \in 0 .. PipeCap - 1
  BY <1>2, SlotIs
<1>5. PICK n \in 0 .. IF seen < PipeCap - from THEN seen ELSE PipeCap - from :
        /\ received' = received \o [i \in 1 .. n |-> ring[from + i - 1]]
        /\ copy' = [copy EXCEPT !["r"]["r"] = IF n = 0 THEN @ ELSE Pi!Advanced(@, n)]
        /\ UNCHANGED <<index, ring, sent>>
  BY DEF Pi!Drain, Pi!Held
<1>6. n \in Nat /\ n <= seen /\ n <= PipeCap - from /\ n <= sent - R
  BY <1>2, <1>3, <1>4, <1>5
<1> HIDE DEF from, seen
<1>7. /\ Pi!Advanced(rr, n) = Pos(rr, n) /\ Pos(rr, 0) = rr
      /\ \A j \in 0 .. n - 1 : Pi!real_index(Pos(rr, j)) = from + j
  BY <1>2, <1>6, AdvancedIs DEF from
<1>8. copy'["w"] = copy["w"] /\ copy'["r"]["w"] = copy["r"]["w"] /\ copy'["r"]["r"] = Pos(rr, n)
  BY <1>1, <1>5, <1>7 DEF PiTypeOK, Pi!Sides
<1>9. /\ Len(received') = R + n
      /\ \A i \in 1 .. R : received'[i] = received[i]
      /\ \A i \in 1 .. n : received'[R + i] = ring[from + i - 1]
  <2>1. received \in Seq(Nat) /\ [i \in 1 .. n |-> ring[from + i - 1]] \in Seq(Nat)
    BY <1>1, <1>2, <1>4, <1>6 DEF PiTypeOK
  <2> DEFINE new == [i \in 1 .. n |-> ring[from + i - 1]]
  <2>2. Len(new) = n /\ \A i \in 1 .. n : new[i] = ring[from + i - 1]
    BY <2>1, <1>6
  <2> HIDE DEF new
  <2> QED BY <2>1, <2>2, <1>5 DEF new
<1>10. PiOrder'
  <2>1. sent' - Len(received') = sent - R - n
    BY <1>2, <1>5, <1>6, <1>9
  <2> QED BY <1>1, <1>5, <1>6, <1>8, <2>1, LineDrains DEF PiOrder, seen
<1>11. ASSUME NEW i \in 1 .. R + n PROVE received'[i] = i
  <2>1. CASE i <= R
    BY <1>1, <1>2, <1>6, <1>9, <2>1 DEF PiBytes
  <2>2. CASE i > R
    <3> DEFINE j == i - R - 1
    <3>1. j \in 0 .. n - 1 /\ j \in 0 .. sent - R - 1 /\ i - R \in 1 .. n /\ R + (i - R) = i
      BY <1>2, <1>6, <1>11, <2>2
    <3>2. received'[i] = ring[from + j]
      <4>1. received'[R + (i - R)] = ring[from + (i - R) - 1]
        BY <1>9, <3>1
      <4>2. from + (i - R) - 1 = from + j
        BY <1>2, <1>4, <3>1
      <4> QED BY <4>1, <4>2, <3>1
    <3>3. Pi!real_index(Pos(rr, j)) = from + j
      BY <1>7, <3>1
    <3>4. ring[Pi!real_index(Pos(rr, j))] = R + j + 1
      BY <1>1, <3>1 DEF PiBytes
    <3>5. R + j + 1 = i
      BY <1>2, <3>1
    <3> QED BY <3>2, <3>3, <3>4, <3>5
  <2> QED BY <2>1, <2>2, <1>2
<1>12. ASSUME NEW k \in 0 .. sent - (R + n) - 1
       PROVE  ring[Pi!real_index(Pos(Pos(rr, n), k))] = R + n + k + 1
  <2>1. k \in Nat /\ n + k <= PipeCap /\ n + k \in 0 .. sent - R - 1
    BY <1>2, <1>3, <1>6, <1>12
  <2>2. Pos(Pos(rr, n), k) = Pos(rr, n + k)
    BY <1>2, <1>6, <2>1, PosAdds
  <2>3. ring[Pi!real_index(Pos(rr, n + k))] = R + (n + k) + 1
    BY <1>1, <2>1 DEF PiBytes
  <2>4. R + (n + k) + 1 = R + n + k + 1
    BY <1>2, <1>6, <2>1
  <2> QED BY <2>2, <2>3, <2>4
<1>13. PiBytes'
  BY <1>5, <1>8, <1>9, <1>11, <1>12 DEF PiBytes
<1> QED BY <1>10, <1>13 DEF PiData

\* The source gives the next bytes, which go where no byte is that is yet to be
\* taken.
LEMMA FillData ==
    ASSUME PiData, Pi!Fill, PiTypeOK'
    PROVE  PiData'
<1> DEFINE rr == copy["r"]["r"]
           ww == copy["w"]["w"]
           from == Pi!real_index(ww)
           R == Len(received)
           d == sent - R
           inring == Pi!distance(copy["w"]["r"], ww)
<1>1. PiOrder /\ PiTypeOK /\ PiBytes
  BY DEF PiData
<1>2. PipeCap \in Nat /\ R \in Nat /\ sent \in Nat /\ rr \in Wrapped /\ ww \in Wrapped
  BY <1>1, IoAssumption DEF PiTypeOK, Pi!Sides
<1>3. d \in 0 .. PipeCap /\ inring \in 0 .. PipeCap /\ inring >= d /\ ww = Pos(rr, d)
  BY <1>1, LineSays DEF PiOrder
<1>4. from \in 0 .. PipeCap - 1
  BY <1>2, SlotIs
<1>5. PICK n \in 0 .. IF PipeCap - inring < PipeCap - from THEN PipeCap - inring ELSE PipeCap - from :
        /\ ring' = [i \in DOMAIN ring |-> IF i \in from .. from + n - 1 THEN sent + 1 + i - from ELSE ring[i]]
        /\ sent' = sent + n
        /\ copy' = [copy EXCEPT !["w"]["w"] = IF n = 0 THEN @ ELSE Pi!Advanced(@, n)]
        /\ UNCHANGED <<index, received>>
  BY DEF Pi!Fill, Pi!Held
<1>6. n \in Nat /\ n <= PipeCap - inring /\ n <= PipeCap - from /\ d + n <= PipeCap
  BY <1>2, <1>3, <1>4, <1>5
<1> HIDE DEF from, inring
<1>7. /\ Pi!Advanced(ww, n) = Pos(ww, n) /\ Pos(ww, 0) = ww
      /\ \A j \in 0 .. n - 1 : Pi!real_index(Pos(ww, j)) = from + j
  BY <1>2, <1>6, AdvancedIs DEF from
<1>8. copy'["r"] = copy["r"] /\ copy'["w"]["r"] = copy["w"]["r"] /\ copy'["w"]["w"] = Pos(ww, n)
  BY <1>1, <1>5, <1>7 DEF PiTypeOK, Pi!Sides
<1>9. sent' - Len(received') = d + n
  BY <1>2, <1>5, <1>6
<1>10. PiOrder'
  BY <1>1, <1>5, <1>6, <1>8, <1>9, LineFills DEF PiOrder, inring
<1>11. ASSUME NEW k \in 0 .. d + n - 1
       PROVE  ring'[Pi!real_index(Pos(rr, k))] = R + k + 1
  <2>1. k \in Nat /\ k < PipeCap /\ d \in Nat
    BY <1>2, <1>3, <1>6, <1>11
  <2>2. Pos(rr, k) \in Wrapped
    <3>1. k + 0 <= PipeCap
      BY <1>2, <2>1
    <3> QED BY <1>2, <2>1, <3>1, PosAdds
  <2>3. Pi!real_index(Pos(rr, k)) \in 0 .. PipeCap - 1 /\ DOMAIN ring = 0 .. PipeCap - 1
    BY <1>1, <2>2, SlotIs DEF PiTypeOK
  <2>4. ASSUME NEW j \in 0 .. n - 1
        PROVE  Pi!real_index(Pos(rr, d + j)) = from + j /\ d + j \in Nat /\ d + j < PipeCap
    <3>1. j \in Nat /\ d + j \in Nat /\ d + j < PipeCap
      BY <1>2, <1>6, <2>1, <2>4
    <3>2. Pos(Pos(rr, d), j) = Pos(rr, d + j)
      BY <1>2, <2>1, <3>1, PosAdds
    <3>3. Pi!real_index(Pos(ww, j)) = from + j
      BY <1>7, <2>4
    <3> QED BY <3>1, <3>2, <3>3, <1>3
  <2> DEFINE slot_ == Pi!real_index(Pos(rr, k))
  <2>5. CASE k < d
    <3>1. ASSUME NEW j \in 0 .. n - 1 PROVE slot_ # from + j
      <4>1. k # d + j
        BY <2>1, <2>5, <3>1, <1>6
      <4> QED BY <1>2, <2>1, <2>4, <4>1, SlotsDiffer
    <3>2. slot_ \notin from .. from + n - 1
      <4> SUFFICES ASSUME slot_ \in from .. from + n - 1 PROVE FALSE
        OBVIOUS
      <4>1. slot_ - from \in 0 .. n - 1 /\ from + (slot_ - from) = slot_
        BY <1>2, <1>4, <1>6, <2>3
      <4> QED BY <4>1, <3>1
    <3>3. ring'[slot_] = ring[slot_]
      BY <1>5, <2>3, <3>2
    <3>4. k \in 0 .. d - 1
      BY <2>1, <2>5
    <3> QED BY <1>1, <3>3, <3>4 DEF PiBytes
  <2>6. CASE k >= d
    <3> DEFINE j == k - d
    <3>1. j \in 0 .. n - 1 /\ d + j = k
      BY <1>6, <1>11, <2>1, <2>6
    <3>2. slot_ = from + j
      BY <2>4, <3>1
    <3>3. slot_ \in from .. from + n - 1
      BY <1>2, <1>4, <1>6, <3>1, <3>2
    <3>4. ring'[slot_] = sent + 1 + slot_ - from
      BY <1>5, <2>3, <3>3
    <3>5. sent + 1 + slot_ - from = R + k + 1
      BY <1>2, <1>4, <2>1, <3>1, <3>2
    <3> QED BY <3>4, <3>5
  <2> QED BY <2>1, <2>5, <2>6
<1>12. PiBytes'
  <2>1. ASSUME NEW k \in 0 .. sent' - Len(received') - 1
        PROVE  ring'[Pi!real_index(Pos(copy'["r"]["r"], k))] = Len(received') + k + 1
    <3>1. k \in 0 .. d + n - 1 /\ Len(received') = R /\ copy'["r"]["r"] = rr
      <4>1. received' = received
        BY <1>5
      <4>2. k \in 0 .. d + n - 1
        BY <1>2, <1>3, <1>6, <1>9, <2>1
      <4> QED BY <4>1, <4>2, <1>8
    <3>2. ring'[Pi!real_index(Pos(rr, k))] = R + k + 1
      BY <3>1, <1>11
    <3> QED BY <3>1, <3>2
  <2>2. \A i \in 1 .. Len(received') : received'[i] = i
    BY <1>1, <1>5 DEF PiBytes
  <2> QED BY <2>1, <2>2 DEF PiBytes
<1> QED BY <1>10, <1>12 DEF PiData

\* Who has published its own index: everybody but a side about to, and a writer
\* that found the pipe closed.
PiSync == \A s \in Pi!Sides :
    \/ index[s] = copy[s][s] \/ ppc[s] \in {"check", "store"}
    \/ s = "w" /\ closed /\ ppc[s] \in {"idle", "over", "drop", "dropping", "gone"}

\* The bits of an atomic waker tell who is at it, and it has a waker while its
\* side is asleep or about to be, unless the side was woken.
PiWaker == \A s \in Pi!Sides :
    /\ "registering" \in aw[s].bits <=> ppc[s] = "registered"
    /\ "waking" \in aw[s].bits => ppc[s] \in {"taken", "registered"} \/ ppc[Pi!Peer(s)] \in {"waking", "dropping"}
    /\ ppc[s] \in {"relook", "closed", "pending"} /\ ~pwoken[s] => aw[s].waker

\* Who is asleep, or about to be, has nothing to do, unless the peer is on its
\* way to wake it.
PiHeard == \A s \in Pi!Sides :
    /\ ppc[s] \in {"closed", "pending"} /\ ~pwoken[s]
    /\ ppc[Pi!Peer(s)] \notin {"wake", "waking", "drop", "dropping"}
    => Pi!Stuck(s, index) /\ (ppc[s] = "pending" => ~closed)

\* A reader that finds the ring empty has all that it saw.
PiEnd == ppc["r"] \in {"closed", "over"} => looked = Len(received)

PiInv == PiData /\ PiSync /\ PiWaker /\ PiHeard /\ PiEnd

\* Each side is the peer of its peer, and there are no others.
LEMMA PeerIs == \A s \in Pi!Sides : /\ Pi!Peer(s) \in Pi!Sides /\ Pi!Peer(s) # s /\ Pi!Peer(Pi!Peer(s)) = s
                                    /\ \A t \in Pi!Sides : t = s \/ t = Pi!Peer(s)
BY DEF Pi!Sides, Pi!Peer

\* Where a step moves one side only.
LEMMA PiMoves ==
    ASSUME PiTypeOK, NEW s \in Pi!Sides, NEW to, Pi!Goto(s, to)
    PROVE  ppc'[s] = to /\ ppc'[Pi!Peer(s)] = ppc[Pi!Peer(s)]
BY PeerIs DEF PiTypeOK, Pi!Goto

\* What a step owes that neither stores an index nor closes the pipe nor calls
\* an atomic waker.
LEMMA PlainHolds ==
    ASSUME PiInv, NEW s \in Pi!Sides, NEW to, Pi!Goto(s, to), UNCHANGED <<index, closed, aw>>,
           PiData', pwoken'[Pi!Peer(s)] = pwoken[Pi!Peer(s)],
           copy'[Pi!Peer(s)] = copy[Pi!Peer(s)],
           copy'[s][s] = copy[s][s] \/ to \in {"check", "store"},
           ppc[s] \in {"check", "store"} => to = "store" \/ (s = "w" /\ closed /\ to = "idle"),
           s = "w" /\ closed /\ ppc[s] \in {"idle", "over"} => to \in {"idle", "over"} \/ index[s] = copy[s][s],
           ppc[s] \notin {"registered", "taken", "wake", "waking", "drop", "dropping", "gone"},
           to # "registered",
           to \in {"relook", "closed", "pending"} /\ ~pwoken'[s] => aw[s].waker,
           /\ to \in {"closed", "pending"} /\ ~pwoken'[s]
           /\ ppc[Pi!Peer(s)] \notin {"wake", "waking", "drop", "dropping"}
           => Pi!Stuck(s, index) /\ (to = "pending" => ~closed),
           PiEnd'
    PROVE  PiInv'
<1> DEFINE p == Pi!Peer(s)
<1>1. /\ p \in Pi!Sides /\ p # s /\ Pi!Peer(p) = s /\ \A t \in Pi!Sides : t = s \/ t = p
      /\ ppc'[s] = to /\ ppc'[p] = ppc[p]
  BY PeerIs, PiMoves DEF PiInv, PiData
<1>2. PiSync /\ PiWaker /\ PiHeard
  BY DEF PiInv
<1>3. PiSync'
  <2> SUFFICES ASSUME NEW t \in Pi!Sides
               PROVE  \/ index'[t] = copy'[t][t] \/ ppc'[t] \in {"check", "store"}
                      \/ t = "w" /\ closed' /\ ppc'[t] \in {"idle", "over", "drop", "dropping", "gone"}
    BY DEF PiSync
  <2>1. CASE t = s
    BY <1>1, <1>2, <2>1 DEF PiSync
  <2>2. CASE t = p
    BY <1>1, <1>2, <2>2 DEF PiSync
  <2> QED BY <1>1, <2>1, <2>2
<1>4. PiWaker'
  <2> SUFFICES ASSUME NEW t \in Pi!Sides
               PROVE  /\ "registering" \in aw'[t].bits <=> ppc'[t] = "registered"
                      /\ "waking" \in aw'[t].bits => ppc'[t] \in {"taken", "registered"}
                                                      \/ ppc'[Pi!Peer(t)] \in {"waking", "dropping"}
                      /\ ppc'[t] \in {"relook", "closed", "pending"} /\ ~pwoken'[t] => aw'[t].waker
    BY DEF PiWaker
  <2>1. CASE t = s
    BY <1>1, <1>2, <2>1 DEF PiWaker
  <2>2. CASE t = p
    BY <1>1, <1>2, <2>2 DEF PiWaker
  <2> QED BY <1>1, <2>1, <2>2
<1>5. PiHeard'
  <2>1. Pi!Stuck(s, index)' = Pi!Stuck(s, index) /\ Pi!Stuck(p, index)' = Pi!Stuck(p, index)
    BY DEF Pi!Stuck, Pi!Held
  <2> SUFFICES ASSUME NEW t \in Pi!Sides, ppc'[t] \in {"closed", "pending"}, ~pwoken'[t],
                      ppc'[Pi!Peer(t)] \notin {"wake", "waking", "drop", "dropping"}
               PROVE  Pi!Stuck(t, index)' /\ (ppc'[t] = "pending" => ~closed')
    BY DEF PiHeard
  <2>2. CASE t = s
    BY <1>1, <2>1, <2>2
  <2>3. CASE t = p
    BY <1>1, <1>2, <2>1, <2>3 DEF PiHeard
  <2> QED BY <1>1, <2>2, <2>3
<1> QED BY <1>3, <1>4, <1>5 DEF PiInv

\* What a step owes that calls an atomic waker, its own or its peer's.
LEMMA WakerHolds ==
    ASSUME PiInv, NEW s \in Pi!Sides, NEW to, Pi!Goto(s, to), UNCHANGED <<index, closed, copy>>, PiData',
           ppc[s] \notin {"check", "store"}, to \notin {"closed", "pending", "over"},
           s = "w" /\ closed /\ ppc[s] \in {"idle", "over", "drop", "dropping", "gone"} => to \in {"dropping", "gone"},
           PiWaker',
           pwoken[Pi!Peer(s)] => pwoken'[Pi!Peer(s)],
           \/ ppc[s] \notin {"wake", "waking", "drop", "dropping"} \/ to \in {"waking", "dropping"}
           \/ ppc[Pi!Peer(s)] \notin {"closed", "pending"} \/ pwoken'[Pi!Peer(s)],
           UNCHANGED <<looked, received>>
    PROVE  PiInv'
<1> DEFINE p == Pi!Peer(s)
<1>1. /\ p \in Pi!Sides /\ p # s /\ Pi!Peer(p) = s /\ \A t \in Pi!Sides : t = s \/ t = p
      /\ ppc'[s] = to /\ ppc'[p] = ppc[p]
  BY PeerIs, PiMoves DEF PiInv, PiData
<1>2. PiSync /\ PiHeard /\ PiEnd
  BY DEF PiInv
<1>3. PiSync'
  <2> SUFFICES ASSUME NEW t \in Pi!Sides
               PROVE  \/ index'[t] = copy'[t][t] \/ ppc'[t] \in {"check", "store"}
                      \/ t = "w" /\ closed' /\ ppc'[t] \in {"idle", "over", "drop", "dropping", "gone"}
    BY DEF PiSync
  <2>1. CASE t = s
    BY <1>1, <1>2, <2>1 DEF PiSync
  <2>2. CASE t = p
    BY <1>1, <1>2, <2>2 DEF PiSync
  <2> QED BY <1>1, <2>1, <2>2
<1>4. PiHeard'
  <2>1. Pi!Stuck(p, index)' = Pi!Stuck(p, index)
    BY DEF Pi!Stuck, Pi!Held
  <2> SUFFICES ASSUME NEW t \in Pi!Sides, ppc'[t] \in {"closed", "pending"}, ~pwoken'[t],
                      ppc'[Pi!Peer(t)] \notin {"wake", "waking", "drop", "dropping"}
               PROVE  Pi!Stuck(t, index)' /\ (ppc'[t] = "pending" => ~closed')
    BY DEF PiHeard
  <2>2. t = p
    BY <1>1
  <2>3. ppc[p] \in {"closed", "pending"} /\ ~pwoken[p] /\ ppc[s] \notin {"wake", "waking", "drop", "dropping"}
    BY <1>1, <2>2
  <2> QED BY <1>1, <1>2, <2>1, <2>2, <2>3 DEF PiHeard
<1>5. PiEnd'
  BY <1>1, <1>2 DEF PiEnd, Pi!Sides, Pi!Peer
<1> QED BY <1>3, <1>4, <1>5 DEF PiInv

\* Every step keeps the types.
LEMMA PiTypeHolds == ASSUME PiData, Pi!PNext PROVE PiTypeOK'
<1>1. PiTypeOK /\ PiOrder
  BY DEF PiData
<1> USE DEF PiTypeOK
<1>2. ASSUME NEW s \in Pi!Sides,
             \/ Pi!Poll(s) \/ Pi!Look(s) \/ Pi!Relook(s) \/ Pi!LoadClosed(s) \/ Pi!Yield(s) \/ Pi!Store(s) \/ Pi!Drop(s)
      PROVE  PiTypeOK'
  <2>1. Pi!Peer(s) \in Pi!Sides
    BY PeerIs
  <2>2. CASE Pi!Poll(s)
    BY <1>1, <2>2 DEF Pi!Poll, Pi!Goto, Pi!Shared, PiPcs
  <2>3. ASSUME NEW here, NEW l \in {"register", "closed"}, Pi!Load(s, here, l) PROVE PiTypeOK'
    <3>1. [copy[s] EXCEPT ![Pi!Peer(s)] = index[Pi!Peer(s)]] \in [Pi!Sides -> Wrapped]
      BY <1>1, <2>1
    <3> QED BY <1>1, <2>3, <3>1 DEF Pi!Load, Pi!Goto, Pi!Shared, PiPcs
  <2>4. CASE Pi!LoadClosed(s) \/ Pi!Drop(s)
    BY <1>1, <2>4 DEF Pi!LoadClosed, Pi!Drop, Pi!Goto, Pi!Shared, PiPcs
  <2>5. CASE Pi!Yield(s)
    <3>1. pwoken' \in [Pi!Sides -> BOOLEAN]
      BY <1>1, <2>5 DEF Pi!Yield, Pi!Wakes
    <3> QED BY <1>1, <2>5, <3>1 DEF Pi!Yield, Pi!Goto, Pi!Shared, PiPcs
  <2>6. CASE Pi!Store(s)
    <3>1. copy[s][s] \in Wrapped
      BY <1>1
    <3> QED BY <1>1, <2>6, <3>1 DEF Pi!Store, Pi!Goto, PiPcs
  <2> QED BY <1>2, <2>2, <2>3, <2>4, <2>5, <2>6 DEF Pi!Look, Pi!Relook
<1>3. ASSUME NEW s \in Pi!Sides, Pi!Register(s) \/ Pi!Registered(s)
      PROVE  PiTypeOK'
  <2>1. pwoken' \in [Pi!Sides -> BOOLEAN]
    BY <1>1, <1>3 DEF Pi!Register, Pi!Registered, Pi!Wakes
  <2>2. aw' \in [Pi!Sides -> [bits : SUBSET {"registering", "waking"}, waker : BOOLEAN]]
    <3>1. \A yes \in BOOLEAN : \A b \in {{}, {"registering"}} :
             [bits |-> b, waker |-> yes] \in [bits : SUBSET {"registering", "waking"}, waker : BOOLEAN]
      OBVIOUS
    <3>2. CASE Pi!Register(s)
      BY <1>1, <3>1, <3>2 DEF Pi!Register, Pi!Sets
    <3>3. CASE Pi!Registered(s)
      <4>1. aw' = [aw EXCEPT ![s] = [bits |-> {}, waker |-> (aw[s].bits = {"registering"})]]
        BY <3>3 DEF Pi!Registered, Pi!Sets
      <4>2. (aw[s].bits = {"registering"}) \in BOOLEAN
        OBVIOUS
      <4> QED BY <1>1, <3>1, <4>1, <4>2
    <3> QED BY <1>3, <3>2, <3>3
  <2>3. ppc' \in [Pi!Sides -> PiPcs]
    BY <1>1, <1>3 DEF Pi!Register, Pi!Registered, Pi!Goto, PiPcs
  <2> QED BY <1>1, <1>3, <2>1, <2>2, <2>3 DEF Pi!Register, Pi!Registered, Pi!Shared
<1>4. ASSUME NEW s \in Pi!Sides, NEW t \in Pi!Sides, NEW here, NEW mid \in PiPcs, NEW after \in PiPcs,
             Pi!Take(s, t, here, mid, after) \/ Pi!Taken(s, t, here, after)
      PROVE  PiTypeOK'
  <2>1. aw' \in [Pi!Sides -> [bits : SUBSET {"registering", "waking"}, waker : BOOLEAN]]
    <3>1. CASE Pi!Take(s, t, here, mid, after)
      <4>1. aw[t] \in [bits : SUBSET {"registering", "waking"}, waker : BOOLEAN]
        BY <1>1
      <4>2. [aw[t] EXCEPT !.bits = @ \cup {"waking"}] \in [bits : SUBSET {"registering", "waking"}, waker : BOOLEAN]
        BY <4>1
      <4> QED BY <1>1, <3>1, <4>2 DEF Pi!Take
    <3>2. CASE Pi!Taken(s, t, here, after)
      BY <1>1, <3>2 DEF Pi!Taken, Pi!Sets
    <3> QED BY <1>4, <3>1, <3>2
  <2> QED BY <1>1, <1>4, <2>1 DEF Pi!Take, Pi!Taken, Pi!Wakes, Pi!Goto, Pi!Shared
<1>5. ASSUME NEW s \in Pi!Sides, Pi!TakeOwn(s) \/ Pi!WakePeer(s, "wake", "waking", "copy")
                                 \/ Pi!WakePeer(s, "drop", "dropping", "gone")
      PROVE  PiTypeOK'
  <2>1. Pi!Peer(s) \in Pi!Sides /\ {"taken", "yield", "waking", "copy", "dropping", "gone"} \subseteq PiPcs
    BY PeerIs DEF PiPcs
  <2> QED BY <1>4, <1>5, <2>1 DEF Pi!TakeOwn, Pi!WakePeer
<1>6. CASE Pi!Drain
  <2> DEFINE rr == copy["r"]["r"]
             from == Pi!real_index(rr)
             seen == Pi!distance(rr, copy["r"]["w"])
  <2>1. PipeCap \in Nat /\ rr \in Wrapped /\ from \in 0 .. PipeCap - 1 /\ seen \in Int
    <3>1. rr \in Wrapped /\ copy["r"]["w"] \in Wrapped
      BY <1>1 DEF Pi!Sides
    <3>2. PipeCap \in Nat
      BY IoAssumption
    <3>3. seen \in Int
      BY <3>1, <3>2 DEF Wrapped, Pi!distance
    <3> QED BY <3>1, <3>2, <3>3, SlotIs
  <2>2. PICK n \in 0 .. IF seen < PipeCap - from THEN seen ELSE PipeCap - from :
          /\ received' = received \o [i \in 1 .. n |-> ring[from + i - 1]]
          /\ copy' = [copy EXCEPT !["r"]["r"] = IF n = 0 THEN @ ELSE Pi!Advanced(@, n)]
          /\ Pi!Goto("r", IF n = 0 THEN "idle" ELSE "store")
          /\ UNCHANGED <<index, ring, closed, sent, aw, pwoken>>
    BY <1>6 DEF Pi!Drain, Pi!Held
  <2> HIDE DEF from, seen
  <2>3. n \in Nat /\ n <= PipeCap - from
    BY <2>1, <2>2
  <2>4. Pi!Advanced(rr, n) \in Wrapped
    BY <2>1, <2>3, AdvancedIs DEF from
  <2>5. copy' \in [Pi!Sides -> [Pi!Sides -> Wrapped]]
    BY <1>1, <2>2, <2>4 DEF Pi!Sides
  <2>6. [i \in 1 .. n |-> ring[from + i - 1]] \in Seq(Nat)
    BY <1>1, <2>1, <2>3
  <2> HIDE DEF rr
  <2> QED BY <1>1, <2>2, <2>5, <2>6 DEF Pi!Goto, PiPcs
<1>7. CASE Pi!Fill
  <2> DEFINE ww == copy["w"]["w"]
             from == Pi!real_index(ww)
             inring == Pi!distance(copy["w"]["r"], ww)
  <2>1. PipeCap \in Nat /\ ww \in Wrapped /\ from \in 0 .. PipeCap - 1 /\ inring \in Int
    <3>1. ww \in Wrapped /\ copy["w"]["r"] \in Wrapped
      BY <1>1 DEF Pi!Sides
    <3>2. PipeCap \in Nat
      BY IoAssumption
    <3>3. inring \in Int
      BY <3>1, <3>2 DEF Wrapped, Pi!distance
    <3> QED BY <3>1, <3>2, <3>3, SlotIs
  <2>2. PICK n \in 0 .. IF PipeCap - inring < PipeCap - from THEN PipeCap - inring ELSE PipeCap - from :
          /\ ring' = [i \in DOMAIN ring |-> IF i \in from .. from + n - 1 THEN sent + 1 + i - from ELSE ring[i]]
          /\ sent' = sent + n
          /\ copy' = [copy EXCEPT !["w"]["w"] = IF n = 0 THEN @ ELSE Pi!Advanced(@, n)]
          /\ Pi!Goto("w", IF n = 0 THEN "idle" ELSE "check")
          /\ UNCHANGED <<index, closed, received, aw, pwoken>>
    BY <1>7 DEF Pi!Fill, Pi!Held
  <2> HIDE DEF from, inring
  <2>3. n \in Nat /\ n <= PipeCap - from
    BY <2>1, <2>2
  <2>4. Pi!Advanced(ww, n) \in Wrapped
    BY <2>1, <2>3, AdvancedIs DEF from
  <2>5. copy' \in [Pi!Sides -> [Pi!Sides -> Wrapped]]
    BY <1>1, <2>2, <2>4 DEF Pi!Sides
  <2>6. ring' \in [0 .. PipeCap - 1 -> Nat]
    BY <1>1, <2>1, <2>2, <2>3
  <2> HIDE DEF ww
  <2> QED BY <1>1, <2>2, <2>3, <2>5, <2>6 DEF Pi!Goto, PiPcs
<1>8. CASE Pi!CheckClosed
  BY <1>1, <1>8 DEF Pi!CheckClosed, Pi!Goto, Pi!Shared, PiPcs
<1> QED BY <1>2, <1>3, <1>5, <1>6, <1>7, <1>8 DEF Pi!PNext

\* A step that leaves indices, copies and bytes alone.
LEMMA SameData ==
    ASSUME PiData, PiTypeOK', UNCHANGED <<index, copy, ring, sent, received>>
    PROVE  PiData'
BY DEF PiData, PiOrder, PiBytes

\* The polls, up to the copying of bytes.
LEMMA PollHolds ==
    ASSUME PiInv, PiTypeOK', NEW s \in Pi!Sides,
           Pi!Poll(s) \/ Pi!LoadClosed(s) \/ Pi!Yield(s) \/ (s = "w" /\ Pi!CheckClosed)
    PROVE  PiInv'
<1> DEFINE p == Pi!Peer(s)
<1>1. PiData /\ PiTypeOK /\ PiSync /\ PiWaker /\ PiHeard /\ PiEnd
  BY DEF PiInv, PiData
<1>2. p \in Pi!Sides /\ p # s /\ (s # "r" => p = "r")
  BY PeerIs DEF Pi!Sides
<1>3. /\ UNCHANGED <<index, copy, ring, sent, received, closed, aw, looked>> /\ pwoken'[p] = pwoken[p]
  BY <1>1, <1>2 DEF PiTypeOK, Pi!Poll, Pi!LoadClosed, Pi!Yield, Pi!Wakes, Pi!CheckClosed, Pi!Shared
<1>4. PiData'
  BY <1>1, <1>3, SameData
<1>5. ASSUME NEW to, Pi!Goto(s, to), s = "r" /\ to \in {"closed", "over"} => ppc[s] \in {"closed", "over"}
      PROVE  PiEnd'
  <2>1. ppc'["r"] \in {"closed", "over"} => ppc["r"] \in {"closed", "over"}
    BY <1>1, <1>2, <1>5, PiMoves
  <2> QED BY <1>1, <1>3, <2>1 DEF PiEnd
<1>6. ASSUME NEW to, Pi!Goto(s, to),
             s = "r" /\ to \in {"closed", "over"} => ppc[s] \in {"closed", "over"},
             ppc[s] \in {"check", "store"} => to = "store" \/ (s = "w" /\ closed /\ to = "idle"),
             s = "w" /\ closed /\ ppc[s] \in {"idle", "over"} => to \in {"idle", "over"},
             ppc[s] \notin {"registered", "taken", "wake", "waking", "drop", "dropping", "gone"},
             to # "registered",
             to \in {"relook", "closed", "pending"} /\ ~pwoken'[s] => aw[s].waker,
             /\ to \in {"closed", "pending"} /\ ~pwoken'[s]
             /\ ppc[p] \notin {"wake", "waking", "drop", "dropping"}
             => Pi!Stuck(s, index) /\ (to = "pending" => ~closed)
      PROVE  PiInv'
  BY <1>3, <1>4, <1>5, <1>6, PlainHolds
<1>7. CASE Pi!Poll(s)
  BY <1>6, <1>7 DEF Pi!Poll
<1>8. CASE Pi!LoadClosed(s)
  <2>1. pwoken' = pwoken /\ ppc[s] = "closed" /\ (~pwoken[s] => aw[s].waker)
        /\ (~pwoken[s] /\ ppc[p] \notin {"wake", "waking", "drop", "dropping"} => Pi!Stuck(s, index))
    BY <1>1, <1>8 DEF Pi!LoadClosed, Pi!At, PiWaker, PiHeard
  <2>2. Pi!Goto(s, IF closed THEN "over" ELSE "pending")
    BY <1>8 DEF Pi!LoadClosed
  <2> QED BY <1>6, <2>1, <2>2
<1>9. CASE Pi!Yield(s)
  <2>1. ppc[s] = "yield" /\ ((Pi!Goto(s, "pending") /\ pwoken'[s]) \/ Pi!Goto(s, "copy"))
    BY <1>1, <1>9 DEF PiTypeOK, Pi!Yield, Pi!Wakes, Pi!At
  <2> QED BY <1>6, <2>1
<1>10. CASE s = "w" /\ Pi!CheckClosed
  BY <1>6, <1>10 DEF Pi!CheckClosed, Pi!At
<1> QED BY <1>7, <1>8, <1>9, <1>10

\* A side loads the index of the other, and finds something to do or not.
LEMMA LookHolds ==
    ASSUME PiInv, PiTypeOK', NEW s \in Pi!Sides, Pi!Look(s) \/ Pi!Relook(s)
    PROVE  PiInv'
<1> DEFINE p == Pi!Peer(s)
           c == [copy[s] EXCEPT ![p] = index[p]]
<1>1. PiData /\ PiTypeOK /\ PiSync /\ PiWaker /\ PiHeard /\ PiEnd
  BY DEF PiInv, PiData
<1>2. p \in Pi!Sides /\ p # s /\ (s # "r" => p = "r")
  BY PeerIs DEF Pi!Sides
<1>3. PICK l \in {"register", "closed"} :
        /\ ppc[s] = (IF l = "register" THEN "look" ELSE "relook")
        /\ copy' = [copy EXCEPT ![s] = c]
        /\ Pi!Goto(s, IF Pi!Stuck(s, c) THEN l ELSE "take")
        /\ looked' = (IF s = "r" THEN Len(received) + Pi!Held(c) ELSE looked)
        /\ UNCHANGED <<index, ring, closed, sent, received, aw, pwoken>>
  BY DEF Pi!Look, Pi!Relook, Pi!Load, Pi!At, Pi!Shared
<1>4. PiData'
  BY <1>1, <1>3, LoadData
<1>5. copy'[p] = copy[p] /\ copy'[s][s] = copy[s][s] /\ c[s] = copy[s][s] /\ c[p] = index[p]
  BY <1>1, <1>2, <1>3 DEF PiTypeOK
<1>6. index[s] = copy[s][s]
  BY <1>1, <1>3 DEF PiSync
<1>7. Pi!Stuck(s, c) = Pi!Stuck(s, index)
  <2>1. c["r"] = index["r"] /\ c["w"] = index["w"]
    BY <1>2, <1>5, <1>6, PeerIs DEF Pi!Sides
  <2> QED BY <2>1 DEF Pi!Stuck, Pi!Held
<1>8. PiEnd'
  <2>1. CASE s = "r"
    <3>1. ppc'["r"] \in {"closed", "over"} => Pi!Stuck("r", c)
      BY <1>1, <1>3, <2>1, PiMoves
    <3>2. Pi!Stuck("r", c) => Pi!Held(c) = 0
      BY DEF Pi!Stuck
    <3>3. Len(received) \in Nat
      BY <1>1 DEF PiTypeOK
    <3>4. looked' = Len(received) + Pi!Held(c) /\ received' = received
      BY <1>3, <2>1
    <3> QED BY <3>1, <3>2, <3>3, <3>4 DEF PiEnd
  <2>2. CASE s # "r"
    <3>1. ppc'["r"] = ppc["r"] /\ looked' = looked
      BY <1>1, <1>2, <1>3, <2>2, PiMoves
    <3> QED BY <1>1, <1>3, <3>1 DEF PiEnd
  <2> QED BY <2>1, <2>2
<1>9. l = "closed" /\ ~pwoken[s] => aw[s].waker
  BY <1>1, <1>3 DEF PiWaker
<1> HIDE DEF c
<1>10. CASE Pi!Stuck(s, c)
  <2>1. Pi!Goto(s, l) /\ ppc[s] \in {"look", "relook"}
    BY <1>3, <1>10
  <2> QED BY <1>3, <1>4, <1>5, <1>6, <1>7, <1>8, <1>9, <1>10, <2>1, PlainHolds
<1>11. CASE ~Pi!Stuck(s, c)
  <2>1. Pi!Goto(s, "take") /\ ppc[s] \in {"look", "relook"}
    BY <1>3, <1>11
  <2> QED BY <1>3, <1>4, <1>5, <1>6, <1>8, <2>1, PlainHolds
<1> QED BY <1>10, <1>11

\* Bytes are copied.
LEMMA CopyHolds ==
    ASSUME PiInv, PiTypeOK', Pi!Drain \/ Pi!Fill
    PROVE  PiInv'
<1>1. PiData /\ PiTypeOK /\ PiEnd /\ PiData'
  BY DrainData, FillData DEF PiInv, PiData
<1>2. PICK s \in Pi!Sides, to \in {"idle", "check", "store"} :
        /\ ppc[s] = "copy" /\ Pi!Goto(s, to) /\ UNCHANGED <<index, closed, aw, pwoken, looked>>
        /\ s # "r" => received' = received
        /\ copy'[Pi!Peer(s)] = copy[Pi!Peer(s)]
        /\ copy'[s][s] = copy[s][s] \/ to \in {"check", "store"}
  <2>1. CASE Pi!Drain
    <3>1. /\ ppc["r"] = "copy" /\ UNCHANGED <<index, closed, aw, pwoken, looked>>
          /\ \E n : /\ copy' = [copy EXCEPT !["r"]["r"] = IF n = 0 THEN @ ELSE Pi!Advanced(@, n)]
                    /\ Pi!Goto("r", IF n = 0 THEN "idle" ELSE "store")
      BY <2>1 DEF Pi!Drain, Pi!At
    <3>2. /\ copy'["w"] = copy["w"]
          /\ \/ copy'["r"]["r"] = copy["r"]["r"] /\ Pi!Goto("r", "idle")
             \/ Pi!Goto("r", "store")
      BY <1>1, <3>1 DEF PiTypeOK, Pi!Sides
    <3> QED BY <3>1, <3>2 DEF Pi!Sides, Pi!Peer
  <2>2. CASE Pi!Fill
    <3>1. /\ ppc["w"] = "copy" /\ UNCHANGED <<index, closed, aw, pwoken, looked, received>>
          /\ \E n : /\ copy' = [copy EXCEPT !["w"]["w"] = IF n = 0 THEN @ ELSE Pi!Advanced(@, n)]
                    /\ Pi!Goto("w", IF n = 0 THEN "idle" ELSE "check")
      BY <2>2 DEF Pi!Fill, Pi!At
    <3>2. /\ copy'["r"] = copy["r"]
          /\ \/ copy'["w"]["w"] = copy["w"]["w"] /\ Pi!Goto("w", "idle")
             \/ Pi!Goto("w", "check")
      BY <1>1, <3>1 DEF PiTypeOK, Pi!Sides
    <3> QED BY <3>1, <3>2 DEF Pi!Sides, Pi!Peer
  <2> QED BY <2>1, <2>2
<1>3. PiEnd'
  <2>1. ppc'[s] = to /\ (s # "r" => ppc'["r"] = ppc["r"])
    BY <1>1, <1>2, PeerIs, PiMoves DEF Pi!Sides
  <2> QED BY <1>1, <1>2, <2>1 DEF PiEnd
<1> QED BY <1>1, <1>2, <1>3, PlainHolds

\* An index is stored, or the pipe closed: the side goes on to wake its peer.
LEMMA StoreHolds ==
    ASSUME PiInv, PiTypeOK', NEW s \in Pi!Sides, Pi!Store(s) \/ Pi!Drop(s)
    PROVE  PiInv'
<1> DEFINE p == Pi!Peer(s)
<1>1. PiData /\ PiTypeOK /\ PiSync /\ PiWaker /\ PiHeard /\ PiEnd
  BY DEF PiInv, PiData
<1>2. p \in Pi!Sides /\ p # s /\ Pi!Peer(p) = s /\ (s # "r" => p = "r") /\ \A t \in Pi!Sides : t = s \/ t = p
  BY PeerIs DEF Pi!Sides
<1>3. PiData'
  <2>1. CASE Pi!Store(s)
    BY <1>1, <2>1, StoreData DEF Pi!Store
  <2>2. CASE Pi!Drop(s)
    BY <1>1, <2>2, SameData DEF Pi!Drop
  <2> QED BY <2>1, <2>2
<1>4. /\ UNCHANGED <<copy, aw, pwoken, received, looked>> /\ ppc'[p] = ppc[p]
      /\ ppc'[s] \in {"wake", "drop"} /\ ppc[s] \in {"store", "idle", "pending", "over"}
      /\ closed => closed'
      /\ index'[p] = index[p]
  BY <1>1, <1>2, PiMoves DEF PiTypeOK, Pi!Store, Pi!Drop, Pi!At
<1>5. PiSync'
  <2>1. index'[s] = copy[s][s] \/ (s = "w" /\ closed' /\ ppc'[s] = "drop")
    <3>1. CASE Pi!Store(s)
      BY <1>1, <3>1 DEF PiTypeOK, Pi!Store
    <3>2. CASE Pi!Drop(s)
      <4>1. ppc'[s] = "drop" /\ closed' /\ index' = index /\ ppc[s] \in {"idle", "pending", "over"}
        BY <1>1, <3>2, PiMoves DEF Pi!Drop
      <4> QED BY <1>1, <4>1 DEF PiSync
    <3> QED BY <3>1, <3>2
  <2> SUFFICES ASSUME NEW t \in Pi!Sides
               PROVE  \/ index'[t] = copy'[t][t] \/ ppc'[t] \in {"check", "store"}
                      \/ t = "w" /\ closed' /\ ppc'[t] \in {"idle", "over", "drop", "dropping", "gone"}
    BY DEF PiSync
  <2>2. CASE t = s
    BY <1>4, <2>1, <2>2
  <2>3. CASE t = p
    BY <1>1, <1>4, <2>3 DEF PiSync
  <2> QED BY <1>2, <2>2, <2>3
<1>6. PiWaker'
  <2> SUFFICES ASSUME NEW t \in Pi!Sides
               PROVE  /\ "registering" \in aw'[t].bits <=> ppc'[t] = "registered"
                      /\ "waking" \in aw'[t].bits => ppc'[t] \in {"taken", "registered"}
                                                      \/ ppc'[Pi!Peer(t)] \in {"waking", "dropping"}
                      /\ ppc'[t] \in {"relook", "closed", "pending"} /\ ~pwoken'[t] => aw'[t].waker
    BY DEF PiWaker
  <2>1. CASE t = s
    BY <1>1, <1>2, <1>4, <2>1 DEF PiWaker
  <2>2. CASE t = p
    BY <1>1, <1>2, <1>4, <2>2 DEF PiWaker
  <2> QED BY <1>2, <2>1, <2>2
<1>7. PiHeard'
  BY <1>2, <1>4 DEF PiHeard
<1>8. PiEnd'
  BY <1>1, <1>2, <1>4 DEF PiEnd
<1> QED BY <1>3, <1>5, <1>6, <1>7, <1>8 DEF PiInv

\* AtomicWaker::register.
LEMMA RegisterHolds ==
    ASSUME PiInv, PiTypeOK', NEW s \in Pi!Sides, Pi!Register(s) \/ Pi!Registered(s)
    PROVE  PiInv'
<1> DEFINE p == Pi!Peer(s)
<1>1. PiData /\ PiTypeOK /\ PiWaker
  BY DEF PiInv, PiData
<1>2. p \in Pi!Sides /\ p # s /\ Pi!Peer(p) = s /\ \A t \in Pi!Sides : t = s \/ t = p
  BY PeerIs
<1>3. UNCHANGED <<index, copy, ring, sent, received, closed, looked>>
  BY DEF Pi!Register, Pi!Registered, Pi!Shared
<1>4. PiData'
  BY <1>1, <1>3, SameData
<1>5. aw[s].bits \subseteq {"registering", "waking"} /\ ("registering" \in aw[s].bits <=> ppc[s] = "registered")
  BY <1>1 DEF PiTypeOK, PiWaker
<1>6. PICK to \in {"registered", "relook"} :
        /\ Pi!Goto(s, to) /\ ppc[s] \in {"register", "registered"}
        /\ aw'[p] = aw[p] /\ pwoken'[p] = pwoken[p]
        /\ "registering" \in aw'[s].bits <=> to = "registered"
        /\ "waking" \in aw'[s].bits => "waking" \in aw[s].bits /\ to = "relook" /\ ppc[s] = "register"
        /\ to = "relook" /\ ~pwoken'[s] => aw'[s].waker
  <2>1. CASE Pi!Register(s) /\ aw[s].bits = {}
    <3>1. /\ aw' = [aw EXCEPT ![s] = [bits |-> {"registering"}, waker |-> TRUE]]
          /\ Pi!Goto(s, "registered") /\ ppc[s] = "register"
          /\ pwoken' = [pwoken EXCEPT ![s] = @ \/ (aw[s].bits = {"waking"})]
      BY <2>1 DEF Pi!Register, Pi!Sets, Pi!Wakes, Pi!At
    <3>2. aw'[s].bits = {"registering"} /\ aw'[p] = aw[p] /\ pwoken'[p] = pwoken[p]
      BY <1>1, <1>2, <3>1 DEF PiTypeOK
    <3> QED BY <3>1, <3>2
  <2>2. CASE Pi!Register(s) /\ aw[s].bits # {}
    <3>1. /\ aw' = aw /\ Pi!Goto(s, "relook") /\ ppc[s] = "register"
          /\ pwoken' = [pwoken EXCEPT ![s] = @ \/ (aw[s].bits = {"waking"})]
      BY <2>2 DEF Pi!Register, Pi!Wakes, Pi!At
    <3>2. aw[s].bits = {"waking"}
      BY <1>5, <2>2, <3>1
    <3>3. pwoken'[s] /\ pwoken'[p] = pwoken[p]
      BY <1>1, <1>2, <3>1, <3>2 DEF PiTypeOK
    <3> QED BY <1>5, <3>1, <3>3
  <2>3. CASE Pi!Registered(s)
    <3>1. /\ aw' = [aw EXCEPT ![s] = [bits |-> {}, waker |-> (aw[s].bits = {"registering"})]]
          /\ Pi!Goto(s, "relook") /\ ppc[s] = "registered"
          /\ pwoken' = [pwoken EXCEPT ![s] = @ \/ (aw[s].bits # {"registering"})]
      BY <2>3 DEF Pi!Registered, Pi!Sets, Pi!Wakes, Pi!At
    <3>2. /\ aw'[s].bits = {} /\ aw'[p] = aw[p] /\ pwoken'[p] = pwoken[p]
          /\ ~pwoken'[s] => aw'[s].waker
      BY <1>1, <1>2, <3>1 DEF PiTypeOK
    <3> QED BY <3>1, <3>2
  <2> QED BY <2>1, <2>2, <2>3
<1>7. ppc'[s] = to /\ ppc'[p] = ppc[p]
  BY <1>1, <1>6, PiMoves
<1>8. PiWaker'
  <2> SUFFICES ASSUME NEW t \in Pi!Sides
               PROVE  /\ "registering" \in aw'[t].bits <=> ppc'[t] = "registered"
                      /\ "waking" \in aw'[t].bits => ppc'[t] \in {"taken", "registered"}
                                                      \/ ppc'[Pi!Peer(t)] \in {"waking", "dropping"}
                      /\ ppc'[t] \in {"relook", "closed", "pending"} /\ ~pwoken'[t] => aw'[t].waker
    BY DEF PiWaker
  <2>1. CASE t = s
    BY <1>1, <1>2, <1>6, <1>7, <2>1 DEF PiWaker
  <2>2. CASE t = p
    BY <1>1, <1>2, <1>6, <1>7, <2>2 DEF PiWaker
  <2> QED BY <1>2, <2>1, <2>2
<1> QED BY <1>3, <1>4, <1>6, <1>8, WakerHolds

\* AtomicWaker::take, of one's own waker or, to wake it, of the peer's.
LEMMA TakeHolds ==
    ASSUME PiInv, PiTypeOK', NEW s \in Pi!Sides,
           \/ Pi!TakeOwn(s) \/ Pi!WakePeer(s, "wake", "waking", "copy")
           \/ Pi!WakePeer(s, "drop", "dropping", "gone")
    PROVE  PiInv'
<1> DEFINE p == Pi!Peer(s)
<1>1. PiData /\ PiTypeOK /\ PiWaker
  BY DEF PiInv, PiData
<1>2. p \in Pi!Sides /\ p # s /\ Pi!Peer(p) = s /\ \A t \in Pi!Sides : t = s \/ t = p
  BY PeerIs
<1>3. PICK t \in Pi!Sides, here \in {"take", "taken", "wake", "waking", "drop", "dropping"},
           mid \in {"taken", "waking", "dropping"}, after \in {"yield", "copy", "gone"} :
        /\ \/ t = s /\ here \in {"take", "taken"} /\ mid = "taken" /\ after = "yield"
           \/ t = p /\ here \in {"wake", "waking"} /\ mid = "waking" /\ after = "copy"
           \/ t = p /\ here \in {"drop", "dropping"} /\ mid = "dropping" /\ after = "gone"
        /\ \/ here # mid /\ Pi!Take(s, t, here, mid, after)
           \/ here = mid /\ Pi!Taken(s, t, here, after)
  BY <1>2 DEF Pi!TakeOwn, Pi!WakePeer
<1>4. /\ UNCHANGED <<index, copy, ring, sent, received, closed, looked>> /\ ppc[s] = here
  BY <1>3 DEF Pi!Take, Pi!Taken, Pi!Shared, Pi!At
<1>5. PiData'
  BY <1>1, <1>4, SameData
<1>6. \A u \in Pi!Sides : aw[u].bits \subseteq {"registering", "waking"} /\ aw[u].waker \in BOOLEAN
  BY <1>1 DEF PiTypeOK
<1>7. ASSUME here # mid
      PROVE  /\ aw'[t].bits = aw[t].bits \cup {"waking"} /\ aw'[t].waker = aw[t].waker
             /\ \A u \in Pi!Sides : u # t => aw'[u] = aw[u]
             /\ pwoken' = pwoken /\ Pi!Goto(s, IF aw[t].bits = {} THEN mid ELSE after)
  <2>1. /\ aw' = [aw EXCEPT ![t].bits = @ \cup {"waking"}] /\ pwoken' = pwoken
        /\ Pi!Goto(s, IF aw[t].bits = {} THEN mid ELSE after)
    BY <1>3, <1>7 DEF Pi!Take
  <2> QED BY <1>1, <2>1 DEF PiTypeOK
<1>8. ASSUME here = mid
      PROVE  /\ aw'[t].bits = aw[t].bits \ {"waking"} /\ \A u \in Pi!Sides : u # t => aw'[u] = aw[u]
             /\ Pi!Goto(s, after) /\ \A u \in Pi!Sides : u # t => pwoken'[u] = pwoken[u]
             /\ (pwoken[t] => pwoken'[t]) /\ (aw[t].waker /\ s # t => pwoken'[t])
  <2>1. /\ aw' = [aw EXCEPT ![t] = [bits |-> aw[t].bits \ {"waking"}, waker |-> FALSE]]
        /\ pwoken' = [pwoken EXCEPT ![t] = @ \/ (aw[t].waker /\ s # t)]
        /\ Pi!Goto(s, after)
    BY <1>3, <1>8 DEF Pi!Taken, Pi!Sets, Pi!Wakes
  <2> QED BY <1>1, <2>1 DEF PiTypeOK
<1>9. PICK to \in {mid, after} :
        /\ Pi!Goto(s, to) /\ ppc'[s] = to /\ ppc'[p] = ppc[p]
        /\ here = mid => to = after
        /\ here # mid => (to = mid <=> aw[t].bits = {})
  <2>1. mid # after
    BY <1>3
  <2>2. CASE here = mid
    BY <1>1, <1>8, <2>2, PiMoves
  <2>3. CASE here # mid
    BY <1>1, <1>7, <2>1, <2>3, PiMoves
  <2> QED BY <2>2, <2>3
<1>10. PiWaker'
  <2> SUFFICES ASSUME NEW u \in Pi!Sides
               PROVE  /\ "registering" \in aw'[u].bits <=> ppc'[u] = "registered"
                      /\ "waking" \in aw'[u].bits => ppc'[u] \in {"taken", "registered"}
                                                      \/ ppc'[Pi!Peer(u)] \in {"waking", "dropping"}
                      /\ ppc'[u] \in {"relook", "closed", "pending"} /\ ~pwoken'[u] => aw'[u].waker
    BY DEF PiWaker
  <2>1. /\ "registering" \in aw[u].bits <=> ppc[u] = "registered"
        /\ "waking" \in aw[u].bits => ppc[u] \in {"taken", "registered"}
                                       \/ ppc[Pi!Peer(u)] \in {"waking", "dropping"}
        /\ ppc[u] \in {"relook", "closed", "pending"} /\ ~pwoken[u] => aw[u].waker
    BY <1>1 DEF PiWaker
  <2>2. CASE here # mid
    <3>1. CASE u = t
      BY <1>2, <1>3, <1>4, <1>6, <1>7, <1>9, <2>1, <2>2, <3>1
    <3>2. CASE u # t
      BY <1>2, <1>3, <1>4, <1>7, <1>9, <2>1, <2>2, <3>2
    <3> QED BY <3>1, <3>2
  <2>3. CASE here = mid
    <3>1. CASE u = t
      BY <1>2, <1>3, <1>4, <1>6, <1>8, <1>9, <2>1, <2>3, <3>1
    <3>2. CASE u # t
      BY <1>2, <1>3, <1>4, <1>8, <1>9, <2>1, <2>3, <3>2
    <3> QED BY <3>1, <3>2
  <2> QED BY <2>2, <2>3
<1>11. pwoken[p] => pwoken'[p]
  BY <1>2, <1>7, <1>8
<1>12. \/ ppc[s] \notin {"wake", "waking", "drop", "dropping"} \/ to \in {"waking", "dropping"}
       \/ ppc[p] \notin {"closed", "pending"} \/ pwoken'[p]
  <2> SUFFICES ASSUME ppc[s] \in {"wake", "waking", "drop", "dropping"}, to \notin {"waking", "dropping"},
                      ppc[p] \in {"closed", "pending"}
               PROVE  pwoken'[p]
    OBVIOUS
  <2>1. t = p /\ s # t
    BY <1>2, <1>3, <1>4
  <2>2. CASE here = mid
    <3>1. pwoken[p] \/ aw[p].waker
      BY <1>1, <1>2 DEF PiWaker
    <3> QED BY <1>8, <2>1, <2>2, <3>1
  <2>3. CASE here # mid
    <3>1. aw[p].bits # {}
      BY <1>3, <1>9, <2>1, <2>3
    <3>2. ppc[s] \notin {"waking", "dropping"}
      BY <1>3, <1>4, <2>1, <2>3
    <3>3. "registering" \notin aw[p].bits /\ "waking" \notin aw[p].bits
      BY <1>1, <1>2, <3>2 DEF PiWaker
    <3> QED BY <1>2, <1>6, <3>1, <3>3
  <2> QED BY <2>2, <2>3
<1>13. /\ ppc[s] \notin {"check", "store"} /\ to \notin {"closed", "pending", "over"}
       /\ s = "w" /\ closed /\ ppc[s] \in {"idle", "over", "drop", "dropping", "gone"} => to \in {"dropping", "gone"}
  BY <1>3, <1>4, <1>9
<1> QED BY <1>4, <1>5, <1>9, <1>10, <1>11, <1>12, <1>13, WakerHolds

\* Initially the ring is empty and nobody sleeps.
LEMMA PiInitHolds == Pi!PInit => PiInv
<1> SUFFICES ASSUME Pi!PInit PROVE PiInv
  OBVIOUS
<1>1. PipeCap \in Nat /\ PipeCap > 0 /\ 0 \in Wrapped
  BY IoAssumption DEF Wrapped
<1>2. PiTypeOK
  <2>1. /\ index \in [Pi!Sides -> Wrapped] /\ copy \in [Pi!Sides -> [Pi!Sides -> Wrapped]]
        /\ ring \in [0 .. PipeCap - 1 -> Nat]
    BY <1>1 DEF Pi!PInit
  <2>2. aw \in [Pi!Sides -> [bits : SUBSET {"registering", "waking"}, waker : BOOLEAN]]
    BY DEF Pi!PInit
  <2>3. pwoken \in [Pi!Sides -> BOOLEAN] /\ ppc \in [Pi!Sides -> PiPcs] /\ closed \in BOOLEAN
    BY DEF Pi!PInit, PiPcs
  <2>4. sent \in Nat /\ received \in Seq(Nat)
    BY DEF Pi!PInit
  <2> QED BY <2>1, <2>2, <2>3, <2>4 DEF PiTypeOK
<1>3. /\ index["r"] = 0 /\ index["w"] = 0 /\ copy["r"]["r"] = 0 /\ copy["r"]["w"] = 0
      /\ copy["w"]["r"] = 0 /\ copy["w"]["w"] = 0 /\ sent = 0 /\ Len(received) = 0
  BY DEF Pi!PInit, Pi!Sides
<1>4. PiOrder
  BY <1>1, <1>3 DEF PiOrder, InLine, Pi!distance
<1>5. PiBytes
  BY <1>3 DEF PiBytes
<1>6. PiSync /\ PiWaker /\ PiHeard /\ PiEnd
  BY PeerIs DEF Pi!PInit, PiSync, PiWaker, PiHeard, PiEnd, Pi!Sides
<1> QED BY <1>2, <1>4, <1>5, <1>6 DEF PiInv, PiData

\* Every step of the pipe keeps its invariant.
LEMMA PiStepHolds == PiInv /\ [Pi!PNext]_pvars => PiInv'
<1> SUFFICES ASSUME PiInv, [Pi!PNext]_pvars PROVE PiInv'
  OBVIOUS
<1>1. CASE UNCHANGED pvars
  BY <1>1 DEF pvars, PiInv, PiData, PiTypeOK, PiOrder, PiBytes, PiSync, PiWaker, PiHeard, PiEnd,
              Pi!Stuck, Pi!Held
<1>2. CASE Pi!PNext
  <2>1. PiTypeOK'
    BY <1>2, PiTypeHolds DEF PiInv
  <2>2. "w" \in Pi!Sides
    BY DEF Pi!Sides
  <2> QED BY <1>2, <2>1, <2>2, PollHolds, LookHolds, CopyHolds, StoreHolds, RegisterHolds, TakeHolds DEF Pi!PNext
<1> QED BY <1>1, <1>2

\* What the invariant says of the bytes and of who sleeps.
LEMMA PiInvSays == PiInv => Pi!PipeInOrder /\ Pi!PipeWakes
<1> SUFFICES ASSUME PiInv PROVE Pi!PipeInOrder /\ Pi!PipeWakes
  OBVIOUS
<1>1. PiTypeOK /\ PiOrder /\ PiBytes /\ PiEnd /\ PiHeard
  BY DEF PiInv, PiData
<1>2. received = [i \in 1 .. Len(received) |-> i]
  BY <1>1 DEF PiTypeOK, PiBytes
<1>3. Pi!Held(index) <= PipeCap /\ Pi!Published <= sent
  <2>1. /\ Pi!distance(index["r"], index["w"]) <= PipeCap
        /\ Pi!distance(copy["r"]["r"], index["w"]) \in 0 .. sent - Len(received)
    BY <1>1, LineSays DEF PiOrder
  <2>2. Len(received) \in Nat /\ sent \in Nat
    BY <1>1 DEF PiTypeOK
  <2> QED BY <2>1, <2>2 DEF Pi!Held, Pi!Published
<1>4. ppc["r"] = "over" => Len(received) = looked
  BY <1>1 DEF PiEnd
<1>5. Pi!PipeWakes
  BY <1>1 DEF PiHeard, Pi!PipeWakes, Pi!Quiet
<1> QED BY <1>2, <1>3, <1>4, <1>5 DEF Pi!PipeInOrder

(***************************************************************************)
(* Slab                                                                    *)
(***************************************************************************)
\* the slots that hold nothing, and how many there are
Vacancies == Sl!Index \ DOMAIN held
VacantCount == Len(slots) - len

\* rank numbers the vacant slots by how many follow them in the list from head
Ranks(rank) ==
    /\ rank \in [Vacancies -> Nat]
    /\ \A i \in Vacancies : rank[i] < VacantCount
    /\ \A i, j \in Vacancies : rank[i] = rank[j] => i = j
    /\ \A i \in Vacancies :
          IF rank[i] = 0 THEN slots[i + 1] = Sl!Vacant(Sl!End)
          ELSE \E j \in Vacancies : rank[j] = rank[i] - 1 /\ slots[i + 1] = Sl!Vacant(j)
    /\ IF VacantCount = 0 THEN head = Sl!End
       ELSE head \in Vacancies /\ rank[head] = VacantCount - 1

SlotSet == {Sl!Vacant(n) : n \in Int} \cup {Sl!Occupied(o) : o \in Objects}

SlabShape ==
    /\ slots \in Seq(SlotSet) /\ Len(slots) <= MaxSlots
    /\ held \in [DOMAIN held -> Objects] /\ DOMAIN held \subseteq Sl!Index
    /\ \A i \in DOMAIN held : slots[i + 1] = Sl!Occupied(held[i])
    /\ len = Cardinality(DOMAIN held)
SlabInv == SlabShape /\ \E rank : Ranks(rank)

\* what insert answered is the new key of the object, unless the slab was full
Answered ==
    /\ limited \in Nat /\ (limited # 0 => Len(slots) <= limited)
    /\ \A a \in inserted : IF a.kept THEN ~a.used /\ a.key \in DOMAIN held /\ held[a.key] = a.object
                           ELSE a.used /\ limited # 0 /\ len = limited

-----------------------------------------------------------------------------
LEMMA SlabCardinality == \A S : Sl!Cardinality(S) = Cardinality(S)
BY DEF Sl!Cardinality, Cardinality

\* What the invariant says of the numbers in it.
LEMMA SlabNumbers ==
    ASSUME SlabShape
    PROVE  /\ DOMAIN slots = 1 .. Len(slots) /\ Len(slots) \in Nat
           /\ Sl!Index = 0 .. Len(slots) - 1 /\ IsFiniteSet(Sl!Index) /\ IsFiniteSet(DOMAIN held)
           /\ len \in Nat /\ VacantCount \in Nat /\ VacantCount = Cardinality(Vacancies)
           /\ IsFiniteSet(Vacancies)
<1>1. DOMAIN slots = 1 .. Len(slots) /\ Len(slots) \in Nat
  BY DEF SlabShape
<1>2. Sl!Index = 0 .. Len(slots) - 1
  BY DEF Sl!Index
<1>3. IsFiniteSet(Sl!Index) /\ Cardinality(Sl!Index) = Len(slots)
  <2>1. \A n \in Nat : IsFiniteSet(0 .. n - 1) /\ Cardinality(0 .. n - 1) = n
    <3> TAKE n \in Nat
    <3>1. 0 \in Int /\ n - 1 \in Int
      OBVIOUS
    <3>2. IsFiniteSet(0 .. n - 1) /\ Cardinality(0 .. n - 1) = IF 0 > n - 1 THEN 0 ELSE (n - 1) - 0 + 1
      BY <3>1, FS_Interval
    <3> QED BY <3>2
  <2> QED BY <1>1, <1>2, <2>1
<1>4. DOMAIN held \subseteq Sl!Index /\ len = Cardinality(DOMAIN held)
  BY DEF SlabShape
<1>5. IsFiniteSet(DOMAIN held) /\ len \in Nat /\ len <= Len(slots)
  BY <1>3, <1>4, FS_Subset, FS_CardinalityType
<1>6. IsFiniteSet(Vacancies) /\ Cardinality(Vacancies) = Len(slots) - Cardinality(Sl!Index \cap DOMAIN held)
  BY <1>3, FS_Difference DEF Vacancies
<1>7. Sl!Index \cap DOMAIN held = DOMAIN held
  BY <1>4
<1> QED BY <1>1, <1>2, <1>3, <1>4, <1>5, <1>6, <1>7 DEF VacantCount

\* A slot is occupied when its key is held.
LEMMA SlotKinds ==
    ASSUME SlabInv, NEW i \in Sl!Index
    PROVE  /\ Sl!IsOccupied(i) <=> i \in DOMAIN held
           /\ i \in DOMAIN held => slots[i + 1][2] = held[i]
           /\ i + 1 \in DOMAIN slots
<1> USE DEF SlabInv
<1>1. i + 1 \in DOMAIN slots
  BY SlabNumbers
<1>2. CASE i \in DOMAIN held
  <2>1. slots[i + 1] = Sl!Occupied(held[i])
    BY <1>2 DEF SlabShape
  <2> QED BY <1>1, <1>2, <2>1 DEF Sl!Occupied, Sl!IsOccupied
<1>3. CASE i \notin DOMAIN held
  <2>1. i \in Vacancies
    BY <1>3 DEF Vacancies
  <2>2. \E n : slots[i + 1] = Sl!Vacant(n)
    BY <2>1 DEF Ranks
  <2> QED BY <1>1, <1>3, <2>2 DEF Sl!Vacant, Sl!IsOccupied
<1> QED BY <1>2, <1>3

LEMMA SlabInsertInto ==
    ASSUME SlabInv, NEW o \in Objects, head # Sl!End, Sl!Insert(o)
    PROVE  SlabInv'
<1> USE DEF SlabInv
<1>0. PICK rank : Ranks(rank)
  OBVIOUS
<1>n. /\ DOMAIN slots = 1 .. Len(slots) /\ Len(slots) \in Nat /\ Sl!Index = 0 .. Len(slots) - 1
      /\ IsFiniteSet(DOMAIN held) /\ len \in Nat /\ VacantCount \in Nat
  BY SlabNumbers
<1>1. /\ head' = slots[head + 1][2] /\ slots' = [slots EXCEPT ![head + 1] = Sl!Occupied(o)]
      /\ held' = Sl!Put(head, o) /\ len' = len + 1
  BY DEF Sl!Insert
<1>2. head \in Vacancies /\ VacantCount > 0 /\ rank[head] = VacantCount - 1
  BY <1>0, <1>n DEF Ranks
<1>3. head \in Sl!Index /\ head \notin DOMAIN held /\ head \in Nat /\ head + 1 \in DOMAIN slots
  BY <1>2, <1>n DEF Vacancies
<1>4. /\ DOMAIN held' = DOMAIN held \cup {head} /\ held'[head] = o
      /\ \A i \in DOMAIN held : held'[i] = held[i]
      /\ held' \in [DOMAIN held' -> Objects]
  <2>2. held \in [DOMAIN held -> Objects]
    BY DEF SlabShape
  <2> QED BY <2>2, <1>1, <1>3 DEF Sl!Put
<1>5. slots' \in Seq(SlotSet) /\ Len(slots') = Len(slots) /\ DOMAIN slots' = DOMAIN slots
      /\ slots'[head + 1] = Sl!Occupied(o) /\ \A i \in Sl!Index : i # head => slots'[i + 1] = slots[i + 1]
  <2>1. slots \in Seq(SlotSet) /\ Sl!Occupied(o) \in SlotSet
    BY DEF SlabShape, SlotSet
  <2> QED BY <2>1, <1>1, <1>3, <1>n
<1>6. Sl!Index' = Sl!Index /\ Vacancies' = Vacancies \ {head} /\ VacantCount' = VacantCount - 1
  BY <1>1, <1>4, <1>5, <1>n DEF Sl!Index, Vacancies, VacantCount
<1>7. SlabShape'
  <2>1. len' = Cardinality(DOMAIN held')
    BY <1>1, <1>3, <1>4, <1>n, FS_AddElement DEF SlabShape
  <2>2. \A i \in DOMAIN held' : slots'[i + 1] = Sl!Occupied(held'[i])
    BY <1>4, <1>5, <1>3 DEF SlabShape
  <2> QED BY <2>1, <2>2, <1>4, <1>5, <1>6, <1>3 DEF SlabShape
<1>8. \E r : Ranks(r)'
  <2>0. PICK r : r = [i \in Vacancies \ {head} |-> rank[i]]
    OBVIOUS
  <2>1. r \in [Vacancies' -> Nat] /\ \A i \in Vacancies' : r[i] = rank[i] /\ i \in Vacancies /\ i # head
    BY <2>0, <1>0, <1>6 DEF Ranks
  <2>2. \A i, j \in Vacancies : rank[i] = rank[j] => i = j
    BY <1>0 DEF Ranks
  <2>3. \A i \in Vacancies' : r[i] < VacantCount'
    <3> TAKE i \in Vacancies'
    <3>1. rank[i] \in Nat /\ rank[i] < VacantCount /\ rank[i] # VacantCount - 1
      BY <2>1, <2>2, <1>0, <1>2 DEF Ranks
    <3> QED BY <3>1, <2>1, <1>6, <1>n
  <2>4. \A i \in Vacancies' :
          IF r[i] = 0 THEN slots'[i + 1] = Sl!Vacant(Sl!End)
          ELSE \E j \in Vacancies' : r[j] = r[i] - 1 /\ slots'[i + 1] = Sl!Vacant(j)
    <3> TAKE i \in Vacancies'
    <3>1. slots'[i + 1] = slots[i + 1] /\ i \in Vacancies
      BY <2>1, <1>5 DEF Vacancies
    <3>2. ASSUME r[i] # 0 PROVE \E j \in Vacancies' : r[j] = r[i] - 1 /\ slots'[i + 1] = Sl!Vacant(j)
      <4>1. PICK j \in Vacancies : rank[j] = rank[i] - 1 /\ slots[i + 1] = Sl!Vacant(j)
        BY <2>1, <3>2, <3>1, <1>0 DEF Ranks
      <4>2. j # head
        BY <4>1, <1>2, <1>0, <3>1, <1>n DEF Ranks
      <4> QED BY <4>1, <4>2, <3>1, <2>1, <1>6
    <3> QED BY <3>1, <3>2, <2>1, <1>0 DEF Ranks
  <2>5. IF VacantCount' = 0 THEN head' = Sl!End ELSE head' \in Vacancies' /\ r[head'] = VacantCount' - 1
    <3>1. CASE rank[head] = 0
      <4>1. slots[head + 1] = Sl!Vacant(Sl!End)
        BY <3>1, <1>0, <1>2 DEF Ranks
      <4> QED BY <4>1, <3>1, <1>1, <1>2, <1>6, <1>n DEF Sl!Vacant
    <3>2. CASE rank[head] # 0
      <4>1. PICK j \in Vacancies : rank[j] = rank[head] - 1 /\ slots[head + 1] = Sl!Vacant(j)
        BY <3>2, <1>0, <1>2 DEF Ranks
      <4>2. head' = j /\ j # head
        BY <4>1, <1>1, <1>2, <1>n DEF Sl!Vacant
      <4> QED BY <4>1, <4>2, <2>1, <3>2, <1>2, <1>6, <1>n
    <3> QED BY <3>1, <3>2
  <2>6. \A i, j \in Vacancies' : r[i] = r[j] => i = j
    BY <2>1, <2>2
  <2>7. Ranks(r)'
    BY <2>1, <2>3, <2>4, <2>5, <2>6 DEF Ranks
  <2> QED BY <2>7
<1> QED BY <1>7, <1>8

LEMMA SlabInsertAtEnd ==
    ASSUME SlabInv, NEW o \in Objects, head = Sl!End, Sl!Insert(o)
    PROVE  SlabInv'
<1> USE DEF SlabInv
<1>0. PICK rank : Ranks(rank)
  OBVIOUS
<1>n. /\ DOMAIN slots = 1 .. Len(slots) /\ Len(slots) \in Nat /\ Sl!Index = 0 .. Len(slots) - 1
      /\ IsFiniteSet(DOMAIN held) /\ len \in Nat /\ VacantCount \in Nat
  BY SlabNumbers
<1>1. VacantCount = 0 /\ Vacancies = {} /\ len = Len(slots) /\ len + 1 - 1 = len
  <2>1. VacantCount = 0
    <3>1. Sl!End \notin Vacancies
      BY <1>n DEF Vacancies, Sl!End
    <3> QED BY <3>1, <1>0 DEF Ranks
  <2>2. Vacancies = {}
    <3> SUFFICES ASSUME NEW i \in Vacancies PROVE FALSE
      OBVIOUS
    <3>1. rank[i] \in Nat /\ rank[i] < VacantCount
      BY <1>0 DEF Ranks
    <3> QED BY <3>1, <2>1
  <2> QED BY <2>1, <2>2, <1>n DEF VacantCount
<1>2. /\ head' = head /\ slots' = Append(slots, Sl!Occupied(o)) /\ Len(slots) < MaxSlots
      /\ held' = Sl!Put(len, o) /\ len' = len + 1
  BY <1>1 DEF Sl!Insert
<1>3. len \notin DOMAIN held
  BY <1>1, <1>n DEF SlabShape
<1>4. /\ DOMAIN held' = DOMAIN held \cup {len} /\ held'[len] = o
      /\ \A i \in DOMAIN held : held'[i] = held[i]
      /\ held' \in [DOMAIN held' -> Objects]
  <2>2. held \in [DOMAIN held -> Objects]
    BY DEF SlabShape
  <2> QED BY <2>2, <1>2, <1>3 DEF Sl!Put
<1>5. slots' \in Seq(SlotSet) /\ Len(slots') = Len(slots) + 1
      /\ slots'[len + 1] = Sl!Occupied(o) /\ \A i \in Sl!Index : slots'[i + 1] = slots[i + 1]
  <2>1. slots \in Seq(SlotSet) /\ Sl!Occupied(o) \in SlotSet
    BY DEF SlabShape, SlotSet
  <2> QED BY <2>1, <1>1, <1>2, <1>n
<1>6. Sl!Index' = Sl!Index \cup {len} /\ Vacancies' = {} /\ VacantCount' = 0
  <2>1. Sl!Index' = 0 .. Len(slots')- 1
    BY DEF Sl!Index
  <2>2. Sl!Index' = Sl!Index \cup {len}
    BY <2>1, <1>5, <1>1, <1>n
  <2> QED BY <2>2, <1>1, <1>2, <1>4, <1>5, <1>n DEF Vacancies, VacantCount
<1>7. SlabShape'
  <2>1. len' = Cardinality(DOMAIN held')
    BY ZenonT(60), <1>2, <1>3, <1>4, <1>n, FS_AddElement DEF SlabShape
  <2>2. \A i \in DOMAIN held' : slots'[i + 1] = Sl!Occupied(held'[i])
    BY <1>4, <1>5, <1>3 DEF SlabShape
  <2>3. Len(slots') <= MaxSlots
    BY <1>2, <1>5, <1>n, AdaptersAssumption
  <2> QED BY <2>1, <2>2, <2>3, <1>4, <1>5, <1>6, <1>3 DEF SlabShape
<1>8. rank \in [Vacancies' -> Nat] /\ Ranks(rank)'
  BY <1>0, <1>1, <1>2, <1>6 DEF Ranks
<1> QED BY <1>7, <1>8

\* Slots that become vacant in the order of a new ranking, which continues the old one.
LEMMA SlabVacate ==
    ASSUME SlabInv, NEW i \in Int, Sl!Remove(i)
    PROVE  SlabInv'
<1> USE DEF SlabInv
<1>0. PICK rank : Ranks(rank)
  OBVIOUS
<1>n. /\ DOMAIN slots = 1 .. Len(slots) /\ Len(slots) \in Nat /\ Sl!Index = 0 .. Len(slots) - 1
      /\ IsFiniteSet(DOMAIN held) /\ len \in Nat /\ VacantCount \in Nat
  BY SlabNumbers
<1>1. /\ i \in Sl!Index /\ Sl!IsOccupied(i) /\ slots' = [slots EXCEPT ![i + 1] = Sl!Vacant(head)]
      /\ head' = i /\ len' = len - 1 /\ held' = Sl!Forget({i})
  BY DEF Sl!Remove
<1>2. i \in DOMAIN held /\ i \notin Vacancies /\ i + 1 \in DOMAIN slots
  BY <1>1, SlotKinds DEF Vacancies
<1>3. /\ DOMAIN held' = DOMAIN held \ {i} /\ \A j \in DOMAIN held' : held'[j] = held[j]
      /\ held' \in [DOMAIN held' -> Objects]
  <2>1. held \in [DOMAIN held -> Objects]
    BY DEF SlabShape
  <2> QED BY <2>1, <1>1 DEF Sl!Forget
<1>4. head \in Int
  BY <1>0, <1>n DEF Ranks, Vacancies, Sl!End
<1>5. slots' \in Seq(SlotSet) /\ Len(slots') = Len(slots)
      /\ slots'[i + 1] = Sl!Vacant(head) /\ \A j \in Sl!Index : j # i => slots'[j + 1] = slots[j + 1]
  <2>1. slots \in Seq(SlotSet) /\ Sl!Vacant(head) \in SlotSet
    BY <1>4 DEF SlabShape, SlotSet
  <2> QED BY <2>1, <1>1, <1>2, <1>n
<1>6. Sl!Index' = Sl!Index /\ Vacancies' = Vacancies \cup {i} /\ VacantCount' = VacantCount + 1
  BY <1>1, <1>2, <1>3, <1>5, <1>n DEF Sl!Index, Vacancies, VacantCount
<1>7. SlabShape'
  <2>1. len' = Cardinality(DOMAIN held')
    BY <1>1, <1>2, <1>3, <1>n, FS_RemoveElement DEF SlabShape
  <2>2. \A j \in DOMAIN held' : slots'[j + 1] = Sl!Occupied(held'[j])
    BY <1>3, <1>5 DEF SlabShape
  <2> QED BY <2>1, <2>2, <1>3, <1>5, <1>6 DEF SlabShape
<1>8. \E r : Ranks(r)'
  <2>0. PICK r : r = [j \in Vacancies \cup {i} |-> IF j = i THEN VacantCount ELSE rank[j]]
    OBVIOUS
  <2>1. /\ r \in [Vacancies' -> Nat] /\ r[i] = VacantCount /\ i \in Vacancies'
        /\ \A j \in Vacancies : r[j] = rank[j] /\ j \in Vacancies' /\ j # i /\ rank[j] < VacantCount /\ rank[j] \in Nat
    BY <2>0, <1>0, <1>2, <1>6, <1>n DEF Ranks
  <2>2. \A j \in Vacancies : slots'[j + 1] = slots[j + 1]
    BY <2>1, <1>5 DEF Vacancies
  <2>3. \A j, k \in Vacancies' : r[j] = r[k] => j = k
    <3>1. \A j, k \in Vacancies : rank[j] = rank[k] => j = k
      BY <1>0 DEF Ranks
    <3> QED BY <3>1, <2>1, <1>6, <1>n
  <2>4. \A j \in Vacancies' : r[j] < VacantCount'
    BY <2>1, <1>6, <1>n
  <2>5. ASSUME NEW j \in Vacancies'
        PROVE  IF r[j] = 0 THEN slots'[j + 1] = Sl!Vacant(Sl!End)
               ELSE \E k \in Vacancies' : r[k] = r[j] - 1 /\ slots'[j + 1] = Sl!Vacant(k)
    <3>1. CASE j = i
      BY <3>1, <2>1, <1>5, <1>0 DEF Ranks
    <3>2. CASE j \in Vacancies
      <4>1. IF rank[j] = 0 THEN slots[j + 1] = Sl!Vacant(Sl!End)
            ELSE \E k \in Vacancies : rank[k] = rank[j] - 1 /\ slots[j + 1] = Sl!Vacant(k)
        BY <3>2, <1>0 DEF Ranks
      <4> QED BY <4>1, <3>2, <2>1, <2>2
    <3> QED BY <3>1, <3>2, <1>6
  <2>6. IF VacantCount' = 0 THEN head' = Sl!End ELSE head' \in Vacancies' /\ r[head'] = VacantCount' - 1
    BY <2>1, <1>1, <1>6, <1>n
  <2>7. Ranks(r)'
    BY <2>1, <2>3, <2>4, <2>5, <2>6 DEF Ranks
  <2> QED BY <2>7
<1> QED BY <1>7, <1>8

\* Numbers are counted by how many there are below them.
LEMMA BelowCounts ==
    ASSUME NEW n \in Nat, NEW ks \in SUBSET (0 .. n - 1), NEW i \in Int
    PROVE  /\ IsFiniteSet(ks) /\ Cardinality(ks) \in Nat /\ Cardinality(Sl!Before(ks, i)) \in Nat
           /\ Sl!Before(ks, i) = {} <=> Cardinality(Sl!Before(ks, i)) = 0
           /\ i \in ks => Cardinality(Sl!Before(ks, i)) < Cardinality(ks)
           /\ \A j \in Int : i \in ks /\ i < j => Cardinality(Sl!Before(ks, i)) < Cardinality(Sl!Before(ks, j))
           /\ Sl!Before(ks, i) # {} =>
                 /\ Sl!NextVacant(ks, i) \in ks
                 /\ Cardinality(Sl!Before(ks, Sl!NextVacant(ks, i))) = Cardinality(Sl!Before(ks, i)) - 1
<1>0. \A j \in ks : j \in Nat /\ j < n
  OBVIOUS
<1>1. IsFiniteSet(ks) /\ \A j \in Int : IsFiniteSet(Sl!Before(ks, j)) /\ Cardinality(Sl!Before(ks, j)) \in Nat
  <2>1. 0 \in Int /\ n - 1 \in Int
    OBVIOUS
  <2>2. IsFiniteSet(0 .. n - 1)
    BY <2>1, FS_Interval
  <2>3. IsFiniteSet(ks) /\ \A j \in Int : IsFiniteSet(Sl!Before(ks, j))
    BY <2>2, FS_Subset DEF Sl!Before
  <2> QED BY <2>3, FS_CardinalityType
<1>2. Cardinality(ks) \in Nat
  BY <1>1, FS_CardinalityType
<1>3. Sl!Before(ks, i) = {} <=> Cardinality(Sl!Before(ks, i)) = 0
  BY <1>1, FS_EmptySet
<1>4. ASSUME NEW j \in Int, i \in ks, i < j PROVE Cardinality(Sl!Before(ks, i)) < Cardinality(Sl!Before(ks, j))
  <2>1. Sl!Before(ks, i) \subseteq Sl!Before(ks, j) /\ i \in Sl!Before(ks, j) /\ i \notin Sl!Before(ks, i)
    <3>1. \A k \in ks : k < i => k < j
      BY <1>4, <1>0
    <3>2. ~(i < i)
      OBVIOUS
    <3> QED BY <3>1, <3>2, <1>4 DEF Sl!Before
  <2> QED BY <2>1, <1>1, FS_Subset
<1>5. ASSUME i \in ks PROVE Cardinality(Sl!Before(ks, i)) < Cardinality(ks)
  <2>1. Sl!Before(ks, i) \subseteq ks /\ i \notin Sl!Before(ks, i)
    BY DEF Sl!Before
  <2>2. Cardinality(Sl!Before(ks, i)) <= Cardinality(ks) /\ Cardinality(Sl!Before(ks, i)) # Cardinality(ks)
    BY <2>1, <1>1, <1>5, FS_Subset
  <2> QED BY <2>2, <1>1, <1>2
<1>6. ASSUME Sl!Before(ks, i) # {}
      PROVE  /\ Sl!NextVacant(ks, i) \in ks
             /\ Cardinality(Sl!Before(ks, Sl!NextVacant(ks, i))) = Cardinality(Sl!Before(ks, i)) - 1
  <2> DEFINE A == {n - j : j \in Sl!Before(ks, i)}
             m == Sl!NextVacant(ks, i)
  <2>1. A \in SUBSET Nat /\ A # {}
    <3>1. \A k \in ks : k < i => n - k \in Nat
      BY <1>0
    <3> QED BY <3>1, <1>6 DEF Sl!Before
  <2>2. PICK d \in A : \A k \in A : d <= k
    BY <2>1, LeastNumber
  <2>3. PICK j \in Sl!Before(ks, i) : d = n - j
    BY <2>2
  <2>4. \A k \in Sl!Before(ks, i) : k <= j
    <3> SUFFICES ASSUME NEW k \in Sl!Before(ks, i) PROVE k <= j
      OBVIOUS
    <3>1. n - k \in A /\ k \in Int /\ j \in Int
      BY DEF Sl!Before
    <3>2. d <= n - k
      BY <3>1, <2>2
    <3> QED BY <3>1, <3>2, <2>3
  <2>5. m \in Sl!Before(ks, i) /\ \A k \in Sl!Before(ks, i) : k <= m
    BY <1>6, <2>3, <2>4 DEF Sl!NextVacant
  <2> HIDE DEF m
  <2>6. m \in ks /\ m \in Int /\ m < i
    BY <2>5 DEF Sl!Before
  <2>7. Sl!Before(ks, i) = Sl!Before(ks, m) \cup {m} /\ m \notin Sl!Before(ks, m)
    <3>1. \A k \in ks : k < i => k <= m
      BY <2>5 DEF Sl!Before
    <3>2. \A k \in ks : k < i <=> (k < m \/ k = m)
      BY <3>1, <2>6, <1>0
    <3>3. ~(m < m)
      BY <2>6
    <3> QED BY <2>6, <3>2, <3>3 DEF Sl!Before
  <2>8. Cardinality(Sl!Before(ks, i)) = Cardinality(Sl!Before(ks, m)) + 1
    BY <2>6, <2>7, <1>1, FS_AddElement
  <2> QED BY <2>6, <2>8, <1>1 DEF m
<1> QED BY <1>1, <1>2, <1>3, <1>4, <1>5, <1>6

LEMMA SlabRetain ==
    ASSUME SlabInv, NEW ks, Sl!Retain(ks)
    PROVE  SlabInv'
<1> USE DEF SlabInv
<1>0. PICK rank : Ranks(rank)
  OBVIOUS
<1>n. /\ DOMAIN slots = 1 .. Len(slots) /\ Len(slots) \in Nat /\ Sl!Index = 0 .. Len(slots) - 1
      /\ IsFiniteSet(DOMAIN held) /\ len \in Nat /\ VacantCount \in Nat
  BY SlabNumbers
<1> DEFINE next(i) == Sl!NextVacant(ks, i)
           b(i) == Cardinality(Sl!Before(ks, i))
<1>1. /\ ks \subseteq Sl!Index /\ \A i \in ks : Sl!IsOccupied(i)
      /\ slots' = [m \in DOMAIN slots |-> IF m - 1 \in ks THEN Sl!Vacant(next(m - 1)) ELSE slots[m]]
      /\ head' = next(Len(slots)) /\ len' = len - Cardinality(ks) /\ held' = Sl!Forget(ks)
      /\ ks # {}
  <2>1. ks \subseteq {i \in Sl!Index : Sl!IsOccupied(i)} /\ ks # {}
    BY DEF Sl!Retain
  <2>2. slots' = [m \in DOMAIN slots |-> IF m - 1 \in ks THEN Sl!Vacant(next(m - 1)) ELSE slots[m]]
    BY DEF Sl!Retain
  <2>3. head' = next(Len(slots)) /\ len' = len - Cardinality(ks) /\ held' = Sl!Forget(ks)
    BY SlabCardinality DEF Sl!Retain
  <2> QED BY <2>1, <2>2, <2>3
<1>2. /\ ks \subseteq DOMAIN held /\ ks \cap Vacancies = {} /\ ks \in SUBSET (0 .. Len(slots) - 1)
      /\ Sl!Index \subseteq Int
  BY <1>1, <1>n, SlotKinds DEF Vacancies
<1>3. /\ IsFiniteSet(ks) /\ Cardinality(ks) \in Nat
      /\ \A i \in Int : b(i) \in Nat /\ (Sl!Before(ks, i) = {} <=> b(i) = 0)
      /\ \A i \in ks : b(i) < Cardinality(ks)
      /\ \A i \in ks, j \in ks : i < j => b(i) < b(j)
      /\ \A i \in Int : Sl!Before(ks, i) # {} => next(i) \in ks /\ b(next(i)) = b(i) - 1
  <2>1. \A i \in ks : i \in Int
    BY <1>1, <1>2
  <2>2. ASSUME NEW i \in Int
        PROVE  /\ IsFiniteSet(ks) /\ Cardinality(ks) \in Nat /\ b(i) \in Nat
               /\ Sl!Before(ks, i) = {} <=> b(i) = 0
               /\ i \in ks => b(i) < Cardinality(ks)
               /\ \A j \in Int : i \in ks /\ i < j => b(i) < b(j)
               /\ Sl!Before(ks, i) # {} => next(i) \in ks /\ b(next(i)) = b(i) - 1
    BY <1>2, <1>n, BelowCounts
  <2>3. 0 \in Int
    OBVIOUS
  <2> HIDE DEF b, next
  <2> QED BY <2>1, <2>2, <2>3
<1>4. /\ DOMAIN held' = DOMAIN held \ ks /\ \A j \in DOMAIN held' : held'[j] = held[j]
      /\ held' \in [DOMAIN held' -> Objects]
  <2>1. held \in [DOMAIN held -> Objects]
    BY DEF SlabShape
  <2> QED BY <2>1, <1>1 DEF Sl!Forget
<1>5. head \in Int
  BY <1>0, <1>n DEF Ranks, Vacancies, Sl!End
<1>6. /\ slots' \in Seq(SlotSet) /\ Len(slots') = Len(slots)
      /\ \A j \in ks : slots'[j + 1] = Sl!Vacant(next(j))
      /\ \A j \in Sl!Index \ ks : slots'[j + 1] = slots[j + 1]
  <2>1. \A i \in Int : next(i) \in Int
    BY <1>2, <1>3, <1>5, <1>n DEF Sl!NextVacant
  <2> HIDE DEF next
  <2>2. \A m \in 1 .. Len(slots) : slots[m] \in SlotSet /\ m - 1 \in Int /\ Sl!Vacant(next(m - 1)) \in SlotSet
    BY <2>1, <1>n DEF SlabShape, SlotSet
  <2>3. slots' \in [1 .. Len(slots) -> SlotSet]
    BY <2>2, <1>1, <1>n
  <2>4. slots' \in Seq(SlotSet) /\ Len(slots') = Len(slots)
    BY <2>3, <1>n
  <2>5. \A j \in Sl!Index : j + 1 \in DOMAIN slots /\ (j + 1) - 1 = j
    BY <1>n
  <2>6. \A j \in Sl!Index : slots'[j + 1] = IF j \in ks THEN Sl!Vacant(next(j)) ELSE slots[j + 1]
    BY <1>1, <2>5
  <2> QED BY <2>4, <2>6, <1>1
<1>7. /\ Sl!Index' = Sl!Index /\ Vacancies' = Vacancies \cup ks
      /\ VacantCount' = VacantCount + Cardinality(ks)
  <2>1. Sl!Index' = Sl!Index
    BY <1>6 DEF Sl!Index
  <2> QED BY <2>1, <1>1, <1>2, <1>3, <1>4, <1>6, <1>n DEF Vacancies, VacantCount
<1>8. SlabShape'
  <2>1. len' = Cardinality(DOMAIN held')
    <3>1. Cardinality(DOMAIN held \ ks) = Cardinality(DOMAIN held) - Cardinality(DOMAIN held \cap ks)
      BY <1>n, FS_Difference
    <3>2. DOMAIN held \cap ks = ks
      BY <1>2
    <3> QED BY <3>1, <3>2, <1>1, <1>4 DEF SlabShape
  <2>2. \A j \in DOMAIN held' : slots'[j + 1] = Sl!Occupied(held'[j])
    BY <1>4, <1>6 DEF SlabShape
  <2> QED BY <2>1, <2>2, <1>4, <1>6, <1>7 DEF SlabShape
<1>9. \E r : Ranks(r)'
  <2>0. PICK r : r = [j \in Vacancies \cup ks |-> IF j \in ks THEN VacantCount + b(j) ELSE rank[j]]
    OBVIOUS
  <2>i. \A j \in ks : j \in Int /\ j \in Sl!Index
    BY <1>1, <1>2
  <2>1. /\ r \in [Vacancies' -> Nat]
        /\ \A j \in ks : r[j] = VacantCount + b(j) /\ j \in Vacancies' /\ b(j) \in Nat
        /\ \A j \in Vacancies : r[j] = rank[j] /\ j \in Vacancies' /\ j \notin ks /\ rank[j] < VacantCount /\ rank[j] \in Nat
    <3>1. \A j \in ks : b(j) \in Nat
      BY <2>i, <1>3
    <3>2. \A j \in Vacancies : rank[j] \in Nat /\ rank[j] < VacantCount /\ j \notin ks
      BY <1>0, <1>2 DEF Ranks
    <3> HIDE DEF b
    <3> QED BY <3>1, <3>2, <2>0, <1>7, <1>n
  <2>2. \A j \in Vacancies : slots'[j + 1] = slots[j + 1]
    BY <2>1, <1>6 DEF Vacancies
  <2> HIDE DEF b, next
  <2>3. \A j, k \in Vacancies' : r[j] = r[k] => j = k
    <3>1. \A j, k \in Vacancies : rank[j] = rank[k] => j = k
      BY <1>0 DEF Ranks
    <3>2. \A j, k \in ks : b(j) = b(k) => j = k
      <4> SUFFICES ASSUME NEW j \in ks, NEW k \in ks, b(j) = b(k), j # k PROVE FALSE
        OBVIOUS
      <4>1. j < k \/ k < j
        BY <2>i
      <4> QED BY <4>1, <2>1, <1>3
    <3> QED BY <3>1, <3>2, <2>1, <1>7, <1>n
  <2>4. \A j \in Vacancies' : r[j] < VacantCount'
    <3>1. \A j \in ks : b(j) < Cardinality(ks)
      BY <1>3 DEF b
    <3>2. VacantCount' = VacantCount + Cardinality(ks) /\ Cardinality(ks) \in Nat
      BY <1>3, <1>7
    <3>3. ASSUME NEW j \in ks PROVE r[j] < VacantCount'
      BY <3>1, <3>2, <2>1, <1>n
    <3>4. ASSUME NEW j \in Vacancies PROVE r[j] < VacantCount'
      BY <3>2, <2>1, <1>n
    <3> QED BY <3>3, <3>4, <1>7
  <2>h. head \in Vacancies \/ VacantCount = 0
    BY <1>0 DEF Ranks
  <2>5. ASSUME NEW j \in Vacancies'
        PROVE  IF r[j] = 0 THEN slots'[j + 1] = Sl!Vacant(Sl!End)
               ELSE \E k \in Vacancies' : r[k] = r[j] - 1 /\ slots'[j + 1] = Sl!Vacant(k)
    <3>1. CASE j \in ks
      <4>1. r[j] = VacantCount + b(j) /\ slots'[j + 1] = Sl!Vacant(next(j)) /\ j \in Int
        BY <3>1, <2>1, <1>6, <2>i
      <4>2. CASE Sl!Before(ks, j) = {}
        <5>1. b(j) = 0 /\ next(j) = head
          BY <4>1, <4>2, <1>3 DEF next, Sl!NextVacant
        <5>2. CASE VacantCount = 0
          <6>1. head = Sl!End
            BY <5>2, <1>0 DEF Ranks
          <6> QED BY <6>1, <5>1, <5>2, <4>1
        <5>3. CASE VacantCount # 0
          <6>1. head \in Vacancies /\ rank[head] = VacantCount - 1
            BY <5>3, <1>0 DEF Ranks
          <6>2. r[j] = VacantCount /\ r[head] = r[j] - 1 /\ head \in Vacancies'
            BY <6>1, <5>1, <4>1, <2>1, <1>n
          <6> QED BY <6>2, <5>1, <4>1, <5>3
        <5> QED BY <5>2, <5>3
      <4>3. CASE Sl!Before(ks, j) # {}
        <5>1. next(j) \in ks /\ b(next(j)) = b(j) - 1 /\ b(j) # 0 /\ b(j) \in Nat
          BY <4>1, <4>3, <1>3
        <5>2. r[next(j)] = r[j] - 1 /\ next(j) \in Vacancies' /\ r[j] # 0
          BY <5>1, <4>1, <2>1, <1>n
        <5> QED BY <5>2, <4>1
      <4> QED BY <4>2, <4>3
    <3>2. CASE j \in Vacancies
      <4>1. IF rank[j] = 0 THEN slots[j + 1] = Sl!Vacant(Sl!End)
            ELSE \E k \in Vacancies : rank[k] = rank[j] - 1 /\ slots[j + 1] = Sl!Vacant(k)
        BY <3>2, <1>0 DEF Ranks
      <4> QED BY <4>1, <3>2, <2>1, <2>2
    <3> QED BY <3>1, <3>2, <1>7
  <2>6. head' \in Vacancies' /\ r[head'] = VacantCount' - 1 /\ VacantCount' # 0
    <3>1. Sl!Before(ks, Len(slots)) = ks
      BY <1>2, <1>n DEF Sl!Before
    <3>2. b(Len(slots)) = Cardinality(ks) /\ Len(slots) \in Int
      BY <3>1, <1>n DEF b
    <3>3. head' \in ks /\ b(head') = Cardinality(ks) - 1
      BY <3>1, <3>2, <1>1, <1>3
    <3>4. b(head') \in Nat
      BY <3>3, <2>1
    <3>5. r[head'] = VacantCount + b(head') /\ head' \in Vacancies'
      BY <3>3, <2>1
    <3>6. r[head'] = VacantCount' - 1 /\ VacantCount' # 0
      <4>1. VacantCount' = VacantCount + Cardinality(ks) /\ Cardinality(ks) \in Nat
        BY <1>3, <1>7
      <4>2. VacantCount \in Nat
        BY <1>n
      <4> QED BY ONLY <3>3, <3>4, <3>5, <4>1, <4>2
    <3> QED BY <3>5, <3>6
  <2>7. Ranks(r)'
    BY <2>1, <2>3, <2>4, <2>5, <2>6 DEF Ranks
  <2> QED BY <2>7
<1> QED BY <1>8, <1>9

LEMMA SlabSwap ==
    ASSUME SlabInv, NEW a \in Int, NEW b \in Int, Sl!Swap(a, b)
    PROVE  SlabInv'
<1> USE DEF SlabInv
<1>0. PICK rank : Ranks(rank)
  OBVIOUS
<1>n. /\ DOMAIN slots = 1 .. Len(slots) /\ Len(slots) \in Nat /\ Sl!Index = 0 .. Len(slots) - 1
  BY SlabNumbers
<1>1. /\ a \in DOMAIN held /\ b \in DOMAIN held /\ a + 1 \in DOMAIN slots /\ b + 1 \in DOMAIN slots
      /\ slots' = [slots EXCEPT ![a + 1] = slots[b + 1], ![b + 1] = slots[a + 1]]
      /\ held' = [held EXCEPT ![a] = held[b], ![b] = held[a]]
      /\ len' = len /\ head' = head
  BY SlotKinds DEF Sl!Swap
<1>2. slots \in Seq(SlotSet) /\ held \in [DOMAIN held -> Objects] /\ DOMAIN held \subseteq Sl!Index
  BY DEF SlabShape
<1>3. /\ DOMAIN held' = DOMAIN held /\ held' \in [DOMAIN held' -> Objects]
      /\ \A i \in DOMAIN held : held'[i] = IF i = b THEN held[a] ELSE IF i = a THEN held[b] ELSE held[i]
  BY <1>1, <1>2
<1>4. /\ slots' \in Seq(SlotSet) /\ Len(slots') = Len(slots)
      /\ \A i \in Sl!Index : slots'[i + 1] = IF i = b THEN slots[a + 1] ELSE IF i = a THEN slots[b + 1]
                                                                   ELSE slots[i + 1]
  <2>1. slots' \in Seq(SlotSet) /\ Len(slots') = Len(slots)
    BY <1>1, <1>2, <1>n
  <2>2. \A m \in DOMAIN slots : slots'[m] = IF m = b + 1 THEN slots[a + 1] ELSE IF m = a + 1 THEN slots[b + 1]
                                             ELSE slots[m]
    BY <1>1
  <2>3. \A i \in Sl!Index : i \in Int /\ i + 1 \in DOMAIN slots /\ (i + 1 = a + 1 <=> i = a) /\ (i + 1 = b + 1 <=> i = b)
    BY <1>n
  <2> QED BY <2>1, <2>2, <2>3
<1>5. Sl!Index' = Sl!Index /\ Vacancies' = Vacancies /\ VacantCount' = VacantCount
  BY <1>1, <1>3, <1>4 DEF Sl!Index, Vacancies, VacantCount
<1>6. SlabShape'
  <2>1. \A i \in DOMAIN held' : slots'[i + 1] = Sl!Occupied(held'[i])
    <3>1. \A i \in DOMAIN held : slots[i + 1] = Sl!Occupied(held[i]) /\ i \in Sl!Index
      BY <1>2 DEF SlabShape
    <3> QED BY <3>1, <1>1, <1>3, <1>4
  <2> QED BY <2>1, <1>1, <1>2, <1>3, <1>4, <1>5 DEF SlabShape
<1>7. \A i \in Vacancies : slots'[i + 1] = slots[i + 1]
  BY <1>1, <1>4 DEF Vacancies
<1>8. Ranks(rank)'
  <2>1. \A i \in Vacancies' :
          IF rank[i] = 0 THEN slots'[i + 1] = Sl!Vacant(Sl!End)
          ELSE \E j \in Vacancies' : rank[j] = rank[i] - 1 /\ slots'[i + 1] = Sl!Vacant(j)
    BY <1>0, <1>5, <1>7 DEF Ranks
  <2>2. /\ rank \in [Vacancies' -> Nat] /\ \A i \in Vacancies' : rank[i] < VacantCount'
        /\ \A i, j \in Vacancies' : rank[i] = rank[j] => i = j
        /\ IF VacantCount' = 0 THEN head' = Sl!End ELSE head' \in Vacancies' /\ rank[head'] = VacantCount' - 1
    BY <1>0, <1>1, <1>5 DEF Ranks
  <2> QED BY <2>1, <2>2 DEF Ranks
<1> QED BY <1>6, <1>8

\* The empty slab, of new and after clear.
LEMMA EmptySlab == slots = <<>> /\ len = 0 /\ head = Sl!End /\ held = <<>> => SlabInv
<1> SUFFICES ASSUME slots = <<>>, len = 0, head = Sl!End, held = <<>> PROVE SlabInv
  OBVIOUS
<1>1. DOMAIN held = {} /\ Len(slots) = 0 /\ slots \in Seq(SlotSet) /\ held \in [DOMAIN held -> Objects]
  OBVIOUS
<1>2. Cardinality(DOMAIN held) = 0 /\ VacantCount = 0
  BY <1>1, FS_EmptySet DEF VacantCount
<1>3. Sl!Index = {} /\ Vacancies = {}
  BY <1>1 DEF Sl!Index, Vacancies
<1>4. PICK r : r = [i \in {} |-> 0]
  OBVIOUS
<1>5. Ranks(r)
  BY <1>2, <1>3, <1>4 DEF Ranks
<1> QED BY <1>1, <1>2, <1>3, <1>5, AdaptersAssumption DEF SlabInv, SlabShape

LEMMA SlabStep == ASSUME SlabInv, [Sl!CNext]_cvars PROVE SlabInv'
<1>1. CASE UNCHANGED cvars
  <2>1. Sl!Index' = Sl!Index /\ Vacancies' = Vacancies /\ VacantCount' = VacantCount
    BY <1>1 DEF cvars, Sl!Index, Vacancies, VacantCount
  <2> QED BY <1>1, <2>1 DEF cvars, SlabInv, SlabShape, Ranks
<1>2. ASSUME NEW o \in Objects, Sl!InsertFull(o) PROVE SlabInv'
  <2>1. Sl!Index' = Sl!Index /\ Vacancies' = Vacancies /\ VacantCount' = VacantCount
    BY <1>2 DEF Sl!InsertFull, Sl!Index, Vacancies, VacantCount
  <2> QED BY <1>2, <2>1 DEF Sl!InsertFull, SlabInv, SlabShape, Ranks
<1>3. CASE Sl!Clear
  <2>1. slots' = <<>> /\ len' = 0 /\ head' = Sl!End /\ held' = <<>>
    BY <1>3 DEF Sl!Clear
  <2>2. (slots = <<>> /\ len = 0 /\ head = Sl!End /\ held = <<>> => SlabInv)'
    BY EmptySlab, PTL
  <2> QED BY <2>1, <2>2 DEF Sl!End
<1>4. ASSUME NEW o \in Objects, Sl!Insert(o) PROVE SlabInv'
  BY <1>4, SlabInsertInto, SlabInsertAtEnd
<1>5. ASSUME NEW i \in 0 .. MaxSlots - 1, Sl!Remove(i) PROVE SlabInv'
  <2>1. i \in Int
    BY AdaptersAssumption
  <2> QED BY <2>1, <1>5, SlabVacate
<1>6. ASSUME NEW i \in 0 .. MaxSlots - 1, NEW j \in 0 .. MaxSlots - 1, Sl!Swap(i, j) PROVE SlabInv'
  <2>1. i \in Int /\ j \in Int
    BY AdaptersAssumption
  <2> QED BY <2>1, <1>6, SlabSwap
<1>7. ASSUME NEW ks, Sl!Retain(ks) PROVE SlabInv'
  BY <1>7, SlabRetain
<1> QED BY <1>1, <1>2, <1>3, <1>4, <1>5, <1>6, <1>7 DEF Sl!CNext

\* Every number below their count is the rank of a vacant slot.
LEMMA RanksAreAll ==
    ASSUME SlabShape, NEW rank, Ranks(rank), NEW d \in 0 .. VacantCount - 1
    PROVE  \E i \in Vacancies : rank[i] = VacantCount - 1 - d
<1>n. VacantCount \in Nat
  BY SlabNumbers
<1> DEFINE Missing == {e \in Nat : e < VacantCount /\ ~ \E i \in Vacancies : rank[i] = VacantCount - 1 - e}
<1>1. SUFFICES ASSUME Missing # {} PROVE FALSE
  BY <1>n
<1>2. PICK e \in Missing : \A k \in Missing : e <= k
  <2>1. Missing \in SUBSET Nat
    OBVIOUS
  <2> HIDE DEF Missing
  <2> QED BY <1>1, <2>1, LeastNumber
<1>3. e \in Nat /\ e < VacantCount /\ ~ \E i \in Vacancies : rank[i] = VacantCount - 1 - e
  BY <1>2
<1>4. e # 0
  <2>1. VacantCount # 0
    BY <1>3, <1>n
  <2>2. head \in Vacancies /\ rank[head] = VacantCount - 1
    BY <2>1 DEF Ranks
  <2> QED BY <2>2, <1>3, <1>n
<1>5. e - 1 \in Nat /\ e - 1 < VacantCount /\ e - 1 \notin Missing
  <2>1. e - 1 \in Nat /\ e - 1 < VacantCount /\ ~(e <= e - 1)
    BY <1>3, <1>4, <1>n
  <2> QED BY <2>1, <1>2
<1>6. PICK i \in Vacancies : rank[i] = VacantCount - 1 - (e - 1)
  BY <1>5
<1>7. rank[i] # 0
  BY <1>6, <1>3, <1>n
<1>8. PICK j \in Vacancies : rank[j] = rank[i] - 1
  BY <1>7 DEF Ranks
<1>9. rank[j] = VacantCount - 1 - e
  BY <1>6, <1>8, <1>3, <1>n
<1> QED BY <1>3, <1>9

\* Free is what its equation says.
LEMMA FreeEquation ==
    ASSUME SlabShape, NEW rank, Ranks(rank)
    PROVE  \A k \in 0 .. MaxSlots :
             Sl!Free[k] = IF k = 0 THEN head
                          ELSE IF Sl!Free[k - 1] = Sl!End THEN Sl!End ELSE slots[Sl!Free[k - 1] + 1][2]
<1>n. VacantCount \in Nat /\ MaxSlots \in Nat
  BY SlabNumbers, AdaptersAssumption
<1> DEFINE walk == [k \in 0 .. MaxSlots |->
                      IF k < VacantCount THEN CHOOSE i \in Vacancies : rank[i] = VacantCount - 1 - k ELSE Sl!End]
           Eq(f) == f = [k \in 0 .. MaxSlots |->
                           IF k = 0 THEN head ELSE IF f[k - 1] = Sl!End THEN Sl!End ELSE slots[f[k - 1] + 1][2]]
<1>1. \A k \in 0 .. MaxSlots : /\ k < VacantCount => walk[k] \in Vacancies /\ rank[walk[k]] = VacantCount - 1 - k
                               /\ ~(k < VacantCount) => walk[k] = Sl!End
  <2> SUFFICES ASSUME NEW k \in 0 .. MaxSlots
               PROVE  /\ k < VacantCount => walk[k] \in Vacancies /\ rank[walk[k]] = VacantCount - 1 - k
                      /\ ~(k < VacantCount) => walk[k] = Sl!End
    OBVIOUS
  <2>1. k \in Nat
    BY <1>n
  <2>2. ASSUME k < VacantCount PROVE walk[k] \in Vacancies /\ rank[walk[k]] = VacantCount - 1 - k
    <3>1. \E i \in Vacancies : rank[i] = VacantCount - 1 - k
      BY <2>1, <2>2, <1>n, RanksAreAll
    <3>2. walk[k] = CHOOSE i \in Vacancies : rank[i] = VacantCount - 1 - k
      BY <2>2
    <3> HIDE DEF walk
    <3> QED BY <3>1, <3>2
  <2> QED BY <2>2
<1>2. walk = [k \in 0 .. MaxSlots |-> walk[k]]
  OBVIOUS
<1> HIDE DEF walk
<1>3. ASSUME NEW k \in 0 .. MaxSlots
      PROVE  walk[k] = IF k = 0 THEN head ELSE IF walk[k - 1] = Sl!End THEN Sl!End ELSE slots[walk[k - 1] + 1][2]
  <2>1. k \in Nat /\ Sl!End \notin Vacancies
    BY <1>n, SlabNumbers DEF Vacancies, Sl!End
  <2>2. \A i, j \in Vacancies : rank[i] = rank[j] => i = j
    BY DEF Ranks
  <2>3. CASE k = 0
    BY <2>1, <2>2, <2>3, <1>1, <1>n DEF Ranks
  <2>4. CASE k # 0
    <3>1. k - 1 \in 0 .. MaxSlots /\ k - 1 \in Nat
      BY <2>1, <2>4, <1>n
    <3>2. CASE ~(k - 1 < VacantCount)
      <4>1. walk[k - 1] = Sl!End /\ walk[k] = Sl!End
        BY <3>1, <3>2, <2>1, <1>1, <1>n
      <4> QED BY <4>1, <2>4
    <3>3. CASE k - 1 < VacantCount
      <4>1. walk[k - 1] \in Vacancies /\ rank[walk[k - 1]] = VacantCount - 1 - (k - 1)
        BY <3>1, <3>3, <1>1
      <4>2. CASE rank[walk[k - 1]] = 0
        <5>1. slots[walk[k - 1] + 1] = Sl!Vacant(Sl!End)
          BY <4>1, <4>2 DEF Ranks
        <5>2. walk[k] = Sl!End
          BY <4>1, <4>2, <2>1, <1>1, <1>n
        <5> QED BY <5>1, <5>2, <4>1, <2>1, <2>4 DEF Sl!Vacant
      <4>3. CASE rank[walk[k - 1]] # 0
        <5>1. PICK j \in Vacancies : rank[j] = rank[walk[k - 1]] - 1 /\ slots[walk[k - 1] + 1] = Sl!Vacant(j)
          BY <4>1, <4>3 DEF Ranks
        <5>2. k < VacantCount
          BY <4>1, <4>3, <3>3, <2>1, <1>n
        <5>3. walk[k] \in Vacancies /\ rank[walk[k]] = VacantCount - 1 - k
          BY <5>2, <1>1
        <5>4. walk[k] = j
          <6>1. rank[j] = rank[walk[k]]
            BY <5>1, <5>3, <4>1, <2>1, <1>n
          <6> QED BY <6>1, <5>3, <2>2
        <5>5. slots[walk[k - 1] + 1][2] = j
          BY <5>1 DEF Sl!Vacant
        <5> QED BY <5>4, <5>5, <4>1, <2>1, <2>4
      <4> QED BY <4>2, <4>3
    <3> QED BY <3>2, <3>3
  <2> QED BY <2>3, <2>4
<1>4. Eq(walk)
  BY <1>2, <1>3
<1>5. Sl!Free = CHOOSE f : Eq(f)
  BY DEF Sl!Free
<1> HIDE DEF Eq
<1>6. Eq(Sl!Free)
  BY <1>4, <1>5
<1> QED BY <1>6 DEF Eq

\* The walk along the free list passes the vacant slots by falling rank.
LEMMA FreeWalk ==
    ASSUME SlabShape, NEW rank, Ranks(rank), NEW k \in 0 .. MaxSlots
    PROVE  IF k < VacantCount THEN Sl!Free[k] \in Vacancies /\ rank[Sl!Free[k]] = VacantCount - 1 - k
           ELSE Sl!Free[k] = Sl!End
<1>n. VacantCount \in Nat /\ MaxSlots \in Nat
  BY SlabNumbers, AdaptersAssumption
<1> DEFINE Good(e) == IF e < VacantCount THEN Sl!Free[e] \in Vacancies /\ rank[Sl!Free[e]] = VacantCount - 1 - e
                      ELSE Sl!Free[e] = Sl!End
           Bad == {e \in Nat : e <= MaxSlots /\ ~Good(e)}
<1>1. SUFFICES ASSUME Bad # {} PROVE FALSE
  BY <1>n
<1>2. PICK e \in Bad : \A j \in Bad : e <= j
  <2>1. Bad \in SUBSET Nat
    OBVIOUS
  <2> HIDE DEF Bad
  <2> QED BY <1>1, <2>1, LeastNumber
<1>3. e \in Nat /\ e \in 0 .. MaxSlots /\ ~Good(e)
  BY <1>2, <1>n
<1>e. Sl!Free[e] = IF e = 0 THEN head
                   ELSE IF Sl!Free[e - 1] = Sl!End THEN Sl!End ELSE slots[Sl!Free[e - 1] + 1][2]
  BY <1>3, FreeEquation
<1>v. Sl!End \notin Vacancies
  BY SlabNumbers DEF Vacancies, Sl!End
<1>4. e # 0
  <2> SUFFICES ASSUME e = 0 PROVE FALSE
    OBVIOUS
  <2>1. Sl!Free[0] = head
    BY <1>e
  <2>2. Good(0)
    BY <2>1, <1>n DEF Ranks
  <2> QED BY <2>2, <1>3
<1>5. Good(e - 1) /\ e - 1 \in Nat
  <2>1. e - 1 \in Nat /\ e - 1 <= MaxSlots /\ ~(e <= e - 1)
    BY <1>3, <1>4, <1>n
  <2> QED BY <2>1, <1>2
<1>6. CASE ~(e - 1 < VacantCount)
  <2>1. ~(e < VacantCount) /\ Sl!Free[e - 1] = Sl!End
    BY <1>5, <1>6, <1>3, <1>n
  <2> QED BY <2>1, <1>e, <1>4, <1>3
<1>7. CASE e - 1 < VacantCount
  <2>1. Sl!Free[e - 1] \in Vacancies /\ rank[Sl!Free[e - 1]] = VacantCount - 1 - (e - 1)
    BY <1>5, <1>7
  <2>2. Sl!Free[e] = slots[Sl!Free[e - 1] + 1][2]
    BY <2>1, <1>e, <1>4, <1>v
  <2>3. CASE rank[Sl!Free[e - 1]] = 0
    <3>1. slots[Sl!Free[e - 1] + 1] = Sl!Vacant(Sl!End)
      BY <2>1, <2>3 DEF Ranks
    <3>2. Sl!Free[e] = Sl!End
      BY <2>2, <3>1 DEF Sl!Vacant
    <3>3. ~(e < VacantCount)
      BY <2>1, <2>3, <1>3, <1>n
    <3> QED BY <3>2, <3>3, <1>3
  <2>4. CASE rank[Sl!Free[e - 1]] # 0
    <3>1. PICK j \in Vacancies : rank[j] = rank[Sl!Free[e - 1]] - 1 /\ slots[Sl!Free[e - 1] + 1] = Sl!Vacant(j)
      BY <2>1, <2>4 DEF Ranks
    <3>2. Sl!Free[e] = j
      BY <2>2, <3>1 DEF Sl!Vacant
    <3>3. e < VacantCount /\ rank[j] = VacantCount - 1 - e
      BY <2>1, <2>4, <3>1, <1>7, <1>3, <1>n
    <3> QED BY <3>2, <3>3, <1>3
  <2> QED BY <2>3, <2>4
<1> QED BY <1>6, <1>7

\* The key that the next insert returns is not in use.
LEMMA NextIsVacant ==
    ASSUME SlabInv
    PROVE  Sl!next_vacant \notin DOMAIN held /\ Sl!next_vacant <= Len(slots)
<1> USE DEF SlabInv
<1>0. PICK rank : Ranks(rank)
  OBVIOUS
<1>n. /\ Len(slots) \in Nat /\ Sl!Index = 0 .. Len(slots) - 1
      /\ len \in Nat /\ VacantCount \in Nat /\ DOMAIN held \subseteq Sl!Index
  BY SlabNumbers DEF SlabShape
<1>1. CASE head = Sl!End
  <2>1. VacantCount = 0
    BY <1>1, <1>0, <1>n DEF Ranks, Vacancies, Sl!End
  <2> QED BY <1>1, <2>1, <1>n DEF Sl!next_vacant, VacantCount
<1>2. CASE head # Sl!End
  <2>1. head \in Vacancies
    BY <1>2, <1>0 DEF Ranks
  <2> QED BY <1>2, <2>1, <1>n DEF Sl!next_vacant, Vacancies
<1> QED BY <1>1, <1>2

\* What SlabNumbers says of the length of the vector, to be primed.
LEMMA SlabLength == SlabShape => DOMAIN slots = 1 .. Len(slots) /\ Len(slots) \in Nat
BY SlabNumbers

\* What is answered of an insert is its new key, and no other call answers one.
LEMMA AnswerStep == ASSUME SlabInv, Answered, [Sl!CNext]_cvars, SlabInv' PROVE Answered'
<1>n. DOMAIN slots = 1 .. Len(slots) /\ len \in Nat /\ VacantCount \in Nat
  BY SlabNumbers DEF SlabInv
<1>l. Len(slots) \in Nat /\ Len(slots) - len \in Nat
  BY SlabNumbers DEF SlabInv, VacantCount
<1>i. Sl!Index = 0 .. Len(slots) - 1 /\ DOMAIN held \subseteq Sl!Index
  BY SlabNumbers DEF SlabInv, SlabShape
<1>p. DOMAIN slots' = 1 .. Len(slots') /\ Len(slots') \in Nat
  <2>1. (SlabShape => DOMAIN slots = 1 .. Len(slots) /\ Len(slots) \in Nat)'
    BY SlabLength, PTL
  <2> QED BY <2>1 DEF SlabInv
<1>0. PICK rank : Ranks(rank)
  BY DEF SlabInv
<1>v. VacantCount = 0 => Vacancies = {}
  BY <1>0 DEF Ranks
<1>a. ASSUME NEW k, NEW o, NEW a \in Sl!Answer(k, o, TRUE), k \notin DOMAIN held
      PROVE  a.kept /\ ~a.used /\ a.key = k /\ a.object = o
  <2>1. a = [key |-> k, object |-> o, used |-> k \in DOMAIN held, kept |-> TRUE]
    BY <1>a, Zenon DEF Sl!Answer
  <2>2. a.key = k /\ a.object = o
    BY ONLY <2>1
  <2>3. a.kept = TRUE
    BY ONLY <2>1
  <2>4. a.used = (k \in DOMAIN held)
    BY ONLY <2>1
  <2> QED BY <1>a, <2>2, <2>3, <2>4, Zenon
<1>b. ASSUME NEW k, NEW o, NEW a \in Sl!Answer(k, o, FALSE), k \in DOMAIN held
      PROVE  ~a.kept /\ a.used
  <2>1. a = [key |-> k, object |-> o, used |-> k \in DOMAIN held, kept |-> FALSE]
    BY <1>b, Zenon DEF Sl!Answer
  <2>3. a.kept = FALSE
    BY ONLY <2>1
  <2>4. a.used = (k \in DOMAIN held)
    BY ONLY <2>1
  <2> QED BY <1>b, <2>3, <2>4, Zenon
<1>1. CASE UNCHANGED cvars
  BY <1>1 DEF cvars, Answered
<1>2. ASSUME NEW o \in Objects, Sl!InsertFull(o) PROVE Answered'
  <2>1. limited # 0 /\ len = limited /\ limited \in Nat /\ Len(slots) <= limited
    BY <1>2 DEF Sl!InsertFull, Answered
  <2>2. Len(slots) = len /\ len # 0
    BY <2>1, <1>l
  <2>3. 0 \in Sl!Index
    BY <2>2, <1>i, <1>l
  <2>4. VacantCount = 0
    BY <2>2, <1>l DEF VacantCount
  <2>5. 0 \in DOMAIN held
    BY <2>3, <2>4, <1>v DEF Vacancies
  <2>6. limited' = limited /\ slots' = slots /\ len' = len /\ inserted' = Sl!Answer(0, o, FALSE)
    BY <1>2 DEF Sl!InsertFull
  <2>7. ASSUME NEW a \in inserted' PROVE a.used /\ ~a.kept
    BY <2>5, <2>6, <2>7, <1>b, Zenon
  <2> QED BY <2>1, <2>6, <2>7 DEF Answered
<1>3. ASSUME NEW o \in Objects, Sl!Insert(o) PROVE Answered'
  <2>0. (len + 1) - 1 = len
    BY <1>n
  <2>1. held' = Sl!Put(Sl!next_vacant, o) /\ inserted' = Sl!Answer(Sl!next_vacant, o, TRUE)
    <3>1. CASE head = Sl!End
      <4>1. Sl!next_vacant = len
        BY <3>1 DEF Sl!next_vacant
      <4>2. PICK k : /\ k = (len + 1) - 1
                     /\ held' = Sl!Put(k, o) /\ inserted' = Sl!Answer(k, o, TRUE)
        BY <1>3, <3>1, Zenon DEF Sl!Insert
      <4>3. k = Sl!next_vacant
        BY <4>1, <4>2, <2>0, Zenon
      <4> QED BY <4>2, <4>3, Zenon
    <3>2. CASE head # Sl!End
      <4>1. Sl!next_vacant = head
        BY <3>2 DEF Sl!next_vacant
      <4>2. held' = Sl!Put(head, o) /\ inserted' = Sl!Answer(head, o, TRUE)
        BY <1>3, <3>2, Zenon DEF Sl!Insert
      <4> QED BY ONLY <4>1, <4>2, Zenon
    <3> QED BY <3>1, <3>2
  <2>2. Sl!next_vacant \notin DOMAIN held
    BY NextIsVacant
  <2>3. Sl!next_vacant \in DOMAIN held' /\ held'[Sl!next_vacant] = o
    BY <2>1 DEF Sl!Put
  <2>4. ASSUME NEW a \in inserted' PROVE a.kept /\ ~a.used /\ a.key \in DOMAIN held' /\ held'[a.key] = a.object
    <3>1. a \in Sl!Answer(Sl!next_vacant, o, TRUE)
      BY <2>1, <2>4
    <3>2. a.kept /\ ~a.used /\ a.key = Sl!next_vacant /\ a.object = o
      BY <3>1, <2>2, <1>a
    <3> QED BY <3>2, <2>3
  <2>5. limited' \in Nat /\ (limited' # 0 => Len(slots') <= limited')
    <3>1. CASE head = Sl!End
      <4>1. VacantCount = 0
        BY <3>1, <1>0, <1>n, <1>i DEF Ranks, Vacancies, Sl!End
      <4>2. /\ slots' = Append(slots, Sl!Occupied(o))
            /\ limited' = limited /\ ~(limited # 0 /\ len = limited)
        BY <1>3, <3>1 DEF Sl!Insert
      <4>3. Len(slots') = Len(slots) + 1
        BY <4>2 DEF SlabInv, SlabShape
      <4>4. len = Len(slots)
        BY <4>1, <1>n, <1>l DEF VacantCount
      <4> QED BY <4>2, <4>3, <4>4, <1>l DEF Answered
    <3>2. CASE head # Sl!End
      <4>1. DOMAIN slots' = DOMAIN slots /\ limited' = limited
        BY <1>3, <3>2 DEF Sl!Insert
      <4>2. Len(slots') = Len(slots)
        BY <4>1, <1>n, <1>l, <1>p
      <4> QED BY <4>1, <4>2 DEF Answered
    <3> QED BY <3>1, <3>2
  <2> QED BY <2>4, <2>5 DEF Answered
<1>4. ASSUME inserted' = {}, limited' = limited, slots' = <<>> \/ DOMAIN slots' = DOMAIN slots
      PROVE  Answered'
  <2>1. CASE slots' = <<>>
    <3>1. Len(slots') = 0
      BY <2>1
    <3> QED BY <1>4, <3>1 DEF Answered
  <2>2. CASE DOMAIN slots' = DOMAIN slots
    <3>1. Len(slots') = Len(slots)
      BY <2>2, <1>n, <1>l, <1>p
    <3> QED BY <1>4, <3>1 DEF Answered
  <2> QED BY <1>4, <2>1, <2>2
<1>5. ASSUME \/ Sl!Clear
             \/ \E i, j \in 0 .. MaxSlots - 1 : Sl!Remove(i) \/ Sl!Swap(i, j)
             \/ \E ks \in SUBSET (0 .. MaxSlots - 1) : Sl!Retain(ks)
      PROVE  limited' = limited /\ (slots' = <<>> \/ DOMAIN slots' = DOMAIN slots)
  BY <1>5 DEF Sl!Clear, Sl!Remove, Sl!Swap, Sl!Retain
<1> QED BY <1>1, <1>2, <1>3, <1>4, <1>5 DEF Sl!CNext

LEMMA SlabInvSays == ASSUME SlabInv, Answered PROVE Sl!SlabSound
<1> USE DEF SlabInv
<1>0. PICK rank : Ranks(rank)
  OBVIOUS
<1>n. /\ DOMAIN slots = 1 .. Len(slots) /\ Len(slots) \in Nat /\ Sl!Index = 0 .. Len(slots) - 1
      /\ len \in Nat /\ VacantCount \in Nat /\ Len(slots) <= MaxSlots /\ MaxSlots \in Nat
      /\ DOMAIN held \subseteq Sl!Index
  BY SlabNumbers, AdaptersAssumption DEF SlabShape
<1>1. ASSUME NEW i \in 0 .. MaxSlots
      PROVE  Sl!get(i) = IF i \in DOMAIN held THEN <<held[i]>> ELSE <<>>
  BY <1>n, SlotKinds DEF Sl!get
<1>2. len = Sl!Cardinality(DOMAIN held)
  BY SlabCardinality DEF SlabShape
<1>3. {Sl!Free[k] : k \in 0 .. MaxSlots} \ {Sl!End} = Sl!Index \ DOMAIN held
  <2>1. ASSUME NEW k \in 0 .. MaxSlots PROVE Sl!Free[k] \in Vacancies \cup {Sl!End}
    BY <1>0, FreeWalk
  <2>2. ASSUME NEW i \in Vacancies PROVE \E k \in 0 .. MaxSlots : Sl!Free[k] = i
    <3>1. rank[i] \in Nat /\ rank[i] < VacantCount
      BY <1>0 DEF Ranks
    <3>2. PICK k : k = VacantCount - 1 - rank[i]
      OBVIOUS
    <3>3. k \in 0 .. MaxSlots /\ k < VacantCount /\ rank[i] = VacantCount - 1 - k
      BY <3>1, <3>2, <1>n DEF VacantCount
    <3>4. Sl!Free[k] \in Vacancies /\ rank[Sl!Free[k]] = rank[i]
      BY <3>3, <1>0, FreeWalk
    <3> QED BY <3>3, <3>4, <1>0 DEF Ranks
  <2>3. Sl!End \notin Vacancies
    BY <1>n DEF Vacancies, Sl!End
  <2> QED BY <2>1, <2>2, <2>3 DEF Vacancies
<1>4. Sl!Free[Len(slots) - len] = Sl!End
  <2>1. VacantCount \in 0 .. MaxSlots /\ ~(VacantCount < VacantCount)
    BY <1>n DEF VacantCount
  <2> QED BY <2>1, <1>0, FreeWalk DEF VacantCount
<1>5. Sl!next_vacant \notin DOMAIN held /\ Sl!next_vacant <= Len(slots)
  BY NextIsVacant
<1>6. ASSUME NEW a \in inserted
      PROVE  IF a.kept THEN ~a.used /\ Sl!get(a.key) = <<a.object>>
             ELSE a.used /\ limited # 0 /\ len = limited
  <2>1. CASE a.kept
    <3>1. ~a.used /\ a.key \in DOMAIN held /\ held[a.key] = a.object
      BY <2>1 DEF Answered
    <3> QED BY <2>1, <3>1, <1>1, <1>n
  <2> QED BY <2>1 DEF Answered
<1> QED BY <1>1, <1>2, <1>3, <1>4, <1>5, <1>6 DEF Sl!SlabSound

(***************************************************************************)
(* Timers                                                                  *)
(***************************************************************************)
Given == 1 .. Len(due)
Ins(id) == <<"insert", id>>
Rem(id) == <<"remove", id>>
Notice == <<"notify", 0>>
TimerOps == {Ins(id) : id \in Given} \cup {Rem(id) : id \in Given}

\* of a call that leaves a Timer with registration m, and has s yet to do
InsertsIn(s, m)    == s = <<Ins(m), Notice>> \/ \E i : s = <<Rem(i), Ins(m), Notice>>
RemovesIn(s, m, i) == s = <<Rem(i)>> \/ s = <<Rem(i), Ins(m), Notice>>
NotifiesIn(s, m)   == s = <<Notice>> \/ InsertsIn(s, m)
Inserts(u)    == InsertsIn(todo[u], tmine[u])
Removes(u, i) == RemovesIn(todo[u], tmine[u], i)
Notifies(u)   == NotifiesIn(todo[u], tmine[u])

TimerTypes ==
    /\ now \in Int /\ due \in Seq(Int) /\ whenOf \in [TimerOwners -> Int]
    /\ tmine \in [TimerOwners -> Given \cup {0}] /\ todo = [u \in TimerOwners |-> todo[u]]
    /\ ops \in Seq(TimerOps) /\ timers \subseteq Given
TimerIds ==
    /\ \A u \in TimerOwners : \/ todo[u] = <<>>
                              \/ Notifies(u) /\ tmine[u] # 0
                              \/ \E i \in Given : todo[u] = <<Rem(i)>>
    /\ \A u, v \in TimerOwners : tmine[u] = tmine[v] /\ tmine[u] # 0 => u = v
    /\ \A u, v \in TimerOwners : \A i : Removes(u, i) => i \in Given /\ tmine[v] # i
Registered ==
    /\ \A u \in TimerOwners : tmine[u] # 0 /\ ~Inserts(u) => tmine[u] \in Ti!Emptied \cup wakers \cup twoken
    /\ \A id \in Ti!Emptied : \E u \in TimerOwners : tmine[u] = id \/ Removes(u, id)
    /\ \A id \in wakers \cup twoken : id \in Given /\ due[id] < now
Deadline ==
    rpc = "asleep" /\ ~tflag =>
       \A id \in Ti!Emptied : deadline <= due[id] \/ \E u \in TimerOwners : tmine[u] = id /\ Notifies(u)
TiInv == TimerTypes /\ TimerIds /\ Registered /\ Deadline

-----------------------------------------------------------------------------
LEMMA EmptiedIds ==
    ASSUME TimerTypes
    PROVE  /\ Ti!Emptied \subseteq Given /\ DOMAIN ops = 1 .. Len(ops) /\ Len(ops) \in Nat /\ Len(due) \in Nat
           /\ \A i \in DOMAIN ops : ops[i] \in TimerOps /\ ops[i][2] \in Given
<1>1. DOMAIN ops = 1 .. Len(ops) /\ Len(ops) \in Nat /\ Len(due) \in Nat /\ \A i \in DOMAIN ops : ops[i] \in TimerOps
  BY DEF TimerTypes
<1>2. \A o \in TimerOps : o[2] \in Given
  BY DEF TimerOps, Ins, Rem
<1>3. timers \subseteq Given
  BY DEF TimerTypes
<1>4. Ti!Emptied \subseteq timers \cup {ops[i][2] : i \in DOMAIN ops}
  BY DEF Ti!Emptied
<1> QED BY <1>1, <1>2, <1>3, <1>4

\* One more operation in the queue.
LEMMA EmptiedAppend ==
    ASSUME TimerTypes, NEW id \in Given, NEW o \in {Ins(id), Rem(id)}, ops' = Append(ops, o), timers' = timers
    PROVE  Ti!Emptied' = IF o = Ins(id) THEN Ti!Emptied \cup {id} ELSE Ti!Emptied \ {id}
<1>1. /\ DOMAIN ops = 1 .. Len(ops) /\ Len(ops) \in Nat
      /\ \A i \in DOMAIN ops : ops[i] \in TimerOps
  BY EmptiedIds
<1>2. /\ DOMAIN ops' = 1 .. Len(ops) + 1 /\ Len(ops') = Len(ops) + 1 /\ ops'[Len(ops) + 1] = o
      /\ \A i \in DOMAIN ops : ops'[i] = ops[i]
  <2>1. ops \in Seq(TimerOps) /\ o \in TimerOps
    BY DEF TimerTypes, TimerOps
  <2> QED BY <2>1, <1>1
<1> DEFINE ids == timers \cup {ops[i][2] : i \in DOMAIN ops}
           Stays(x) == \A i \in DOMAIN ops : ops[i] = Rem(x) => \E j \in i + 1 .. Len(ops) : ops[j] = Ins(x)
           ids1 == timers \cup {ops'[i][2] : i \in DOMAIN ops'}
           Stays1(x) == \A i \in DOMAIN ops' : ops'[i] = Rem(x) => \E j \in i + 1 .. Len(ops') : ops'[j] = Ins(x)
<1>3. Ti!Emptied = {x \in ids : Stays(x)} /\ Ti!Emptied' = {x \in ids1 : Stays1(x)}
  BY DEF Ti!Emptied, Ins, Rem
<1>4. ids1 = ids \cup {id}
  <2>1. o[2] = id
    BY DEF Ins, Rem
  <2>2. DOMAIN ops' = DOMAIN ops \cup {Len(ops) + 1}
    BY <1>1, <1>2
  <2> QED BY <2>1, <2>2, <1>2
<1>5. \A x : x # id => (Stays1(x) <=> Stays(x))
  <2> SUFFICES ASSUME NEW x, x # id PROVE Stays1(x) <=> Stays(x)
    OBVIOUS
  <2>1. o # Ins(x) /\ o # Rem(x)
    BY DEF Ins, Rem
  <2>2. ASSUME Stays(x) PROVE Stays1(x)
    <3> SUFFICES ASSUME NEW i \in DOMAIN ops', ops'[i] = Rem(x) PROVE \E j \in i + 1 .. Len(ops') : ops'[j] = Ins(x)
      OBVIOUS
    <3>1. i \in DOMAIN ops /\ ops[i] = Rem(x)
      BY <1>1, <1>2, <2>1
    <3>2. PICK j \in i + 1 .. Len(ops) : ops[j] = Ins(x)
      BY <3>1, <2>2
    <3>3. j \in DOMAIN ops /\ j \in i + 1 .. Len(ops')
      BY <3>1, <1>1, <1>2
    <3> QED BY <3>2, <3>3, <1>2
  <2>3. ASSUME Stays1(x) PROVE Stays(x)
    <3> SUFFICES ASSUME NEW i \in DOMAIN ops, ops[i] = Rem(x) PROVE \E j \in i + 1 .. Len(ops) : ops[j] = Ins(x)
      OBVIOUS
    <3>1. i \in DOMAIN ops' /\ ops'[i] = Rem(x)
      BY <1>1, <1>2
    <3>2. PICK j \in i + 1 .. Len(ops') : ops'[j] = Ins(x)
      BY <3>1, <2>3
    <3>3. j # Len(ops) + 1
      BY <3>2, <2>1, <1>2
    <3>4. j \in DOMAIN ops /\ j \in i + 1 .. Len(ops)
      BY <3>2, <3>3, <1>1, <1>2
    <3> QED BY <3>2, <3>4, <1>2
  <2> QED BY <2>2, <2>3
<1>6. CASE o = Ins(id)
  <2>1. Stays1(id)
    <3> SUFFICES ASSUME NEW i \in DOMAIN ops', ops'[i] = Rem(id) PROVE \E j \in i + 1 .. Len(ops') : ops'[j] = Ins(id)
      OBVIOUS
    <3>1. i # Len(ops) + 1
      BY <1>2, <1>6 DEF Ins, Rem
    <3>2. Len(ops) + 1 \in i + 1 .. Len(ops')
      BY <3>1, <1>1, <1>2
    <3> QED BY <3>2, <1>2, <1>6
  <2> HIDE DEF Stays, Stays1, ids, ids1
  <2> QED BY <2>1, <1>3, <1>4, <1>5, <1>6
<1>7. CASE o = Rem(id)
  <2>1. ~Stays1(id)
    <3>1. Len(ops) + 1 \in DOMAIN ops' /\ ops'[Len(ops) + 1] = Rem(id) /\ (Len(ops) + 1) + 1 .. Len(ops') = {}
      BY <1>1, <1>2, <1>7
    <3> QED BY <3>1
  <2>2. o # Ins(id)
    BY <1>7 DEF Ins, Rem
  <2> HIDE DEF Stays, Stays1, ids, ids1
  <2> QED BY <2>1, <2>2, <1>3, <1>4, <1>5
<1> QED BY <1>6, <1>7

\* What is yet to do, by its form.
LEMMA TodoViews ==
    ASSUME NEW m, NEW i
    PROVE  /\ ~InsertsIn(<<>>, m) /\ ~NotifiesIn(<<>>, m) /\ ~RemovesIn(<<>>, m, i)
           /\ ~InsertsIn(<<Notice>>, m) /\ NotifiesIn(<<Notice>>, m) /\ ~RemovesIn(<<Notice>>, m, i)
           /\ InsertsIn(<<Ins(m), Notice>>, m) /\ NotifiesIn(<<Ins(m), Notice>>, m) /\ ~RemovesIn(<<Ins(m), Notice>>, m, i)
           /\ \A r : /\ ~InsertsIn(<<Rem(r)>>, m) /\ ~NotifiesIn(<<Rem(r)>>, m)
                     /\ RemovesIn(<<Rem(r)>>, m, i) <=> i = r
                     /\ InsertsIn(<<Rem(r), Ins(m), Notice>>, m) /\ NotifiesIn(<<Rem(r), Ins(m), Notice>>, m)
                     /\ RemovesIn(<<Rem(r), Ins(m), Notice>>, m, i) <=> i = r
BY DEF InsertsIn, RemovesIn, NotifiesIn, Ins, Rem, Notice

LEMMA TodoForms ==
    ASSUME TimerIds, NEW u \in TimerOwners, todo[u] # <<>>
    PROVE  \/ todo[u] = <<Notice>> \/ todo[u] = <<Ins(tmine[u]), Notice>>
           \/ \E i \in Given : todo[u] = <<Rem(i)>> \/ todo[u] = <<Rem(i), Ins(tmine[u]), Notice>>
<1>1. CASE \E i \in Given : todo[u] = <<Rem(i)>>
  BY <1>1
<1>2. CASE Notifies(u)
  <2>1. \A i : Removes(u, i) => i \in Given
    BY DEF TimerIds
  <2> QED BY <1>2, <2>1 DEF Notifies, NotifiesIn, InsertsIn, Removes, RemovesIn
<1> QED BY <1>1, <1>2 DEF TimerIds

LEMMA EmptiedSame == ops' = ops /\ timers' = timers => Ti!Emptied' = Ti!Emptied
BY DEF Ti!Emptied

LEMMA EmptiedQueue == ops' = <<>> => Ti!Emptied' = timers'
<1> SUFFICES ASSUME ops' = <<>> PROVE Ti!Emptied' = timers'
  OBVIOUS
<1>1. DOMAIN ops' = {}
  OBVIOUS
<1> QED BY <1>1 DEF Ti!Emptied

LEMMA Concatenated ==
    ASSUME NEW a, NEW b, NEW c PROVE <<a>> \o <<b, c>> = <<a, b, c>> /\ <<>> \o <<b, c>> = <<b, c>>
<1> DEFINE S == {a, b, c}
<1>1. <<a>> \in Seq(S) /\ <<b, c>> \in Seq(S) /\ <<a, b, c>> \in Seq(S) /\ <<>> \in Seq(S)
  OBVIOUS
<1>2. ASSUME NEW s \in Seq(S), NEW t \in Seq(S), Len(s) = Len(t), \A i \in 1 .. Len(s) : s[i] = t[i] PROVE s = t
  BY <1>2
<1>3. <<a>> \o <<b, c>> = <<a, b, c>>
  <2> DEFINE s == <<a>> \o <<b, c>>
  <2>1. s \in Seq(S) /\ Len(s) = 3 /\ s[1] = a /\ s[2] = b /\ s[3] = c
    BY <1>1
  <2>2. Len(<<a, b, c>>) = 3 /\ 1 .. 3 = {1, 2, 3}
    OBVIOUS
  <2>3. \A i \in 1 .. 3 : s[i] = <<a, b, c>>[i]
    BY <2>1, <2>2
  <2> HIDE DEF s
  <2>4. s = <<a, b, c>>
    BY <2>1, <2>2, <2>3, <1>1, <1>2
  <2> QED BY <2>4 DEF s
<1>4. <<>> \o <<b, c>> = <<b, c>>
  BY <1>1
<1> QED BY <1>3, <1>4

LEMMA TimerCall ==
    ASSUME TiInv, NEW u \in TimerOwners, NEW steps, NEW id, NEW when \in Int, Ti!Call(u, steps, id, when),
           \/ id = 0 /\ steps = Ti!Removal(tmine[u])
           \/ id = Len(due) + 1 /\ steps = Ti!Removal(tmine[u]) \o Ti!Insertion
    PROVE  TiInv'
<1> USE DEF TiInv
<1> DEFINE m == tmine[u]
           n == Len(due)
<1>n. n \in Nat /\ Ti!Emptied \subseteq Given /\ m \in Given \cup {0} /\ Given = 1 .. n
  BY EmptiedIds DEF TimerTypes, Given
<1>1. /\ todo[u] = <<>> /\ todo' = [todo EXCEPT ![u] = steps] /\ tmine' = [tmine EXCEPT ![u] = id]
      /\ whenOf' = [whenOf EXCEPT ![u] = when] /\ due' = (IF id > Len(due) THEN Append(due, when) ELSE due)
      /\ now' = now /\ ops' = ops /\ timers' = timers /\ tflag' = tflag /\ rpc' = rpc /\ deadline' = deadline
      /\ wakers' = wakers /\ twoken' = twoken
  BY DEF Ti!Call
<1>2. /\ due' \in Seq(Int) /\ Given \subseteq Given' /\ \A i \in Given : due'[i] = due[i]
      /\ id # 0 => id \in Given' /\ id \notin Given
  <2>1. due \in Seq(Int)
    BY DEF TimerTypes
  <2>2. CASE id = 0
    <3>1. due' = due
      BY <2>2, <1>1, <1>n
    <3> QED BY <3>1, <2>1, <2>2 DEF Given
  <2>3. CASE id = Len(due) + 1
    <3>1. due' = Append(due, when)
      BY <2>3, <1>1, <1>n
    <3> QED BY <3>1, <2>1, <2>3, <1>n DEF Given
  <2> QED BY <2>2, <2>3
<1>3. Ti!Emptied' = Ti!Emptied
  BY <1>1, EmptiedSame
<1>4. /\ tmine'[u] = id /\ todo'[u] = steps
      /\ \A v \in TimerOwners : v # u => tmine'[v] = tmine[v] /\ todo'[v] = todo[v]
  BY <1>1 DEF TimerTypes
<1>5. /\ \A i : Removes(u, i)' <=> (m # 0 /\ i = m)
      /\ (Inserts(u)' <=> id # 0) /\ (Notifies(u)' <=> id # 0)
      /\ \A i : ~Removes(u, i) /\ ~Notifies(u)
  <2>1. steps = IF id = 0 THEN IF m = 0 THEN <<>> ELSE <<Rem(m)>>
                ELSE IF m = 0 THEN <<Ins(id), Notice>> ELSE <<Rem(m), Ins(id), Notice>>
    <3>1. Ti!Removal(m) = IF m = 0 THEN <<>> ELSE <<Rem(m)>>
      BY DEF Ti!Removal, Rem
    <3>2. Ti!Insertion = <<Ins(n + 1), Notice>>
      BY DEF Ti!Insertion, Ins, Notice
    <3>3. CASE id = 0
      BY <3>1, <3>3, <1>n
    <3>4. CASE id # 0
      <4>1. id = n + 1 /\ steps = Ti!Removal(m) \o <<Ins(n + 1), Notice>>
        BY <3>2, <3>4
      <4>2. <<>> \o <<Ins(n + 1), Notice>> = <<Ins(n + 1), Notice>>
        BY Concatenated
      <4>3. <<Rem(m)>> \o <<Ins(n + 1), Notice>> = <<Rem(m), Ins(n + 1), Notice>>
        BY Concatenated
      <4> QED BY <3>1, <3>4, <4>1, <4>2, <4>3
    <3> QED BY <3>3, <3>4
  <2>2. \A i : Removes(u, i)' <=> RemovesIn(steps, id, i)
    BY <1>4 DEF Removes
  <2>3. (Inserts(u)' <=> InsertsIn(steps, id)) /\ (Notifies(u)' <=> NotifiesIn(steps, id))
    BY <1>4 DEF Inserts, Notifies
  <2>4. /\ \A i : RemovesIn(steps, id, i) <=> (m # 0 /\ i = m)
        /\ (InsertsIn(steps, id) <=> id # 0) /\ (NotifiesIn(steps, id) <=> id # 0)
    <3>1. CASE id = 0 /\ m = 0
      BY <3>1, <2>1, TodoViews
    <3>2. CASE id = 0 /\ m # 0
      BY <3>2, <2>1, TodoViews
    <3>3. CASE id # 0 /\ m = 0
      BY <3>3, <2>1, TodoViews
    <3>4. CASE id # 0 /\ m # 0
      BY <3>4, <2>1, TodoViews
    <3> QED BY <3>1, <3>2, <3>3, <3>4
  <2>5. \A i : ~Removes(u, i) /\ ~Notifies(u)
    <3>1. \A i : ~RemovesIn(<<>>, tmine[u], i) /\ ~NotifiesIn(<<>>, tmine[u])
      BY TodoViews
    <3> QED BY <1>1, <3>1 DEF Removes, Notifies
  <2> HIDE DEF m
  <2> QED BY <2>2, <2>3, <2>4, <2>5
<1>6. \A v \in TimerOwners : v # u => /\ \A i : Removes(v, i)' <=> Removes(v, i)
                                     /\ (Inserts(v)' <=> Inserts(v)) /\ (Notifies(v)' <=> Notifies(v))
  BY <1>4 DEF Removes, Inserts, Notifies
<1>7. TimerTypes'
  <2>1. TimerOps \subseteq TimerOps'
    BY <1>2 DEF TimerOps
  <2>2. ops' \in Seq(TimerOps')
    BY <2>1, <1>1 DEF TimerTypes
  <2>3. tmine' \in [TimerOwners -> Given' \cup {0}] /\ whenOf' \in [TimerOwners -> Int]
    BY <1>1, <1>2 DEF TimerTypes
  <2>4. todo' = [v \in TimerOwners |-> todo'[v]]
    BY <1>1 DEF TimerTypes
  <2> QED BY <2>2, <2>3, <2>4, <1>1, <1>2 DEF TimerTypes
<1>8. TimerIds'
  <2>1. ASSUME NEW v \in TimerOwners
        PROVE  \/ todo'[v] = <<>>
               \/ Notifies(v)' /\ tmine'[v] # 0
               \/ \E i \in Given' : todo'[v] = <<Rem(i)>>
    <3>1. CASE v # u
      BY SMTT(60), <3>1, <1>2, <1>4, <1>6 DEF TimerIds
    <3>2. CASE v = u /\ id = 0
      <4>1. steps = IF m = 0 THEN <<>> ELSE <<Rem(m)>>
        BY <3>2, <1>n DEF Ti!Removal, Rem
      <4> QED BY <4>1, <3>2, <1>2, <1>4, <1>n
    <3> QED BY <3>1, <3>2, <1>4, <1>5
  <2>2. ASSUME NEW v \in TimerOwners, NEW w \in TimerOwners, tmine'[v] = tmine'[w], tmine'[v] # 0 PROVE v = w
    <3>1. \A x \in TimerOwners : tmine[x] \in Given \cup {0}
      BY DEF TimerTypes
    <3> QED BY <2>2, <3>1, <1>2, <1>4 DEF TimerIds
  <2>3. ASSUME NEW v \in TimerOwners, NEW w \in TimerOwners, NEW i, Removes(v, i)' PROVE i \in Given' /\ tmine'[w] # i
    <3>1. CASE v = u
      <4>1. i = m /\ m \in Given /\ m # 0
        BY <2>3, <3>1, <1>5, <1>n
      <4>2. w # u => tmine[w] # m
        BY <4>1 DEF TimerIds
      <4> QED BY <4>1, <4>2, <1>2, <1>4, <1>n
    <3>2. CASE v # u
      <4>1. Removes(v, i)
        BY <2>3, <3>2, <1>6
      <4>2. i \in Given /\ \A x \in TimerOwners : tmine[x] # i
        BY <4>1 DEF TimerIds
      <4> QED BY <4>2, <1>2, <1>4, <1>n
    <3> QED BY <3>1, <3>2
  <2> QED BY <2>1, <2>2, <2>3 DEF TimerIds
<1>9. Registered'
  <2>1. ASSUME NEW v \in TimerOwners, tmine'[v] # 0, ~Inserts(v)' PROVE tmine'[v] \in Ti!Emptied' \cup wakers' \cup twoken'
    <3>1. v # u
      BY <2>1, <1>4, <1>5
    <3> QED BY <2>1, <3>1, <1>1, <1>3, <1>4, <1>6 DEF Registered
  <2>2. ASSUME NEW x \in Ti!Emptied' PROVE \E w \in TimerOwners : tmine'[w] = x \/ Removes(w, x)'
    <3>1. PICK w \in TimerOwners : tmine[w] = x \/ Removes(w, x)
      BY <1>3 DEF Registered
    <3>2. x # 0
      BY <1>3, <1>n
    <3>3. CASE w = u
      BY <3>1, <3>2, <3>3, <1>5
    <3>4. CASE w # u
      BY <3>1, <3>4, <1>4, <1>6
    <3> QED BY <3>3, <3>4
  <2>3. ASSUME NEW x \in wakers' \cup twoken' PROVE x \in Given' /\ due'[x] < now'
    BY <1>1, <1>2 DEF Registered
  <2> QED BY <2>1, <2>2, <2>3 DEF Registered
<1>10. Deadline'
  <2> SUFFICES ASSUME rpc = "asleep", ~tflag, NEW x \in Ti!Emptied
               PROVE  deadline <= due'[x] \/ \E w \in TimerOwners : tmine'[w] = x /\ Notifies(w)'
    BY <1>1, <1>3 DEF Deadline
  <2>1. x \in Given /\ due'[x] = due[x]
    BY <1>2, <1>n
  <2>2. deadline <= due[x] \/ \E w \in TimerOwners : tmine[w] = x /\ Notifies(w)
    BY DEF Deadline
  <2>3. ASSUME NEW w \in TimerOwners, tmine[w] = x, Notifies(w) PROVE tmine'[w] = x /\ Notifies(w)'
    BY <2>3, <1>4, <1>5, <1>6
  <2> QED BY <2>1, <2>2, <2>3
<1> QED BY <1>7, <1>8, <1>9, <1>10

\* What a step that leaves the calls and the registrations alone owes to the invariant.
LEMMA TimersKept ==
    ASSUME TiInv, due' = due, whenOf' = whenOf, tmine' = tmine, todo' = todo, now' \in Int, now <= now',
           ops' \in Seq(TimerOps), timers' \subseteq Given, Ti!Emptied' \subseteq Ti!Emptied,
           Ti!Emptied \cup wakers \cup twoken \subseteq Ti!Emptied' \cup wakers' \cup twoken',
           \A x \in wakers' \cup twoken' : x \in wakers \cup twoken \/ (x \in Ti!Emptied /\ due[x] < now),
           Deadline'
    PROVE  TiInv'
<1> USE DEF TiInv
<1>1. Given' = Given /\ TimerOps' = TimerOps
  BY DEF Given, TimerOps
<1>2. \A u : /\ \A i : Removes(u, i)' <=> Removes(u, i)
            /\ (Inserts(u)' <=> Inserts(u)) /\ (Notifies(u)' <=> Notifies(u))
  BY DEF Removes, Inserts, Notifies
<1>3. TimerTypes'
  BY <1>1 DEF TimerTypes
<1>4. TimerIds'
  BY <1>1, <1>2 DEF TimerIds
<1>5. Registered'
  <2>1. \A v \in TimerOwners : tmine'[v] # 0 /\ ~Inserts(v)' => tmine'[v] \in Ti!Emptied' \cup wakers' \cup twoken'
    BY <1>2 DEF Registered
  <2>2. \A x \in Ti!Emptied' : \E w \in TimerOwners : tmine'[w] = x \/ Removes(w, x)'
    BY <1>2 DEF Registered
  <2>3. ASSUME NEW x \in wakers' \cup twoken' PROVE x \in Given' /\ due'[x] < now'
    <3>1. x \in Given /\ due[x] < now
      BY EmptiedIds DEF Registered
    <3>2. now \in Int /\ due[x] \in Int
      BY <3>1 DEF TimerTypes, Given
    <3> QED BY <1>1, <3>1, <3>2
  <2> QED BY <2>1, <2>2, <2>3 DEF Registered
<1> QED BY <1>3, <1>4, <1>5

\* process_timers: the timers that are due go to the wakers.
LEMMA TimersProcessed ==
    ASSUME TiInv, Ti!ProcessTimers
    PROVE  /\ ops' \in Seq(TimerOps) /\ timers' \subseteq Given /\ Ti!Emptied' = Ti!Emptied \ Ti!Due
           /\ Ti!Due \subseteq Ti!Emptied /\ \A x \in Ti!Due : due[x] < now
           /\ wakers' = wakers \cup Ti!Due
<1>1. ops' = <<>> /\ timers' = Ti!Emptied \ Ti!Due /\ wakers' = wakers \cup Ti!Due
  BY DEF Ti!ProcessTimers
<1>2. Ti!Due \subseteq Ti!Emptied /\ \A x \in Ti!Due : due[x] < now
  BY DEF Ti!Due
<1>3. Ti!Emptied \subseteq Given
  BY EmptiedIds DEF TiInv
<1> QED BY <1>1, <1>2, <1>3, EmptiedQueue

\* The deadline is no later than the first timer that is left.
LEMMA NextDueIsFirst ==
    ASSUME TiInv, NEW x \in Ti!Emptied \ Ti!Due
    PROVE  Ti!NextDue <= due[x]
<1> USE DEF TiInv
<1> DEFINE S == {due[id] : id \in Ti!Emptied \ Ti!Due}
           A == {t - now : t \in S}
<1>1. now \in Int /\ \A id \in Ti!Emptied : due[id] \in Int
  BY EmptiedIds DEF TimerTypes, Given
<1>2. \A t \in S : t \in Int /\ now <= t
  BY <1>1 DEF Ti!Due
<1>3. due[x] \in S
  OBVIOUS
<1>4. CASE Ti!Due # {}
  <2>1. Ti!NextDue = now
    BY <1>4 DEF Ti!NextDue
  <2> HIDE DEF S
  <2> QED BY <2>1, <1>2, <1>3
<1>5. CASE Ti!Due = {}
  <2>1. Ti!NextDue = CHOOSE t \in S : \A s \in S : t <= s
    BY <1>3, <1>5 DEF Ti!NextDue
  <2> HIDE DEF S
  <2>2. A \in SUBSET Nat /\ A # {}
    BY <1>1, <1>2, <1>3
  <2>3. PICK a \in A : \A k \in A : a <= k
    BY <2>2, LeastNumber
  <2>4. PICK t \in S : a = t - now
    BY <2>3
  <2>5. \A s \in S : t <= s
    <3> SUFFICES ASSUME NEW s \in S PROVE t <= s
      OBVIOUS
    <3>1. s - now \in A
      OBVIOUS
    <3>2. a <= s - now
      BY <3>1, <2>3
    <3> QED BY <3>2, <2>4, <1>1, <1>2
  <2>6. Ti!NextDue \in S /\ \A s \in S : Ti!NextDue <= s
    BY <2>1, <2>4, <2>5
  <2> QED BY <2>6, <1>3
<1> QED BY <1>4, <1>5

LEMMA TimerReactor ==
    ASSUME TiInv, Ti!Tick \/ Ti!React \/ Ti!PollerReturns \/ Ti!WakeAll
    PROVE  TiInv'
<1> USE DEF TiInv
<1>n. /\ now \in Int /\ ops \in Seq(TimerOps) /\ timers \subseteq Given
      /\ \A x \in Ti!Emptied : x \in Given /\ due[x] \in Int
  BY EmptiedIds DEF TimerTypes, Given
<1>1. CASE Ti!Tick
  <2>1. /\ now' = now + 1 /\ due' = due /\ tmine' = tmine /\ whenOf' = whenOf /\ todo' = todo /\ ops' = ops
        /\ timers' = timers /\ tflag' = tflag /\ rpc' = rpc /\ deadline' = deadline /\ wakers' = wakers
        /\ twoken' = twoken
    BY <1>1 DEF Ti!Tick
  <2>2. Ti!Emptied' = Ti!Emptied
    BY <2>1, EmptiedSame
  <2>3. Deadline'
    BY <2>1, <2>2 DEF Deadline, Notifies
  <2> QED BY <2>1, <2>2, <2>3, <1>n, TimersKept
<1>2. CASE Ti!React
  <2>1. /\ Ti!ProcessTimers /\ deadline' = Ti!NextDue /\ rpc' = "asleep" /\ now' = now /\ due' = due /\ tmine' = tmine
        /\ whenOf' = whenOf /\ todo' = todo /\ tflag' = tflag /\ twoken' = twoken
    BY <1>2 DEF Ti!React
  <2>2. /\ ops' \in Seq(TimerOps) /\ timers' \subseteq Given /\ Ti!Emptied' = Ti!Emptied \ Ti!Due
        /\ Ti!Due \subseteq Ti!Emptied /\ \A x \in Ti!Due : due[x] < now
        /\ wakers' = wakers \cup Ti!Due
    BY <2>1, TimersProcessed
  <2>3. \A x \in Ti!Emptied' : deadline' <= due'[x]
    BY <2>1, <2>2, NextDueIsFirst
  <2>4. Deadline'
    BY <2>3 DEF Deadline
  <2> QED BY <2>1, <2>2, <2>4, <1>n, TimersKept
<1>3. CASE Ti!PollerReturns
  <2>1. /\ rpc' = "wake" /\ now' = now /\ due' = due /\ tmine' = tmine /\ whenOf' = whenOf /\ todo' = todo
        /\ twoken' = twoken
        /\ \/ ops' = ops /\ timers' = timers /\ wakers' = wakers
           \/ Ti!ProcessTimers
    BY <1>3 DEF Ti!PollerReturns
  <2>2. /\ ops' \in Seq(TimerOps) /\ timers' \subseteq Given /\ Ti!Emptied' \subseteq Ti!Emptied
        /\ Ti!Emptied \cup wakers \cup twoken \subseteq Ti!Emptied' \cup wakers' \cup twoken'
        /\ \A x \in wakers' \cup twoken' : x \in wakers \cup twoken \/ (x \in Ti!Emptied /\ due[x] < now)
    <3>1. CASE Ti!ProcessTimers
      BY <2>1, <3>1, TimersProcessed
    <3>2. CASE ops' = ops /\ timers' = timers /\ wakers' = wakers
      BY <2>1, <3>2, <1>n, EmptiedSame
    <3> QED BY <2>1, <3>1, <3>2
  <2>3. Deadline'
    BY <2>1 DEF Deadline
  <2> QED BY <2>1, <2>2, <2>3, <1>n, TimersKept
<1>4. CASE Ti!WakeAll
  <2>1. /\ rpc' = "react" /\ now' = now /\ due' = due /\ tmine' = tmine /\ whenOf' = whenOf /\ todo' = todo
        /\ ops' = ops /\ timers' = timers /\ wakers' = {} /\ twoken' = twoken \cup wakers
    BY <1>4 DEF Ti!WakeAll
  <2>2. Ti!Emptied' = Ti!Emptied
    BY <2>1, EmptiedSame
  <2>3. Deadline'
    BY <2>1 DEF Deadline
  <2> QED BY <2>1, <2>2, <2>3, <1>n, TimersKept
<1> QED BY <1>1, <1>2, <1>3, <1>4

LEMMA TimerNotify ==
    ASSUME TiInv, NEW u \in TimerOwners, Ti!Notify(u)
    PROVE  TiInv'
<1> USE DEF TiInv
<1>1. /\ todo[u] # <<>> /\ Head(todo[u])[1] = "notify" /\ tflag' = TRUE /\ todo' = [todo EXCEPT ![u] = Tail(@)]
      /\ now' = now /\ due' = due /\ tmine' = tmine /\ whenOf' = whenOf /\ ops' = ops /\ timers' = timers
      /\ rpc' = rpc /\ deadline' = deadline /\ wakers' = wakers /\ twoken' = twoken
  BY DEF Ti!Notify
<1>2. todo[u] = <<Notice>>
  BY <1>1, TodoForms DEF Ins, Rem
<1>3. todo'[u] = <<>> /\ \A v \in TimerOwners : v # u => todo'[v] = todo[v]
  <2>1. Tail(<<Notice>>) = <<>>
    OBVIOUS
  <2> QED BY <2>1, <1>1, <1>2 DEF TimerTypes
<1>4. /\ \A i : ~Removes(u, i) /\ ~Removes(u, i)'
      /\ ~Inserts(u) /\ ~Inserts(u)' /\ tflag'
  <2>1. \A i : ~RemovesIn(<<>>, tmine[u], i) /\ ~RemovesIn(<<Notice>>, tmine[u], i)
    BY TodoViews
  <2>2. ~InsertsIn(<<>>, tmine[u]) /\ ~InsertsIn(<<Notice>>, tmine[u])
    BY TodoViews
  <2> QED BY <2>1, <2>2, <1>1, <1>2, <1>3 DEF Removes, Inserts
<1>5. \A v \in TimerOwners : v # u => /\ \A i : Removes(v, i)' <=> Removes(v, i)
                                     /\ (Inserts(v)' <=> Inserts(v)) /\ (Notifies(v)' <=> Notifies(v))
  BY <1>1, <1>3 DEF Removes, Inserts, Notifies
<1>6. Ti!Emptied' = Ti!Emptied /\ Given' = Given /\ TimerOps' = TimerOps
  BY <1>1, EmptiedSame DEF Given, TimerOps
<1>7. TimerTypes'
  <2>1. todo' = [v \in TimerOwners |-> todo'[v]]
    BY <1>1 DEF TimerTypes
  <2> QED BY <2>1, <1>1, <1>6 DEF TimerTypes
<1>8. TimerIds'
  BY <1>1, <1>3, <1>4, <1>5, <1>6 DEF TimerIds
<1>9. Registered'
  <2>1. \A v \in TimerOwners : tmine'[v] # 0 /\ ~Inserts(v)' => tmine'[v] \in Ti!Emptied' \cup wakers' \cup twoken'
    BY <1>1, <1>4, <1>5, <1>6 DEF Registered
  <2>2. \A x \in Ti!Emptied' : \E w \in TimerOwners : tmine'[w] = x \/ Removes(w, x)'
    BY <1>1, <1>4, <1>5, <1>6 DEF Registered
  <2>3. \A x \in wakers' \cup twoken' : x \in Given' /\ due'[x] < now'
    BY <1>1, <1>6 DEF Registered
  <2> QED BY <2>1, <2>2, <2>3 DEF Registered
<1>10. Deadline'
  BY <1>1 DEF Deadline
<1> QED BY <1>7, <1>8, <1>9, <1>10

LEMMA TimerPush ==
    ASSUME TiInv, NEW u \in TimerOwners, Ti!Push(u)
    PROVE  TiInv'
<1> USE DEF TiInv
<1> DEFINE m == tmine[u]
<1>n. /\ now \in Int /\ ops \in Seq(TimerOps) /\ timers \subseteq Given /\ Ti!Emptied \subseteq Given /\ m \in Given \cup {0}
  BY EmptiedIds DEF TimerTypes
<1>1. /\ todo[u] # <<>> /\ Head(todo[u])[1] # "notify"
      /\ now' = now /\ due' = due /\ tmine' = tmine /\ whenOf' = whenOf /\ tflag' = tflag
      /\ rpc' = rpc /\ deadline' = deadline /\ wakers' = wakers /\ twoken' = twoken
  BY DEF Ti!Push
<1>2. Given' = Given /\ TimerOps' = TimerOps
  BY <1>1 DEF Given, TimerOps
<1>3. CASE ops' = <<>> /\ timers' = Ti!Emptied /\ todo' = todo
  <2>1. Ti!Emptied' = Ti!Emptied
    BY <1>3, EmptiedQueue
  <2>2. ops' \in Seq(TimerOps)
    BY <1>3
  <2>3. Deadline'
    BY <1>1, <1>3, <2>1 DEF Deadline, Notifies
  <2> QED BY <1>1, <1>3, <1>n, <2>1, <2>2, <2>3, TimersKept
<1>4. CASE ops' = Append(ops, Head(todo[u])) /\ todo' = [todo EXCEPT ![u] = Tail(@)] /\ timers' = timers
  <2>1. todo'[u] = Tail(todo[u]) /\ \A v \in TimerOwners : v # u => todo'[v] = todo[v]
    BY <1>4 DEF TimerTypes
  <2>2. \A v \in TimerOwners : v # u => /\ \A i : Removes(v, i)' <=> Removes(v, i)
                                       /\ (Inserts(v)' <=> Inserts(v)) /\ (Notifies(v)' <=> Notifies(v))
    BY <1>1, <2>1 DEF Removes, Inserts, Notifies
  <2>3. \/ /\ todo[u] = <<Ins(m), Notice>> /\ Head(todo[u]) = Ins(m) /\ Tail(todo[u]) = <<Notice>>
        \/ \E i \in Given : /\ todo[u] = <<Rem(i)>> /\ Head(todo[u]) = Rem(i) /\ Tail(todo[u]) = <<>>
        \/ \E i \in Given : /\ todo[u] = <<Rem(i), Ins(m), Notice>> /\ Head(todo[u]) = Rem(i)
                            /\ Tail(todo[u]) = <<Ins(m), Notice>>
    <3>1. todo[u] # <<Notice>>
      BY <1>1 DEF Notice
    <3>2. CASE todo[u] = <<Ins(m), Notice>>
      <4>1. Head(todo[u]) = Ins(m) /\ Tail(todo[u]) = <<Notice>>
        BY <3>2
      <4> QED BY <3>2, <4>1
    <3>3. ASSUME NEW i \in Given, todo[u] = <<Rem(i)>> PROVE Head(todo[u]) = Rem(i) /\ Tail(todo[u]) = <<>>
      BY <3>3
    <3>4. ASSUME NEW i \in Given, todo[u] = <<Rem(i), Ins(m), Notice>>
          PROVE  Head(todo[u]) = Rem(i) /\ Tail(todo[u]) = <<Ins(m), Notice>>
      BY <3>4
    <3> QED BY <3>1, <3>2, <3>3, <3>4, <1>1, TodoForms
  <2>4. PICK id \in Given :
          /\ \/ Head(todo[u]) = Ins(id) /\ id = m /\ todo[u] = <<Ins(m), Notice>> /\ Tail(todo[u]) = <<Notice>>
             \/ Head(todo[u]) = Rem(id) /\ todo[u] = <<Rem(id)>> /\ Tail(todo[u]) = <<>>
             \/ Head(todo[u]) = Rem(id) /\ todo[u] = <<Rem(id), Ins(m), Notice>> /\ Tail(todo[u]) = <<Ins(m), Notice>>
    <3>1. todo[u] = <<Ins(m), Notice>> => m # 0
      <4> SUFFICES ASSUME todo[u] = <<Ins(m), Notice>> PROVE m # 0
        OBVIOUS
      <4>1. todo[u] # <<>> /\ \A i : todo[u] # <<Rem(i)>>
        OBVIOUS
      <4> QED BY <4>1 DEF TimerIds
    <3> QED BY <2>3, <3>1, <1>n
  <2>5. Ti!Emptied' = IF Head(todo[u]) = Ins(id) THEN Ti!Emptied \cup {id} ELSE Ti!Emptied \ {id}
    <3>1. Head(todo[u]) \in {Ins(id), Rem(id)}
      BY <2>4
    <3> QED BY <3>1, <1>4, EmptiedAppend
  <2>6. Ins(id) # Rem(id) /\ Head(todo[u]) \in TimerOps
    BY <2>4 DEF Ins, Rem, TimerOps
  <2>7. /\ \A i : Removes(u, i) <=> (Head(todo[u]) = Rem(id) /\ i = id)
        /\ \A i : ~Removes(u, i)'
        /\ Notifies(u) <=> todo[u] # <<Rem(id)>>
        /\ (Notifies(u)' <=> Notifies(u)) /\ (Inserts(u) <=> Notifies(u))
        /\ (Inserts(u)' <=> todo[u] = <<Rem(id), Ins(m), Notice>>)
    <3>v. /\ \A i : Removes(u, i)' <=> RemovesIn(Tail(todo[u]), m, i)
          /\ (Inserts(u)' <=> InsertsIn(Tail(todo[u]), m)) /\ (Notifies(u)' <=> NotifiesIn(Tail(todo[u]), m))
          /\ \A i : Removes(u, i) <=> RemovesIn(todo[u], m, i)
          /\ (Inserts(u) <=> InsertsIn(todo[u], m)) /\ (Notifies(u) <=> NotifiesIn(todo[u], m))
      BY <1>1, <2>1 DEF Removes, Inserts, Notifies
    <3> HIDE DEF m
    <3>1. CASE todo[u] = <<Ins(m), Notice>> /\ Tail(todo[u]) = <<Notice>> /\ Head(todo[u]) = Ins(id)
      <4>1. todo[u] # <<Rem(id)>> /\ todo[u] # <<Rem(id), Ins(m), Notice>>
        BY <3>1
      <4> QED BY <3>v, <3>1, <4>1, <2>6, TodoViews
    <3>2. CASE todo[u] = <<Rem(id)>> /\ Tail(todo[u]) = <<>> /\ Head(todo[u]) = Rem(id)
      <4>1. todo[u] # <<Rem(id), Ins(m), Notice>>
        BY <3>2
      <4>2. ~InsertsIn(<<>>, m) /\ ~NotifiesIn(<<>>, m) /\ \A i : ~RemovesIn(<<>>, m, i)
        BY TodoViews
      <4>3. ~InsertsIn(<<Rem(id)>>, m) /\ ~NotifiesIn(<<Rem(id)>>, m) /\ \A i : RemovesIn(<<Rem(id)>>, m, i) <=> i = id
        BY TodoViews
      <4> QED BY <3>v, <3>2, <4>1, <4>2, <4>3
    <3>3. CASE todo[u] = <<Rem(id), Ins(m), Notice>> /\ Tail(todo[u]) = <<Ins(m), Notice>> /\ Head(todo[u]) = Rem(id)
      <4>1. todo[u] # <<Rem(id)>>
        BY <3>3
      <4>2. InsertsIn(<<Ins(m), Notice>>, m) /\ NotifiesIn(<<Ins(m), Notice>>, m) /\ \A i : ~RemovesIn(<<Ins(m), Notice>>, m, i)
        BY TodoViews
      <4>3. /\ InsertsIn(<<Rem(id), Ins(m), Notice>>, m) /\ NotifiesIn(<<Rem(id), Ins(m), Notice>>, m)
            /\ \A i : RemovesIn(<<Rem(id), Ins(m), Notice>>, m, i) <=> i = id
        BY TodoViews
      <4> QED BY <3>v, <3>3, <4>1, <4>2, <4>3
    <3> QED BY <2>4, <3>1, <3>2, <3>3
  <2>8. TimerTypes'
    <3>1. todo' = [v \in TimerOwners |-> todo'[v]]
      BY <1>4 DEF TimerTypes
    <3>2. ops' \in Seq(TimerOps)
      BY <1>4, <1>n, <2>6
    <3> QED BY <3>1, <3>2, <1>1, <1>2, <1>4 DEF TimerTypes
  <2>9. TimerIds'
    <3>1. ASSUME NEW v \in TimerOwners
          PROVE  \/ todo'[v] = <<>>
                 \/ Notifies(v)' /\ tmine'[v] # 0
                 \/ \E i \in Given' : todo'[v] = <<Rem(i)>>
      <4>1. CASE v # u
        BY <4>1, <1>1, <1>2, <2>1, <2>2 DEF TimerIds
      <4>2. CASE v = u /\ Notifies(u)
        <5>1. todo[u] # <<>> /\ \A i : todo[u] # <<Rem(i)>>
          BY <2>4, <2>7, <4>2
        <5>2. tmine[u] # 0
          BY <5>1 DEF TimerIds
        <5> QED BY <5>2, <4>2, <2>7, <1>1
      <4>3. CASE v = u /\ ~Notifies(u)
        <5>1. todo[u] = <<Rem(id)>>
          BY <4>3, <2>7
        <5>2. Tail(<<Rem(id)>>) = <<>>
          OBVIOUS
        <5> QED BY <5>1, <5>2, <4>3, <2>1
      <4> QED BY <4>1, <4>2, <4>3
    <3>2. \A v, w \in TimerOwners : tmine'[v] = tmine'[w] /\ tmine'[v] # 0 => v = w
      BY <1>1 DEF TimerIds
    <3>3. \A v, w \in TimerOwners : \A i : Removes(v, i)' => i \in Given' /\ tmine'[w] # i
      BY <1>1, <1>2, <2>2, <2>7 DEF TimerIds
    <3> QED BY <3>1, <3>2, <3>3 DEF TimerIds
  <2>10. Registered'
    <3>1. ASSUME NEW v \in TimerOwners, tmine'[v] # 0, ~Inserts(v)' PROVE tmine'[v] \in Ti!Emptied' \cup wakers' \cup twoken'
      <4>1. CASE v = u /\ Head(todo[u]) = Ins(id)
        BY <4>1, <2>4, <2>5, <2>6, <1>1
      <4>2. CASE Head(todo[u]) = Rem(id)
        <5>1. ~Inserts(v)
          <6>1. CASE v = u
            BY <6>1, <3>1, <2>4, <2>6, <2>7, <4>2
          <6> QED BY <6>1, <3>1, <2>2
        <5>2. tmine[v] # id
          BY <2>7, <4>2 DEF TimerIds
        <5> QED BY <5>1, <5>2, <3>1, <2>5, <1>1 DEF Registered
      <4>3. CASE v # u /\ Head(todo[u]) = Ins(id)
        BY <4>3, <3>1, <2>2, <2>5, <1>1 DEF Registered
      <4> QED BY <4>1, <4>2, <4>3, <2>4
    <3>2. ASSUME NEW x \in Ti!Emptied' PROVE \E w \in TimerOwners : tmine'[w] = x \/ Removes(w, x)'
      <4>1. CASE x \in Ti!Emptied
        <5>1. PICK w \in TimerOwners : tmine[w] = x \/ Removes(w, x)
          BY <4>1 DEF Registered
        <5>2. CASE w = u /\ Removes(u, x)
          <6>1. Head(todo[u]) = Rem(id) /\ x = id
            BY <5>2, <2>7
          <6> QED BY <6>1, <2>5, <2>6, <3>2
        <5> QED BY <5>1, <5>2, <1>1, <2>2
      <4>2. CASE x \notin Ti!Emptied
        BY <4>2, <3>2, <2>4, <2>5, <2>6, <1>1
      <4> QED BY <4>1, <4>2
    <3>3. \A x \in wakers' \cup twoken' : x \in Given' /\ due'[x] < now'
      BY <1>1, <1>2 DEF Registered
    <3> QED BY <3>1, <3>2, <3>3 DEF Registered
  <2>11. Deadline'
    <3> SUFFICES ASSUME rpc = "asleep", ~tflag, NEW x \in Ti!Emptied'
                 PROVE  deadline <= due[x] \/ \E w \in TimerOwners : tmine[w] = x /\ Notifies(w)'
      BY <1>1 DEF Deadline
    <3>1. CASE x \in Ti!Emptied
      BY <3>1, <2>2, <2>7 DEF Deadline
    <3>2. CASE x \notin Ti!Emptied
      <4>1. x = id /\ Head(todo[u]) = Ins(id)
        BY <3>2, <2>5
      <4>2. id = m /\ Notifies(u)
        <5>1. id = m /\ todo[u] = <<Ins(m), Notice>>
          BY <4>1, <2>4, <2>6
        <5>2. todo[u] # <<Rem(id)>>
          BY <5>1
        <5> QED BY <5>1, <5>2, <2>7
      <4> QED BY <4>1, <4>2, <2>7
    <3> QED BY <3>1, <3>2
  <2> QED BY <2>8, <2>9, <2>10, <2>11
<1> QED BY <1>3, <1>4 DEF Ti!Push

LEMMA TiInitHolds == Ti!TInit => TiInv
<1> SUFFICES ASSUME Ti!TInit PROVE TiInv
  OBVIOUS
<1>1. /\ now = 0 /\ due = <<>> /\ tmine = [u \in TimerOwners |-> 0] /\ whenOf \in [TimerOwners -> {1}]
      /\ todo = [u \in TimerOwners |-> <<>>] /\ ops = <<>> /\ timers = {} /\ rpc = "react"
      /\ wakers = {} /\ twoken = {}
  BY DEF Ti!TInit
<1>2. Given = {} /\ Ti!Emptied = {} /\ DOMAIN ops = {}
  BY <1>1 DEF Given, Ti!Emptied
<1>3. \A u \in TimerOwners : todo[u] = <<>> /\ \A i : ~Removes(u, i)
  <2>1. \A u \in TimerOwners : todo[u] = <<>>
    BY <1>1
  <2>2. \A u, i : ~RemovesIn(<<>>, tmine[u], i)
    BY TodoViews
  <2> QED BY <2>1, <2>2 DEF Removes
<1>4. TimerTypes
  BY <1>1, <1>2 DEF TimerTypes
<1> QED BY <1>1, <1>2, <1>3, <1>4 DEF TiInv, TimerIds, Registered, Deadline

LEMMA TiStepHolds == TiInv /\ [Ti!TNext]_tvars => TiInv'
<1> SUFFICES ASSUME TiInv, [Ti!TNext]_tvars PROVE TiInv'
  OBVIOUS
<1>1. CASE UNCHANGED tvars
  <2>1. /\ now' = now /\ due' = due /\ tmine' = tmine /\ whenOf' = whenOf /\ todo' = todo /\ ops' = ops
        /\ timers' = timers /\ tflag' = tflag /\ rpc' = rpc /\ deadline' = deadline /\ wakers' = wakers
        /\ twoken' = twoken
    BY <1>1 DEF tvars
  <2>2. Ti!Emptied' = Ti!Emptied
    BY <2>1, EmptiedSame
  <2>3. Deadline'
    BY <2>1, <2>2 DEF Deadline, Notifies, TiInv
  <2>4. now \in Int /\ now <= now /\ ops \in Seq(TimerOps) /\ timers \subseteq Given
    BY DEF TiInv, TimerTypes
  <2> QED BY <2>1, <2>2, <2>3, <2>4, TimersKept
<1>2. CASE Ti!Tick \/ Ti!React \/ Ti!PollerReturns \/ Ti!WakeAll
  BY <1>2, TimerReactor
<1>3. ASSUME NEW u \in TimerOwners, Ti!PollDue(u) \/ Ti!PollEarly(u) \/ Ti!DropTimer(u) PROVE TiInv'
  <2>1. whenOf[u] \in Int /\ whenOf[u] + 1 \in Int
    BY DEF TiInv, TimerTypes
  <2>2. \/ Ti!Call(u, Ti!Removal(tmine[u]), 0, whenOf[u])
        \/ Ti!Call(u, Ti!Removal(tmine[u]) \o Ti!Insertion, Len(due) + 1, whenOf[u])
        \/ Ti!Call(u, Ti!Removal(tmine[u]) \o Ti!Insertion, Len(due) + 1, whenOf[u] + 1)
    BY <1>3 DEF Ti!PollDue, Ti!PollEarly, Ti!DropTimer
  <2> QED BY <2>1, <2>2, TimerCall
<1>4. ASSUME NEW u \in TimerOwners, NEW t \in 0 .. MaxTime, Ti!SetAt(u, t) PROVE TiInv'
  <2>1. t \in Int
    OBVIOUS
  <2>2. \/ Ti!Call(u, Ti!Removal(tmine[u]), 0, t)
        \/ Ti!Call(u, Ti!Removal(tmine[u]) \o Ti!Insertion, Len(due) + 1, t)
    BY <1>4 DEF Ti!SetAt, Ti!Removal
  <2> QED BY <2>1, <2>2, TimerCall
<1>5. ASSUME NEW u \in TimerOwners, Ti!Push(u) \/ Ti!Notify(u) PROVE TiInv'
  BY <1>5, TimerPush, TimerNotify
<1> QED BY <1>1, <1>2, <1>3, <1>4, <1>5 DEF Ti!TNext

LEMMA TiInvSays == TiInv => Ti!TimersFire
<1> SUFFICES ASSUME TiInv PROVE Ti!TimersFire
  OBVIOUS
<1> USE DEF TiInv
<1>1. ASSUME NEW u \in TimerOwners, todo[u] = <<>>
      PROVE  ~Inserts(u) /\ ~Notifies(u) /\ \A i : ~Removes(u, i)
  <2>1. ~InsertsIn(<<>>, tmine[u]) /\ ~NotifiesIn(<<>>, tmine[u]) /\ \A i : ~RemovesIn(<<>>, tmine[u], i)
    BY TodoViews
  <2> QED BY <1>1, <2>1 DEF Inserts, Notifies, Removes
<1>2. \A u \in TimerOwners : Ti!Between(u) /\ tmine[u] # 0 => tmine[u] \in Ti!Emptied \cup wakers \cup twoken
  BY <1>1 DEF Ti!Between, Registered
<1>3. ASSUME rpc = "asleep", ~tflag, \A u \in TimerOwners : Ti!Between(u), NEW id \in Ti!Emptied
      PROVE  deadline <= due[id]
  BY <1>1, <1>3 DEF Ti!Between, Deadline
<1>4. ASSUME \A u \in TimerOwners : Ti!Between(u), NEW id \in Ti!Emptied
      PROVE  id \in {tmine[u] : u \in TimerOwners}
  BY <1>1, <1>4 DEF Ti!Between, Registered
<1>5. \A id \in wakers \cup twoken : due[id] < now
  BY DEF Registered
<1> QED BY <1>2, <1>3, <1>4, <1>5 DEF Ti!TimersFire

(***************************************************************************)
(* File                                                                    *)
(***************************************************************************)
DoingTyped == fdoing = <<fdoing[1], fdoing[2], fdoing[3]>>
FileTypes ==
    /\ content \in Seq(Int) /\ want \in Seq(Int) /\ fring \in Seq(Int)
    /\ pos \in Nat /\ upos \in Nat /\ writes \in Nat
    /\ read_pos \in Nat \cup {Fi!Nowhere} /\ target \in Int
    /\ alive \in BOOLEAN /\ is_dirty \in BOOLEAN /\ task \in {"run", "looked", "done", "failed"}
    /\ st \in {"idle", "seek", "read", "write"}
    /\ DoingTyped

\* what the reader of the pipe will find: the bytes from the user's position on
AheadOfUser ==
    /\ pos = upos + Len(fring) /\ pos <= Len(content)
    /\ \A i \in 1 .. Len(fring) : fring[i] = content[upos + i]

\* how the file and its position differ from those the user knows, by what the task does
FileAgrees ==
    /\ upos <= Len(want)
    /\ read_pos # Fi!Nowhere => read_pos = upos
    /\ st # "write" => content = want
    /\ st = "idle" /\ read_pos = Fi!Nowhere => pos = upos
    /\ st = "write" => /\ Fi!Over(content, pos, fring) = want /\ pos + Len(fring) = upos /\ pos <= Len(content)
                       /\ read_pos = Fi!Nowhere /\ is_dirty
                       /\ task = "done" => fring = <<>> /\ ~alive
    /\ st = "read" => /\ read_pos # Fi!Nowhere
                      /\ alive => AheadOfUser /\ (task = "done" => pos >= Len(content))
    /\ st = "seek" => \/ target = Fi!Here /\ pos = upos /\ read_pos = Fi!Nowhere
                      \/ target = upos /\ (task # "run" => pos = upos)

PollAgrees ==
    /\ fdoing # Fi!Quiet => fsaid = ""
    /\ fsaid # "misread" /\ (fsaid = "eof" => upos >= Len(want)) /\ (fsaid = "flushed" => st # "write")
    /\ fdoing[2] \in {"here", "to", "mark", "write"} => read_pos = Fi!Nowhere
    /\ fdoing[2] = "read" => read_pos # Fi!Nowhere
    /\ fdoing[2] = "look" => st = "read" /\ alive
    /\ fdoing[2] = "write" => is_dirty
    /\ fdoing[2] = "clean" => ~is_dirty
    /\ fdoing[1] = "seek" => fdoing[3] \in 0 .. Len(want)
    /\ fdoing[1] = "set_len" => fdoing[3] \in Nat /\ upos <= fdoing[3]

FiInv == adrift \/ (FileTypes /\ FileAgrees /\ PollAgrees)

-----------------------------------------------------------------------------
\* What Over gives: its length, and its bytes.
Longer(a, b) == IF a > b THEN a ELSE b
WrittenByte(f, p, s, i) == IF i > p /\ i <= p + Len(s) THEN s[i - p] ELSE IF i <= Len(f) THEN f[i] ELSE 0

LEMMA OverIs ==
    ASSUME NEW f \in Seq(Int), NEW p \in Nat, NEW s \in Seq(Int)
    PROVE  /\ Fi!Over(f, p, s) \in Seq(Int) /\ Len(Fi!Over(f, p, s)) = Longer(p + Len(s), Len(f))
           /\ \A i \in 1 .. Longer(p + Len(s), Len(f)) : Fi!Over(f, p, s)[i] = WrittenByte(f, p, s, i)
<1> DEFINE n == Longer(p + Len(s), Len(f))
           e(i) == WrittenByte(f, p, s, i)
<1>1. n \in Nat
  BY DEF Longer
<1>2. \A i \in 1 .. n : e(i) \in Int
  BY DEF WrittenByte, Longer
<1>3. Fi!Over(f, p, s) = [i \in 1 .. n |-> e(i)]
  BY DEF Fi!Over, Fi!Byte, WrittenByte, Longer
<1> HIDE DEF n, e
<1>4. Fi!Over(f, p, s) \in Seq(Int) /\ Len(Fi!Over(f, p, s)) = n /\ \A i \in 1 .. n : Fi!Over(f, p, s)[i] = e(i)
  BY <1>1, <1>2, <1>3
<1> QED BY <1>1, <1>4 DEF n, e

\* Part of a sequence, two in a row, and two parts.
LEMMA PartIs ==
    ASSUME NEW s \in Seq(Int), NEW m \in Nat, NEW n \in Nat, m <= n, n <= Len(s)
    PROVE  /\ SubSeq(s, m + 1, n) \in Seq(Int) /\ Len(SubSeq(s, m + 1, n)) = n - m
           /\ \A i \in 1 .. n - m : SubSeq(s, m + 1, n)[i] = s[m + i]
<1>1. (m + 1) .. n = (m + 1) .. n /\ n - (m + 1) + 1 = n - m
  OBVIOUS
<1> QED BY SMTT(60), <1>1

LEMMA BothAre ==
    ASSUME NEW s \in Seq(Int), NEW t \in Seq(Int)
    PROVE  /\ s \o t \in Seq(Int) /\ Len(s \o t) = Len(s) + Len(t) /\ Len(s) \in Nat /\ Len(t) \in Nat
           /\ \A i \in 1 .. Len(s) : (s \o t)[i] = s[i]
           /\ \A i \in Len(s) + 1 .. Len(s) + Len(t) : (s \o t)[i] = t[i - Len(s)]
OBVIOUS

\* Two sequences of the same length and elements are one.
LEMMA SameBytes ==
    ASSUME NEW s \in Seq(Int), NEW t \in Seq(Int), Len(s) = Len(t), \A i \in 1 .. Len(s) : s[i] = t[i]
    PROVE  s = t
OBVIOUS

\* To write nothing changes nothing.
LEMMA OverNone == ASSUME NEW f \in Seq(Int), NEW p \in Nat, p <= Len(f) PROVE Fi!Over(f, p, <<>>) = f
<1> DEFINE none == <<>>
<1>1. none \in Seq(Int) /\ Len(none) = 0
  OBVIOUS
<1> HIDE DEF none
<1>2. /\ Fi!Over(f, p, none) \in Seq(Int) /\ Len(Fi!Over(f, p, none)) = Longer(p + Len(none), Len(f))
      /\ \A i \in 1 .. Longer(p + Len(none), Len(f)) : Fi!Over(f, p, none)[i] = WrittenByte(f, p, none, i)
  BY <1>1, OverIs
<1>3. Longer(p + Len(none), Len(f)) = Len(f)
  BY <1>1 DEF Longer
<1>4. \A i \in 1 .. Len(f) : WrittenByte(f, p, none, i) = f[i]
  BY <1>1 DEF WrittenByte
<1>5. \A i \in 1 .. Len(f) : Fi!Over(f, p, none)[i] = f[i]
  BY <1>2, <1>3, <1>4
<1>6. Fi!Over(f, p, none) = f
  BY <1>2, <1>3, <1>5, SameBytes
<1> QED BY <1>6 DEF none

\* To write s and then t is to write both.
LEMMA OverTwice ==
    ASSUME NEW f \in Seq(Int), NEW p \in Nat, NEW s \in Seq(Int), NEW t \in Seq(Int)
    PROVE  Fi!Over(Fi!Over(f, p, s), p + Len(s), t) = Fi!Over(f, p, s \o t)
<1> DEFINE q == p + Len(s)
           r == p + Len(s) + Len(t)
           both == s \o t
           g == Fi!Over(f, p, s)
           h == Fi!Over(g, q, t)
           k == Fi!Over(f, p, both)
<1>1. /\ both \in Seq(Int) /\ Len(both) = Len(s) + Len(t) /\ Len(s) \in Nat /\ Len(t) \in Nat /\ Len(f) \in Nat
      /\ \A i \in 1 .. Len(s) : both[i] = s[i]
      /\ \A i \in Len(s) + 1 .. Len(s) + Len(t) : both[i] = t[i - Len(s)]
  OBVIOUS
<1>2. /\ g \in Seq(Int) /\ Len(g) = Longer(q, Len(f))
      /\ \A i \in 1 .. Longer(q, Len(f)) : g[i] = WrittenByte(f, p, s, i)
  BY OverIs
<1>q. q \in Nat /\ r \in Nat /\ q = p + Len(s) /\ r = q + Len(t) /\ p + Len(both) = r
  BY <1>1
<1> HIDE DEF g, q, r, both
<1>3. /\ h \in Seq(Int) /\ Len(h) = Longer(r, Len(g))
      /\ \A i \in 1 .. Longer(r, Len(g)) : h[i] = WrittenByte(g, q, t, i)
  <2>1. /\ h \in Seq(Int) /\ Len(h) = Longer(q + Len(t), Len(g))
        /\ \A i \in 1 .. Longer(q + Len(t), Len(g)) : h[i] = WrittenByte(g, q, t, i)
    BY <1>2, <1>q, OverIs
  <2>2. q + Len(t) = r
    BY <1>q
  <2> QED BY ONLY <2>1, <2>2
<1>4. /\ k \in Seq(Int) /\ Len(k) = Longer(r, Len(f))
      /\ \A i \in 1 .. Longer(r, Len(f)) : k[i] = WrittenByte(f, p, both, i)
  <2>1. /\ k \in Seq(Int) /\ Len(k) = Longer(p + Len(both), Len(f))
        /\ \A i \in 1 .. Longer(p + Len(both), Len(f)) : k[i] = WrittenByte(f, p, both, i)
    BY <1>1, OverIs
  <2>2. p + Len(both) = r
    BY <1>q
  <2> QED BY ONLY <2>1, <2>2
<1> HIDE DEF h, k
<1>5. Longer(r, Len(g)) = Longer(r, Len(f)) /\ Longer(r, Len(f)) \in Nat
  BY <1>1, <1>2, <1>q DEF Longer
<1>6. ASSUME NEW i \in 1 .. Longer(r, Len(f)) PROVE WrittenByte(g, q, t, i) = WrittenByte(f, p, both, i)
  <2>0. i \in Nat /\ 1 <= i /\ (i > r => i <= Len(f))
    BY <1>1, <1>5, <1>q DEF Longer
  <2>1. CASE i > q /\ i <= r
    <3>1. i - p \in Len(s) + 1 .. Len(s) + Len(t) /\ (i - p) - Len(s) = i - q /\ i > p
      BY <2>0, <2>1, <1>1, <1>q
    <3>2. both[i - p] = t[i - q]
      BY <3>1, <1>1
    <3>3. WrittenByte(g, q, t, i) = t[i - q]
      BY <2>1, <1>q DEF WrittenByte
    <3>4. WrittenByte(f, p, both, i) = both[i - p]
      BY <2>1, <3>1, <1>q DEF WrittenByte
    <3> QED BY <3>2, <3>3, <3>4
  <2>2. CASE i > p /\ i <= q
    <3>1. i - p \in 1 .. Len(s) /\ i <= r /\ i <= Longer(q, Len(f)) /\ ~(i > q)
      BY SMTT(60), <2>0, <2>2, <1>1, <1>q DEF Longer
    <3>2. both[i - p] = s[i - p]
      BY <3>1, <1>1
    <3>3. WrittenByte(g, q, t, i) = g[i]
      BY <3>1, <1>2 DEF WrittenByte
    <3>4. g[i] = WrittenByte(f, p, s, i)
      BY <3>1, <1>1, <1>2, <1>q, <2>0 DEF Longer
    <3>5. WrittenByte(f, p, s, i) = s[i - p]
      BY <2>2, <1>q DEF WrittenByte
    <3>6. WrittenByte(f, p, both, i) = both[i - p]
      BY <2>2, <3>1, <1>q DEF WrittenByte
    <3> QED BY <3>2, <3>3, <3>4, <3>5, <3>6
  <2>3. CASE i <= p \/ i > r
    <3>1. ~(i > q /\ i <= r) /\ ~(i > p /\ i <= q) /\ ~(i > p /\ i <= r)
      BY SMTT(60), <2>0, <2>3, <1>1, <1>q
    <3>2. WrittenByte(f, p, both, i) = IF i <= Len(f) THEN f[i] ELSE 0
      BY <3>1, <1>q DEF WrittenByte
    <3>3. WrittenByte(f, p, s, i) = IF i <= Len(f) THEN f[i] ELSE 0
      BY <3>1, <1>q DEF WrittenByte
    <3>4. i \in 1 .. Longer(q, Len(f)) /\ i <= Len(g)
      BY <2>0, <2>3, <1>1, <1>q, <1>2 DEF Longer
    <3>5. WrittenByte(g, q, t, i) = g[i]
      BY <3>1, <3>4, <1>q DEF WrittenByte
    <3> QED BY <3>2, <3>3, <3>4, <3>5, <1>2
  <2> QED BY <2>0, <2>1, <2>2, <2>3, <1>1, <1>q
<1>7. h = k
  BY <1>3, <1>4, <1>5, <1>6, SameBytes
<1> QED BY <1>7 DEF g, h, k, q, both

\* What Cut gives.
LEMMA CutIs == ASSUME NEW f \in Seq(Int), NEW n \in Nat PROVE Fi!Cut(f, n) \in Seq(Int) /\ Len(Fi!Cut(f, n)) = n
<1>1. Fi!Cut(f, n) = [i \in 1 .. n |-> IF i <= Len(f) THEN f[i] ELSE 0]
  BY DEF Fi!Cut, Fi!Byte
<1>2. \A i \in 1 .. n : (IF i <= Len(f) THEN f[i] ELSE 0) \in Int
  OBVIOUS
<1> QED BY <1>1, <1>2

-----------------------------------------------------------------------------
\* A phase changes, or the poll returns.
FiGood == FileTypes /\ FileAgrees /\ PollAgrees

LEMMA PhaseIs ==
    ASSUME FileTypes, NEW p, Fi!Phase(p)
    PROVE  /\ DoingTyped' /\ fsaid' = fsaid
           /\ fdoing'[1] = fdoing[1] /\ fdoing'[2] = p /\ fdoing'[3] = fdoing[3]
<1>1. PICK a, b, c : fdoing = <<a, b, c>>
  BY DEF FileTypes, DoingTyped
<1>2. fdoing' = <<a, p, c>> /\ fsaid' = fsaid
  BY <1>1 DEF Fi!Phase
<1> QED BY <1>1, <1>2 DEF DoingTyped

LEMMA QuietIs == Fi!Quiet[1] = "" /\ Fi!Quiet[2] = ""
BY DEF Fi!Quiet

LEMMA ReturnIs ==
    ASSUME NEW r, Fi!Return(r)
    PROVE  fdoing' = Fi!Quiet /\ DoingTyped' /\ fsaid' = r /\ fdoing'[1] = "" /\ fdoing'[2] = ""
BY DEF Fi!Return, Fi!Quiet, DoingTyped

\* A poll that has returned asks nothing more.
LEMMA Returned ==
    ASSUME NEW r, Fi!Return(r), r # "misread", r = "eof" => upos' >= Len(want'), r = "flushed" => st' # "write"
    PROVE  PollAgrees'
<1>1. fdoing' = Fi!Quiet /\ fsaid' = r /\ fdoing'[1] = "" /\ fdoing'[2] = ""
  BY ReturnIs
<1> QED BY <1>1 DEF PollAgrees

LEMMA SameDoing == ASSUME DoingTyped, UNCHANGED fdoing PROVE DoingTyped'
BY DEF DoingTyped

\* The steps of the task.
LEMMA TaskSeekHolds == ASSUME FiGood, Fi!TaskSeek PROVE FiGood'
<1>1. /\ st = "seek" /\ task = "run" /\ task' = "done"
      /\ UNCHANGED <<st, alive, fring, content, target, read_pos, is_dirty, fdoing, fsaid, want, upos, writes>>
      /\ pos' = IF target = Fi!Here THEN pos ELSE target
  BY DEF Fi!TaskSeek, Fi!Of
<1>2. pos' \in Nat /\ ((target = Fi!Here /\ pos' = upos /\ read_pos = Fi!Nowhere) \/ (target = upos /\ pos' = upos))
  BY <1>1, SameDoing DEF FiGood, FileTypes, FileAgrees, Fi!Here
<1> QED BY <1>1, <1>2, SameDoing DEF FiGood, FileTypes, FileAgrees, PollAgrees

LEMMA TaskReadHolds == ASSUME FiGood, Fi!TaskRead PROVE FiGood'
<1>1. /\ st = "read" /\ task \in {"run", "looked"} /\ Fi!Of("read") /\ content' = content
      /\ UNCHANGED <<st, alive, target, read_pos, is_dirty, fdoing, fsaid, want, upos, writes>>
  BY DEF Fi!TaskRead, Fi!Of, Fi!Busy
<1>2. CASE /\ pos >= Len(content) \/ ~alive
           /\ task' = "done" /\ UNCHANGED <<fring, pos, adrift>>
  BY <1>1, <1>2, SameDoing DEF FiGood, FileTypes, FileAgrees, PollAgrees, AheadOfUser
<1>3. CASE \E k \in 1 .. Fi!Least(Ahead - Len(fring), Len(content) - pos) :
             /\ pos' = pos + k /\ UNCHANGED <<task, adrift>>
             /\ fring' = IF alive THEN fring \o SubSeq(content, pos + 1, pos + k) ELSE fring
  <2>1. PICK k \in 1 .. Fi!Least(Ahead - Len(fring), Len(content) - pos) :
             /\ pos' = pos + k /\ UNCHANGED <<task, adrift>>
             /\ fring' = IF alive THEN fring \o SubSeq(content, pos + 1, pos + k) ELSE fring
    BY <1>3
  <2>2. Ahead - Len(fring) \in Int /\ Len(content) - pos \in Int /\ pos \in Nat /\ content \in Seq(Int) /\ fring \in Seq(Int) /\ upos \in Nat
    BY IoAssumption, SameDoing DEF FiGood, FileTypes
  <2>3. k \in Nat /\ k > 0 /\ k <= Len(content) - pos
    BY <2>2 DEF Fi!Least
  <2>4. pos' \in Nat /\ fring' \in Seq(Int)
    BY <2>1, <2>2, <2>3
  <2>5. ASSUME alive, AheadOfUser PROVE AheadOfUser'
    <3> DEFINE part == SubSeq(content, pos + 1, pos + k)
    <3>1. part \in Seq(Int) /\ Len(part) = k /\ \A i \in 1 .. k : part[i] = content[pos + i]
      <4>1. pos + k \in Nat /\ pos <= pos + k /\ pos + k <= Len(content) /\ (pos + k) - pos = k
        BY <2>2, <2>3
      <4>2. /\ SubSeq(content, pos + 1, pos + k) \in Seq(Int) /\ Len(SubSeq(content, pos + 1, pos + k)) = (pos + k) - pos
            /\ \A i \in 1 .. (pos + k) - pos : SubSeq(content, pos + 1, pos + k)[i] = content[pos + i]
        BY <4>1, <2>2, PartIs
      <4> QED BY ONLY <4>1, <4>2
    <3> HIDE DEF part
    <3>2. /\ Len(fring \o part) = Len(fring) + k /\ Len(fring) \in Nat
          /\ \A i \in 1 .. Len(fring) : (fring \o part)[i] = fring[i]
          /\ \A i \in Len(fring) + 1 .. Len(fring) + k : (fring \o part)[i] = part[i - Len(fring)]
      BY <3>1, <2>2, BothAre
    <3>3. fring' = fring \o part /\ content' = content /\ upos' = upos /\ pos' = pos + k
      BY <2>1, <2>5, <1>1 DEF part
    <3>4. pos = upos + Len(fring) /\ pos <= Len(content) /\ \A i \in 1 .. Len(fring) : fring[i] = content[upos + i]
      BY <2>5 DEF AheadOfUser
    <3>5. ASSUME NEW i \in 1 .. Len(fring) + k PROVE (fring \o part)[i] = content[upos + i]
      <4>1. CASE i <= Len(fring)
        BY <4>1, <3>2, <3>4
      <4>2. CASE i > Len(fring)
        <5>1. i \in Len(fring) + 1 .. Len(fring) + k /\ i - Len(fring) \in 1 .. k
          BY <4>2, <3>2, <2>3
        <5>2. (fring \o part)[i] = content[pos + (i - Len(fring))]
          BY <5>1, <3>1, <3>2
        <5>3. pos + (i - Len(fring)) = upos + i
          BY <3>2, <3>4, <2>2
        <5> QED BY <5>2, <5>3
      <4> QED BY <4>1, <4>2, <3>2
    <3>6. Len(fring') = Len(fring) + k
      BY <3>2, <3>3
    <3>7. pos' = upos' + Len(fring') /\ pos' <= Len(content')
      <4>1. pos + k <= Len(content) /\ pos + k = upos + (Len(fring) + k)
        BY <3>2, <3>4, <2>2, <2>3
      <4> QED BY ONLY <4>1, <3>3, <3>6
    <3>8. \A i \in 1 .. Len(fring') : fring'[i] = content'[upos' + i]
      BY ONLY <3>3, <3>5, <3>6
    <3> QED BY <3>7, <3>8 DEF AheadOfUser
  <2>6. task \in {"run", "looked"} /\ task' = task
    BY <1>1, <2>1
  <2> QED BY <1>1, <2>4, <2>5, <2>6, SameDoing DEF FiGood, FileTypes, FileAgrees, PollAgrees
<1> QED BY <1>2, <1>3 DEF Fi!TaskRead

LEMMA TaskWriteHolds == ASSUME FiGood, Fi!TaskWrite PROVE FiGood'
<1>1. /\ st = "write" /\ task = "run" /\ task' = task
      /\ UNCHANGED <<st, alive, target, read_pos, is_dirty, fdoing, fsaid, want, upos, writes>>
  BY DEF Fi!TaskWrite, Fi!Of
<1>2. PICK k \in 1 .. Len(fring) :
          /\ content' = Fi!Over(content, pos, SubSeq(fring, 1, k)) /\ pos' = pos + k
          /\ fring' = SubSeq(fring, k + 1, Len(fring))
  BY DEF Fi!TaskWrite
<1>3. /\ pos \in Nat /\ content \in Seq(Int) /\ fring \in Seq(Int) /\ Len(fring) \in Nat
      /\ Fi!Over(content, pos, fring) = want /\ pos + Len(fring) = upos /\ pos <= Len(content)
  BY <1>1, SameDoing DEF FiGood, FileTypes, FileAgrees
<1> DEFINE a == SubSeq(fring, 1, k)
           b == SubSeq(fring, k + 1, Len(fring))
<1>4. /\ a \in Seq(Int) /\ b \in Seq(Int) /\ Len(a) = k /\ Len(b) = Len(fring) - k /\ a \o b = fring
  <2>1. a \in Seq(Int) /\ b \in Seq(Int) /\ Len(a) = k /\ Len(b) = Len(fring) - k
    BY <1>3
  <2>2. /\ \A i \in 1 .. k : a[i] = fring[i]
        /\ \A i \in 1 .. Len(fring) - k : b[i] = fring[k + i]
    BY SMTT(60), <1>3
  <2> HIDE DEF a, b
  <2>0. k + (Len(fring) - k) = Len(fring)
    BY <1>3
  <2>3. /\ a \o b \in Seq(Int) /\ Len(a \o b) = Len(fring)
        /\ \A i \in 1 .. k : (a \o b)[i] = a[i]
        /\ \A i \in k + 1 .. Len(fring) : (a \o b)[i] = b[i - k]
    <3>1. /\ a \o b \in Seq(Int) /\ Len(a \o b) = Len(a) + Len(b)
          /\ \A i \in 1 .. Len(a) : (a \o b)[i] = a[i]
          /\ \A i \in Len(a) + 1 .. Len(a) + Len(b) : (a \o b)[i] = b[i - Len(a)]
      BY ONLY <2>1, BothAre
    <3>2. Len(a) = k /\ Len(a) + Len(b) = Len(fring)
      BY <2>1, <2>0
    <3> QED BY ONLY <3>1, <3>2
  <2>4. \A i \in k + 1 .. Len(fring) : i - k \in 1 .. Len(fring) - k /\ k + (i - k) = i
    BY <1>3
  <2>5. \A i \in 1 .. Len(fring) : i \in 1 .. k \/ i \in k + 1 .. Len(fring)
    BY <1>3
  <2>6. \A i \in 1 .. Len(fring) : (a \o b)[i] = fring[i]
    BY <2>2, <2>3, <2>4, <2>5
  <2> QED BY <1>3, <2>1, <2>3, <2>6, SameBytes
<1> HIDE DEF a, b
<1>5. content' = Fi!Over(content, pos, a) /\ fring' = b /\ pos' = pos + Len(a) /\ k \in Nat
  BY <1>2, <1>3, <1>4 DEF a, b
<1>6. Fi!Over(content', pos', fring') = want
  <2>1. Fi!Over(Fi!Over(content, pos, a), pos + Len(a), b) = Fi!Over(content, pos, a \o b)
    <3>1. a \in Seq(Int) /\ b \in Seq(Int)
      BY <1>4
    <3> QED BY ONLY <3>1, <1>3, OverTwice
  <2>2. Fi!Over(content', pos', fring') = Fi!Over(Fi!Over(content, pos, a), pos + Len(a), b)
    BY <1>5
  <2> QED BY <1>3, <1>4, <2>1, <2>2
<1>7. content' \in Seq(Int) /\ Len(content') = Longer(pos + Len(a), Len(content))
  BY <1>3, <1>4, <1>5, OverIs
<1>8. pos' <= Len(content') /\ pos' \in Nat /\ pos' + Len(fring') = upos /\ fring' \in Seq(Int)
  <2>1. pos + Len(a) \in Nat /\ pos + Len(a) + Len(b) = upos
    BY <1>3, <1>4, <1>5
  <2>2. pos + Len(a) <= Longer(pos + Len(a), Len(content))
    BY <2>1, <1>3 DEF Longer
  <2> QED BY <1>4, <1>5, <1>7, <2>1, <2>2
<1> QED BY <1>1, <1>6, <1>7, <1>8, SameDoing DEF FiGood, FileTypes, FileAgrees, PollAgrees

LEMMA TaskLookHolds == ASSUME FiGood, Fi!TaskLook PROVE FiGood'
BY SameDoing DEF FiGood, FileTypes, FileAgrees, PollAgrees, Fi!TaskLook, Fi!Of

LEMMA TaskClosedHolds == ASSUME FiGood, Fi!TaskClosed, ~adrift' PROVE FiGood'
BY SameDoing DEF FiGood, FileTypes, FileAgrees, PollAgrees, Fi!TaskClosed, Fi!Of

LEMMA TaskFailsHolds == ASSUME FiGood, Fi!TaskFails PROVE FiGood'
<1>1. /\ st \in {"read", "write"} /\ task \in {"run", "looked"} /\ task' = "failed"
      /\ UNCHANGED <<st, alive, fring, content, pos, target, read_pos, is_dirty, fdoing, fsaid, want, upos, writes>>
  BY DEF Fi!TaskFails, Fi!Of, Fi!Busy
<1>2. AheadOfUser' <=> AheadOfUser
  BY <1>1 DEF AheadOfUser
<1> QED BY <1>1, <1>2, SameDoing DEF FiGood, FileTypes, FileAgrees, PollAgrees

\* Where the poll stops the task.
LEMMA StopsOnlyIn ==
    ASSUME FileTypes, st \in Fi!Stops
    PROVE  /\ fdoing[2] \notin {"", "look", "clean"} /\ fdoing # Fi!Quiet
           /\ st # "idle"
<1>1. fdoing[2] \notin {"", "look", "clean"} /\ st # "idle"
  <2>1. CASE fdoing[2] \in {"", "look", "clean"}
    BY <2>1 DEF Fi!Stops
  <2>2. CASE fdoing[2] \notin {"", "look", "clean"} /\ st = "idle"
    <3>1. "idle" \notin Fi!Stops
      BY DEF Fi!Stops
    <3> QED BY <2>2, <3>1
  <2> QED BY <2>1, <2>2
<1>2. fdoing = Fi!Quiet => fdoing[2] = ""
  BY QuietIs
<1> QED BY <1>1, <1>2

LEMMA StopDropHolds == ASSUME FiGood, Fi!StopDrop PROVE FiGood'
<1>1. fdoing[2] # "look"
  BY StopsOnlyIn DEF FiGood, Fi!StopDrop
<1>2. /\ UNCHANGED <<st, task, fring, target, content, pos, read_pos, is_dirty, fdoing, fsaid, want, upos, writes>>
      /\ alive /\ alive' = FALSE
  BY DEF Fi!StopDrop, Fi!TheFile, Fi!TheUser
<1>4. FileTypes'
  BY <1>2, SameDoing DEF FiGood, FileTypes
<1>5. FileAgrees'
  BY <1>2 DEF FiGood, FileTypes, FileAgrees
<1>6. PollAgrees'
  BY <1>1, <1>2 DEF FiGood, FileTypes, PollAgrees
<1> QED BY <1>4, <1>5, <1>6 DEF FiGood

\* What the file is to the user stays when the poll returns, or reaches a phase
\* that asks nothing, and nothing else changes.
LEMMA SameAgrees ==
    ASSUME FiGood,
           UNCHANGED <<st, task, alive, fring, target, content, pos, read_pos, want, upos>>,
           is_dirty => is_dirty'
    PROVE  FileAgrees'
<1>1. AheadOfUser' <=> AheadOfUser
  BY DEF AheadOfUser
<1> QED BY <1>1, SameDoing DEF FiGood, FileTypes, FileAgrees

LEMMA StopPendingHolds == ASSUME FiGood, Fi!StopPending PROVE FiGood'
<1>1. /\ UNCHANGED <<st, task, alive, fring, target, content, pos, read_pos, is_dirty, want, upos, writes>>
      /\ Fi!Return("pending")
  BY DEF Fi!StopPending, Fi!TheFile, Fi!TheUser
<1>2. FileAgrees'
  BY <1>1, SameAgrees
<1>3. FileTypes'
  BY <1>1, ReturnIs DEF FiGood, FileTypes
<1>4. PollAgrees'
  BY <1>1, Returned
<1> QED BY <1>2, <1>3, <1>4 DEF FiGood

LEMMA StopDoneHolds == ASSUME FiGood, Fi!StopDone, ~adrift' PROVE FiGood'
<1>1. /\ st \in Fi!Stops /\ ~alive /\ task = "done" /\ st' = "idle" /\ fring' = <<>> /\ task' = "done" /\ target' = 0
      /\ UNCHANGED <<fdoing, fsaid, read_pos, alive, content, pos, is_dirty, want, upos, writes>>
  BY DEF Fi!StopDone, Fi!Busy, FiGood, FileTypes, Fi!TheFile, Fi!TheUser
<1>2. fdoing[2] # "look" /\ st # "idle"
  BY <1>1, StopsOnlyIn DEF FiGood
<1>3. content = want /\ (read_pos = Fi!Nowhere => pos = upos)
  <2>1. CASE st = "write"
    <3>1. /\ fring = <<>> /\ Fi!Over(content, pos, fring) = want /\ pos + Len(fring) = upos /\ pos <= Len(content)
          /\ content \in Seq(Int) /\ pos \in Nat
      BY <1>1, <2>1, SameDoing DEF FiGood, FileTypes, FileAgrees
    <3>2. Len(fring) = 0
      BY <3>1
    <3> QED BY <3>1, <3>2, OverNone
  <2>2. CASE st # "write"
    BY <1>1, <1>2, <2>2, SameDoing DEF FiGood, FileTypes, FileAgrees
  <2> QED BY <2>1, <2>2
<1>4. FileTypes'
  BY <1>1, SameDoing DEF FiGood, FileTypes
<1>5. FileAgrees'
  BY <1>1, <1>2, <1>3 DEF FiGood, FileTypes, FileAgrees
<1>6. PollAgrees'
  BY <1>1, <1>2 DEF FiGood, FileTypes, PollAgrees
<1> QED BY <1>4, <1>5, <1>6 DEF FiGood

-----------------------------------------------------------------------------
\* The steps of a seek, and of a start.
LEMMA SeekingHolds ==
    ASSUME FiGood, NEW to, NEW u, Fi!Seeking(to, u), fdoing # Fi!Quiet, fdoing[1] # "set_len",
           \/ to = Fi!Here /\ u = upos /\ read_pos = Fi!Nowhere
           \/ to = u /\ u \in 0 .. Len(want) /\ (read_pos # Fi!Nowhere => read_pos = u)
    PROVE  FiGood'
<1>1. /\ st = "idle" /\ st' = "seek" /\ task' = "run" /\ alive' = FALSE /\ fring' = <<>> /\ target' = to /\ upos' = u
      /\ UNCHANGED <<content, pos, read_pos, is_dirty, fdoing, fsaid, want, writes>>
  BY DEF Fi!Seeking, Fi!Start, Fi!TheFile
<1>2. fdoing[2] # "look" /\ fsaid = ""
  BY <1>1 DEF FiGood, PollAgrees
<1>3. to \in Int /\ u \in Nat /\ u <= Len(want)
  BY SameDoing DEF FiGood, FileTypes, FileAgrees, Fi!Here
<1>4. FileTypes'
  <2>1. fring' \in Seq(Int)
    BY <1>1
  <2>2. DoingTyped'
    BY <1>1, SameDoing DEF FiGood, FileTypes
  <2>3. alive' \in BOOLEAN
    BY <1>1
  <2>4. st' \in {"idle", "seek", "read", "write"}
    BY <1>1
  <2>5. pos' \in Nat /\ upos' \in Nat /\ target' \in Int /\ writes' \in Nat
    BY <1>1, <1>3 DEF FiGood, FileTypes
  <2>6. task' \in {"run", "looked", "done", "failed"}
    BY <1>1
  <2> QED BY <1>1, <2>1, <2>2, <2>3, <2>4, <2>5, <2>6 DEF FiGood, FileTypes
<1>5. FileAgrees'
  BY <1>1, <1>3, SameDoing DEF FiGood, FileTypes, FileAgrees
<1>6. PollAgrees'
  BY <1>1, <1>2, <1>3, SameDoing DEF FiGood, FileTypes, PollAgrees
<1> QED BY <1>4, <1>5, <1>6 DEF FiGood

\* A seek that has been made leaves the position where the user's is.
LEMMA SoughtIs ==
    ASSUME FiGood, Fi!Sought
    PROVE  /\ st' = "idle" /\ pos = upos /\ content = want /\ target' = 0
           /\ fdoing[2] # "look" /\ (target # Fi!Here => target = upos)
           /\ UNCHANGED <<task, alive, fring, content, pos, want, upos, writes>>
BY SameDoing DEF FiGood, FileTypes, FileAgrees, PollAgrees, Fi!Sought, Fi!TheFile, Fi!TheUser

LEMMA OtherSoughtHolds == ASSUME FiGood, NEW to, Fi!OtherSought(to) PROVE FiGood'
<1>1. Fi!Sought /\ UNCHANGED <<fdoing, fsaid, read_pos, is_dirty>>
  BY DEF Fi!OtherSought
<1>2. FileTypes'
  BY <1>1, SoughtIs, SameDoing DEF FiGood, FileTypes
<1>3. FileAgrees'
  BY <1>1, SoughtIs DEF FiGood, FileTypes, FileAgrees
<1>4. PollAgrees'
  BY <1>1, SoughtIs DEF FiGood, FileTypes, PollAgrees
<1> QED BY <1>2, <1>3, <1>4 DEF FiGood

LEMMA RepositionHolds ==
    ASSUME FiGood, NEW next \in {"to", "mark"}, Fi!Reposition(next), fdoing[1] \in {"seek", "write"}
    PROVE  FiGood'
<1>1. fdoing # Fi!Quiet /\ fdoing[1] # "set_len" /\ fdoing[2] = "reposition"
  BY QuietIs DEF Fi!Reposition
<1>2. CASE /\ read_pos < 0 /\ read_pos' = Fi!Nowhere /\ Fi!Phase(next)
           /\ UNCHANGED <<st, task, alive, fring, target, Fi!TheFile, is_dirty, Fi!TheUser, adrift, shut>>
  <2>1. read_pos = Fi!Nowhere
    BY <1>2, SameDoing DEF FiGood, FileTypes
  <2>2. UNCHANGED <<st, task, alive, fring, target, content, pos, read_pos, is_dirty, want, upos, writes>>
    BY <1>2, <2>1 DEF Fi!TheFile, Fi!TheUser
  <2>3. FileAgrees'
    BY <2>2, SameAgrees
  <2> QED BY <1>1, <1>2, <2>1, <2>2, <2>3, PhaseIs DEF FiGood, FileTypes, PollAgrees
<1>3. CASE read_pos >= 0 /\ Fi!Seeking(read_pos, upos)
  <2>1. read_pos = upos /\ upos \in 0 .. Len(want)
    BY <1>3, SameDoing DEF FiGood, FileTypes, FileAgrees, Fi!Nowhere
  <2> QED BY <1>1, <1>3, <2>1, SeekingHolds
<1>4. CASE read_pos >= 0 /\ Fi!OtherSought(read_pos)
  BY <1>4, OtherSoughtHolds
<1>5. CASE read_pos >= 0 /\ Fi!Sought /\ target = read_pos /\ read_pos' = Fi!Nowhere /\ Fi!Phase(next) /\ UNCHANGED is_dirty
  <2>1. FileTypes' /\ FileAgrees'
    BY <1>5, SoughtIs, PhaseIs DEF FiGood, FileTypes, FileAgrees
  <2>2. PollAgrees'
    BY <1>1, <1>5, SoughtIs, PhaseIs DEF FiGood, FileTypes, PollAgrees
  <2> QED BY <2>1, <2>2 DEF FiGood
<1> QED BY <1>2, <1>3, <1>4, <1>5 DEF Fi!Reposition

\* The steps of poll_read.
LEMMA CallIs ==
    ASSUME FiGood, NEW c, NEW p, NEW n, Fi!CallWith(c, p, n)
    PROVE  /\ fdoing = Fi!Quiet /\ DoingTyped' /\ fdoing'[1] = c /\ fdoing'[2] = p /\ fdoing'[3] = n /\ fsaid' = ""
           /\ UNCHANGED <<st, task, alive, fring, target, content, pos, read_pos, is_dirty, want, upos, writes>>
           /\ FileTypes' /\ FileAgrees'
<1>1. /\ fdoing = Fi!Quiet /\ fdoing' = <<c, p, n>> /\ fsaid' = ""
      /\ UNCHANGED <<st, task, alive, fring, target, content, pos, read_pos, is_dirty, want, upos, writes>>
  BY DEF Fi!CallWith, Fi!TheFile, Fi!TheUser
<1>2. fdoing'[1] = c /\ fdoing'[2] = p /\ fdoing'[3] = n
  BY <1>1
<1>3. DoingTyped'
  BY <1>1 DEF DoingTyped
<1>4. FileTypes'
  BY <1>1, <1>3 DEF FiGood, FileTypes
<1>5. FileAgrees'
  BY <1>1, SameAgrees
<1> QED BY <1>1, <1>2, <1>3, <1>4, <1>5

LEMMA StartReadHolds ==
    ASSUME FiGood, Fi!On("read", "read"), Fi!Start("read", TRUE), UNCHANGED <<target, Fi!TheUser>>, ~adrift'
    PROVE  FiGood'
<1>1. /\ st = "idle" /\ st' = "read" /\ task' = "run" /\ alive' = TRUE /\ fring' = <<>>
      /\ UNCHANGED <<content, pos, read_pos, is_dirty, fdoing, fsaid, want, upos, writes, target>>
      /\ ~(read_pos >= 0 /\ read_pos # pos) /\ fdoing[2] = "read"
  BY DEF Fi!Start, Fi!TheFile, Fi!TheUser, Fi!On
<1>2. read_pos # Fi!Nowhere /\ read_pos \in Nat /\ read_pos = upos /\ pos = upos /\ content = want /\ upos <= Len(want) /\ fsaid = ""
  <2>1. fdoing # Fi!Quiet
    BY <1>1, QuietIs
  <2>2. read_pos # Fi!Nowhere /\ fsaid = ""
    BY <1>1, <2>1 DEF FiGood, PollAgrees
  <2>3. read_pos \in Nat /\ read_pos = upos /\ content = want /\ upos <= Len(want)
    BY <1>1, <2>2 DEF FiGood, FileTypes, FileAgrees
  <2>4. pos = upos
    BY <1>1, <2>3
  <2> QED BY <2>2, <2>3, <2>4
<1>3. AheadOfUser'
  <2>1. Len(fring') = 0 /\ 1 .. Len(fring') = {}
    BY <1>1
  <2>2. pos' = upos' + 0 /\ pos' <= Len(content')
    <3>1. pos' = pos /\ upos' = upos /\ content' = content
      BY <1>1
    <3>2. pos = upos + 0 /\ pos <= Len(content)
      <4>1. pos \in Nat /\ content = want /\ pos = upos /\ upos <= Len(want)
        BY <1>2
      <4>2. pos = upos + 0
        BY <4>1
      <4>3. pos <= Len(content)
        BY <4>1
      <4> QED BY <4>2, <4>3
    <3> QED BY ONLY <3>1, <3>2
  <2> QED BY <2>1, <2>2 DEF AheadOfUser
<1>4. FileTypes'
  <2>1. fring' \in Seq(Int) /\ DoingTyped'
    BY <1>1, SameDoing DEF FiGood, FileTypes
  <2> QED BY <1>1, <2>1 DEF FiGood, FileTypes
<1>5. FileAgrees'
  BY <1>1, <1>2, <1>3 DEF FiGood, FileTypes, FileAgrees
<1>6. PollAgrees'
  BY <1>1, <1>2 DEF FiGood, FileTypes, PollAgrees
<1> QED BY <1>4, <1>5, <1>6 DEF FiGood

LEMMA PollReadHolds == ASSUME FiGood, Fi!PollRead, ~adrift' PROVE FiGood'
<1>1. CASE Fi!Call("read", IF read_pos = Fi!Nowhere THEN "here" ELSE "read")
  <2> DEFINE p == IF read_pos = Fi!Nowhere THEN "here" ELSE "read"
  <2>1. /\ FileTypes' /\ FileAgrees' /\ fdoing'[1] = "read" /\ fdoing'[2] = p /\ fsaid' = ""
        /\ UNCHANGED <<st, alive, read_pos, is_dirty, want, upos>>
    BY <1>1, CallIs DEF Fi!Call
  <2>2. PollAgrees'
    BY <2>1 DEF PollAgrees
  <2> QED BY <2>1, <2>2 DEF FiGood
<1>2. CASE Fi!On("read", "here") /\ (Fi!Seeking(Fi!Here, upos) \/ Fi!OtherSought(Fi!Here))
  <2>1. fdoing # Fi!Quiet /\ fdoing[1] = "read" /\ fdoing[2] = "here"
    BY <1>2, QuietIs DEF Fi!On
  <2>2. read_pos = Fi!Nowhere
    BY <2>1 DEF FiGood, PollAgrees
  <2> QED BY <1>2, <2>1, <2>2, SeekingHolds, OtherSoughtHolds
<1>3. CASE /\ Fi!On("read", "here") /\ Fi!Sought /\ target = Fi!Here /\ read_pos' = pos /\ Fi!Phase("read")
           /\ UNCHANGED is_dirty
  <2>1. /\ st' = "idle" /\ pos = upos /\ content = want /\ target' = 0
        /\ UNCHANGED <<task, alive, fring, content, pos, want, upos, writes, is_dirty>>
    BY <1>3, SoughtIs
  <2>2. fdoing'[1] = "read" /\ fdoing'[2] = "read" /\ DoingTyped' /\ fsaid' = fsaid
    BY <1>3, PhaseIs DEF FiGood, Fi!On
  <2>3. fsaid = "" /\ pos \in Nat
    BY <1>3, QuietIs DEF FiGood, PollAgrees, FileTypes, Fi!On
  <2>0. read_pos' = pos /\ read_pos' \in Nat
    BY <1>3, <2>3
  <2>4. FileTypes'
    BY <2>0, <2>1, <2>2 DEF FiGood, FileTypes
  <2>5. FileAgrees'
    BY <2>0, <2>1 DEF FiGood, FileTypes, FileAgrees
  <2>6. PollAgrees'
    <3>1. read_pos' # Fi!Nowhere
      BY <2>0 DEF Fi!Nowhere
    <3> QED BY <3>1, <2>1, <2>2, <2>3 DEF PollAgrees
  <2> QED BY <2>4, <2>5, <2>6 DEF FiGood
<1>4. CASE Fi!On("read", "read") /\ Fi!Start("read", TRUE) /\ UNCHANGED <<target, Fi!TheUser>>
  BY <1>4, StartReadHolds
<1> QED BY <1>1, <1>2, <1>3, <1>4 DEF Fi!PollRead

\* A read takes what is in the pipe: the bytes at the user's position.
LEMMA ReadSomeHolds == ASSUME FiGood, Fi!ReadSome PROVE FiGood'
<1>1. /\ st = "read" /\ alive /\ fdoing[2] = "read"
      /\ UNCHANGED <<st, task, alive, target, content, pos, is_dirty, want, writes>>
  BY DEF Fi!ReadSome, Fi!Reading, Fi!On, Fi!TheFile
<1>2. PICK k \in 1 .. Len(fring) :
          /\ fring' = SubSeq(fring, k + 1, Len(fring)) /\ upos' = upos + k
          /\ read_pos' = (IF read_pos >= 0 THEN read_pos + k ELSE read_pos)
          /\ Fi!Return(IF SubSeq(fring, 1, k) = Fi!From(want, upos, k) THEN "read" ELSE "misread")
  BY DEF Fi!ReadSome
<1>3. /\ content \in Seq(Int) /\ fring \in Seq(Int) /\ pos \in Nat /\ upos \in Nat /\ Len(fring) \in Nat /\ Len(content) \in Nat
      /\ content = want /\ read_pos = upos /\ read_pos \in Nat /\ pos = upos + Len(fring) /\ pos <= Len(content)
      /\ task = "done" => pos >= Len(content)
      /\ \A i \in 1 .. Len(fring) : fring[i] = content[upos + i]
  <2>1. content \in Seq(Int) /\ fring \in Seq(Int) /\ pos \in Nat /\ upos \in Nat
    BY DEF FiGood, FileTypes
  <2>2. AheadOfUser /\ content = want /\ (task = "done" => pos >= Len(content)) /\ read_pos = upos
    BY <1>1 DEF FiGood, FileAgrees
  <2> QED BY <2>1, <2>2 DEF AheadOfUser
<1>4. SubSeq(fring, 1, k) = Fi!From(want, upos, k)
  <2>1. /\ SubSeq(fring, 0 + 1, k) \in Seq(Int) /\ Len(SubSeq(fring, 0 + 1, k)) = k - 0
        /\ \A i \in 1 .. k - 0 : SubSeq(fring, 0 + 1, k)[i] = fring[0 + i]
    <3>1. 0 \in Nat /\ k \in Nat /\ 0 <= k /\ k <= Len(fring)
      BY <1>3
    <3> QED BY ONLY SMTT(60), <3>1, <1>3, PartIs
  <2>2. 0 + 1 = 1 /\ k - 0 = k /\ \A i \in 1 .. k : 0 + i = i /\ i \in 1 .. Len(fring)
    BY <1>3
  <2> DEFINE a == SubSeq(fring, 1, k)
             b == Fi!From(want, upos, k)
  <2>3. a \in Seq(Int) /\ Len(a) = k /\ \A i \in 1 .. k : a[i] = fring[i]
    BY <2>1, <2>2
  <2>4. \A i \in 1 .. k : upos + i \in 1 .. Len(want) /\ want[upos + i] \in Int /\ want[upos + i] = fring[i]
    <3>1. \A i \in 1 .. k : upos + i \in 1 .. Len(content) /\ i \in 1 .. Len(fring)
      BY SMTT(60), <1>3
    <3>2. \A j \in 1 .. Len(want) : want[j] \in Int
      BY <1>3
    <3>3. \A i \in 1 .. k : fring[i] = want[upos + i]
      BY <3>1, <1>3
    <3> QED BY ONLY <3>1, <3>2, <3>3, <1>3
  <2>5. b = [i \in 1 .. k |-> IF upos + i <= Len(want) THEN want[upos + i] ELSE 0]
    BY DEF Fi!From, Fi!Byte
  <2>6. b = [i \in 1 .. k |-> want[upos + i]]
    BY <2>4, <2>5
  <2>7. b \in Seq(Int) /\ Len(b) = k /\ \A i \in 1 .. k : b[i] = want[upos + i]
    <3>1. \A i \in 1 .. k : want[upos + i] \in Int
      BY <2>4
    <3>2. k \in Nat
      BY <1>3
    <3> QED BY ONLY <3>1, <3>2, <2>6
  <2> HIDE DEF a, b
  <2>8. a = b
    BY <2>3, <2>4, <2>7, SameBytes
  <2> QED BY <2>8 DEF a, b
<1>5. Fi!Return("read")
  BY <1>2, <1>4
<1>6. /\ fring' \in Seq(Int) /\ Len(fring') = Len(fring) - k
      /\ \A i \in 1 .. Len(fring) - k : fring'[i] = fring[k + i]
  <2>1. k \in Nat /\ k <= Len(fring) /\ Len(fring) <= Len(fring)
    BY <1>3
  <2>2. /\ SubSeq(fring, k + 1, Len(fring)) \in Seq(Int) /\ Len(SubSeq(fring, k + 1, Len(fring))) = Len(fring) - k
        /\ \A i \in 1 .. Len(fring) - k : SubSeq(fring, k + 1, Len(fring))[i] = fring[k + i]
    <3>1. fring \in Seq(Int) /\ Len(fring) \in Nat
      BY <1>3
    <3> QED BY ONLY <2>1, <3>1, PartIs
  <2> QED BY <2>2, <1>2
<1>7. upos' \in Nat /\ read_pos' = upos' /\ pos' = upos' + Len(fring') /\ pos' <= Len(content') /\ upos' <= Len(want')
  <2>1. k \in Nat /\ k <= Len(fring)
    BY <1>3
  <2>2. upos' = upos + k /\ read_pos' = read_pos + k
    BY <1>2, <1>3
  <2>3. upos + k \in Nat /\ pos = upos + k + (Len(fring) - k) /\ upos + k <= Len(content)
    BY <2>1, <1>3
  <2>4. pos' = pos /\ content' = content /\ want' = want
    BY <1>1
  <2> QED BY <2>2, <2>3, <2>4, <1>3, <1>6
<1>8. AheadOfUser'
  <2>1. \A i \in 1 .. Len(fring) - k : k + i \in 1 .. Len(fring) /\ upos + (k + i) = (upos + k) + i
    BY <1>3
  <2>2. \A i \in 1 .. Len(fring') : fring'[i] = content'[upos' + i]
    BY <2>1, <1>1, <1>2, <1>3, <1>6
  <2> QED BY <2>2, <1>7 DEF AheadOfUser
<1>9. FileTypes'
  BY <1>1, <1>5, <1>6, <1>7, ReturnIs DEF FiGood, FileTypes
<1>10. FileAgrees'
  <2>1. read_pos' # Fi!Nowhere
    BY <1>7 DEF Fi!Nowhere
  <2>2. task' = "done" => pos' >= Len(content')
    BY <1>1, <1>3
  <2> QED BY <2>1, <2>2, <1>1, <1>3, <1>7, <1>8 DEF FileAgrees
<1>11. PollAgrees'
  BY <1>5, Returned
<1> QED BY <1>9, <1>10, <1>11 DEF FiGood

LEMMA ReadLookHolds == ASSUME FiGood, Fi!ReadLook PROVE FiGood'
<1>1. /\ st = "read" /\ alive /\ fdoing[1] = "read" /\ fdoing[2] = "read" /\ Fi!Phase("look")
      /\ UNCHANGED <<st, task, alive, fring, target, content, pos, read_pos, is_dirty, want, upos, writes>>
  BY DEF Fi!ReadLook, Fi!Reading, Fi!On, Fi!TheFile, Fi!TheUser
<1>2. DoingTyped' /\ fdoing'[1] = "read" /\ fdoing'[2] = "look" /\ fsaid' = fsaid
  BY <1>1, PhaseIs DEF FiGood
<1>3. fsaid = ""
  BY <1>1, QuietIs DEF FiGood, PollAgrees
<1>4. FileTypes'
  BY <1>1, <1>2 DEF FiGood, FileTypes
<1>5. FileAgrees'
  BY <1>1, SameAgrees
<1>6. PollAgrees'
  BY <1>1, <1>2, <1>3 DEF PollAgrees
<1> QED BY <1>4, <1>5, <1>6 DEF FiGood

\* It says the end only when the task is done, and then at the end.
LEMMA ReadClosedHolds == ASSUME FiGood, Fi!ReadClosed, ~adrift' PROVE FiGood'
<1>1. st = "read" /\ alive /\ UNCHANGED <<target, content, pos, read_pos, is_dirty, want, upos, writes>>
  BY DEF FiGood, PollAgrees, Fi!ReadClosed, Fi!On, Fi!TheFile, Fi!TheUser
<1>2. CASE Fi!Busy /\ Fi!Return("pending") /\ UNCHANGED <<st, task, alive, fring, adrift>>
  <2>1. FileTypes'
    BY <1>1, <1>2, ReturnIs DEF FiGood, FileTypes
  <2>2. FileAgrees'
    BY <1>1, <1>2, SameAgrees
  <2>3. PollAgrees'
    BY <1>2, Returned
  <2> QED BY <2>1, <2>2, <2>3 DEF FiGood
<1>3. CASE /\ ~Fi!Busy /\ st' = "idle" /\ alive' = FALSE /\ task' = "done" /\ fring' = <<>>
           /\ adrift' = (fring # <<>> \/ task = "failed") /\ Fi!Return(IF task = "failed" THEN "err" ELSE "eof")
  <2>1. fring = <<>> /\ task = "done" /\ Fi!Return("eof")
    BY <1>3 DEF FiGood, FileTypes, Fi!Busy
  <2>2. AheadOfUser /\ pos >= Len(content) /\ content = want /\ read_pos # Fi!Nowhere
    BY <1>1, <2>1 DEF FiGood, FileAgrees
  <2>3. Len(fring) = 0 /\ pos \in Nat /\ upos \in Nat
    BY <2>1 DEF FiGood, FileTypes
  <2>4. upos = pos
    BY <2>2, <2>3 DEF AheadOfUser
  <2>5. upos' >= Len(want')
    BY <1>1, <2>2, <2>4
  <2>6. FileTypes'
    <3>1. fring' \in Seq(Int)
      BY <1>3
    <3> QED BY <3>1, <1>1, <1>3, <2>1, ReturnIs DEF FiGood, FileTypes
  <2>7. FileAgrees'
    BY <1>1, <1>3, <2>2 DEF FiGood, FileAgrees
  <2>8. PollAgrees'
    BY <2>1, <2>5, Returned
  <2> QED BY <2>6, <2>7, <2>8 DEF FiGood
<1> QED BY <1>2, <1>3 DEF Fi!ReadClosed

\* The steps of poll_write.
LEMMA StartWriteHolds ==
    ASSUME FiGood, Fi!On("write", "write"), Fi!Start("write", TRUE), UNCHANGED <<target, Fi!TheUser>>
    PROVE  FiGood'
<1>1. /\ st = "idle" /\ st' = "write" /\ task' = "run" /\ alive' = TRUE /\ fring' = <<>>
      /\ UNCHANGED <<content, pos, read_pos, is_dirty, fdoing, fsaid, want, upos, writes, target>> /\ fdoing[2] = "write"
  BY DEF Fi!Start, Fi!TheFile, Fi!TheUser, Fi!On
<1>2. fdoing # Fi!Quiet
  BY <1>1, QuietIs
<1>3. read_pos = Fi!Nowhere /\ is_dirty /\ fsaid = ""
  BY <1>1, <1>2 DEF FiGood, PollAgrees
<1>4. pos = upos /\ content = want /\ upos <= Len(want)
  BY <1>1, <1>3 DEF FiGood, FileAgrees
<1>5. content \in Seq(Int) /\ want \in Seq(Int) /\ pos \in Nat /\ pos <= Len(content)
  <2>1. content \in Seq(Int) /\ want \in Seq(Int) /\ pos \in Nat
    BY DEF FiGood, FileTypes
  <2> QED BY <1>4, <2>1
<1>6. Fi!Over(content', pos', fring') = want' /\ pos' + Len(fring') = upos' /\ pos' <= Len(content')
  <2>1. Fi!Over(content, pos, <<>>) = content
    BY <1>5, OverNone
  <2>2. fring' = <<>> /\ Len(fring') = 0 /\ pos' = pos /\ content' = content /\ want' = want /\ upos' = upos
    BY <1>1
  <2>3. pos + 0 = pos
    BY <1>5
  <2> QED BY <1>4, <1>5, <2>1, <2>2, <2>3
<1>7. FileTypes'
  <2>1. fring' \in Seq(Int) /\ DoingTyped'
    BY <1>1, SameDoing DEF FiGood, FileTypes
  <2> QED BY <1>1, <2>1 DEF FiGood, FileTypes
<1>8. FileAgrees'
  BY <1>1, <1>3, <1>4, <1>6 DEF FileAgrees
<1>9. PollAgrees'
  BY <1>1, <1>3 DEF FiGood, PollAgrees
<1> QED BY <1>7, <1>8, <1>9 DEF FiGood

LEMMA PollWriteHolds == ASSUME FiGood, Fi!PollWrite PROVE FiGood'
<1>1. CASE Fi!Call("write", "reposition")
  <2>1. /\ FileTypes' /\ FileAgrees' /\ fdoing'[1] = "write" /\ fdoing'[2] = "reposition" /\ fsaid' = ""
    BY <1>1, CallIs DEF Fi!Call
  <2>2. PollAgrees'
    BY <2>1 DEF PollAgrees
  <2> QED BY <2>1, <2>2 DEF FiGood
<1>2. CASE fdoing[1] = "write" /\ Fi!Reposition("mark")
  BY <1>2, RepositionHolds
<1>3. CASE /\ Fi!On("write", "mark") /\ is_dirty' = TRUE /\ Fi!Phase("write")
           /\ UNCHANGED <<st, task, alive, fring, target, Fi!TheFile, read_pos, Fi!TheUser, adrift, shut>>
  <2>1. /\ UNCHANGED <<st, task, alive, fring, target, content, pos, read_pos, want, upos, writes>>
        /\ is_dirty' = TRUE /\ fdoing[1] = "write" /\ fdoing[2] = "mark"
    BY <1>3 DEF Fi!TheFile, Fi!TheUser, Fi!On
  <2>2. DoingTyped' /\ fdoing'[1] = "write" /\ fdoing'[2] = "write" /\ fsaid' = fsaid
    BY <1>3, <2>1, PhaseIs DEF FiGood
  <2>3. read_pos = Fi!Nowhere /\ fsaid = ""
    BY <2>1, QuietIs DEF FiGood, PollAgrees
  <2>4. FileTypes'
    BY <2>1, <2>2 DEF FiGood, FileTypes
  <2>5. FileAgrees'
    BY <2>1, SameAgrees
  <2>6. PollAgrees'
    BY <2>1, <2>2, <2>3 DEF PollAgrees
  <2> QED BY <2>4, <2>5, <2>6 DEF FiGood
<1>4. CASE Fi!On("write", "write") /\ Fi!Start("write", TRUE) /\ UNCHANGED <<target, Fi!TheUser>>
  BY <1>4, StartWriteHolds
<1> QED BY <1>1, <1>2, <1>3, <1>4 DEF Fi!PollWrite

\* What is written waits in the pipe, behind what already does.
LEMMA WriteSomeHolds == ASSUME FiGood, Fi!WriteSome PROVE FiGood'
<1>1. /\ st = "write" /\ alive /\ Fi!Return("written")
      /\ UNCHANGED <<st, task, alive, target, content, pos, read_pos, is_dirty>>
  BY DEF Fi!WriteSome, Fi!Filling, Fi!On, Fi!TheFile
<1>2. PICK k \in 1 .. Fi!Least(Ahead - Len(fring), MaxCalls - writes) :
          LET s == [i \in 1 .. k |-> 10 + writes + i] IN
          /\ fring' = fring \o s /\ want' = Fi!Over(want, upos, s) /\ upos' = upos + k /\ writes' = writes + k
  BY DEF Fi!WriteSome
<1> DEFINE s == [i \in 1 .. k |-> 10 + writes + i]
<1>3. /\ content \in Seq(Int) /\ fring \in Seq(Int) /\ want \in Seq(Int) /\ pos \in Nat /\ upos \in Nat /\ writes \in Nat
      /\ Fi!Over(content, pos, fring) = want /\ pos + Len(fring) = upos /\ pos <= Len(content) /\ read_pos = Fi!Nowhere /\ is_dirty
      /\ task # "done" /\ upos <= Len(want)
  <2>1. content \in Seq(Int) /\ fring \in Seq(Int) /\ want \in Seq(Int) /\ pos \in Nat /\ upos \in Nat /\ writes \in Nat
    BY DEF FiGood, FileTypes
  <2> QED BY <1>1, <2>1 DEF FiGood, FileAgrees
<1>4. k \in Nat
  <2>1. Ahead - Len(fring) \in Int /\ MaxCalls - writes \in Int
    BY <1>3, IoAssumption
  <2> QED BY <2>1 DEF Fi!Least
<1>5. s \in Seq(Int) /\ Len(s) = k
  <2>1. \A i \in 1 .. k : 10 + writes + i \in Int
    BY <1>3
  <2> QED BY ONLY <2>1, <1>4
<1>6. fring' = fring \o s /\ want' = Fi!Over(want, upos, s) /\ upos' = upos + k /\ writes' = writes + k
  BY <1>2
<1> HIDE DEF s
<1>7. fring' \in Seq(Int) /\ Len(fring') = Len(fring) + Len(s)
  BY <1>3, <1>5, <1>6, BothAre
<1>8. want' \in Seq(Int) /\ upos' <= Len(want') /\ upos' \in Nat /\ writes' \in Nat
  <2>1. Fi!Over(want, upos, s) \in Seq(Int) /\ Len(Fi!Over(want, upos, s)) = Longer(upos + Len(s), Len(want))
    BY ONLY <1>3, <1>5, OverIs
  <2>2. upos + k <= Longer(upos + k, Len(want)) /\ upos + k \in Nat
    BY <1>3, <1>4 DEF Longer
  <2> QED BY <1>3, <1>4, <1>5, <1>6, <2>1, <2>2
<1>9. Fi!Over(content', pos', fring') = want' /\ pos' + Len(fring') = upos'
  <2>1. Fi!Over(Fi!Over(content, pos, fring), pos + Len(fring), s) = Fi!Over(content, pos, fring \o s)
    BY ONLY <1>3, <1>5, OverTwice
  <2>2. content' = content /\ pos' = pos
    BY <1>1
  <2>3. Fi!Over(content', pos', fring') = want'
    BY ONLY <2>1, <2>2, <1>3, <1>6
  <2>4. pos' + Len(fring') = upos'
    <3>1. Len(fring') = Len(fring) + k /\ upos' = upos + k
      BY <1>5, <1>6, <1>7
    <3>2. Len(fring) \in Nat /\ pos + (Len(fring) + k) = upos + k
      <4>1. Len(fring) \in Nat /\ pos \in Nat /\ pos + Len(fring) = upos
        BY <1>3
      <4> QED BY ONLY <4>1, <1>4
    <3> QED BY <2>2, <3>1, <3>2
  <2> QED BY <2>3, <2>4
<1>10. FileTypes'
  BY <1>1, <1>3, <1>7, <1>8, ReturnIs DEF FiGood, FileTypes
<1>11. FileAgrees'
  <2>1. pos' <= Len(content')
    BY <1>1, <1>3
  <2> QED BY <2>1, <1>1, <1>3, <1>8, <1>9 DEF FileAgrees
<1>12. PollAgrees'
  BY <1>1, Returned
<1> QED BY <1>10, <1>11, <1>12 DEF FiGood

LEMMA WriteNoneHolds == ASSUME FiGood, Fi!WriteNone PROVE FiGood'
<1>1. /\ UNCHANGED <<st, task, alive, fring, target, content, pos, read_pos, is_dirty, want, upos, writes>>
      /\ \E r \in {"none", "pending"} : Fi!Return(r)
  BY DEF Fi!WriteNone, Fi!TheFile, Fi!TheUser
<1>2. PICK r \in {"none", "pending"} : Fi!Return(r)
  BY <1>1
<1>3. FileTypes'
  BY <1>1, <1>2, ReturnIs DEF FiGood, FileTypes
<1>4. FileAgrees'
  BY <1>1, SameAgrees
<1>5. PollAgrees'
  BY <1>2, Returned
<1> QED BY <1>3, <1>4, <1>5 DEF FiGood

-----------------------------------------------------------------------------
\* The steps of poll_seek, and of what flushes.
LEMMA PollSeekHolds == ASSUME FiGood, Fi!PollSeek PROVE FiGood'
<1>1. CASE \E n \in 0 .. Len(want) : Fi!CallWith("seek", "reposition", n)
  <2>1. PICK n \in 0 .. Len(want) : Fi!CallWith("seek", "reposition", n)
    BY <1>1
  <2>2. /\ FileTypes' /\ FileAgrees' /\ fdoing'[1] = "seek" /\ fdoing'[2] = "reposition" /\ fdoing'[3] = n /\ fsaid' = ""
        /\ want' = want
    BY <2>1, CallIs
  <2>3. PollAgrees'
    BY <2>2 DEF PollAgrees
  <2> QED BY <2>2, <2>3 DEF FiGood
<1>2. CASE fdoing[1] = "seek" /\ Fi!Reposition("to")
  BY <1>2, RepositionHolds
<1>3. CASE Fi!On("seek", "to") /\ (Fi!Seeking(fdoing[3], fdoing[3]) \/ Fi!OtherSought(fdoing[3]))
  <2>1. fdoing # Fi!Quiet /\ fdoing[1] = "seek" /\ fdoing[2] = "to"
    BY <1>3, QuietIs DEF Fi!On
  <2>2. read_pos = Fi!Nowhere /\ fdoing[3] \in 0 .. Len(want)
    BY <2>1 DEF FiGood, PollAgrees
  <2> QED BY <1>3, <2>1, <2>2, SeekingHolds, OtherSoughtHolds
<1>4. CASE Fi!On("seek", "to") /\ Fi!Sought /\ target = fdoing[3] /\ Fi!Return("sought") /\ UNCHANGED <<read_pos, is_dirty>>
  <2>1. /\ st' = "idle" /\ pos = upos /\ content = want /\ target' = 0
        /\ UNCHANGED <<task, alive, fring, content, pos, want, upos, writes, is_dirty, read_pos>>
    BY <1>4, SoughtIs
  <2>2. FileTypes'
    <3>1. DoingTyped'
      BY <1>4, ReturnIs
    <3>2. target' \in Int /\ st' \in {"idle", "seek", "read", "write"}
      BY <2>1
    <3> QED BY <2>1, <3>1, <3>2 DEF FiGood, FileTypes
  <2>3. FileAgrees'
    BY <2>1 DEF FiGood, FileAgrees
  <2>4. PollAgrees'
    BY <1>4, Returned
  <2> QED BY <2>2, <2>3, <2>4 DEF FiGood
<1> QED BY <1>1, <1>2, <1>3, <1>4 DEF Fi!PollSeek

LEMMA PollFlushHolds == ASSUME FiGood, Fi!PollFlush PROVE FiGood'
<1>1. ASSUME NEW c \in {"flush", "close", "sync"}, NEW p \in {"flush", "clean"}, Fi!Call(c, p), p = "clean" => ~is_dirty
      PROVE  FiGood'
  <2>1. FileTypes' /\ FileAgrees' /\ fdoing'[1] = c /\ fdoing'[2] = p /\ fsaid' = "" /\ is_dirty' = is_dirty
    BY <1>1, CallIs DEF Fi!Call
  <2>2. PollAgrees'
    BY <1>1, <2>1 DEF PollAgrees
  <2> QED BY <2>1, <2>2 DEF FiGood
<1>2. ASSUME NEW n \in upos .. MaxFile, Fi!CallWith("set_len", "flush", n) PROVE FiGood'
  <2>1. FileTypes' /\ FileAgrees' /\ fdoing'[1] = "set_len" /\ fdoing'[2] = "flush" /\ fdoing'[3] = n /\ fsaid' = "" /\ upos' = upos
    BY <1>2, CallIs
  <2>2. n \in Nat /\ upos <= n
    BY IoAssumption DEF FiGood, FileTypes
  <2>3. PollAgrees'
    BY <2>1, <2>2 DEF PollAgrees
  <2> QED BY <2>1, <2>3 DEF FiGood
<1>3. CASE Fi!Call("flush", IF is_dirty THEN "flush" ELSE "clean")
  <2>1. CASE is_dirty
    BY <1>1, <1>3, <2>1
  <2>2. CASE ~is_dirty
    BY <1>1, <1>3, <2>2
  <2> QED BY <2>1, <2>2
<1> QED BY <1>1, <1>2, <1>3 DEF Fi!PollFlush

LEMMA FlushedHolds == ASSUME FiGood, Fi!Flushed PROVE FiGood'
<1>1. Fi!Return("flushed") /\ UNCHANGED <<st, task, alive, fring, target, pos, read_pos, upos, writes, adrift>>
  BY DEF Fi!Flushed
<1>2. CASE fdoing[2] = "clean" /\ UNCHANGED <<content, want, is_dirty, shut>>
  <2>1. st # "write"
    BY <1>2 DEF FiGood, FileAgrees, PollAgrees
  <2>2. FileTypes'
    BY <1>1, <1>2, ReturnIs DEF FiGood, FileTypes
  <2>3. FileAgrees'
    BY <1>1, <1>2, SameAgrees
  <2>4. PollAgrees'
    BY <1>1, <2>1, Returned
  <2> QED BY <2>2, <2>3, <2>4 DEF FiGood
<1>3. CASE /\ fdoing[2] = "flush" /\ st = "idle"
           /\ is_dirty' = (fdoing[1] # "flush" /\ is_dirty) /\ shut' = (fdoing[1] = "close")
           /\ IF fdoing[1] = "set_len" THEN content' = Fi!Cut(content, fdoing[3]) /\ want' = Fi!Cut(want, fdoing[3])
              ELSE UNCHANGED <<content, want>>
  <2>1. content = want /\ upos <= Len(want) /\ content \in Seq(Int) /\ want \in Seq(Int) /\ upos \in Nat
    BY <1>3 DEF FiGood, FileAgrees, FileTypes
  <2>2. content' = want' /\ content' \in Seq(Int) /\ want' \in Seq(Int) /\ upos <= Len(want')
    <3>1. CASE fdoing[1] = "set_len"
      <4>1. fdoing[3] \in Nat /\ upos <= fdoing[3]
        BY <3>1 DEF FiGood, PollAgrees
      <4>2. Fi!Cut(want, fdoing[3]) \in Seq(Int) /\ Len(Fi!Cut(want, fdoing[3])) = fdoing[3]
        BY <4>1, <2>1, CutIs
      <4>3. content' = Fi!Cut(want, fdoing[3]) /\ want' = Fi!Cut(want, fdoing[3])
        BY <1>3, <3>1, <2>1
      <4> QED BY <4>1, <4>2, <4>3
    <3>2. CASE fdoing[1] # "set_len"
      BY <1>3, <3>2, <2>1
    <3> QED BY <3>1, <3>2
  <2>3. is_dirty' \in BOOLEAN
    BY <1>3
  <2>4. FileTypes'
    BY <1>1, <2>2, <2>3, ReturnIs DEF FiGood, FileTypes
  <2>5. FileAgrees'
    BY <1>1, <1>3, <2>2 DEF FiGood, FileAgrees
  <2>6. PollAgrees'
    BY <1>1, <1>3, Returned
  <2> QED BY <2>4, <2>5, <2>6 DEF FiGood
<1> QED BY <1>1, <1>2, <1>3 DEF Fi!Flushed

-----------------------------------------------------------------------------
LEMMA FiInitHolds == Fi!FiInit => FiInv
<1> SUFFICES ASSUME Fi!FiInit PROVE FiGood
  BY DEF FiInv, FiGood
<1>0. st = "idle" /\ task = "done" /\ alive = FALSE /\ is_dirty \in BOOLEAN /\ fdoing = Fi!Quiet /\ fsaid = ""
  BY DEF Fi!FiInit
<1>n. target = 0 /\ pos = 0 /\ read_pos = Fi!Nowhere /\ upos = 0 /\ writes = 0
  BY DEF Fi!FiInit
<1>c. content = Fi!Initial /\ want = Fi!Initial /\ fring = <<>>
  BY DEF Fi!FiInit
<1>1. content \in Seq(Int) /\ want \in Seq(Int) /\ Len(want) \in Nat
  <2>1. Fi!Initial = [i \in 1 .. FileLen |-> i] /\ FileLen \in Nat
    BY IoAssumption DEF Fi!Initial
  <2>2. \A i \in 1 .. FileLen : i \in Int
    BY <2>1
  <2>3. Fi!Initial \in Seq(Int)
    BY ONLY <2>1, <2>2
  <2> QED BY <2>3, <1>c
<1>2. DoingTyped /\ fdoing[1] = "" /\ fdoing[2] = ""
  BY <1>0, QuietIs DEF DoingTyped, Fi!Quiet
<1>3. FileTypes
  <2>1. fring \in Seq(Int)
    BY <1>c
  <2>2. read_pos \in Nat \cup {Fi!Nowhere} /\ target \in Int
    BY <1>n
  <2>3. pos \in Nat /\ upos \in Nat /\ writes \in Nat
    BY <1>n
  <2> QED BY <1>0, <1>1, <1>2, <2>1, <2>2, <2>3 DEF FileTypes
<1>4. FileAgrees
  <2>1. upos <= Len(want)
    BY <1>n, <1>1
  <2> QED BY <1>0, <1>n, <1>c, <2>1 DEF FileAgrees
<1>5. PollAgrees
  BY <1>0, <1>2 DEF PollAgrees
<1> QED BY <1>3, <1>4, <1>5 DEF FiGood

LEMMA FiStepHolds == FiInv /\ [Fi!FiNext]_fivars => FiInv'
<1> SUFFICES ASSUME FiInv, [Fi!FiNext]_fivars PROVE FiInv'
  OBVIOUS
<1>1. CASE UNCHANGED fivars
  <2>1. UNCHANGED <<st, task, alive, fring, target, content, pos, read_pos, is_dirty, fdoing, fsaid, want, upos, writes, adrift>>
    BY <1>1 DEF fivars
  <2>2. CASE adrift
    BY <2>1, <2>2 DEF FiInv
  <2>3. CASE FiGood
    <3>1. FileTypes'
      BY <2>1, <2>3, SameDoing DEF FiGood, FileTypes
    <3>2. FileAgrees'
      BY <2>1, <2>3, SameAgrees
    <3>3. PollAgrees'
      BY <2>1, <2>3 DEF FiGood, PollAgrees
    <3> QED BY <3>1, <3>2, <3>3 DEF FiInv
  <2> QED BY <2>2, <2>3 DEF FiInv, FiGood
<1>2. CASE Fi!FiNext
  <2> SUFFICES ASSUME ~adrift' PROVE FiGood'
    BY DEF FiInv, FiGood
  <2>1. FiGood /\ Fi!FiStep
    BY <1>2 DEF Fi!FiNext, FiInv, FiGood
  <2>2. CASE Fi!TaskSeek \/ Fi!TaskRead \/ Fi!TaskWrite \/ Fi!TaskLook \/ Fi!TaskClosed \/ Fi!TaskFails
    BY <2>1, <2>2, TaskSeekHolds, TaskReadHolds, TaskWriteHolds, TaskLookHolds, TaskClosedHolds, TaskFailsHolds
  <2>3. CASE Fi!StopDrop \/ Fi!StopPending \/ Fi!StopDone
    BY <2>1, <2>3, StopDropHolds, StopPendingHolds, StopDoneHolds
  <2>4. CASE Fi!PollRead \/ Fi!ReadSome \/ Fi!ReadLook \/ Fi!ReadClosed
    BY <2>1, <2>4, PollReadHolds, ReadSomeHolds, ReadLookHolds, ReadClosedHolds
  <2>5. CASE Fi!PollWrite \/ Fi!WriteSome \/ Fi!WriteNone
    BY <2>1, <2>5, PollWriteHolds, WriteSomeHolds, WriteNoneHolds
  <2>6. CASE Fi!PollSeek \/ Fi!PollFlush \/ Fi!Flushed
    BY <2>1, <2>6, PollSeekHolds, PollFlushHolds, FlushedHolds
  <2> QED BY <2>1, <2>2, <2>3, <2>4, <2>5, <2>6 DEF Fi!FiStep
<1> QED BY <1>1, <1>2

LEMMA FiInvSays == FiInv => FileSequential
<1> SUFFICES ASSUME FiGood PROVE Fi!FileSequential
  BY DEF FiInv, FiGood, FileSequential, Fi!FileSequential
<1>1. st = "write" => Fi!Over(content, pos, fring) = want /\ pos + Len(fring) = upos
  BY DEF FiGood, FileAgrees
<1>2. st # "write" => content = want
  BY DEF FiGood, FileAgrees
<1>3. fsaid # "misread" /\ (fsaid = "eof" => upos >= Len(want)) /\ (fsaid = "flushed" => st # "write")
  BY DEF FiGood, PollAgrees
<1> QED BY <1>1, <1>2, <1>3 DEF Fi!FileSequential

(***************************************************************************)
(* The theorems                                                            *)
(***************************************************************************)
SlInv == which = "slab" => SlabInv /\ Answered

LEMMA SlInitHolds == ASSUME AdInit PROVE SlInv
<1>1. which = "slab" => slots = <<>> /\ len = 0 /\ head = Sl!End /\ held = <<>> /\ inserted = {} /\ limited \in {0, 2}
  BY DEF AdInit, Sl!CInit
<1> QED BY <1>1, EmptySlab DEF SlInv, Answered

IoInv == BpInv /\ RdInv /\ PiInv /\ TiInv /\ FiInv /\ SlInv

\* A step of MCSpec is a step of each of them, or leaves it alone.
LEMMA StepOfParts ==
    ASSUME [MCNext]_<<which, syvars, iovars, advars>>
    PROVE  [Bp!BpNext]_bpvars /\ [Re!RdNext]_rdvars /\ [Pi!PNext]_pvars /\ [Ti!TNext]_tvars /\ [Fi!FiNext]_fivars
BY DEF MCNext, IoNext, iovars

\* The part that runs stays the same, and if it is the slab, the slab steps.
LEMMA StepOfSlab ==
    ASSUME [MCNext]_<<which, syvars, iovars, advars>>
    PROVE  which' = which /\ (which = "slab" => [Sl!CNext]_cvars)
BY DEF MCNext, SyNext, IoNext, AdNext, Syncs, IoParts, Adapters, advars

\* Every one keeps its invariant.
LEMMA IoInvHolds == MCSpec => []IoInv
<1>1. MCInit => IoInv
  BY BpInitHolds, RdInitHolds, PiInitHolds, TiInitHolds, FiInitHolds, SlInitHolds DEF MCInit, IoInit, IoInv
<1>2. IoInv /\ [MCNext]_<<which, syvars, iovars, advars>> => IoInv'
  <2> SUFFICES ASSUME IoInv, [MCNext]_<<which, syvars, iovars, advars>> PROVE IoInv'
    OBVIOUS
  <2>1. BpInv' /\ RdInv' /\ PiInv' /\ TiInv' /\ FiInv'
    BY StepOfParts, BpStepHolds, RdStepHolds, PiStepHolds, TiStepHolds, FiStepHolds DEF IoInv
  <2>2. SlInv'
    BY StepOfSlab, SlabStep, AnswerStep DEF IoInv, SlInv
  <2> QED BY <2>1, <2>2 DEF IoInv
<1> QED BY <1>1, <1>2, PTL DEF MCSpec

\* The pool never leaves a queued runnable to the threads that run others, which
\* may block for ever, while it may start one more, for every number of threads
\* and every ratio of runnables to idle threads; and the counts it decides by
\* are exact.
THEOREM NoRunnableIsStranded == MCSpec => []NoStrandedRunnable
<1>1. IoInv => NoStrandedRunnable
  BY BpInvSays DEF IoInv
<1> QED BY <1>1, IoInvHolds, PTL

\* A task asleep on a source is woken when its direction is ready: its waker is
\* registered or about to be called, the poller is armed where one is, and no
\* task takes an event for its own that was of a poll begun before it found that
\* it would block; for every set of tasks, in every mix of ways to wait.
THEOREM EventsAreAwaited == MCSpec => []AwaitsEvents
<1>1. IoInv => AwaitsEvents
  BY RdInvSays DEF IoInv
<1> QED BY <1>1, IoInvHolds, PTL

\* Whatever the capacity and however much is sent, the destination takes the
\* bytes of the source in order, none lost, doubled or overwritten; the ring
\* never holds more than its capacity; the reader that is told of the end has
\* all it saw; and no side sleeps on bytes, on room or on a closed pipe while
\* its peer is between its polls.
THEOREM PipeIsSound == MCSpec => []PipeSound
<1>1. IoInv => PipeSound
  BY PiInvSays DEF IoInv, PipeSound
<1> QED BY <1>1, IoInvHolds, PTL

\* Every key of the slab finds its own object, every vacant slot is in the list
\* from next_vacant, once, and insert answers a key that was not in use, unless
\* the slab is at its limit; however many slots there are and however inserts,
\* removals, swaps, retains and clears follow one another.
THEOREM SlabIsSound == MCSpec => []SlabSound
<1>1. IoInv => SlabSound
  BY SlabInvSays DEF IoInv, SlInv, SlabSound
<1> QED BY <1>1, IoInvHolds, PTL

\* Between the calls of its user a Timer is registered with the reactor, or
\* that is queued, or it has fired, and nothing else is registered; what fires
\* was due; and the thread that sleeps in the reactor, unless it is notified,
\* does not sleep past a deadline: for any number of timers, owners and calls.
THEOREM TimersAlwaysFire == MCSpec => []TimersFire
<1>1. IoInv => TimersFire
  BY TiInvSays DEF IoInv, TimersFire
<1> QED BY <1>1, IoInvHolds, PTL

\* The user of a File sees one file with one position, whatever the length of
\* the file and the capacity of the pipe: a read returns the bytes at the
\* position and ends only at the end, what a write left in the pipe is what the
\* file lacks, and nothing is missing after a flush, a sync or a close; until an
\* error, or one of the two races that adrift names.
THEOREM FileIsSequential == MCSpec => []FileSequential
<1>1. IoInv => FileSequential
  BY FiInvSays DEF IoInv
<1> QED BY <1>1, IoInvHolds, PTL
=============================================================================
