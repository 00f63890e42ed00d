----------------------------- MODULE TaskProofs ------------------------------
(***************************************************************************)
(* Proofs about Task for every finite set of runners and wakers.           *)
(*                                                                         *)
(* Each action moves one actor.  Lemmas about the header functions and the *)
(* counts come first, then one lemma per group of actions that change the  *)
(* same things, then the theorems.                                         *)
(***************************************************************************)
EXTENDS Task, ProofLemmas

\* What a place contributes to the reference count.
Weight(l) == In(l, RefPcs) + In(l, Ref2Pcs)

\* The actors are finitely many.
LEMMA ActorsFinite == IsFiniteSet(Actors)
<1>1. IsFiniteSet(Runners) /\ IsFiniteSet(Wakers) /\ IsFiniteSet({Handle})
  BY ActorsAssumption, FS_Singleton
<1>2. IsFiniteSet(Runners \cup Wakers)
  BY <1>1, FS_Union
<1> QED BY <1>1, <1>2, FS_Union DEF Actors

\* A step that moves one actor changes a count by what its places bring.
LEMMA CountMoves ==
    ASSUME TypeOK, NEW a \in Actors, NEW to, Goto(a, to), NEW P
    PROVE  /\ Cardinality(At(P)) \in Nat
           /\ Cardinality(At(P)') = Cardinality(At(P)) + In(to, P) - In(pc[a], P)
<1>1. IsFiniteSet(Actors)
  BY ActorsFinite
<1>2. ChangedAt(pc, pc', a, Actors) /\ pc'[a] = to
  BY DEF ChangedAt, Goto, TypeOK
<1>3. At(P) = Where(pc, Actors, P) /\ At(P)' = Where(pc', Actors, P)
  BY DEF At, Where
<1>4. /\ Cardinality(Where(pc, Actors, P)) \in Nat
      /\ Cardinality(Where(pc', Actors, P)) =
           Cardinality(Where(pc, Actors, P)) + In(pc'[a], P) - In(pc[a], P)
  BY <1>1, <1>2, CountAfterChange
<1> QED BY <1>2, <1>3, <1>4

\* A step that moves one actor and changes the count by what its places bring
\* keeps the count exact.
LEMMA RefStep ==
    ASSUME TypeOK, RefCountExact, NEW a \in Actors, NEW to, Goto(a, to), TypeOK',
           hdr'.ref - queue' = hdr.ref - queue + Weight(to) - Weight(pc[a])
    PROVE  RefCountExact'
<1>1. /\ Cardinality(At(RefPcs)) \in Nat
      /\ Cardinality(At(RefPcs)') = Cardinality(At(RefPcs)) + In(to, RefPcs) - In(pc[a], RefPcs)
  BY CountMoves
<1>2. /\ Cardinality(At(Ref2Pcs)) \in Nat
      /\ Cardinality(At(Ref2Pcs)') = Cardinality(At(Ref2Pcs)) + In(to, Ref2Pcs) - In(pc[a], Ref2Pcs)
  BY CountMoves
<1>3. /\ In(to, RefPcs) \in Nat /\ In(pc[a], RefPcs) \in Nat
      /\ In(to, Ref2Pcs) \in Nat /\ In(pc[a], Ref2Pcs) \in Nat
  BY DEF In
<1>4. hdr.ref \in Int /\ hdr'.ref \in Int /\ queue \in Int /\ queue' \in Int
  BY DEF TypeOK, Header
<1>5. hdr.ref = queue + Cardinality(At(RefPcs)) + Cardinality(At(Ref2Pcs))
  BY DEF RefCountExact
<1>6. hdr'.ref = queue' + Cardinality(At(RefPcs)') + Cardinality(At(Ref2Pcs)')
  <2> DEFINE c == Cardinality(At(RefPcs))  cc == Cardinality(At(RefPcs)')
             d == Cardinality(At(Ref2Pcs)) dd == Cardinality(At(Ref2Pcs)')
             i == In(to, RefPcs) j == In(pc[a], RefPcs) k == In(to, Ref2Pcs) m == In(pc[a], Ref2Pcs)
             r == hdr.ref rr == hdr'.ref q == queue qq == queue'
  <2>1. rr - qq = r - q + (i + k) - (j + m)
    BY DEF Weight
  <2>2. c \in Nat /\ cc = c + i - j /\ d \in Nat /\ dd = d + k - m
    BY <1>1, <1>2
  <2>3. i \in Nat /\ j \in Nat /\ k \in Nat /\ m \in Nat
    BY <1>3
  <2>4. r \in Int /\ rr \in Int /\ q \in Int /\ qq \in Int /\ r = q + c + d
    BY <1>4, <1>5
  <2>5. rr = qq + cc + dd
    <3> HIDE DEF c, cc, d, dd, i, j, k, m, r, rr, q, qq
    <3> QED BY <2>1, <2>2, <2>3, <2>4
  <2> QED BY <2>5
<1>7. /\ Cardinality(At(RefPcs))' = Cardinality(At(RefPcs)')
      /\ Cardinality(At(Ref2Pcs))' = Cardinality(At(Ref2Pcs)')
  OBVIOUS
<1> QED BY <1>6, <1>7 DEF RefCountExact

\* When the count is zero nobody holds a reference, and when it is one its only
\* owner is the only one.
LEMMA NoneLeft ==
    ASSUME TypeOK, RefCountExact, hdr.ref = 0
    PROVE  queue = 0 /\ At(RefPcs) = {}
<1>1. IsFiniteSet(At(RefPcs)) /\ IsFiniteSet(At(Ref2Pcs))
  BY ActorsFinite, FS_Subset DEF At
<1>2. Cardinality(At(RefPcs)) \in Nat /\ Cardinality(At(Ref2Pcs)) \in Nat
  BY <1>1, FS_CardinalityType
<1>3. queue \in Nat
  BY DEF TypeOK
<1>4. queue = 0 /\ Cardinality(At(RefPcs)) = 0
  BY <1>2, <1>3 DEF RefCountExact
<1> QED BY <1>1, <1>4, FS_EmptySet

\* See NoneLeft.
LEMMA OnlyOne ==
    ASSUME TypeOK, RefCountExact, NEW a \in At(RefPcs), hdr.ref = 1
    PROVE  queue = 0 /\ \A b \in At(RefPcs) : b = a
<1>1. IsFiniteSet(At(RefPcs)) /\ IsFiniteSet(At(Ref2Pcs))
  BY ActorsFinite, FS_Subset DEF At
<1>2. Cardinality(At(RefPcs)) \in Nat /\ Cardinality(At(Ref2Pcs)) \in Nat
  BY <1>1, FS_CardinalityType
<1>3. queue \in Nat
  BY DEF TypeOK
<1>4. Cardinality(At(RefPcs)) # 0
  BY <1>1, FS_EmptySet
<1>5. queue = 0 /\ Cardinality(At(RefPcs)) = 1
  BY <1>2, <1>3, <1>4 DEF RefCountExact
<1> QED BY <1>1, <1>5, AtMostOne

\* A step that moves one actor to a place of its own keeps the type of pc.
LEMMA PcMoves ==
    ASSUME TypeOK, NEW a \in Actors, NEW to \in PcsOf(a), Goto(a, to)
    PROVE  /\ pc' \in [Actors -> AllPcs] /\ \A b \in Actors : pc'[b] \in PcsOf(b)
           /\ pc'[a] = to /\ \A b \in Actors : b # a => pc'[b] = pc[b]
<1>1. to \in AllPcs
  BY DEF PcsOf, AllPcs
<1> QED BY <1>1 DEF TypeOK, Goto

-----------------------------------------------------------------------------
(***************************************************************************)
(* What a step of one actor must respect for each part of the invariant.   *)
(***************************************************************************)

\* The permit is kept, given up or passed on, or nobody had it and it is made;
\* who has it sees to the bits.
PermitStep(a, to) ==
    /\ queue' = 0 \/ (queue' = 1 /\ to \notin PermitPcs)
    /\ queue' = 1 \/ to \in PermitPcs => queue = 1 \/ pc[a] \in PermitPcs \/ At(PermitPcs) = {}
    /\ \/ queue' = 1 \/ to \in PermitPcs
       \/ pc[a] \notin PermitPcs /\ (hdr.sched \/ hdr.run \/ hdr.closed)
       => hdr'.sched \/ hdr'.run \/ hdr'.closed
    /\ to \in RunningPcs => hdr'.run
    /\ hdr.run /\ ~hdr'.run => pc[a] \in PermitPcs \/ At(PermitPcs) = {}

\* Only one actor at a time is at the slot; who leaves it clears NOTIFYING.
SlotStep(a, to) ==
    /\ to \in TakePcs \cup RegPcs => pc[a] \in TakePcs \cup RegPcs \/ At(TakePcs \cup RegPcs) = {}
    /\ to \in TakePcs => hdr'.notif
    /\ hdr.notif /\ ~hdr'.notif => pc[a] \in TakePcs \cup RegPcs \/ At(TakePcs) = {}

\* A step that respects the permit keeps it unique and vouched for by the bits.
LEMMA PermitMoves ==
    ASSUME IInv, NEW a \in Actors, NEW to \in PcsOf(a), Goto(a, to), PermitStep(a, to)
    PROVE  OneRunnable' /\ PermitBits' /\ RunningBit'
<1>1. pc'[a] = to /\ \A b \in Actors : b # a => pc'[b] = pc[b]
  BY PcMoves DEF IInv
<1>2. OneRunnable /\ PermitBits /\ RunningBit /\ queue \in {0, 1}
  BY DEF IInv, BitsAgree, OneRunnable
<1>3. OneRunnable'
  <2>1. At(PermitPcs)' \subseteq At(PermitPcs) \cup {a} /\ (to \notin PermitPcs => a \notin At(PermitPcs)')
    BY <1>1 DEF At
  <2>2. CASE queue' = 1 \/ to \in PermitPcs
    <3>1. At(PermitPcs) \subseteq {a}
      BY <1>2, <2>2 DEF PermitStep, OneRunnable, At
    <3> QED BY <2>1, <2>2, <3>1 DEF OneRunnable, PermitStep
  <2>3. CASE queue' = 0 /\ to \notin PermitPcs
    BY <1>2, <2>1, <2>3 DEF OneRunnable
  <2> QED BY <2>2, <2>3 DEF PermitStep
<1>4. PermitBits'
  BY <1>1, <1>2 DEF PermitStep, PermitBits, OneRunnable, At
<1>5. RunningBit'
  <2>1. RunningPcs \subseteq PermitPcs
    BY DEF RunningPcs, PermitPcs
  <2> QED BY <1>1, <1>2, <2>1 DEF PermitStep, RunningBit, OneRunnable, At
<1> QED BY <1>3, <1>4, <1>5

\* A step that respects the slot keeps its critical sections exclusive.
LEMMA SlotMoves ==
    ASSUME IInv, NEW a \in Actors, NEW to \in PcsOf(a), Goto(a, to), SlotStep(a, to)
    PROVE  SlotExclusive' /\ NotifyBit'
<1>1. pc'[a] = to /\ \A b \in Actors : b # a => pc'[b] = pc[b]
  BY PcMoves DEF IInv
<1>2. SlotExclusive /\ NotifyBit
  BY DEF IInv, BitsAgree
<1>3. SlotExclusive'
  BY <1>1, <1>2 DEF SlotStep, SlotExclusive, At
<1>4. NotifyBit'
  BY <1>1, <1>2 DEF SlotStep, SlotExclusive, NotifyBit, At
<1> QED BY <1>3, <1>4

\* A step of one actor that respects every part preserves the invariant.
LEMMA Moves ==
    ASSUME IInv, NEW a \in Actors, NEW to \in PcsOf(a), Goto(a, to), TypeOK',
           hdr'.ref - queue' = hdr.ref - queue + Weight(to) - Weight(pc[a]),
           PermitStep(a, to), SlotStep(a, to), HandleBits', FreedAtLast'
    PROVE  IInv'
<1>1. TypeOK /\ RefCountExact
  BY DEF IInv
<1>2. RefCountExact'
  BY <1>1, RefStep
<1>3. OneRunnable' /\ PermitBits' /\ RunningBit'
  BY PermitMoves
<1>4. SlotExclusive' /\ NotifyBit'
  BY SlotMoves
<1> QED BY <1>2, <1>3, <1>4 DEF IInv, BitsAgree

\* The actors and their places.
LEMMA Kinds ==
    /\ \A r \in Runners : r \in Actors /\ r # Handle /\ PcsOf(r) = RunnerPcs
    /\ \A w \in Wakers : w \in Actors /\ w # Handle /\ PcsOf(w) = WakerPcs
    /\ Handle \in Actors /\ PcsOf(Handle) = HandlePcs
BY ActorsAssumption DEF Actors, PcsOf

\* The types of what the header word and the places do not determine.
RestOK ==
    /\ slot \in Parents \cup {NoWaker}
    /\ future \in {"live", "dropped", "twice"} /\ output \in {"none", "live", "moved", "twice"}
    /\ got \in [Actors -> Parents \cup {NoWaker}]
    /\ poller \in Parents \cup {NoWaker} /\ goal \in {"none", "cancel", "drop"}
    /\ woken \in SUBSET Parents /\ due \in BOOLEAN

\* A step of one actor with well-typed writes keeps the types.
LEMMA TypeMoves ==
    ASSUME TypeOK, NEW a \in Actors, NEW to \in PcsOf(a), Goto(a, to),
           hdr' \in Header, mem' \in {"live", "freed"}, queue' \in Nat, RestOK',
           a = Handle /\ to \in PollingPcs => poller' \in Parents,
           a # Handle => poller' = poller
    PROVE  TypeOK'
<1>1. /\ pc' \in [Actors -> AllPcs] /\ \A b \in Actors : pc'[b] \in PcsOf(b)
      /\ pc'[a] = to /\ \A b \in Actors : b # a => pc'[b] = pc[b]
  BY PcMoves
<1>2. pc'[Handle] \in PollingPcs => poller' \in Parents
  BY <1>1, Kinds DEF TypeOK
<1> QED BY <1>1, <1>2 DEF TypeOK, RestOK

\* A step of a runner or a waker that leaves the count, the handle's bits and
\* the allocation alone.
LEMMA LightMoves ==
    ASSUME IInv, NEW a \in Actors, a # Handle, NEW to \in PcsOf(a), Goto(a, to),
           hdr' \in Header, RestOK', UNCHANGED <<queue, mem, poller>>,
           hdr'.ref = hdr.ref, hdr'.task = hdr.task, hdr'.reg = hdr.reg,
           Weight(to) = Weight(pc[a]),
           PermitStep(a, to), SlotStep(a, to)
    PROVE  IInv'
<1>1. TypeOK'
  BY TypeMoves DEF IInv, TypeOK
<1>2. hdr'.ref - queue' = hdr.ref - queue + Weight(to) - Weight(pc[a])
  <2>1. hdr.ref \in Int /\ queue \in Int
    BY DEF IInv, TypeOK, Header
  <2>2. Weight(pc[a]) \in Int
    BY DEF Weight, In
  <2> QED BY <2>1, <2>2
<1>3. HandleBits' /\ FreedAtLast'
  <2>1. pc'[Handle] = pc[Handle]
    BY PcMoves, Kinds DEF IInv
  <2> QED BY <2>1 DEF IInv, BitsAgree, HandleBits, FreedAtLast, LastRef
<1> QED BY <1>1, <1>2, <1>3, Moves

\* Who has the permit is the only one, and sees it in the bits.
LEMMA HasPermit ==
    ASSUME IInv, NEW a \in Actors, pc[a] \in PermitPcs
    PROVE  /\ queue = 0 /\ \A b \in At(PermitPcs) : b = a
           /\ hdr.sched \/ hdr.run \/ hdr.closed
           /\ pc[a] \in RunningPcs => hdr.run
<1>1. a \in At(PermitPcs) /\ (pc[a] \in RunningPcs => a \in At(RunningPcs))
  BY DEF At
<1> QED BY <1>1 DEF IInv, OneRunnable, BitsAgree, PermitBits, RunningBit

-----------------------------------------------------------------------------
(***************************************************************************)
(* A thread with a Runnable.                                               *)
(***************************************************************************)

\* Inside run, while the thread keeps the permit and the word is not written.
LEMMA RunGoesOn ==
    ASSUME IInv, NEW r \in Runners,
           \/ RunClosed(r) \/ PollReady(r) \/ PollPending(r) \/ PollPanic(r)
           \/ PendingClosed(r) \/ GuardClosed(r)
    PROVE  IInv'
<1> USE DEF RunClosed, PollReady, PollPending, PollPanic, PendingClosed, GuardClosed
<1>1. PICK to \in {"run_closed", "ready", "pending", "guard", "pending_closed", "guard_take",
                   "guard_skip"} :
          Goto(r, to) /\ (to \in RunningPcs => pc[r] \in RunningPcs)
  BY DEF RunningPcs
<1>2. pc[r] \in {"run", "polling", "pending", "guard"}
  OBVIOUS
<1>3. /\ to \in PermitPcs /\ pc[r] \in PermitPcs /\ Weight(to) = Weight(pc[r])
      /\ to \in RunnerPcs /\ to \notin TakePcs \cup RegPcs
  BY <1>1, <1>2 DEF PermitPcs, Weight, In, RefPcs, Ref2Pcs, RunnerPcs, WakerPcs, TakePcs, RegPcs
<1>4. UNCHANGED <<hdr, queue, mem, poller>> /\ hdr' \in Header /\ RestOK'
  BY DEF IInv, TypeOK, RestOK, cell, side, DropFuture
<1>5. PermitStep(r, to)
  <2>1. r \in Actors
    BY Kinds
  <2>2. queue = 0 /\ (hdr.sched \/ hdr.run \/ hdr.closed) /\ (pc[r] \in RunningPcs => hdr.run)
    BY <1>3, <2>1, HasPermit
  <2> QED BY <1>1, <1>3, <1>4, <2>2 DEF PermitStep
<1>6. SlotStep(r, to)
  BY <1>3, <1>4 DEF SlotStep
<1> QED BY <1>1, <1>3, <1>4, <1>5, <1>6, LightMoves, Kinds

\* run and Drop for Runnable give up the permit.
LEMMA RunEnds ==
    ASSUME IInv, NEW r \in Runners,
           \/ RunClosedEnd(r) \/ Ready(r) \/ PendingClosedEnd(r) \/ (Pending(r) /\ ~hdr.sched)
           \/ GuardClosedEnd(r) \/ GuardDrop(r) \/ DiscardEnd(r)
    PROVE  IInv'
<1> USE DEF RunClosedEnd, Ready, PendingClosedEnd, Pending, GuardClosedEnd, GuardDrop, DiscardEnd
<1>1. PICK to \in {"take", "d_take", "drop_ref"} : Goto(r, to)
  BY DEF TakeIf
<1>2. pc[r] \in {"run_closed", "ready", "pending_closed", "pending", "guard_take", "guard_skip",
                 "guard_drop", "guard_drop_take", "discard_end"}
  OBVIOUS
<1>3. /\ to \notin PermitPcs /\ to \notin RunningPcs /\ pc[r] \in PermitPcs
      /\ Weight(to) = Weight(pc[r]) /\ to \in RunnerPcs /\ to \notin TakePcs \cup RegPcs
  BY <1>1, <1>2 DEF PermitPcs, RunningPcs, Weight, In, RefPcs, Ref2Pcs, RunnerPcs, WakerPcs,
                    TakePcs, RegPcs
<1>4. /\ UNCHANGED <<queue, mem, poller>> /\ hdr' \in Header /\ hdr'.ref = hdr.ref
      /\ hdr'.task = hdr.task /\ hdr'.reg = hdr.reg /\ hdr'.notif = hdr.notif
  BY DEF IInv, TypeOK, Header, ReadyHdr, PendingHdr, cell, side
<1>5. RestOK'
  BY DEF IInv, TypeOK, RestOK, cell, side, DropFuture, MoveOutput
<1>6. PermitStep(r, to)
  BY <1>3, <1>4, Kinds, HasPermit DEF PermitStep
<1>7. SlotStep(r, to)
  BY <1>3, <1>4 DEF SlotStep
<1> QED BY <1>1, <1>3, <1>4, <1>5, <1>6, <1>7, LightMoves, Kinds

\* run and Drop for Runnable write the word and keep the permit.
LEMMA RunKeeps ==
    ASSUME IInv, NEW r \in Runners,
           RunStart(r) \/ Discard(r) \/ Guard(r) \/ (Pending(r) /\ hdr.sched)
    PROVE  IInv'
<1> USE DEF RunStart, Discard, Guard, Pending
<1>1. PICK to \in {"polling", "discard_end", "guard_drop", "guard_drop_take", "resched"} : Goto(r, to)
  OBVIOUS
<1>2. pc[r] \in {"run", "discard", "guard", "pending"}
  OBVIOUS
<1>3. /\ to \in PermitPcs /\ pc[r] \in PermitPcs /\ (to \in RunningPcs => to = "polling")
      /\ Weight(to) = Weight(pc[r]) /\ to \in RunnerPcs /\ to \notin TakePcs \cup RegPcs
  BY <1>1, <1>2 DEF PermitPcs, RunningPcs, Weight, In, RefPcs, Ref2Pcs, RunnerPcs, WakerPcs,
                    TakePcs, RegPcs
<1>4. /\ UNCHANGED <<queue, mem, poller>> /\ hdr' \in Header /\ hdr'.ref = hdr.ref
      /\ hdr'.task = hdr.task /\ hdr'.reg = hdr.reg /\ hdr'.notif = hdr.notif
  BY DEF IInv, TypeOK, Header, StartRunHdr, PanicHdr, PendingHdr, cell, side
<1>5. RestOK'
  BY DEF IInv, TypeOK, RestOK, cell, side, DropFuture
<1>6. hdr'.sched \/ hdr'.run \/ hdr'.closed
  BY HasPermit, <1>3, Kinds DEF IInv, TypeOK, Header, StartRunHdr, PanicHdr, PendingHdr
<1>7. to = "polling" => hdr'.run
  BY <1>1, Kinds DEF IInv, TypeOK, Header, StartRunHdr, Goto
<1>8. PermitStep(r, to)
  <2>1. r \in Actors
    BY Kinds
  <2>2. queue = 0
    BY <1>3, <2>1, HasPermit
  <2> QED BY <1>3, <1>4, <1>6, <1>7, <2>2 DEF PermitStep
<1>9. SlotStep(r, to)
  BY <1>3, <1>4 DEF SlotStep
<1> QED BY <1>1, <1>3, <1>4, <1>5, <1>8, <1>9, LightMoves, Kinds

-----------------------------------------------------------------------------
(***************************************************************************)
(* Steps without the permit that do not change the count: Header::take,    *)
(* Header::register and the handle's reads of the word.                    *)
(***************************************************************************)

\* A place outside the permit.
Plain(l) == l \notin PermitPcs /\ l \notin RunningPcs

\* A step without the permit that keeps RUNNING, and clears no bit that vouches
\* for a Runnable.
LEMMA PlainPermit ==
    ASSUME IInv, NEW a \in Actors, NEW to, Plain(pc[a]), Plain(to),
           queue' = queue, hdr'.run = hdr.run, hdr.sched => hdr'.sched,
           hdr.closed => hdr'.closed
    PROVE  PermitStep(a, to)
<1>1. queue \in {0, 1} /\ (queue = 1 => hdr.sched \/ hdr.run \/ hdr.closed)
  BY DEF IInv, OneRunnable, BitsAgree, PermitBits
<1> QED BY <1>1 DEF PermitStep, Plain

\* When NOTIFYING and REGISTERING are clear nobody is at the slot.
LEMMA SlotFree ==
    ASSUME IInv, ~hdr.notif
    PROVE  At(TakePcs) = {} /\ (~hdr.reg => At(TakePcs \cup RegPcs) = {})
<1>1. At(TakePcs) = {}
  BY DEF IInv, BitsAgree, NotifyBit
<1>2. ASSUME ~hdr.reg PROVE At(RegPcs) = {}
  <2>1. pc[Handle] \notin RegPcs
    BY <1>2 DEF IInv, BitsAgree, HandleBits
  <2>2. \A a \in Actors : a # Handle => pc[a] \in RunnerPcs \cup WakerPcs
    BY DEF IInv, TypeOK, PcsOf, Actors
  <2>3. (RunnerPcs \cup WakerPcs) \cap RegPcs = {}
    BY DEF RunnerPcs, WakerPcs, RegPcs
  <2> QED BY <2>1, <2>2, <2>3 DEF At
<1> QED BY <1>1, <1>2 DEF At

\* A step of the handle that leaves the count and the allocation alone.
LEMMA HandleMoves ==
    ASSUME IInv, NEW to \in HandlePcs, Goto(Handle, to),
           hdr' \in Header, RestOK', UNCHANGED <<queue, mem>>,
           hdr'.ref = hdr.ref, hdr'.task = hdr.task, Weight(to) = Weight(pc[Handle]),
           to \in DetachedPcs <=> pc[Handle] \in DetachedPcs,
           hdr'.reg <=> to \in RegPcs,
           to \in PollingPcs => poller' \in Parents,
           PermitStep(Handle, to), SlotStep(Handle, to)
    PROVE  IInv'
<1>1. Handle \in Actors /\ to \in PcsOf(Handle)
  BY Kinds
<1>2. TypeOK'
  BY <1>1, TypeMoves DEF IInv, TypeOK
<1>3. hdr'.ref - queue' = hdr.ref - queue + Weight(to) - Weight(pc[Handle])
  <2>1. hdr.ref \in Int /\ queue \in Int
    BY DEF IInv, TypeOK, Header
  <2>2. Weight(pc[Handle]) \in Int
    BY DEF Weight, In
  <2> QED BY <2>1, <2>2
<1>4. HandleBits'
  <2>1. pc'[Handle] = to
    BY <1>1, PcMoves DEF IInv
  <2> QED BY <2>1 DEF IInv, BitsAgree, HandleBits
<1>5. FreedAtLast'
  BY DEF IInv, BitsAgree, FreedAtLast, LastRef
<1> QED BY <1>1, <1>2, <1>3, <1>4, <1>5, Moves

\* Header::take and the wake-up after it, by a thread that ran or dropped the
\* Runnable.
LEMMA RunnerNotifies ==
    ASSUME IInv, NEW r \in Runners,
           \/ TakeBegin(r, "take", "taking", "drop_ref")
           \/ TakeBegin(r, "d_take", "d_taking", "drop_ref")
           \/ TakeEnd(r, "taking", "drop_ref") \/ TakeEnd(r, "d_taking", "d_wake")
           \/ WakeTaken(r, "wake", "idle") \/ WakeTaken(r, "d_wake", "drop_ref")
    PROVE  IInv'
<1> USE DEF TakeBegin, TakeEnd, WakeTaken
<1>1. PICK to \in {"taking", "d_taking", "drop_ref", "d_wake", "idle"} :
          /\ Goto(r, to)
          /\ pc[r] = "wake" <=> to = "idle"
          /\ to \in {"taking", "d_taking"} => ~hdr.notif /\ ~hdr.reg /\ hdr'.notif
          /\ hdr.notif /\ ~hdr'.notif => pc[r] \in {"taking", "d_taking"}
  BY DEF IInv, TypeOK, Header, TakenHdr
<1>2. pc[r] \in {"take", "taking", "d_take", "d_taking", "wake", "d_wake"}
  OBVIOUS
<1>3. /\ Plain(to) /\ Plain(pc[r]) /\ Weight(to) = Weight(pc[r]) /\ to \in RunnerPcs
      /\ (to \in TakePcs \cup RegPcs => to \in {"taking", "d_taking"})
      /\ (pc[r] \in {"taking", "d_taking"} => pc[r] \in TakePcs)
  BY <1>1, <1>2 DEF Plain, PermitPcs, RunningPcs, Weight, In, RefPcs, Ref2Pcs, RunnerPcs, WakerPcs,
                    TakePcs, RegPcs
<1>4. /\ UNCHANGED <<queue, mem, poller>> /\ hdr' \in Header /\ hdr'.ref = hdr.ref
      /\ hdr'.task = hdr.task /\ hdr'.reg = hdr.reg
      /\ hdr'.sched = hdr.sched /\ hdr'.run = hdr.run /\ hdr'.closed = hdr.closed
  BY DEF IInv, TypeOK, Header, TakenHdr, cell, side
<1>5. RestOK'
  <2>1. got[r] \in Parents \cup {NoWaker}
    BY Kinds DEF IInv, TypeOK
  <2> QED BY <2>1 DEF IInv, TypeOK, RestOK, cell, side
<1>6. PermitStep(r, to)
  BY <1>3, <1>4, Kinds, PlainPermit
<1>7. SlotStep(r, to)
  BY <1>1, <1>3, SlotFree DEF SlotStep
<1> QED BY <1>1, <1>3, <1>4, <1>5, <1>6, <1>7, LightMoves, Kinds

\* Header::take and notify by the handle, after a poll or a cancellation.
LEMMA HandleNotifies ==
    ASSUME IInv,
           \/ TakeBegin(Handle, "notify_none", "notifying_none", "done")
           \/ TakeBegin(Handle, "notify_some", "notifying_some", "read")
           \/ TakeBegin(Handle, "c_take", "c_taking", "c_done")
           \/ NotifyTake("notifying_none", "done") \/ NotifyTake("notifying_some", "read")
           \/ TakeEnd(Handle, "c_taking", "c_wake") \/ WakeTaken(Handle, "c_wake", "c_done")
    PROVE  IInv'
<1> USE DEF TakeBegin, TakeEnd, WakeTaken, NotifyTake
<1> DEFINE At2 == {"notifying_none", "notifying_some", "c_taking"}
<1>1. PICK to \in {"notifying_none", "notifying_some", "c_taking", "done", "read", "c_wake", "c_done"} :
          /\ Goto(Handle, to)
          /\ to \in At2 => ~hdr.notif /\ ~hdr.reg /\ hdr'.notif
          /\ hdr.notif /\ ~hdr'.notif => pc[Handle] \in At2
  BY DEF IInv, TypeOK, Header, TakenHdr
<1>2. pc[Handle] \in At2 \cup {"notify_none", "notify_some", "c_take", "c_wake"}
  OBVIOUS
<1>3. /\ Plain(to) /\ Plain(pc[Handle]) /\ Weight(to) = Weight(pc[Handle]) /\ to \in HandlePcs
      /\ (to \in TakePcs \cup RegPcs => to \in At2) /\ (pc[Handle] \in At2 => pc[Handle] \in TakePcs)
      /\ to \notin RegPcs /\ pc[Handle] \notin RegPcs /\ to \notin PollingPcs
      /\ to \notin DetachedPcs /\ pc[Handle] \notin DetachedPcs
  BY <1>1, <1>2 DEF Plain, PermitPcs, RunningPcs, Weight, In, RefPcs, Ref2Pcs, RunnerPcs, WakerPcs,
                    HandlePcs, TakePcs, RegPcs, PollingPcs, DetachedPcs
<1>4. /\ UNCHANGED <<queue, mem>> /\ hdr' \in Header /\ hdr'.ref = hdr.ref
      /\ hdr'.task = hdr.task /\ hdr'.reg = hdr.reg
      /\ hdr'.sched = hdr.sched /\ hdr'.run = hdr.run /\ hdr'.closed = hdr.closed
  BY DEF IInv, TypeOK, Header, TakenHdr, cell, side
<1>5. RestOK'
  <2>1. got[Handle] \in Parents \cup {NoWaker}
    BY Kinds DEF IInv, TypeOK
  <2> QED BY <2>1 DEF IInv, TypeOK, RestOK, cell, side
<1>6. PermitStep(Handle, to)
  BY <1>3, <1>4, Kinds, PlainPermit
<1>7. SlotStep(Handle, to)
  BY <1>1, <1>3, SlotFree DEF SlotStep
<1>8. hdr'.reg <=> to \in RegPcs
  BY <1>3, <1>4 DEF IInv, BitsAgree, HandleBits
<1> QED BY <1>1, <1>3, <1>4, <1>5, <1>6, <1>7, <1>8, HandleMoves

\* Header::register.
LEMMA HandleRegisters ==
    ASSUME IInv,
           \/ RegBegin("reg_closed", "store_closed", "recheck_closed")
           \/ RegBegin("reg_open", "store_open", "recheck_open")
           \/ RegStore("store_closed", "regend_closed") \/ RegStore("store_open", "regend_open")
           \/ RegEnd("regend_closed", "regwake_closed") \/ RegEnd("regend_open", "regwake_open")
           \/ WakeTaken(Handle, "regwake_closed", "recheck_closed")
           \/ WakeTaken(Handle, "regwake_open", "recheck_open")
    PROVE  IInv'
<1> USE DEF RegBegin, RegStore, RegEnd, WakeTaken
<1> DEFINE At2 == {"store_closed", "store_open", "regend_closed", "regend_open"}
           Rest == {"reg_closed", "reg_open", "regwake_closed", "regwake_open",
                    "recheck_closed", "recheck_open"}
<1>0. hdr.reg <=> pc[Handle] \in At2
  BY DEF IInv, BitsAgree, HandleBits, RegPcs
<1>1. PICK to \in At2 \cup Rest :
          /\ Goto(Handle, to)
          /\ hdr'.reg <=> to \in At2
          /\ to \in At2 => pc[Handle] \in At2 \/ (~hdr.notif /\ ~hdr.reg)
          /\ hdr.notif /\ ~hdr'.notif => pc[Handle] \in At2
  BY <1>0 DEF IInv, TypeOK, Header, RegEndHdr
<1>2. pc[Handle] \in At2 \cup Rest
  OBVIOUS
<1>3. /\ Plain(to) /\ Plain(pc[Handle]) /\ Weight(to) = Weight(pc[Handle]) /\ to \in HandlePcs
      /\ At2 = RegPcs /\ to \notin TakePcs /\ pc[Handle] \in PollingPcs
      /\ to \notin DetachedPcs /\ pc[Handle] \notin DetachedPcs
  BY <1>1, <1>2 DEF Plain, PermitPcs, RunningPcs, Weight, In, RefPcs, Ref2Pcs, RunnerPcs, WakerPcs,
                    HandlePcs, TakePcs, RegPcs, PollingPcs, DetachedPcs
<1>4. /\ UNCHANGED <<queue, mem, poller>> /\ hdr' \in Header /\ hdr'.ref = hdr.ref
      /\ hdr'.task = hdr.task
      /\ hdr'.sched = hdr.sched /\ hdr'.run = hdr.run /\ hdr'.closed = hdr.closed
  BY DEF IInv, TypeOK, Header, RegEndHdr, cell, side
<1>5. poller \in Parents
  BY <1>3 DEF IInv, TypeOK
<1>6. RestOK'
  <2>1. got[Handle] \in Parents \cup {NoWaker}
    BY Kinds DEF IInv, TypeOK
  <2> QED BY <1>5, <2>1 DEF IInv, TypeOK, RestOK, cell, side
<1>7. PermitStep(Handle, to)
  BY <1>3, <1>4, Kinds, PlainPermit
<1>8. SlotStep(Handle, to)
  BY <1>1, <1>3, SlotFree DEF SlotStep
<1>9. to \in PollingPcs => poller' \in Parents
  BY <1>4, <1>5
<1> HIDE DEF At2, Rest
<1> QED BY <1>1, <1>3, <1>4, <1>6, <1>7, <1>8, <1>9, HandleMoves

\* The handle polls, looks again, gives its output or goes on to detach.
LEMMA HandleReads ==
    ASSUME IInv,
           \/ \E p \in Parents : HandlePoll(p)
           \/ PollTask \/ RecheckClosed \/ RecheckOpen \/ ReadOutput
           \/ CancelDone \/ Detach \/ DetachOutput
    PROVE  IInv'
<1> USE DEF HandlePoll, PollTask, RecheckClosed, RecheckOpen, ReadOutput, CancelDone, Detach, DetachOutput
<1> DEFINE To == {"poll", "reg_closed", "notify_none", "reg_open", "notify_some", "read",
                  "waiting", "done", "idle", "detach"}
           In2 == {"idle", "waiting", "poll", "recheck_closed", "recheck_open", "read",
                   "c_done", "done", "detach"}
<1>1. PICK to \in To :
          /\ Goto(Handle, to)
          /\ to \in {"poll", "reg_closed", "reg_open"} => poller' \in Parents
  <2>1. pc[Handle] \in {"poll", "recheck_closed", "recheck_open"} => poller \in Parents
    BY DEF IInv, TypeOK, PollingPcs
  <2>2. pc \in [Actors -> AllPcs] /\ Handle \in Actors
    BY Kinds DEF IInv, TypeOK
  <2>3. CASE DetachOutput
    BY <2>2, <2>3 DEF Goto
  <2>4. CASE \E p \in Parents : HandlePoll(p)
    BY <2>4
  <2>5. CASE PollTask
    BY <2>1, <2>5 DEF side
  <2>6. CASE RecheckClosed \/ RecheckOpen
    BY <2>1, <2>6 DEF side
  <2>7. CASE ReadOutput \/ CancelDone \/ Detach
    BY <2>7
  <2> QED BY <2>3, <2>4, <2>5, <2>6, <2>7
<1>2. pc[Handle] \in In2
  BY DEF Resting
<1>3. /\ Plain(to) /\ Plain(pc[Handle]) /\ Weight(to) = Weight(pc[Handle]) /\ to \in HandlePcs
      /\ to \notin TakePcs \cup RegPcs /\ pc[Handle] \notin RegPcs
      /\ (to \in PollingPcs => to \in {"poll", "reg_closed", "reg_open"})
      /\ to \notin DetachedPcs /\ pc[Handle] \notin DetachedPcs
  BY <1>1, <1>2 DEF Plain, PermitPcs, RunningPcs, Weight, In, RefPcs, Ref2Pcs, RunnerPcs, WakerPcs,
                    HandlePcs, TakePcs, RegPcs, PollingPcs, DetachedPcs
<1>4. /\ UNCHANGED <<queue, mem>> /\ hdr' \in Header /\ hdr'.ref = hdr.ref
      /\ hdr'.task = hdr.task /\ hdr'.reg = hdr.reg /\ hdr'.notif = hdr.notif
      /\ hdr'.sched = hdr.sched /\ hdr'.run = hdr.run /\ (hdr.closed => hdr'.closed)
  BY DEF IInv, TypeOK, Header, cell, side
<1>5. RestOK'
  BY DEF IInv, TypeOK, RestOK, cell, side, MoveOutput
<1>6. PermitStep(Handle, to)
  BY <1>3, <1>4, Kinds, PlainPermit
<1>7. SlotStep(Handle, to)
  BY <1>3, <1>4 DEF SlotStep
<1>8. hdr'.reg <=> to \in RegPcs
  BY <1>3, <1>4 DEF IInv, BitsAgree, HandleBits
<1> HIDE DEF To, In2
<1> QED BY <1>1, <1>3, <1>4, <1>5, <1>6, <1>7, <1>8, HandleMoves

-----------------------------------------------------------------------------
(***************************************************************************)
(* Steps that change the count.                                            *)
(***************************************************************************)

\* The count is no less than the references somebody holds.
LEMMA RefIsNat ==
    ASSUME TypeOK, RefCountExact
    PROVE  /\ hdr.ref \in Nat /\ queue \in Nat
           /\ queue # 0 => hdr.ref # 0
           /\ \A a \in Actors : pc[a] \in RefPcs => hdr.ref # 0
<1>1. IsFiniteSet(At(RefPcs)) /\ IsFiniteSet(At(Ref2Pcs))
  BY ActorsFinite, FS_Subset DEF At
<1>2. Cardinality(At(RefPcs)) \in Nat /\ Cardinality(At(Ref2Pcs)) \in Nat
  BY <1>1, FS_CardinalityType
<1>3. queue \in Nat
  BY DEF TypeOK
<1>4. hdr.ref \in Nat /\ (queue # 0 => hdr.ref # 0)
  BY <1>2, <1>3 DEF RefCountExact
<1>5. hdr.ref = 0 => At(RefPcs) = {}
  BY NoneLeft
<1> QED BY <1>3, <1>4, <1>5 DEF At

\* A step of one actor that neither frees the cell nor gives up the handle.
LEMMA CellMoves ==
    ASSUME IInv, NEW a \in Actors, NEW to \in PcsOf(a), Goto(a, to),
           hdr' \in Header, RestOK', queue' \in Nat, UNCHANGED <<mem, poller>>,
           LastRef(hdr') <=> LastRef(hdr), hdr'.task = hdr.task, hdr'.reg = hdr.reg,
           a = Handle => /\ to \notin RegPcs /\ pc[a] \notin RegPcs /\ to \notin PollingPcs
                         /\ to \in DetachedPcs <=> pc[a] \in DetachedPcs,
           hdr'.ref - queue' = hdr.ref - queue + Weight(to) - Weight(pc[a]),
           PermitStep(a, to), SlotStep(a, to)
    PROVE  IInv'
<1>1. TypeOK'
  BY TypeMoves DEF IInv, TypeOK
<1>2. HandleBits'
  <2>1. pc'[a] = to /\ \A b \in Actors : b # a => pc'[b] = pc[b]
    BY PcMoves DEF IInv
  <2>2. HandleBits /\ Handle \in Actors
    BY Kinds DEF IInv, BitsAgree
  <2> QED BY <2>1, <2>2 DEF HandleBits
<1>3. FreedAtLast'
  BY DEF IInv, BitsAgree, FreedAtLast
<1> QED BY <1>1, <1>2, <1>3, Moves

\* A Waker is cloned by the future in its poll, or from another one.
LEMMA Clones ==
    ASSUME IInv, NEW w \in Wakers,
           (\E r \in Runners : PollClone(r, w)) \/ (\E v \in Wakers : CloneWaker(v, w))
    PROVE  IInv'
<1>0. PICK b \in Actors : /\ pc[b] \in {"polling", "held"} /\ pc[w] = "none" /\ Goto(w, "held")
                          /\ hdr' = [hdr EXCEPT !.ref = @ + 1] /\ UNCHANGED <<cell, side, got>>
  BY Kinds DEF PollClone, CloneWaker
<1>1. w \in Actors /\ w # Handle /\ "held" \in PcsOf(w)
  BY Kinds DEF WakerPcs
<1>2. /\ pc[b] \in RefPcs /\ Plain("held") /\ Plain("none") /\ "held" \notin TakePcs \cup RegPcs
      /\ Weight("held") = 1 /\ Weight("none") = 0
  BY <1>0 DEF Plain, PermitPcs, RunningPcs, Weight, In, RefPcs, Ref2Pcs, RunnerPcs, WakerPcs,
              TakePcs, RegPcs
<1>3. hdr.ref \in Nat /\ hdr.ref # 0 /\ queue \in Nat
  BY <1>0, <1>2, RefIsNat DEF IInv
<1>4. /\ UNCHANGED <<queue, mem, poller>> /\ hdr' \in Header /\ hdr'.ref = hdr.ref + 1
      /\ hdr'.task = hdr.task /\ hdr'.reg = hdr.reg /\ hdr'.notif = hdr.notif
      /\ hdr'.sched = hdr.sched /\ hdr'.run = hdr.run /\ hdr'.closed = hdr.closed
  BY <1>0 DEF IInv, TypeOK, Header, cell, side
<1>5. RestOK'
  BY <1>0 DEF IInv, TypeOK, RestOK, cell, side
<1>6. LastRef(hdr') <=> LastRef(hdr)
  BY <1>3, <1>4 DEF LastRef
<1>7. hdr'.ref - queue' = hdr.ref - queue + Weight("held") - Weight(pc[w])
  BY <1>0, <1>2, <1>3, <1>4
<1>8. PermitStep(w, "held")
  BY <1>0, <1>1, <1>2, <1>4, PlainPermit
<1>9. SlotStep(w, "held")
  BY <1>2, <1>4 DEF SlotStep
<1> QED BY <1>0, <1>1, <1>3, <1>4, <1>5, <1>6, <1>7, <1>8, <1>9, CellMoves

\* Where RawTask::schedule starts and where it pushes.
SchedPcs == {"resched", "c_sched", "c_sched_aw", "d_sched"}
PushPcs  == {"push", "c_push", "c_push_aw", "d_push"}

\* RawTask::schedule protects a closure with state by a Waker clone.
LEMMA Schedules ==
    ASSUME IInv, NEW a \in Actors, NEW in \in SchedPcs, NEW to \in PushPcs, to \in PcsOf(a),
           in = "d_sched" <=> to = "d_push", Schedule(a, in, to)
    PROVE  IInv'
<1>0. pc[a] = in /\ Goto(a, to)
  BY DEF Schedule
<1>1. /\ in \in PermitPcs /\ to \in PermitPcs /\ in \in RefPcs
      /\ to \notin RunningPcs /\ to \notin TakePcs \cup RegPcs /\ in \notin RegPcs /\ to \notin PollingPcs
      /\ (to \in DetachedPcs <=> in \in DetachedPcs)
  BY DEF SchedPcs, PushPcs, PermitPcs, RefPcs, RunnerPcs, WakerPcs, RunningPcs, TakePcs, RegPcs,
         PollingPcs, DetachedPcs
<1>2. Weight(in) = 1 /\ Weight(to) = IF SizedSched THEN 2 ELSE 1
  <2>1. in \notin Ref2Pcs /\ to \in RefPcs /\ (to \in Ref2Pcs <=> SizedSched)
    BY DEF SchedPcs, PushPcs, RefPcs, Ref2Pcs, RunnerPcs, WakerPcs
  <2> QED BY <1>1, <2>1 DEF Weight, In
<1>3. hdr.ref \in Nat /\ hdr.ref # 0 /\ queue \in Nat
  BY <1>0, <1>1, RefIsNat DEF IInv
<1>4. /\ UNCHANGED <<queue, mem, poller>> /\ hdr' \in Header
      /\ hdr'.ref = hdr.ref + (IF SizedSched THEN 1 ELSE 0)
      /\ hdr'.task = hdr.task /\ hdr'.reg = hdr.reg /\ hdr'.notif = hdr.notif
      /\ hdr'.sched = hdr.sched /\ hdr'.run = hdr.run /\ hdr'.closed = hdr.closed
  BY <1>3 DEF Schedule, IInv, TypeOK, Header, cell, side
<1>5. RestOK'
  BY DEF Schedule, IInv, TypeOK, RestOK, cell, side
<1>6. LastRef(hdr') <=> LastRef(hdr)
  BY <1>3, <1>4 DEF LastRef
<1>7. hdr'.ref - queue' = hdr.ref - queue + Weight(to) - Weight(pc[a])
  BY <1>0, <1>2, <1>3, <1>4
<1>8. PermitStep(a, to)
  <2>1. queue = 0 /\ (hdr.sched \/ hdr.run \/ hdr.closed)
    BY <1>0, <1>1, HasPermit
  <2> QED BY <1>0, <1>1, <1>4, <2>1 DEF PermitStep
<1>9. SlotStep(a, to)
  BY <1>1, <1>4 DEF SlotStep
<1> QED BY <1>0, <1>1, <1>3, <1>4, <1>5, <1>6, <1>7, <1>8, <1>9, CellMoves

\* The schedule closure pushes the Runnable into the queue.
LEMMA Pushes ==
    ASSUME IInv, NEW a \in Actors, NEW in, NEW to \in PcsOf(a), Push(a, in, to),
           in \in PermitPcs, in \notin RegPcs, to \notin TakePcs \cup RegPcs, to \notin PollingPcs,
           Plain(to), to \in DetachedPcs <=> in \in DetachedPcs, Weight(to) = Weight(in) - 1
    PROVE  IInv'
<1>0. pc[a] = in /\ Goto(a, to) /\ queue' = queue + 1 /\ UNCHANGED <<hdr, mem, poller>>
  BY DEF Push, cell
<1>1. hdr.ref \in Nat /\ queue = 0 /\ Weight(in) \in Int /\ (hdr.sched \/ hdr.run \/ hdr.closed)
  BY <1>0, RefIsNat, HasPermit DEF IInv, Weight, In
<1>2. queue' \in Nat /\ queue' = 1
  BY <1>0, <1>1
<1>3. hdr' \in Header /\ RestOK'
  BY DEF Push, IInv, TypeOK, RestOK, cell
<1>4. hdr'.ref - queue' = hdr.ref - queue + Weight(to) - Weight(pc[a])
  BY <1>0, <1>1, <1>2
<1>5. PermitStep(a, to)
  BY <1>0, <1>1, <1>2 DEF PermitStep, Plain
<1>6. SlotStep(a, to)
  BY <1>0 DEF SlotStep
<1>7. LastRef(hdr') <=> LastRef(hdr)
  BY <1>0
<1> QED BY <1>0, <1>2, <1>3, <1>4, <1>5, <1>6, <1>7, CellMoves

\* An executor thread takes the Runnable.
LEMMA Pops ==
    ASSUME IInv, NEW r \in Runners, NEW to \in {"run", "discard", "resched"}, Pop(r, to)
    PROVE  IInv'
<1>0. pc[r] = "idle" /\ Goto(r, to) /\ queue > 0 /\ queue' = queue - 1 /\ UNCHANGED <<hdr, mem, poller>>
  BY DEF Pop, cell
<1>1. r \in Actors /\ r # Handle /\ to \in PcsOf(r)
  BY Kinds DEF RunnerPcs
<1>2. /\ Weight("idle") = 0 /\ Weight(to) = 1 /\ to \in PermitPcs /\ to \notin RunningPcs
      /\ to \notin TakePcs \cup RegPcs
  BY DEF PermitPcs, RunningPcs, Weight, In, RefPcs, Ref2Pcs, RunnerPcs, WakerPcs, TakePcs, RegPcs
<1>3. hdr.ref \in Nat /\ queue = 1 /\ (hdr.sched \/ hdr.run \/ hdr.closed)
  BY <1>0, RefIsNat DEF IInv, OneRunnable, BitsAgree, PermitBits
<1>4. queue' \in Nat /\ queue' = 0
  BY <1>0, <1>3
<1>5. hdr' \in Header /\ RestOK'
  BY DEF Pop, IInv, TypeOK, RestOK, cell
<1>6. hdr'.ref - queue' = hdr.ref - queue + Weight(to) - Weight(pc[r])
  BY <1>0, <1>2, <1>3, <1>4
<1>7. PermitStep(r, to)
  BY <1>0, <1>2, <1>3, <1>4 DEF PermitStep
<1>8. SlotStep(r, to)
  BY <1>0, <1>2 DEF SlotStep
<1>9. LastRef(hdr') <=> LastRef(hdr)
  BY <1>0
<1> QED BY <1>0, <1>1, <1>4, <1>5, <1>6, <1>7, <1>8, <1>9, CellMoves

\* A Runnable's thread gives up its reference; the last one frees the cell.
LEMMA DropsRef ==
    ASSUME IInv, NEW r \in Runners, DropRef(r, "drop_ref", "wake")
    PROVE  IInv'
<1> DEFINE h == [hdr EXCEPT !.ref = @ - 1]
<1>0. /\ pc[r] = "drop_ref" /\ Goto(r, "wake") /\ hdr' = h
      /\ mem' = IF LastRef(h) THEN "freed" ELSE mem
      /\ UNCHANGED <<slot, future, output, side, got>>
  BY DEF DropRef
<1>1. r \in Actors /\ r # Handle /\ "wake" \in PcsOf(r)
  BY Kinds DEF RunnerPcs
<1>2. /\ Plain("drop_ref") /\ Plain("wake") /\ "wake" \notin TakePcs \cup RegPcs
      /\ "drop_ref" \in RefPcs /\ Weight("wake") = 0 /\ Weight("drop_ref") = 1
  BY DEF Plain, PermitPcs, RunningPcs, Weight, In, RefPcs, Ref2Pcs, RunnerPcs, WakerPcs, TakePcs, RegPcs
<1>3. hdr.ref \in Nat /\ hdr.ref # 0 /\ queue \in Nat
  BY <1>0, <1>1, <1>2, RefIsNat DEF IInv
<1>4. /\ UNCHANGED <<queue, poller>> /\ hdr' \in Header /\ hdr'.ref = hdr.ref - 1
      /\ hdr'.task = hdr.task /\ hdr'.reg = hdr.reg /\ hdr'.notif = hdr.notif
      /\ hdr'.sched = hdr.sched /\ hdr'.run = hdr.run /\ hdr'.closed = hdr.closed
  BY <1>0 DEF IInv, TypeOK, Header, side
<1>5. mem' \in {"live", "freed"} /\ RestOK'
  BY <1>0 DEF IInv, TypeOK, RestOK, side
<1> HIDE DEF h
<1>6. TypeOK'
  BY <1>0, <1>1, <1>3, <1>4, <1>5, TypeMoves DEF IInv, TypeOK
<1>7. FreedAtLast'
  BY <1>0, <1>3 DEF IInv, TypeOK, BitsAgree, FreedAtLast, LastRef
<1>8. HandleBits'
  <2>1. pc'[Handle] = pc[Handle]
    BY <1>0, <1>1, PcMoves, Kinds DEF IInv
  <2> QED BY <1>4, <2>1 DEF IInv, BitsAgree, HandleBits
<1>9. hdr'.ref - queue' = hdr.ref - queue + Weight("wake") - Weight(pc[r])
  BY <1>0, <1>2, <1>3, <1>4
<1>10. PermitStep(r, "wake")
  BY <1>0, <1>1, <1>2, <1>4, PlainPermit
<1>11. SlotStep(r, "wake")
  BY <1>2, <1>4 DEF SlotStep
<1> QED BY <1>0, <1>1, <1>6, <1>7, <1>8, <1>9, <1>10, <1>11, Moves

\* The word of a task's last run.
LEMMA LastRunBits ==
    /\ LastRunHdr \in Header /\ LastRunHdr.ref = 1 /\ ~LastRunHdr.task /\ ~LastRunHdr.reg
    /\ ~LastRunHdr.notif /\ LastRunHdr.sched /\ LastRunHdr.closed /\ ~LastRunHdr.run
<1>1. NewHdr \in Header
  BY DEF NewHdr, Header
<1>2. NewHdr.ref = 1 /\ ~NewHdr.reg /\ ~NewHdr.notif /\ NewHdr.sched /\ ~NewHdr.run
  BY DEF NewHdr
<1> QED BY <1>1, <1>2 DEF LastRunHdr, Header

\* Where drop_waker is called.
DropPcs == {"held", "drop_waker", "c_drop", "c_drop_aw", "d_drop"}

\* The last pointer of an unfinished task is dropped: nobody else is there, and
\* the cell is given one more Runnable, to drop the future.
LEMMA LastRunMoves ==
    ASSUME IInv, NEW a \in Actors, NEW to \in PcsOf(a), Goto(a, to), to \in {"resched", "d_sched"},
           hdr' = LastRunHdr, UNCHANGED <<slot, mem, future, output, side, got>>,
           queue = 0, \A b \in At(RefPcs) : b = a, mem = "live", Plain(pc[a]), pc[a] \notin TakePcs,
           hdr.ref = Weight(pc[a]), pc'[Handle] \in DetachedPcs,
           \A b \in Actors : b = Handle /\ b # a => pc[b] \in DetachedPcs
    PROVE  IInv'
<1>1. /\ to \in PermitPcs /\ to \notin RunningPcs /\ to \notin TakePcs \cup RegPcs
      /\ to \notin PollingPcs /\ Weight(to) = 1
  BY DEF PermitPcs, RunningPcs, Weight, In, RefPcs, Ref2Pcs, RunnerPcs, WakerPcs, TakePcs, RegPcs, PollingPcs
<1>2. /\ hdr' \in Header /\ hdr'.ref = 1 /\ ~hdr'.task /\ ~hdr'.reg /\ ~hdr'.notif
      /\ hdr'.sched /\ hdr'.closed /\ ~hdr'.run
  BY LastRunBits
<1>3. UNCHANGED <<queue, poller>> /\ RestOK'
  BY DEF IInv, TypeOK, RestOK, side
<1>4. TypeOK'
  BY <1>1, <1>2, <1>3, TypeMoves DEF IInv, TypeOK
<1>5. FreedAtLast'
  BY <1>2 DEF FreedAtLast, LastRef
<1>6. HandleBits'
  <2>1. DetachedPcs \cap RegPcs = {}
    BY DEF DetachedPcs, RegPcs
  <2> QED BY <1>2, <2>1 DEF HandleBits
<1>7. hdr'.ref - queue' = hdr.ref - queue + Weight(to) - Weight(pc[a])
  <2>1. Weight(pc[a]) \in Int
    BY DEF Weight, In
  <2> QED BY <1>1, <1>2, <1>3, <2>1
<1>8. At(PermitPcs) = {}
  <2>1. PermitPcs \subseteq RefPcs
    BY DEF PermitPcs, RefPcs, RunnerPcs, WakerPcs
  <2> QED BY <2>1 DEF At, Plain
<1>9. At(TakePcs) = {}
  <2>1. \A b \in Actors : b # Handle => pc[b] \in RunnerPcs \cup WakerPcs
    BY DEF IInv, TypeOK, PcsOf, Actors
  <2>2. TakePcs \cap (RunnerPcs \cup WakerPcs) \subseteq RefPcs /\ TakePcs \cap DetachedPcs = {}
    BY DEF TakePcs, RunnerPcs, WakerPcs, RefPcs, DetachedPcs
  <2>3. ASSUME NEW b \in Actors, pc[b] \in TakePcs PROVE FALSE
    <3>1. CASE b = a
      BY <2>3, <3>1
    <3>2. CASE b # a /\ b = Handle
      BY <2>2, <2>3, <3>2
    <3>3. CASE b # a /\ b # Handle
      BY <2>1, <2>2, <2>3, <3>3 DEF At
    <3> QED BY <3>1, <3>2, <3>3
  <2> QED BY <2>3 DEF At
<1>10. PermitStep(a, to)
  BY <1>1, <1>2, <1>3, <1>8 DEF PermitStep
<1>11. SlotStep(a, to)
  BY <1>1, <1>2, <1>9 DEF SlotStep
<1> QED BY <1>4, <1>5, <1>6, <1>7, <1>10, <1>11, Moves

\* drop_waker: the last reference schedules an unfinished task once more, and
\* frees a finished one.
LEMMA DropsWaker ==
    ASSUME IInv, NEW a \in Actors, NEW in \in DropPcs, NEW resched \in PcsOf(a), NEW to \in PcsOf(a),
           DropWaker(a, in, resched, to), resched \in SchedPcs,
           a = Handle <=> in \in {"c_drop", "c_drop_aw", "d_drop"},
           in = "d_drop" => resched = "d_sched" /\ to = "gone",
           in \in {"held", "drop_waker"} => resched = "resched" /\ to \in {"none", "idle"},
           in \in {"c_drop", "c_drop_aw"} => to \in {"c_done", "c_take"}
    PROVE  IInv'
<1> DEFINE h == [hdr EXCEPT !.ref = @ - 1]
<1>0. /\ pc[a] = in /\ UNCHANGED <<slot, future, output, side, got>>
      /\ \/ ~LastRef(h) /\ hdr' = h /\ Goto(a, to) /\ UNCHANGED mem
         \/ LastRef(h) /\ ~Finished(h) /\ hdr' = LastRunHdr /\ Goto(a, resched) /\ UNCHANGED mem
         \/ LastRef(h) /\ Finished(h) /\ hdr' = h /\ mem' = "freed" /\ Goto(a, to)
  BY DEF DropWaker
<1>1. /\ Plain(in) /\ in \in RefPcs /\ in \notin TakePcs \cup RegPcs /\ Weight(in) = 1
  BY DEF DropPcs, Plain, PermitPcs, RunningPcs, Weight, In, RefPcs, Ref2Pcs, RunnerPcs,
         WakerPcs, TakePcs, RegPcs
<1>2. /\ Plain(to) /\ to \notin TakePcs \cup RegPcs /\ to \notin PollingPcs /\ Weight(to) = 0
      /\ a = Handle => (to \in DetachedPcs <=> in \in DetachedPcs)
  BY DEF DropPcs, Plain, PermitPcs, RunningPcs, Weight, In, RefPcs, Ref2Pcs, RunnerPcs, WakerPcs,
         TakePcs, RegPcs, PollingPcs, DetachedPcs
<1>3. hdr.ref \in Nat /\ hdr.ref # 0 /\ queue \in Nat /\ mem = "live"
  BY <1>0, <1>1, RefIsNat DEF IInv, TypeOK, BitsAgree, FreedAtLast, LastRef
<1>4. /\ h \in Header /\ h.ref = hdr.ref - 1
      /\ h.task = hdr.task /\ h.reg = hdr.reg /\ h.notif = hdr.notif
      /\ h.sched = hdr.sched /\ h.run = hdr.run /\ h.closed = hdr.closed
  BY DEF IInv, TypeOK, Header
<1> HIDE DEF h
<1>5. CASE hdr' = h /\ Goto(a, to) /\ mem' = IF LastRef(h) THEN "freed" ELSE mem
  <2>1. UNCHANGED <<queue, poller>> /\ RestOK'
    BY <1>0 DEF IInv, TypeOK, RestOK, side
  <2>2. mem' \in {"live", "freed"}
    BY <1>3, <1>5
  <2>3. TypeOK'
    BY <1>2, <1>3, <1>4, <1>5, <2>1, <2>2, TypeMoves DEF IInv, TypeOK
  <2>4. FreedAtLast'
    BY <1>3, <1>5 DEF FreedAtLast
  <2>5. HandleBits'
    <3>1. pc'[a] = to /\ \A b \in Actors : b # a => pc'[b] = pc[b]
      BY <1>5, PcMoves DEF IInv
    <3>2. HandleBits /\ Handle \in Actors
      BY Kinds DEF IInv, BitsAgree
    <3> QED BY <1>0, <1>1, <1>2, <1>4, <1>5, <3>1, <3>2 DEF HandleBits
  <2>6. hdr'.ref - queue' = hdr.ref - queue + Weight(to) - Weight(pc[a])
    BY <1>0, <1>1, <1>2, <1>3, <1>4, <1>5, <2>1
  <2>7. PermitStep(a, to)
    BY <1>0, <1>1, <1>2, <1>4, <1>5, <2>1, PlainPermit
  <2>8. SlotStep(a, to)
    BY <1>2, <1>4, <1>5 DEF SlotStep
  <2> QED BY <1>5, <2>3, <2>4, <2>5, <2>6, <2>7, <2>8, Moves
<1>6. CASE LastRef(h) /\ hdr' = LastRunHdr /\ Goto(a, resched) /\ UNCHANGED mem
  <2>1. hdr.ref = 1 /\ ~hdr.task
    BY <1>3, <1>4, <1>6 DEF LastRef
  <2>2. pc[Handle] \in DetachedPcs
    BY <2>1 DEF IInv, BitsAgree, HandleBits
  <2>3. queue = 0 /\ \A b \in At(RefPcs) : b = a
    <3>1. a \in At(RefPcs)
      BY <1>0, <1>1 DEF At
    <3> QED BY <2>1, <3>1, OnlyOne DEF IInv
  <2>4. resched \in {"resched", "d_sched"} /\ (a = Handle => resched = "d_sched")
    BY <1>0, <2>2 DEF DropPcs, DetachedPcs
  <2>5. pc'[Handle] \in DetachedPcs
    <3>1. pc'[a] = resched /\ \A b \in Actors : b # a => pc'[b] = pc[b]
      BY <1>6, PcMoves DEF IInv
    <3> QED BY <2>2, <2>4, <3>1, Kinds DEF DetachedPcs
  <2> QED BY <1>0, <1>1, <1>3, <1>6, <2>1, <2>2, <2>3, <2>4, <2>5, LastRunMoves
<1> QED BY <1>0, <1>5, <1>6

\* A step that makes a Runnable finds that nobody has one.
LEMMA NoPermit ==
    ASSUME IInv, NEW a \in Actors, NEW to, to \in PermitPcs, to \notin RunningPcs,
           MakesRunnable(hdr), queue' = queue, hdr'.sched, hdr'.run = hdr.run
    PROVE  PermitStep(a, to)
<1>1. queue = 0 /\ At(PermitPcs) = {}
  BY DEF IInv, BitsAgree, PermitBits, OneRunnable, MakesRunnable, Finished
<1> QED BY <1>1 DEF PermitStep

\* k keeps of h what only other operations write, and clears neither SCHEDULED
\* nor CLOSED.
Keeps(h, k) == /\ k \in Header /\ k.task = h.task /\ k.reg = h.reg /\ k.notif = h.notif
               /\ k.run = h.run /\ (h.closed => k.closed) /\ (h.sched => k.sched)

\* What wake and set_canceled write.
LEMMA SetBits ==
    ASSUME NEW h \in Header
    PROVE  Keeps(h, WakeByRefHdr(h)) /\ Keeps(h, CancelHdr(h)) /\ Keeps(h, [h EXCEPT !.sched = TRUE])
<1>1. Keeps(h, h)
  BY DEF Keeps
<1>2. Keeps(h, [h EXCEPT !.sched = TRUE])
  BY DEF Keeps, Header
<1>3. Keeps(h, [h EXCEPT !.sched = TRUE, !.ref = @ + 1])
  <2>1. [h EXCEPT !.sched = TRUE, !.ref = @ + 1] \in Header
    <3>1. h.ref + 1 \in Int
      BY DEF Header
    <3> QED BY <3>1 DEF Header
  <2> QED BY <2>1 DEF Keeps, Header
<1>4. Keeps(h, [h EXCEPT !.closed = TRUE])
  BY DEF Keeps, Header
<1>5. Keeps(h, [h EXCEPT !.sched = TRUE, !.closed = TRUE, !.ref = @ + 1])
  <2>1. [h EXCEPT !.sched = TRUE, !.closed = TRUE, !.ref = @ + 1] \in Header
    <3>1. h.ref + 1 \in Int
      BY DEF Header
    <3> QED BY <3>1 DEF Header
  <2> QED BY <2>1 DEF Keeps, Header
<1> QED BY <1>1, <1>2, <1>3, <1>4, <1>5 DEF WakeByRefHdr, CancelHdr

\* wake_by_ref and wake.
LEMMA Wakes ==
    ASSUME IInv, NEW w \in Wakers,
           \/ WakeByRef(w, "wake_ref_push", "held") \/ WakeByRef(w, "wake_push", "drop_waker")
           \/ WakeZst(w)
    PROVE  IInv'
<1>1. w \in Actors /\ w # Handle
  BY Kinds
<1>2. /\ pc[w] = "held" /\ UNCHANGED <<queue, mem, poller>> /\ RestOK'
      /\ hdr' \in Header /\ hdr'.task = hdr.task /\ hdr'.reg = hdr.reg /\ hdr'.notif = hdr.notif
      /\ hdr'.run = hdr.run /\ (hdr.closed => hdr'.closed) /\ (hdr.sched => hdr'.sched)
  <2>1. pc[w] = "held" /\ UNCHANGED <<queue, mem, poller>>
    BY DEF WakeByRef, WakeZst, cell
  <2>2. RestOK'
    BY DEF WakeByRef, WakeZst, cell, IInv, TypeOK, RestOK
  <2>3. hdr' = WakeByRefHdr(hdr) \/ hdr' = hdr \/ hdr' = [hdr EXCEPT !.sched = TRUE]
    BY DEF WakeByRef, WakeZst
  <2>4. hdr \in Header
    BY DEF IInv, TypeOK
  <2>5. Keeps(hdr, hdr')
    <3>1. Keeps(hdr, hdr)
      BY <2>4 DEF Keeps
    <3> QED BY <2>3, <2>4, <3>1, SetBits
  <2> QED BY <2>1, <2>2, <2>5 DEF Keeps
<1>3. PICK to \in {"wake_ref_push", "wake_push", "resched", "held", "drop_waker"} :
         /\ Goto(w, to)
         /\ \/ /\ MakesRunnable(hdr) /\ hdr'.sched
               /\ \/ to \in {"wake_ref_push", "wake_push"} /\ hdr'.ref = hdr.ref + 1
                  \/ to = "resched" /\ hdr'.ref = hdr.ref
            \/ to \in {"held", "drop_waker"} /\ hdr'.ref = hdr.ref
  <2>1. hdr \in Header
    BY DEF IInv, TypeOK
  <2>2. CASE MakesRunnable(hdr)
    BY <2>1, <2>2 DEF WakeByRef, WakeZst, WakeByRefHdr, MakesRunnable, Header
  <2>3. CASE ~MakesRunnable(hdr)
    BY <2>1, <2>3 DEF WakeByRef, WakeZst, WakeByRefHdr, MakesRunnable, Header
  <2> QED BY <2>2, <2>3
<1>4. /\ to \in PcsOf(w) /\ to \notin TakePcs \cup RegPcs /\ to \notin RunningPcs /\ Plain("held")
      /\ (to \in {"wake_ref_push", "wake_push", "resched"} => to \in PermitPcs)
      /\ (to \in {"held", "drop_waker"} => Plain(to))
      /\ "held" \in RefPcs
  BY <1>3, Kinds DEF WakerPcs, TakePcs, RegPcs, RunningPcs, PermitPcs, Plain, RefPcs, RunnerPcs
<1>5. /\ Weight("held") = 1
      /\ Weight(to) = IF to \in {"wake_ref_push", "wake_push"} THEN 2 ELSE 1
  BY <1>3 DEF Weight, In, RefPcs, Ref2Pcs, RunnerPcs, WakerPcs
<1>6. hdr.ref \in Nat /\ hdr.ref # 0 /\ queue \in Nat
  BY <1>1, <1>2, <1>4, RefIsNat DEF IInv
<1>7. hdr'.ref - queue' = hdr.ref - queue + Weight(to) - Weight(pc[w])
  <2>1. hdr'.ref = hdr.ref + Weight(to) - 1
    BY <1>3, <1>5, <1>6
  <2>2. Weight(to) \in Int
    BY <1>5
  <2> QED BY <1>2, <1>5, <1>6, <2>1, <2>2
<1>8. LastRef(hdr') <=> LastRef(hdr)
  BY <1>2, <1>3, <1>6 DEF LastRef
<1>9. PermitStep(w, to)
  BY <1>1, <1>2, <1>3, <1>4, PlainPermit, NoPermit
<1>10. SlotStep(w, to)
  BY <1>2, <1>4 DEF SlotStep
<1> QED BY <1>1, <1>2, <1>3, <1>4, <1>6, <1>7, <1>8, <1>9, <1>10, CellMoves

\* The future wakes itself in its poll: RUNNING is set, so no Runnable is made.
LEMMA Yields ==
    ASSUME IInv, NEW r \in Runners, PollYield(r)
    PROVE  IInv'
<1>1. pc[r] = "polling" /\ r \in Actors /\ r # Handle /\ pc' = pc /\ hdr \in Header
  BY Kinds DEF PollYield, IInv, TypeOK
<1>2. "polling" \in PermitPcs /\ "polling" \in RunningPcs /\ "polling" \notin TakePcs \cup RegPcs
  BY DEF PermitPcs, RunningPcs, TakePcs, RegPcs
<1>3. queue = 0 /\ hdr.run
  BY <1>1, <1>2, HasPermit
<1>4. Goto(r, pc[r]) /\ pc[r] \in PcsOf(r)
  BY <1>1 DEF Goto, IInv, TypeOK
<1>5. /\ UNCHANGED <<queue, mem, poller>> /\ hdr' \in Header /\ hdr'.ref = hdr.ref
      /\ hdr'.task = hdr.task /\ hdr'.reg = hdr.reg /\ hdr'.notif = hdr.notif /\ hdr'.run
  BY <1>1, <1>3 DEF PollYield, WakeByRefHdr, Header, cell
<1>6. RestOK'
  BY DEF PollYield, IInv, TypeOK, RestOK, cell
<1>7. PermitStep(r, pc[r])
  BY <1>1, <1>2, <1>3, <1>5 DEF PermitStep
<1>8. SlotStep(r, pc[r])
  BY <1>1, <1>2, <1>5 DEF SlotStep
<1> QED BY <1>1, <1>4, <1>5, <1>6, <1>7, <1>8, LightMoves

\* Task::set_canceled.
LEMMA Cancels ==
    ASSUME IInv, NEW g \in {"cancel", "drop"}, Cancel(g)
    PROVE  IInv'
<1>0. Handle \in Actors /\ hdr \in Header
  BY Kinds DEF IInv, TypeOK
<1>1. /\ pc[Handle] \in {"idle", "waiting", "done"} /\ UNCHANGED <<queue, mem, poller>> /\ RestOK'
      /\ hdr' = CancelHdr(hdr)
  BY DEF Cancel, Resting, IInv, TypeOK, RestOK, cell
<1>2. /\ hdr' \in Header /\ hdr'.task = hdr.task /\ hdr'.reg = hdr.reg /\ hdr'.notif = hdr.notif
      /\ hdr'.run = hdr.run /\ (hdr.closed => hdr'.closed) /\ (hdr.sched => hdr'.sched)
  BY <1>0, <1>1, SetBits DEF Keeps
<1>3. PICK to \in {"c_sched", "c_sched_aw", "c_take", "c_done"} :
         /\ Goto(Handle, to)
         /\ \/ MakesRunnable(hdr) /\ hdr'.sched /\ to \in {"c_sched", "c_sched_aw"} /\ hdr'.ref = hdr.ref + 1
            \/ to \in {"c_take", "c_done"} /\ hdr'.ref = hdr.ref
  <2>1. CASE MakesRunnable(hdr)
    BY <1>0, <2>1 DEF Cancel, CancelHdr, MakesRunnable, Header
  <2>2. CASE ~MakesRunnable(hdr)
    BY <1>0, <2>2 DEF Cancel, CancelHdr, MakesRunnable, Header
  <2> QED BY <2>1, <2>2
<1>4. /\ to \in PcsOf(Handle) /\ to \notin TakePcs \cup RegPcs /\ to \notin RunningPcs
      /\ Plain(pc[Handle]) /\ pc[Handle] \notin RegPcs /\ to \notin PollingPcs
      /\ to \notin DetachedPcs /\ pc[Handle] \notin DetachedPcs
      /\ (to \in {"c_sched", "c_sched_aw"} => to \in PermitPcs)
      /\ (to \in {"c_take", "c_done"} => Plain(to))
  BY <1>1, <1>3, Kinds DEF HandlePcs, TakePcs, RegPcs, RunningPcs, PermitPcs, Plain, PollingPcs, DetachedPcs
<1>5. /\ Weight(pc[Handle]) = 0
      /\ Weight(to) = IF to \in {"c_sched", "c_sched_aw"} THEN 1 ELSE 0
  BY <1>1, <1>3 DEF Weight, In, RefPcs, Ref2Pcs, RunnerPcs, WakerPcs
<1>6. hdr.ref \in Nat /\ queue \in Nat
  BY RefIsNat DEF IInv
<1>7. hdr'.ref - queue' = hdr.ref - queue + Weight(to) - Weight(pc[Handle])
  <2>1. hdr'.ref = hdr.ref + Weight(to)
    BY <1>3, <1>5, <1>6
  <2>2. Weight(to) \in Int
    BY <1>5
  <2> QED BY <1>1, <1>5, <1>6, <2>1, <2>2
<1>8. LastRef(hdr') <=> LastRef(hdr)
  BY <1>2, <1>4 DEF LastRef, IInv, BitsAgree, HandleBits
<1>9. PermitStep(Handle, to)
  BY <1>0, <1>1, <1>2, <1>3, <1>4, PlainPermit, NoPermit
<1>10. SlotStep(Handle, to)
  BY <1>2, <1>4 DEF SlotStep
<1> QED BY <1>0, <1>1, <1>2, <1>3, <1>4, <1>6, <1>7, <1>8, <1>9, <1>10, CellMoves

\* Task::set_detached gives up TASK, and with it the cell when it is the last.
LEMMA Detaches ==
    ASSUME IInv, DetachTask
    PROVE  IInv'
<1>0. Handle \in Actors /\ hdr \in Header /\ pc[Handle] = "detach" /\ queue \in Nat /\ hdr.ref \in Nat
  BY Kinds, RefIsNat DEF DetachTask, IInv, TypeOK
<1>1. /\ Plain("detach") /\ "detach" \notin TakePcs /\ "detach" \notin RegPcs /\ "detach" \notin DetachedPcs
      /\ Weight("detach") = 0
  BY DEF Plain, PermitPcs, RunningPcs, TakePcs, RegPcs, DetachedPcs, Weight, In, RefPcs, Ref2Pcs,
         RunnerPcs, WakerPcs
<1>2. hdr.task /\ mem = "live" /\ ~hdr.reg
  BY <1>0, <1>1 DEF IInv, TypeOK, BitsAgree, HandleBits, FreedAtLast, LastRef
<1>3. CASE hdr.ref = 0 /\ ~hdr.closed
  <2>1. Goto(Handle, "d_sched") /\ hdr' = LastRunHdr /\ UNCHANGED <<slot, mem, future, output, side, got>>
    BY <1>3 DEF DetachTask
  <2>2. queue = 0 /\ At(RefPcs) = {}
    BY <1>3, NoneLeft DEF IInv
  <2>3. "d_sched" \in PcsOf(Handle) /\ "d_sched" \in DetachedPcs
    BY Kinds DEF HandlePcs, DetachedPcs
  <2>4. pc'[Handle] = "d_sched"
    BY <1>0, <2>1, <2>3, PcMoves DEF IInv
  <2> QED BY <1>0, <1>1, <1>2, <1>3, <2>1, <2>2, <2>3, <2>4, LastRunMoves
<1>4. CASE ~(hdr.ref = 0 /\ ~hdr.closed)
  <2>1. /\ Goto(Handle, "gone") /\ hdr' = [hdr EXCEPT !.task = FALSE]
        /\ mem' = IF hdr.ref = 0 THEN "freed" ELSE mem
        /\ UNCHANGED <<slot, future, output, side, got>>
    BY <1>4 DEF DetachTask
  <2>2. /\ "gone" \in PcsOf(Handle) /\ "gone" \in DetachedPcs /\ "gone" \notin TakePcs \cup RegPcs
        /\ "gone" \notin PollingPcs /\ Plain("gone") /\ Weight("gone") = 0
    BY Kinds DEF HandlePcs, DetachedPcs, Plain, PermitPcs, RunningPcs, TakePcs, RegPcs, PollingPcs,
                 Weight, In, RefPcs, Ref2Pcs, RunnerPcs, WakerPcs
  <2>3. /\ hdr' \in Header /\ ~hdr'.task /\ hdr'.ref = hdr.ref /\ hdr'.reg = hdr.reg
        /\ hdr'.notif = hdr.notif /\ hdr'.sched = hdr.sched /\ hdr'.run = hdr.run /\ hdr'.closed = hdr.closed
    BY <1>0, <2>1 DEF Header
  <2>4. RestOK' /\ UNCHANGED <<queue, poller>> /\ mem' \in {"live", "freed"}
    BY <1>2, <2>1 DEF IInv, TypeOK, RestOK, side
  <2>5. TypeOK'
    BY <1>0, <2>1, <2>2, <2>3, <2>4, TypeMoves DEF IInv
  <2>6. FreedAtLast'
    BY <1>2, <2>1, <2>3 DEF FreedAtLast, LastRef
  <2>7. HandleBits'
    <3>1. pc'[Handle] = "gone"
      BY <1>0, <2>1, <2>2, PcMoves DEF IInv
    <3> QED BY <1>2, <2>2, <2>3, <3>1 DEF HandleBits
  <2>8. hdr'.ref - queue' = hdr.ref - queue + Weight("gone") - Weight(pc[Handle])
    BY <1>0, <1>1, <2>2, <2>3, <2>4
  <2>9. PermitStep(Handle, "gone")
    BY <1>0, <1>1, <2>2, <2>3, <2>4, PlainPermit
  <2>10. SlotStep(Handle, "gone")
    BY <2>2, <2>3 DEF SlotStep
  <2> QED BY <1>0, <2>1, <2>2, <2>5, <2>6, <2>7, <2>8, <2>9, <2>10, Moves
<1> QED BY <1>3, <1>4

-----------------------------------------------------------------------------
(***************************************************************************)
(* The theorems.                                                           *)
(***************************************************************************)

\* The cell of spawn, with its Runnable in the queue, satisfies the invariant.
LEMMA InitOK == Init => IInv
<1> SUFFICES ASSUME Init PROVE IInv
  OBVIOUS
<1>1. /\ queue = 1 /\ slot = NoWaker /\ mem = "live" /\ hdr = NewHdr /\ poller = NoWaker
      /\ \A a \in Actors : pc[a] = IF a \in Wakers THEN "none" ELSE "idle"
  BY DEF Init
<1>2. NewHdr \in Header
  BY DEF NewHdr, Header
<1>3. Handle \in Actors /\ pc[Handle] = "idle"
  BY <1>1, Kinds, ActorsAssumption
<1>4. TypeOK
  <2>1. pc \in [Actors -> AllPcs]
    BY DEF Init, AllPcs, RunnerPcs, WakerPcs
  <2>2. \A a \in Actors : pc[a] \in PcsOf(a)
    BY <1>1, ActorsAssumption DEF Actors, PcsOf, RunnerPcs, WakerPcs, HandlePcs
  <2>3. pc[Handle] \notin PollingPcs
    BY <1>3 DEF PollingPcs
  <2> QED BY <1>2, <2>1, <2>2, <2>3 DEF Init, TypeOK
<1>5. /\ At(RefPcs) = {} /\ At(Ref2Pcs) = {} /\ At(PermitPcs) = {} /\ At(RunningPcs) = {}
      /\ At(TakePcs) = {} /\ At(TakePcs \cup RegPcs) = {}
  BY <1>1 DEF At, RefPcs, Ref2Pcs, PermitPcs, RunningPcs, TakePcs, RegPcs, RunnerPcs, WakerPcs
<1>6. hdr.ref = 1 /\ hdr.task /\ ~hdr.reg /\ hdr.sched
  BY <1>1 DEF NewHdr
<1>7. RefCountExact
  <2>1. Cardinality({}) = 0
    BY FS_EmptySet
  <2> QED BY <1>1, <1>5, <1>6, <2>1 DEF RefCountExact
<1>8. OneRunnable /\ SlotExclusive
  BY <1>1, <1>5 DEF OneRunnable, SlotExclusive
<1>9. BitsAgree
  <2>1. "idle" \notin DetachedPcs /\ "idle" \notin RegPcs
    BY DEF DetachedPcs, RegPcs
  <2> QED BY <1>1, <1>3, <1>5, <1>6, <2>1
          DEF BitsAgree, PermitBits, RunningBit, NotifyBit, HandleBits, FreedAtLast, LastRef
<1> QED BY <1>4, <1>7, <1>8, <1>9 DEF IInv

\* Every step of a thread with a Runnable preserves the invariant.
LEMMA RunnerOK ==
    ASSUME IInv, NEW r \in Runners, RunnerStep(r) \/ PollEnd(r)
    PROVE  IInv'
<1>1. CASE RunClosed(r) \/ PendingClosed(r) \/ GuardClosed(r) \/ PollEnd(r)
  BY <1>1, RunGoesOn DEF PollEnd
<1>2. CASE \/ RunClosedEnd(r) \/ Ready(r) \/ PendingClosedEnd(r)
           \/ GuardClosedEnd(r) \/ GuardDrop(r) \/ DiscardEnd(r)
  BY <1>2, RunEnds
<1>3. CASE RunStart(r) \/ Discard(r) \/ Guard(r)
  BY <1>3, RunKeeps
<1>4. CASE Pending(r)
  BY <1>4, RunEnds, RunKeeps
<1>5. CASE \/ TakeBegin(r, "take", "taking", "drop_ref")
           \/ TakeBegin(r, "d_take", "d_taking", "drop_ref")
           \/ TakeEnd(r, "taking", "drop_ref") \/ TakeEnd(r, "d_taking", "d_wake")
           \/ WakeTaken(r, "wake", "idle") \/ WakeTaken(r, "d_wake", "drop_ref")
  BY <1>5, RunnerNotifies
<1>6. CASE DropRef(r, "drop_ref", "wake")
  BY <1>6, DropsRef
<1>7. CASE Schedule(r, "resched", "push")
  <2>1. r \in Actors /\ "push" \in PcsOf(r) /\ "resched" \in SchedPcs /\ "push" \in PushPcs
    BY Kinds DEF RunnerPcs, SchedPcs, PushPcs
  <2> QED BY <1>7, <2>1, Schedules
<1>8. CASE Push(r, "push", IF SizedSched THEN "drop_waker" ELSE "idle")
  <2> DEFINE to == IF SizedSched THEN "drop_waker" ELSE "idle"
  <2>1. /\ r \in Actors /\ to \in PcsOf(r) /\ "push" \in PermitPcs /\ "push" \notin RegPcs
        /\ to \notin TakePcs \cup RegPcs /\ to \notin PollingPcs /\ Plain(to)
        /\ to \notin DetachedPcs /\ "push" \notin DetachedPcs
    BY Kinds DEF RunnerPcs, PermitPcs, RegPcs, TakePcs, PollingPcs, Plain, RunningPcs, DetachedPcs
  <2>2. Weight(to) = Weight("push") - 1
    BY DEF Weight, In, RefPcs, Ref2Pcs, RunnerPcs, WakerPcs
  <2> HIDE DEF to
  <2>3. Push(r, "push", to)
    BY <1>8 DEF to
  <2> QED BY <2>1, <2>2, <2>3, Pushes
<1>9. CASE DropWaker(r, "drop_waker", "resched", "idle")
  <2>1. /\ r \in Actors /\ r # Handle /\ "resched" \in PcsOf(r) /\ "idle" \in PcsOf(r)
        /\ "drop_waker" \in DropPcs /\ "resched" \in SchedPcs
    BY Kinds DEF RunnerPcs, DropPcs, SchedPcs
  <2> QED BY <1>9, <2>1, DropsWaker
<1> QED BY <1>1, <1>2, <1>3, <1>4, <1>5, <1>6, <1>7, <1>8, <1>9 DEF RunnerStep

\* Every step with a kept Waker preserves the invariant.
LEMMA WakerOK ==
    ASSUME IInv, NEW w \in Wakers, WakerOp(w) \/ WakerStep(w)
    PROVE  IInv'
<1>0. w \in Actors /\ w # Handle /\ PcsOf(w) = WakerPcs
  BY Kinds
<1>1. CASE \E v \in Wakers : CloneWaker(w, v)
  BY <1>1, Clones
<1>2. CASE WakeByRef(w, "wake_ref_push", "held") \/ WakeByRef(w, "wake_push", "drop_waker") \/ WakeZst(w)
  BY <1>2, Wakes
<1>3. CASE DropWaker(w, "held", "resched", "none") \/ DropWaker(w, "drop_waker", "resched", "none")
  <2>1. /\ "resched" \in PcsOf(w) /\ "none" \in PcsOf(w)
        /\ "held" \in DropPcs /\ "drop_waker" \in DropPcs /\ "resched" \in SchedPcs
    BY <1>0 DEF WakerPcs, DropPcs, SchedPcs
  <2> QED BY <1>0, <1>3, <2>1, DropsWaker
<1>4. CASE Schedule(w, "resched", "push")
  <2>1. "push" \in PcsOf(w) /\ "resched" \in SchedPcs /\ "push" \in PushPcs
    BY <1>0 DEF WakerPcs, SchedPcs, PushPcs
  <2> QED BY <1>0, <1>4, <2>1, Schedules
<1>5. CASE Push(w, "wake_ref_push", "held") \/ Push(w, "wake_push", "drop_waker")
  <2>1. PICK in \in {"wake_ref_push", "wake_push"}, to \in {"held", "drop_waker"} : Push(w, in, to)
    BY <1>5
  <2>2. /\ to \in PcsOf(w) /\ in \in PermitPcs /\ in \notin RegPcs
        /\ to \notin TakePcs \cup RegPcs /\ to \notin PollingPcs /\ Plain(to)
        /\ to \notin DetachedPcs /\ in \notin DetachedPcs
    BY <1>0 DEF WakerPcs, PermitPcs, RegPcs, TakePcs, PollingPcs, Plain, RunningPcs, DetachedPcs
  <2>3. Weight(to) = Weight(in) - 1
    BY DEF Weight, In, RefPcs, Ref2Pcs, RunnerPcs, WakerPcs
  <2> QED BY <1>0, <2>1, <2>2, <2>3, Pushes
<1>6. CASE Push(w, "push", IF SizedSched THEN "drop_waker" ELSE "none")
  <2> DEFINE to == IF SizedSched THEN "drop_waker" ELSE "none"
  <2>1. /\ to \in PcsOf(w) /\ "push" \in PermitPcs /\ "push" \notin RegPcs
        /\ to \notin TakePcs \cup RegPcs /\ to \notin PollingPcs /\ Plain(to)
        /\ to \notin DetachedPcs /\ "push" \notin DetachedPcs
    BY <1>0 DEF WakerPcs, PermitPcs, RegPcs, TakePcs, PollingPcs, Plain, RunningPcs, DetachedPcs
  <2>2. Weight(to) = Weight("push") - 1
    BY DEF Weight, In, RefPcs, Ref2Pcs, RunnerPcs, WakerPcs
  <2> HIDE DEF to
  <2>3. Push(w, "push", to)
    BY <1>6 DEF to
  <2> QED BY <1>0, <2>1, <2>2, <2>3, Pushes
<1> QED BY <1>1, <1>2, <1>3, <1>4, <1>5, <1>6 DEF WakerOp, WakerStep

\* Every step of the handle that goes on by itself preserves the invariant.
LEMMA HandleOK ==
    ASSUME IInv, HandleStep
    PROVE  IInv'
<1>0. Handle \in Actors /\ PcsOf(Handle) = HandlePcs
  BY Kinds
<1>1. CASE PollTask \/ RecheckClosed \/ RecheckOpen \/ ReadOutput \/ CancelDone \/ DetachOutput
  BY <1>1, HandleReads
<1>2. CASE \/ RegBegin("reg_closed", "store_closed", "recheck_closed")
           \/ RegBegin("reg_open", "store_open", "recheck_open")
           \/ RegStore("store_closed", "regend_closed") \/ RegStore("store_open", "regend_open")
           \/ RegEnd("regend_closed", "regwake_closed") \/ RegEnd("regend_open", "regwake_open")
           \/ WakeTaken(Handle, "regwake_closed", "recheck_closed")
           \/ WakeTaken(Handle, "regwake_open", "recheck_open")
  BY <1>2, HandleRegisters
<1>3. CASE \/ TakeBegin(Handle, "notify_none", "notifying_none", "done")
           \/ TakeBegin(Handle, "notify_some", "notifying_some", "read")
           \/ TakeBegin(Handle, "c_take", "c_taking", "c_done")
           \/ NotifyTake("notifying_none", "done") \/ NotifyTake("notifying_some", "read")
           \/ TakeEnd(Handle, "c_taking", "c_wake") \/ WakeTaken(Handle, "c_wake", "c_done")
  BY <1>3, HandleNotifies
<1>4. CASE \/ Schedule(Handle, "c_sched", "c_push") \/ Schedule(Handle, "c_sched_aw", "c_push_aw")
           \/ Schedule(Handle, "d_sched", "d_push")
  <2>1. PICK in \in SchedPcs, to \in PushPcs :
            Schedule(Handle, in, to) /\ to \in HandlePcs /\ (in = "d_sched" <=> to = "d_push")
    BY <1>4 DEF HandlePcs, SchedPcs, PushPcs
  <2> QED BY <1>0, <2>1, Schedules
<1>5. CASE \/ Push(Handle, "c_push", IF SizedSched THEN "c_drop" ELSE "c_done")
           \/ Push(Handle, "c_push_aw", IF SizedSched THEN "c_drop_aw" ELSE "c_take")
           \/ Push(Handle, "d_push", IF SizedSched THEN "d_drop" ELSE "gone")
  <2>1. PICK in \in {"c_push", "c_push_aw", "d_push"},
             to \in {"c_drop", "c_done", "c_drop_aw", "c_take", "d_drop", "gone"} :
            /\ Push(Handle, in, to) /\ (in = "d_push" <=> to \in {"d_drop", "gone"})
            /\ SizedSched <=> to \in {"c_drop", "c_drop_aw", "d_drop"}
    BY <1>5
  <2>2. /\ to \in HandlePcs /\ in \in PermitPcs /\ in \notin RegPcs
        /\ to \notin TakePcs \cup RegPcs /\ to \notin PollingPcs /\ Plain(to)
        /\ (to \in DetachedPcs <=> in \in DetachedPcs)
    BY <2>1 DEF HandlePcs, PermitPcs, RegPcs, TakePcs, PollingPcs, Plain, RunningPcs, DetachedPcs
  <2>3. Weight(to) = Weight(in) - 1
    BY <2>1 DEF Weight, In, RefPcs, Ref2Pcs, RunnerPcs, WakerPcs
  <2> QED BY <1>0, <2>1, <2>2, <2>3, Pushes
<1>6. CASE \/ DropWaker(Handle, "c_drop", "c_sched", "c_done")
           \/ DropWaker(Handle, "c_drop_aw", "c_sched_aw", "c_take")
           \/ DropWaker(Handle, "d_drop", "d_sched", "gone")
  <2>1. /\ {"c_sched", "c_sched_aw", "d_sched", "c_done", "c_take", "gone"} \subseteq HandlePcs
        /\ {"c_drop", "c_drop_aw", "d_drop"} \subseteq DropPcs
        /\ {"c_sched", "c_sched_aw", "d_sched"} \subseteq SchedPcs
    BY DEF HandlePcs, DropPcs, SchedPcs
  <2>2. CASE DropWaker(Handle, "c_drop", "c_sched", "c_done")
    BY <1>0, <2>1, <2>2, DropsWaker
  <2>3. CASE DropWaker(Handle, "c_drop_aw", "c_sched_aw", "c_take")
    BY <1>0, <2>1, <2>3, DropsWaker
  <2>4. CASE DropWaker(Handle, "d_drop", "d_sched", "gone")
    BY <1>0, <2>1, <2>4, DropsWaker
  <2> QED BY <1>6, <2>2, <2>3, <2>4
<1>7. CASE DetachTask
  BY <1>7, Detaches
<1> QED BY <1>1, <1>2, <1>3, <1>4, <1>5, <1>6, <1>7 DEF HandleStep

\* Every step preserves the invariant.
LEMMA NextOK == IInv /\ [Next]_vars => IInv'
<1> SUFFICES ASSUME IInv, [Next]_vars PROVE IInv'
  OBVIOUS
<1>1. CASE \E r \in Runners : Pop(r, "run") \/ Pop(r, "discard") \/ Pop(r, "resched")
  BY <1>1, Pops
<1>2. CASE \E r \in Runners : RunnerStep(r) \/ PollEnd(r)
  BY <1>2, RunnerOK
<1>3. CASE \E r \in Runners : PollYield(r)
  BY <1>3, Yields
<1>4. CASE \E r \in Runners : \E w \in Wakers : PollClone(r, w)
  BY <1>4, Clones
<1>5. CASE \E w \in Wakers : WakerOp(w) \/ WakerStep(w)
  BY <1>5, WakerOK
<1>6. CASE (\E p \in Parents : HandlePoll(p)) \/ Detach
  BY <1>6, HandleReads
<1>7. CASE Cancel("cancel") \/ Cancel("drop")
  BY <1>7, Cancels
<1>8. CASE HandleStep
  BY <1>8, HandleOK
<1>9. CASE UNCHANGED vars
  BY <1>9 DEF vars, IInv, TypeOK, RefCountExact, OneRunnable, SlotExclusive, BitsAgree, PermitBits,
              RunningBit, NotifyBit, HandleBits, FreedAtLast, LastRef, At
<1> QED BY <1>1, <1>2, <1>3, <1>4, <1>5, <1>6, <1>7, <1>8, <1>9 DEF Next

\* The inductive invariant holds of every behaviour of the task cell, for any
\* number of executor threads and Wakers.
THEOREM Invariant == Spec => []IInv
<1>1. IInv /\ [Next]_vars => IInv'
  BY NextOK
<1> QED BY InitOK, <1>1, PTL DEF Spec

\* The variables keep their types.
THEOREM TypeCorrect == Spec => []TypeOK
<1>1. IInv => TypeOK
  BY DEF IInv
<1> QED BY <1>1, Invariant, PTL

\* The reference count of raw.rs is exact.
THEOREM CountIsExact == Spec => []RefCountExact
<1>1. IInv => RefCountExact
  BY DEF IInv
<1> QED BY <1>1, Invariant, PTL

\* Two Runnables of one task never exist, so its future is never polled twice
\* at once.
THEOREM RunnableIsUnique == Spec => []OneRunnable
<1>1. IInv => OneRunnable
  BY DEF IInv
<1> QED BY <1>1, Invariant, PTL

\* Header.awaiter is never accessed by two actors at once.
THEOREM SlotIsExclusive == Spec => []SlotExclusive
<1>1. IInv => SlotExclusive
  BY DEF IInv
<1> QED BY <1>1, Invariant, PTL

\* The bits of the header word agree with the actors.
THEOREM BitsAreTrue == Spec => []BitsAgree
<1>1. IInv => BitsAgree
  BY DEF IInv
<1> QED BY <1>1, Invariant, PTL

\* The cell is not touched after destroy.
THEOREM MemoryIsSafe == Spec => []NoUseAfterFree
<1>1. IInv => NoUseAfterFree
  <2> SUFFICES ASSUME IInv, mem = "freed"
               PROVE  /\ queue = 0
                      /\ \A r \in Runners : pc[r] \in {"idle", "wake"}
                      /\ \A w \in Wakers : pc[w] = "none"
                      /\ pc[Handle] = "gone"
    BY DEF NoUseAfterFree
  <2>1. hdr.ref = 0 /\ ~hdr.task
    BY DEF IInv, BitsAgree, FreedAtLast, LastRef
  <2>2. queue = 0 /\ At(RefPcs) = {}
    BY <2>1, NoneLeft DEF IInv
  <2>3. \A a \in Actors : pc[a] \in PcsOf(a) /\ pc[a] \notin RefPcs
    BY <2>2 DEF IInv, TypeOK, At
  <2>4. pc[Handle] \in DetachedPcs
    BY <2>1 DEF IInv, BitsAgree, HandleBits
  <2>5. /\ RunnerPcs \ RefPcs \subseteq {"idle", "wake"} /\ WakerPcs \ RefPcs \subseteq {"none"}
        /\ DetachedPcs \ RefPcs \subseteq {"gone"}
    BY DEF RunnerPcs, WakerPcs, RefPcs, DetachedPcs
  <2> QED BY <2>2, <2>3, <2>4, <2>5, Kinds
<1> QED BY <1>1, Invariant, PTL

\* When every pointer to the cell is gone the cell is freed.
THEOREM MemoryIsFreed == Spec => []NoLeak
<1>1. IInv => NoLeak
  <2> SUFFICES ASSUME IInv, queue = 0, pc[Handle] = "gone",
                      \A r \in Runners : pc[r] = "idle", \A w \in Wakers : pc[w] = "none"
               PROVE  mem = "freed"
    BY DEF NoLeak
  <2>1. At(RefPcs) = {} /\ At(Ref2Pcs) = {}
    <3>1. \A a \in Actors : pc[a] \in {"gone", "idle", "none"}
      BY DEF Actors
    <3>2. {"gone", "idle", "none"} \cap (RefPcs \cup Ref2Pcs) = {}
      BY DEF RefPcs, Ref2Pcs, RunnerPcs, WakerPcs
    <3> QED BY <3>1, <3>2 DEF At
  <2>2. hdr.ref = 0
    <3>1. Cardinality({}) = 0
      BY FS_EmptySet
    <3> QED BY <2>1, <3>1 DEF IInv, RefCountExact
  <2>3. ~hdr.task
    BY DEF IInv, BitsAgree, HandleBits, DetachedPcs
  <2> QED BY <2>2, <2>3 DEF IInv, BitsAgree, FreedAtLast, LastRef
<1> QED BY <1>1, Invariant, PTL

-----------------------------------------------------------------------------
(***************************************************************************)
(* What becomes of the future and of the output                            *)
(***************************************************************************)

\* The Runnable: in the queue, where its holder is, or not there at all.
Permit == IF queue = 1 THEN "queued"
          ELSE IF At(PermitPcs) = {} THEN "none" ELSE pc[CHOOSE a \in At(PermitPcs) : TRUE]

\* Its holder has dropped the future; will drop it, after a panic closed the task
DeadPcs  == {"run_closed", "pending_closed", "ready", "guard_take", "guard_skip", "discard_end"}
ThrowPcs == {"guard_drop", "guard_drop_take"}
LivePcs  == (PermitPcs \ DeadPcs) \cup {"queued"}
GuardPcs == {"guard", "guard_take", "guard_skip"} \cup ThrowPcs
\* The handle is about to read the output; has been told that the task is over
ReadPcs  == {"notify_some", "notifying_some", "read"}
DonePcs  == ReadPcs \cup {"notify_none", "notifying_none", "done"}

\* The handle waits for the future of a closed task to be dropped
WaitPcs  == {"reg_closed", "store_closed", "regend_closed", "regwake_closed", "recheck_closed"}

FutureFate ==
    /\ future \in {"live", "dropped"}
    /\ Permit \in LivePcs => future = "live"
    /\ Permit \in DeadPcs => future = "dropped"
    /\ future = "dropped" => Finished(hdr) \/ Permit = "ready"
    /\ Permit = "none" /\ Finished(hdr) => future = "dropped"
    /\ pc[Handle] \in DonePcs => future = "dropped" \/ Permit \in ThrowPcs
BitsFate ==
    /\ pc[Handle] \in WaitPcs => hdr.closed
    /\ hdr.comp => Permit = "none"
    /\ (hdr.sched \/ hdr.run) /\ ~Finished(hdr) => Permit # "none"
    /\ Permit \in LivePcs \ ThrowPcs => hdr.sched \/ hdr.run
    /\ Permit \in ThrowPcs => hdr.closed
    /\ Permit \in GuardPcs => MayPanic
OutputFate ==
    /\ output \in {"none", "live", "moved"}
    /\ output = "live" <=> Permit = "ready" \/ (hdr.comp /\ ~hdr.closed) \/ pc[Handle] \in ReadPcs
    /\ hdr.comp /\ ~hdr.closed => hdr.task
    /\ pc[Handle] \in ReadPcs => hdr.comp /\ hdr.closed

\* The future is alive as long as a Runnable may poll it, the bits tell whether
\* there is one, and the output is alive until run, the handle or its drop has
\* moved it.
Fate == FutureFate /\ BitsFate /\ OutputFate

\* The word without the bits that guard the slot, and the count.
FateBits(h) == <<h.sched, h.run, h.comp, h.closed, h.task>>

\* Where the Runnable is, given who has it.
LEMMA PermitIs ==
    ASSUME IInv
    PROVE  /\ \A a \in Actors : pc[a] \in PermitPcs => Permit = pc[a] /\ queue = 0
           /\ queue = 1 => Permit = "queued"
           /\ queue # 1 /\ (\A a \in Actors : pc[a] \notin PermitPcs) => Permit = "none"
           /\ Permit \in PermitPcs => \E a \in Actors : pc[a] = Permit
           /\ Permit \in PermitPcs \cup {"queued", "none"}
<1>1. ASSUME NEW a \in Actors, pc[a] \in PermitPcs PROVE Permit = pc[a] /\ queue = 0
  <2>1. queue = 0 /\ At(PermitPcs) = {a}
    BY <1>1, HasPermit DEF At
  <2>2. (CHOOSE b \in {a} : TRUE) = a
    OBVIOUS
  <2> QED BY <2>1, <2>2 DEF Permit
<1>2. "queued" \notin PermitPcs /\ "none" \notin PermitPcs
  BY DEF PermitPcs
<1> QED BY <1>1, <1>2 DEF Permit, At

\* A step of one actor moves the Runnable when it has it, or takes or makes it.
LEMMA PermitGoes ==
    ASSUME IInv, IInv', NEW a \in Actors, NEW to, Goto(a, to)
    PROVE  /\ to \in PermitPcs => Permit' = to
           /\ pc[a] \in PermitPcs => Permit = pc[a]
           /\ queue = 1 => Permit = "queued"
           /\ queue' = 1 => Permit' = "queued"
           /\ pc[a] \notin PermitPcs /\ to \notin PermitPcs /\ queue' = queue => Permit' = Permit
           /\ pc[a] \in PermitPcs /\ to \notin PermitPcs /\ queue' = 0 => Permit' = "none"
           /\ Permit \in PermitPcs \cup {"queued", "none"}
           /\ pc'[Handle] = IF a = Handle THEN to ELSE pc[Handle]
<1>1. pc'[a] = to /\ \A b \in Actors : b # a => pc'[b] = pc[b]
  BY DEF Goto, IInv, TypeOK
<1>2. Handle \in Actors
  BY Kinds
<1>3. queue \in {0, 1} /\ queue' \in {0, 1}
  BY DEF IInv, OneRunnable
<1>4. ASSUME pc[a] \in PermitPcs, to \notin PermitPcs, queue' = 0 PROVE Permit' = "none"
  <2>1. \A b \in Actors : pc[b] \in PermitPcs => b = a
    BY <1>4, HasPermit DEF At
  <2>2. \A b \in Actors : pc'[b] \notin PermitPcs
    BY <1>1, <1>4, <2>1
  <2> QED BY <1>4, <2>2 DEF Permit, At
<1>5. ASSUME pc[a] \notin PermitPcs, to \notin PermitPcs, queue' = queue PROVE Permit' = Permit
  <2>1. At(PermitPcs)' = At(PermitPcs) /\ \A b \in At(PermitPcs) : pc'[b] = pc[b]
    BY <1>1, <1>5 DEF At
  <2>2. CASE At(PermitPcs) = {}
    BY <1>5, <2>1, <2>2 DEF Permit
  <2>3. CASE At(PermitPcs) # {}
    <3>1. (CHOOSE b \in At(PermitPcs) : TRUE) \in At(PermitPcs)
      BY <2>3
    <3> QED BY <1>5, <2>1, <3>1 DEF Permit
  <2> QED BY <2>2, <2>3
<1>6. to \in PermitPcs => Permit' = to
  <2> SUFFICES ASSUME to \in PermitPcs PROVE Permit' = to
    OBVIOUS
  <2>1. a \in At(PermitPcs)'
    BY <1>1 DEF At
  <2>2. queue' = 0 /\ \A b \in At(PermitPcs)' : b = a
    BY <2>1 DEF IInv, OneRunnable
  <2>3. At(PermitPcs)' = {a} /\ (CHOOSE b \in {a} : TRUE) = a
    BY <2>1, <2>2
  <2> QED BY <1>1, <2>2, <2>3 DEF Permit
<1> QED BY <1>1, <1>2, <1>3, <1>4, <1>5, <1>6, PermitIs DEF Permit

\* Two places that are the same to the future and the output.
SameFate(l, m) ==
    /\ l \in PermitPcs <=> m \in PermitPcs
    /\ l \in LivePcs <=> m \in LivePcs
    /\ l \in ThrowPcs <=> m \in ThrowPcs
    /\ m \in GuardPcs => MayPanic
    /\ l = "ready" <=> m = "ready"
    /\ l \in ReadPcs <=> m \in ReadPcs
    /\ m \in DonePcs => l \in DonePcs
    /\ m \in WaitPcs => l \in WaitPcs

\* A step between such places that changes neither does no harm.
LEMMA SameFateMoves ==
    ASSUME IInv, IInv', Fate, NEW a \in Actors, NEW to, Goto(a, to), SameFate(pc[a], to),
           FateBits(hdr') = FateBits(hdr), UNCHANGED <<future, output, queue>>
    PROVE  Fate'
<1>1. /\ hdr'.sched = hdr.sched /\ hdr'.run = hdr.run /\ hdr'.comp = hdr.comp /\ hdr'.closed = hdr.closed
      /\ hdr'.task = hdr.task
  BY DEF FateBits
<1>2. /\ pc[a] \in PermitPcs => Permit = pc[a] /\ Permit' = to
      /\ pc[a] \notin PermitPcs => Permit' = Permit
  BY PermitGoes DEF SameFate
<1>3. /\ pc'[Handle] \in ReadPcs <=> pc[Handle] \in ReadPcs
      /\ pc'[Handle] \in DonePcs => pc[Handle] \in DonePcs
      /\ pc'[Handle] \in WaitPcs => pc[Handle] \in WaitPcs
  BY PermitGoes DEF SameFate
<1>4. /\ DeadPcs = PermitPcs \ LivePcs /\ "ready" \in DeadPcs /\ "none" \notin PermitPcs /\ ThrowPcs \subseteq PermitPcs
      /\ ThrowPcs \subseteq LivePcs /\ GuardPcs \subseteq PermitPcs /\ "none" \notin LivePcs
  BY DEF DeadPcs, LivePcs, PermitPcs, ThrowPcs, GuardPcs
<1>5. CASE pc[a] \in PermitPcs
  <2>1. Permit = pc[a] /\ Permit' = to /\ to \in PermitPcs
    BY <1>2, <1>5 DEF SameFate
  <2> QED BY <1>1, <1>3, <1>4, <2>1 DEF Fate, FutureFate, BitsFate, OutputFate, Finished, SameFate
<1>6. CASE pc[a] \notin PermitPcs
  BY <1>1, <1>2, <1>3, <1>6 DEF Fate, FutureFate, BitsFate, OutputFate, Finished
<1> QED BY <1>5, <1>6

\* Steps of run that drop the future, or see what the poll returned.
LEMMA RunFates ==
    ASSUME IInv, IInv', Fate, NEW r \in Runners,
           \/ RunClosed(r) \/ RunStart(r) \/ PollEnd(r) \/ PendingClosed(r) \/ GuardClosed(r) \/ Guard(r) \/ Discard(r)
    PROVE  Fate'
<1> USE DEF Fate, FutureFate, BitsFate, OutputFate, Finished, DeadPcs, LivePcs, PermitPcs, ThrowPcs, GuardPcs, ReadPcs, DonePcs, WaitPcs
<1>0. r \in Actors /\ r # Handle /\ hdr \in Header /\ hdr' \in Header
  BY Kinds DEF IInv, TypeOK
<1>1. CASE RunClosed(r)
  <2>1. Permit = "run" /\ Permit' = "run_closed" /\ pc'[Handle] = pc[Handle]
    BY <1>0, <1>1, PermitGoes DEF RunClosed
  <2> QED BY <1>1, <2>1 DEF RunClosed, DropFuture
<1>2. CASE RunStart(r)
  <2>1. Permit = "run" /\ Permit' = "polling" /\ pc'[Handle] = pc[Handle]
    BY <1>0, <1>2, PermitGoes DEF RunStart
  <2> QED BY <1>0, <1>2, <2>1 DEF RunStart, StartRunHdr, Header, cell
<1>3. CASE PollEnd(r)
  <2>1. CASE PollReady(r)
    <3>1. Permit = "polling" /\ Permit' = "ready" /\ pc'[Handle] = pc[Handle]
      BY <1>0, <2>1, PermitGoes DEF PollReady
    <3> QED BY <2>1, <3>1 DEF PollReady, DropFuture
  <2>2. CASE PollPending(r)
    <3>1. Permit = "polling" /\ Permit' = "pending" /\ pc'[Handle] = pc[Handle]
      BY <1>0, <2>2, PermitGoes DEF PollPending
    <3> QED BY <2>2, <3>1 DEF PollPending, cell
  <2>3. CASE PollPanic(r)
    <3>1. Permit = "polling" /\ Permit' = "guard" /\ pc'[Handle] = pc[Handle]
      BY <1>0, <2>3, PermitGoes DEF PollPanic
    <3> QED BY <2>3, <3>1 DEF PollPanic, cell
  <2> QED BY <1>3, <2>1, <2>2, <2>3 DEF PollEnd
<1>4. CASE PendingClosed(r)
  <2>1. Permit = "pending" /\ Permit' = "pending_closed" /\ pc'[Handle] = pc[Handle]
    BY <1>0, <1>4, PermitGoes DEF PendingClosed
  <2> QED BY <1>4, <2>1 DEF PendingClosed, DropFuture
<1>5. CASE GuardClosed(r)
  <2>1. Permit = "guard" /\ Permit' \in {"guard_take", "guard_skip"} /\ pc'[Handle] = pc[Handle]
    BY <1>0, <1>5, PermitGoes DEF GuardClosed
  <2> QED BY <1>5, <2>1 DEF GuardClosed, DropFuture
<1>6. CASE Guard(r)
  <2>1. Permit = "guard" /\ Permit' \in ThrowPcs /\ pc'[Handle] = pc[Handle]
    BY <1>0, <1>6, PermitGoes DEF Guard
  <2> QED BY <1>0, <1>6, <2>1 DEF Guard, PanicHdr, Header, cell
<1>7. CASE Discard(r)
  <2>1. Permit = "discard" /\ Permit' = "discard_end" /\ pc'[Handle] = pc[Handle]
    BY <1>0, <1>7, PermitGoes DEF Discard
  <2> QED BY <1>0, <1>7, <2>1 DEF Discard, DropFuture, Header
<1> QED BY <1>1, <1>2, <1>3, <1>4, <1>5, <1>6, <1>7

\* Steps of run that give the Runnable up.
LEMMA RunEndFates ==
    ASSUME IInv, IInv', Fate, NEW r \in Runners,
           \/ RunClosedEnd(r) \/ Ready(r) \/ PendingClosedEnd(r) \/ Pending(r)
           \/ GuardClosedEnd(r) \/ GuardDrop(r) \/ DiscardEnd(r)
    PROVE  Fate'
<1> USE DEF Fate, FutureFate, BitsFate, OutputFate, Finished, DeadPcs, LivePcs, PermitPcs, ThrowPcs, GuardPcs, ReadPcs, DonePcs, WaitPcs
<1>0. r \in Actors /\ r # Handle /\ hdr \in Header /\ hdr' \in Header
  BY Kinds DEF IInv, TypeOK
<1>q. pc[r] \in PermitPcs => queue = 0
  BY <1>0, HasPermit
<1>1. CASE RunClosedEnd(r)
  <2>1. Permit = "run_closed" /\ Permit' = "none" /\ pc'[Handle] = pc[Handle]
    BY <1>0, <1>q, <1>1, PermitGoes DEF RunClosedEnd, TakeIf, side
  <2> QED BY <1>0, <1>1, <2>1 DEF RunClosedEnd, Header, cell
<1>2. CASE Ready(r)
  <2>1. Permit = "ready" /\ Permit' = "none" /\ pc'[Handle] = pc[Handle]
    BY <1>0, <1>q, <1>2, PermitGoes DEF Ready, TakeIf, side
  <2> QED BY <1>0, <1>2, <2>1 DEF Ready, ReadyHdr, MoveOutput, Header
<1>3. CASE PendingClosedEnd(r)
  <2>1. Permit = "pending_closed" /\ Permit' = "none" /\ pc'[Handle] = pc[Handle]
    BY <1>0, <1>q, <1>3, PermitGoes DEF PendingClosedEnd, TakeIf, side
  <2> QED BY <1>0, <1>3, <2>1 DEF PendingClosedEnd, PendingHdr, Header, cell
<1>4. CASE Pending(r)
  <2>1. Permit = "pending" /\ Permit' = (IF hdr.sched THEN "resched" ELSE "none") /\ pc'[Handle] = pc[Handle]
    BY <1>0, <1>q, <1>4, PermitGoes DEF Pending, side
  <2> QED BY <1>0, <1>4, <2>1 DEF Pending, PendingHdr, Header, cell
<1>5. CASE GuardClosedEnd(r)
  <2>1. Permit \in {"guard_take", "guard_skip"} /\ Permit' = "none" /\ pc'[Handle] = pc[Handle]
    BY <1>0, <1>q, <1>5, PermitGoes DEF GuardClosedEnd, side
  <2> QED BY <1>0, <1>5, <2>1 DEF GuardClosedEnd, Header, cell
<1>6. CASE GuardDrop(r)
  <2>1. Permit \in ThrowPcs /\ Permit' = "none" /\ pc'[Handle] = pc[Handle]
    BY <1>0, <1>q, <1>6, PermitGoes DEF GuardDrop, side
  <2> QED BY <1>0, <1>6, <2>1 DEF GuardDrop, DropFuture
<1>7. CASE DiscardEnd(r)
  <2>1. Permit = "discard_end" /\ Permit' = "none" /\ pc'[Handle] = pc[Handle]
    BY <1>0, <1>q, <1>7, PermitGoes DEF DiscardEnd, side
  <2> QED BY <1>0, <1>7, <2>1 DEF DiscardEnd, Header, cell
<1> QED BY <1>1, <1>2, <1>3, <1>4, <1>5, <1>6, <1>7

\* Taking the Runnable out of the queue, and putting it there.
LEMMA QueueFates ==
    ASSUME IInv, IInv', Fate, NEW a \in Actors, NEW in, NEW to,
           \/ Pop(a, to) /\ to \in {"run", "discard", "resched"}
           \/ Push(a, in, to) /\ in \in PermitPcs \ (DeadPcs \cup ThrowPcs) /\ SameFate("idle", to)
    PROVE  Fate'
<1> USE DEF Fate, FutureFate, BitsFate, OutputFate, Finished, DeadPcs, LivePcs, PermitPcs, ThrowPcs, GuardPcs, ReadPcs, DonePcs, WaitPcs
<1>1. CASE Pop(a, to) /\ to \in {"run", "discard", "resched"}
  <2>1. Permit = "queued" /\ Permit' = to /\ pc[a] = "idle"
    BY <1>1, PermitGoes DEF Pop, IInv, OneRunnable
  <2>2. pc'[Handle] \in ReadPcs <=> pc[Handle] \in ReadPcs
    BY <1>1, <2>1, PermitGoes DEF Pop
  <2>3. (pc'[Handle] \in DonePcs => pc[Handle] \in DonePcs) /\ (pc'[Handle] \in WaitPcs => pc[Handle] \in WaitPcs)
    BY <1>1, <2>1, PermitGoes DEF Pop
  <2> QED BY <1>1, <2>1, <2>2, <2>3 DEF Pop, cell
<1>2. CASE Push(a, in, to) /\ in \in PermitPcs \ (DeadPcs \cup ThrowPcs) /\ SameFate("idle", to)
  <2>0. to \notin PermitPcs /\ to \notin ReadPcs /\ to \notin DonePcs /\ to \notin WaitPcs /\ in \in PermitPcs
    BY <1>2 DEF SameFate
  <2>1. Permit = in /\ pc[a] = in
    BY <1>2, <2>0, PermitGoes DEF Push
  <2>2. Permit' = "queued"
    <3>1. queue = 0
      BY <1>2, <2>0, <2>1, HasPermit
    <3> QED BY <1>2, <3>1, PermitGoes DEF Push
  <2>3. pc'[Handle] \in ReadPcs <=> pc[Handle] \in ReadPcs
    BY <1>2, <2>0, <2>1, PermitGoes DEF Push
  <2>4. (pc'[Handle] \in DonePcs => pc[Handle] \in DonePcs) /\ (pc'[Handle] \in WaitPcs => pc[Handle] \in WaitPcs)
    BY <1>2, <2>0, <2>1, PermitGoes DEF Push
  <2> QED BY <1>2, <2>1, <2>2, <2>3, <2>4 DEF Push, cell
<1> QED BY <1>1, <1>2

\* A wake-up, or cancel(), makes a Runnable of a task whose future is alive.
LEMMA MakesFates ==
    ASSUME IInv, IInv', Fate, NEW a \in Actors, NEW to, Goto(a, to), UNCHANGED <<future, output, queue>>,
           pc[a] \notin PermitPcs \cup ReadPcs, to \notin ReadPcs \cup DonePcs \cup WaitPcs,
           hdr'.run = hdr.run, hdr'.comp = hdr.comp, hdr'.task = hdr.task,
           hdr.closed => hdr'.closed, hdr.sched => hdr'.sched,
           hdr'.closed => hdr.closed \/ hdr'.sched \/ hdr'.run,
           Finished(hdr) => hdr'.closed = hdr.closed,
           MakesRunnable(hdr) => to \in LivePcs \ (ThrowPcs \cup GuardPcs \cup {"queued"}) /\ hdr'.sched,
           ~MakesRunnable(hdr) => to \notin PermitPcs
    PROVE  Fate'
<1>0. /\ pc'[Handle] \in ReadPcs <=> pc[Handle] \in ReadPcs
      /\ pc'[Handle] \in DonePcs => pc[Handle] \in DonePcs
      /\ pc'[Handle] \in WaitPcs => pc[Handle] \in WaitPcs
  BY PermitGoes
<1>1. CASE MakesRunnable(hdr)
  <2>1. to \in PermitPcs /\ Permit' = to /\ to \notin DeadPcs \cup {"none"}
    <3>1. to \in PermitPcs /\ to \notin DeadPcs \cup {"none"}
      BY <1>1 DEF LivePcs, DeadPcs, PermitPcs
    <3> QED BY <3>1, PermitGoes
  <2>2. queue = 0 /\ At(PermitPcs) = {}
    BY <1>1 DEF IInv, BitsAgree, PermitBits, OneRunnable, MakesRunnable, Finished
  <2>3. Permit = "none"
    BY <2>2 DEF Permit
  <2>4. future = "live" /\ output # "live" /\ ~hdr.comp
    BY <1>1, <2>3 DEF Fate, FutureFate, OutputFate, MakesRunnable, Finished
  <2>5. to # "ready" /\ to \notin ThrowPcs \cup GuardPcs /\ hdr'.sched
    BY <1>1, <2>1 DEF DeadPcs
  <2> QED BY <1>0, <2>1, <2>3, <2>4, <2>5 DEF Fate, FutureFate, BitsFate, OutputFate, Finished
<1>2. CASE ~MakesRunnable(hdr)
  <2>1. Permit' = Permit
    BY <1>2, PermitGoes
  <2>2. Finished(hdr) => hdr'.closed = hdr.closed
    OBVIOUS
  <2>3. Finished(hdr') => Finished(hdr) \/ Permit # "none"
    BY <1>2 DEF Fate, BitsFate, Finished, MakesRunnable
  <2>4. (hdr'.sched \/ hdr'.run) /\ ~Finished(hdr') => Permit # "none"
    BY <1>2 DEF Fate, BitsFate, Finished, MakesRunnable
  <2> QED BY <1>0, <1>2, <2>1, <2>2, <2>3, <2>4 DEF Fate, FutureFate, BitsFate, OutputFate, Finished
<1> QED BY <1>1, <1>2

\* wake, wake_by_ref, and yield_now in a poll.
LEMMA WakeFates ==
    ASSUME IInv, IInv', Fate,
           \/ \E w \in Wakers : \/ WakeByRef(w, "wake_ref_push", "held")
                                \/ WakeByRef(w, "wake_push", "drop_waker") \/ WakeZst(w)
           \/ \E r \in Runners : PollYield(r)
           \/ \E g \in {"cancel", "drop"} : Cancel(g)
    PROVE  Fate'
<1>0. hdr \in Header
  BY DEF IInv, TypeOK
<1>1. ASSUME NEW w \in Wakers, \/ WakeByRef(w, "wake_ref_push", "held")
                               \/ WakeByRef(w, "wake_push", "drop_waker") \/ WakeZst(w)
      PROVE  Fate'
  <2>0. w \in Actors /\ pc[w] = "held" /\ UNCHANGED <<future, output, queue>>
    BY <1>1, Kinds DEF WakeByRef, WakeZst, cell
  <2>1. PICK to \in {"wake_ref_push", "wake_push", "resched", "held", "drop_waker"} :
          /\ Goto(w, to)
          /\ MakesRunnable(hdr) <=> to \in {"wake_ref_push", "wake_push", "resched"}
    BY <1>1 DEF WakeByRef, WakeZst
  <2>2. /\ "held" \notin PermitPcs \cup ReadPcs /\ to \notin ReadPcs \cup DonePcs \cup WaitPcs
        /\ to \in {"wake_ref_push", "wake_push", "resched"} => to \in LivePcs \ (ThrowPcs \cup GuardPcs \cup {"queued"})
        /\ to \in {"held", "drop_waker"} => to \notin PermitPcs
    BY DEF PermitPcs, ReadPcs, DonePcs, WaitPcs, LivePcs, ThrowPcs, GuardPcs, DeadPcs
  <2>3. /\ hdr'.run = hdr.run /\ hdr'.comp = hdr.comp /\ hdr'.task = hdr.task /\ hdr'.closed = hdr.closed
        /\ hdr.sched => hdr'.sched
        /\ MakesRunnable(hdr) => hdr'.sched
    BY <1>0, <1>1 DEF WakeByRef, WakeZst, WakeByRefHdr, MakesRunnable, Header
  <2> QED BY <2>0, <2>1, <2>2, <2>3, MakesFates
<1>2. ASSUME NEW r \in Runners, PollYield(r) PROVE Fate'
  <2>1. pc[r] = "polling" /\ r \in Actors /\ pc' = pc /\ UNCHANGED <<future, output, queue>>
    BY <1>2, Kinds DEF PollYield, cell
  <2>2. Goto(r, "polling")
    BY <2>1 DEF Goto, IInv, TypeOK
  <2>3. Permit = "polling" /\ Permit' = "polling" /\ pc'[Handle] = pc[Handle]
    BY <2>1, <2>2, PermitGoes DEF PermitPcs
  <2>4. /\ hdr'.run = hdr.run /\ hdr'.comp = hdr.comp /\ hdr'.task = hdr.task /\ hdr'.closed = hdr.closed
        /\ hdr.sched => hdr'.sched
    BY <1>0, <1>2 DEF PollYield, WakeByRefHdr, Header
  <2> QED BY <2>1, <2>3, <2>4 DEF Fate, FutureFate, BitsFate, OutputFate, Finished
<1>3. ASSUME NEW g \in {"cancel", "drop"}, Cancel(g) PROVE Fate'
  <2>0. Handle \in Actors /\ pc[Handle] \in {"idle", "waiting", "done"} /\ UNCHANGED <<future, output, queue>>
    BY <1>3, Kinds DEF Cancel, Resting, cell
  <2>1. PICK to \in {"c_sched", "c_sched_aw", "c_take", "c_done"} :
          Goto(Handle, to) /\ (MakesRunnable(hdr) <=> to \in {"c_sched", "c_sched_aw"})
    BY <1>3 DEF Cancel
  <2>2. /\ pc[Handle] \notin PermitPcs \cup ReadPcs /\ to \notin ReadPcs \cup DonePcs \cup WaitPcs
        /\ to \in {"c_sched", "c_sched_aw"} => to \in LivePcs \ (ThrowPcs \cup GuardPcs \cup {"queued"})
        /\ to \in {"c_take", "c_done"} => to \notin PermitPcs
    BY <2>0 DEF PermitPcs, ReadPcs, DonePcs, WaitPcs, LivePcs, ThrowPcs, GuardPcs, DeadPcs
  <2>3. /\ hdr'.run = hdr.run /\ hdr'.comp = hdr.comp /\ hdr'.task = hdr.task
        /\ hdr.sched => hdr'.sched
        /\ hdr.closed => hdr'.closed
        /\ hdr'.closed => hdr.closed \/ hdr'.sched \/ hdr'.run
        /\ Finished(hdr) => hdr'.closed = hdr.closed
        /\ MakesRunnable(hdr) => hdr'.sched
    BY <1>0, <1>3 DEF Cancel, CancelHdr, MakesRunnable, Finished, Header
  <2> QED BY <2>0, <2>1, <2>2, <2>3, MakesFates
<1> QED BY <1>1, <1>2, <1>3

\* The last run of a task: its future is alive, and its output is not.
LEMMA LastRunFates ==
    ASSUME IInv, IInv', Fate, NEW a \in Actors, NEW to \in SchedPcs, Goto(a, to), hdr' = LastRunHdr,
           ~Finished(hdr), UNCHANGED <<future, output, queue>>, pc[a] \notin PermitPcs,
           \A b \in At(RefPcs) : b = a, pc[Handle] \notin DonePcs
    PROVE  Fate'
<1>1. Permit' = to /\ to \in LivePcs \ ThrowPcs /\ to \notin DeadPcs \cup GuardPcs \cup DonePcs \cup {"none", "ready"}
  <2>1. to \in PermitPcs /\ to \in LivePcs \ ThrowPcs
        /\ to \notin DeadPcs \cup GuardPcs \cup DonePcs \cup {"none", "ready"}
    BY DEF SchedPcs, PermitPcs, LivePcs, DeadPcs, ThrowPcs, GuardPcs, ReadPcs, DonePcs, WaitPcs
  <2> QED BY <2>1, PermitGoes
<1>2. hdr'.sched /\ hdr'.closed /\ ~hdr'.comp
  BY LastRunBits DEF LastRunHdr, NewHdr
<1>3. Permit # "ready"
  <2> SUFFICES ASSUME Permit = "ready" PROVE FALSE
    OBVIOUS
  <2>1. PICK b \in Actors : pc[b] = "ready"
    BY PermitIs DEF PermitPcs
  <2>2. a # b /\ "ready" \in RefPcs
    BY <2>1 DEF PermitPcs, RefPcs, RunnerPcs, WakerPcs
  <2> QED BY <2>1, <2>2 DEF At
<1>4. ReadPcs \subseteq DonePcs
  BY DEF ReadPcs, DonePcs, WaitPcs
<1>5. future = "live" /\ output \in {"none", "moved"}
  BY <1>3, <1>4 DEF Fate, FutureFate, OutputFate, Finished
<1>6. pc'[Handle] \notin DonePcs
  BY <1>1, PermitGoes
<1> QED BY <1>1, <1>2, <1>4, <1>5, <1>6 DEF Fate, FutureFate, BitsFate, OutputFate, Finished

\* drop_waker: the last Waker of an unfinished task schedules its last run.
LEMMA DropFates ==
    ASSUME IInv, IInv', Fate, NEW a \in Actors, NEW in \in DropPcs, NEW resched \in SchedPcs,
           NEW to \in {"none", "idle", "c_done", "c_take", "gone"}, DropWaker(a, in, resched, to)
    PROVE  Fate'
<1> DEFINE h == [hdr EXCEPT !.ref = @ - 1]
<1>0. /\ pc[a] = in /\ UNCHANGED <<future, output, queue>>
      /\ \/ hdr' = h /\ Goto(a, to)
         \/ LastRef(h) /\ ~Finished(h) /\ hdr' = LastRunHdr /\ Goto(a, resched)
  BY DEF DropWaker, side
<1>1. h.ref = hdr.ref - 1 /\ hdr.ref \in Int /\ FateBits(h) = FateBits(hdr) /\ h.task = hdr.task
      /\ (Finished(h) <=> Finished(hdr))
  BY DEF IInv, TypeOK, Header, FateBits, Finished
<1> HIDE DEF h
<1>2. SameFate(in, to) /\ in \notin PermitPcs /\ in \in RefPcs
  BY DEF SameFate, DropPcs, PermitPcs, LivePcs, ThrowPcs, GuardPcs, ReadPcs, DonePcs, WaitPcs, RefPcs, RunnerPcs, WakerPcs
<1>3. CASE hdr' = h /\ Goto(a, to)
  BY <1>0, <1>1, <1>2, <1>3, SameFateMoves
<1>4. CASE LastRef(h) /\ ~Finished(h) /\ hdr' = LastRunHdr /\ Goto(a, resched)
  <2>1. hdr.ref = 1 /\ ~hdr.task /\ ~Finished(hdr)
    BY <1>1, <1>4 DEF LastRef
  <2>2. a \in At(RefPcs)
    BY <1>0, <1>2 DEF At
  <2>3. \A b \in At(RefPcs) : b = a
    BY <2>1, <2>2, OnlyOne DEF IInv
  <2>4. pc[Handle] \notin DonePcs
    BY <2>1 DEF IInv, BitsAgree, HandleBits, DetachedPcs, DonePcs, ReadPcs
  <2> QED BY <1>0, <1>2, <1>4, <2>1, <2>3, <2>4, LastRunFates
<1> QED BY <1>0, <1>3, <1>4

\* Steps of the handle that see the outcome, read the output or give it up.
LEMMA HandleFates ==
    ASSUME IInv, IInv', Fate, PollTask \/ RecheckClosed \/ RecheckOpen \/ ReadOutput \/ DetachOutput \/ DetachTask
    PROVE  Fate'
<1>0. Handle \in Actors /\ hdr \in Header /\ pc \in [Actors -> AllPcs]
  BY Kinds DEF IInv, TypeOK
<1>1. ASSUME NEW to, Goto(Handle, to), pc[Handle] \notin PermitPcs, to \notin PermitPcs, queue' = queue
      PROVE  Permit' = Permit /\ pc'[Handle] = to
  BY <1>0, <1>1, PermitGoes
<1>2. ~hdr.sched /\ ~hdr.run /\ hdr.closed => future = "dropped" \/ Permit \in ThrowPcs
  BY <1>0, PermitIs DEF Fate, FutureFate, BitsFate, Finished, LivePcs, DeadPcs
<1>3. CASE PollTask
  <2>1. CASE hdr.closed \/ ~hdr.comp
    <3>1. PICK to \in {"reg_closed", "notify_none", "reg_open"} :
             /\ Goto(Handle, to) /\ (to \in {"notify_none", "reg_closed"} => hdr.closed)
             /\ to = "notify_none" => ~hdr.sched /\ ~hdr.run
      BY <1>3, <2>1 DEF PollTask
    <3>2. UNCHANGED <<hdr, future, output, queue>> /\ pc[Handle] = "poll"
      BY <1>3, <2>1 DEF PollTask, side
    <3>3. Permit' = Permit /\ pc'[Handle] = to
      BY <1>1, <3>1, <3>2 DEF PermitPcs
    <3> QED BY <1>2, <3>1, <3>2, <3>3 DEF Fate, FutureFate, BitsFate, OutputFate, ReadPcs, DonePcs, WaitPcs
  <2>2. CASE ~hdr.closed /\ hdr.comp
    <3>1. PICK to \in {"notify_some", "read"} : Goto(Handle, to)
      BY <1>3, <2>2 DEF PollTask
    <3>2. UNCHANGED <<future, output, queue>> /\ pc[Handle] = "poll" /\ hdr' = [hdr EXCEPT !.closed = TRUE]
      BY <1>3, <2>2 DEF PollTask, side
    <3>3. Permit' = Permit /\ pc'[Handle] = to
      BY <1>1, <3>1, <3>2 DEF PermitPcs
    <3>4. hdr'.closed /\ hdr'.comp /\ hdr'.sched = hdr.sched /\ hdr'.run = hdr.run
      BY <1>0, <2>2, <3>2 DEF Header
    <3> QED BY <2>2, <3>1, <3>2, <3>3, <3>4
            DEF Fate, FutureFate, BitsFate, OutputFate, Finished, ReadPcs, DonePcs, WaitPcs, LivePcs, DeadPcs, PermitPcs, ThrowPcs, GuardPcs
  <2> QED BY <2>1, <2>2
<1>4. CASE RecheckClosed \/ RecheckOpen
  <2>1. PICK to \in {"waiting", "notify_none", "reg_closed", "poll"} :
           /\ Goto(Handle, to)
           /\ to \in {"notify_none", "reg_closed"} => hdr.closed \/ pc[Handle] = "recheck_closed"
           /\ to = "notify_none" => ~hdr.sched /\ ~hdr.run
    BY <1>4 DEF RecheckClosed, RecheckOpen
  <2>2. UNCHANGED <<hdr, future, output, queue>> /\ pc[Handle] \in {"recheck_closed", "recheck_open"}
    BY <1>4 DEF RecheckClosed, RecheckOpen, cell, side
  <2>3. Permit' = Permit /\ pc'[Handle] = to
    BY <1>1, <2>1, <2>2 DEF PermitPcs
  <2>4. pc[Handle] = "recheck_closed" => hdr.closed
    BY DEF Fate, BitsFate, WaitPcs
  <2> QED BY <1>2, <2>1, <2>2, <2>3, <2>4 DEF Fate, FutureFate, BitsFate, OutputFate, ReadPcs, DonePcs, WaitPcs
<1>5. CASE ReadOutput
  <2>1. Goto(Handle, "done") /\ UNCHANGED <<hdr, future, queue>> /\ pc[Handle] = "read" /\ MoveOutput
    BY <1>5 DEF ReadOutput, side
  <2>2. Permit' = Permit /\ pc'[Handle] = "done"
    BY <1>1, <2>1 DEF PermitPcs
  <2> QED BY <2>1, <2>2 DEF Fate, FutureFate, BitsFate, OutputFate, ReadPcs, DonePcs, WaitPcs, MoveOutput
<1>6. CASE DetachOutput
  <2>1. /\ UNCHANGED <<future, queue, pc>> /\ pc[Handle] = "detach" /\ MoveOutput /\ hdr.comp /\ ~hdr.closed
        /\ hdr' = [hdr EXCEPT !.closed = TRUE]
    BY <1>6 DEF DetachOutput, side
  <2>2. Permit' = Permit
    BY <2>1 DEF Permit, At
  <2>3. hdr'.closed /\ hdr'.comp /\ hdr'.sched = hdr.sched /\ hdr'.run = hdr.run
    BY <1>0, <2>1 DEF Header
  <2> QED BY <2>1, <2>2, <2>3
          DEF Fate, FutureFate, BitsFate, OutputFate, Finished, ReadPcs, DonePcs, WaitPcs, LivePcs, DeadPcs, PermitPcs, ThrowPcs, GuardPcs, MoveOutput
<1>7. CASE DetachTask
  <2>0. pc[Handle] = "detach" /\ UNCHANGED <<future, output, queue>> /\ (~hdr.comp \/ hdr.closed)
    BY <1>7 DEF DetachTask, side
  <2>1. CASE hdr.ref = 0 /\ ~hdr.closed
    <3>1. Goto(Handle, "d_sched") /\ hdr' = LastRunHdr /\ ~Finished(hdr)
      BY <1>7, <2>0, <2>1 DEF DetachTask, Finished
    <3>2. At(RefPcs) = {}
      BY <2>1, NoneLeft DEF IInv
    <3>3. "d_sched" \in SchedPcs /\ "detach" \notin PermitPcs /\ "detach" \notin DonePcs
      BY DEF SchedPcs, PermitPcs, DonePcs, ReadPcs
    <3> QED BY <1>0, <2>0, <3>1, <3>2, <3>3, LastRunFates
  <2>2. CASE ~(hdr.ref = 0 /\ ~hdr.closed)
    <3>1. Goto(Handle, "gone") /\ hdr' = [hdr EXCEPT !.task = FALSE]
      BY <1>7, <2>2 DEF DetachTask
    <3>2. Permit' = Permit /\ pc'[Handle] = "gone"
      BY <1>1, <2>0, <3>1 DEF PermitPcs
    <3>3. hdr'.closed = hdr.closed /\ hdr'.comp = hdr.comp /\ hdr'.sched = hdr.sched /\ hdr'.run = hdr.run
      BY <1>0, <3>1 DEF Header
    <3> QED BY <2>0, <3>2, <3>3
            DEF Fate, FutureFate, BitsFate, OutputFate, Finished, ReadPcs, DonePcs, WaitPcs
  <2> QED BY <2>1, <2>2
<1> QED BY <1>3, <1>4, <1>5, <1>6, <1>7

\* Steps that see to references, to the slot and to the awaiter.
QuietStep(a, in, to) ==
    \/ TakeBegin(a, in, to, to) \/ TakeEnd(a, in, to) \/ WakeTaken(a, in, to) \/ DropRef(a, in, to)
    \/ Schedule(a, in, to)
    \/ a = Handle /\ (RegStore(in, to) \/ RegEnd(in, to) \/ NotifyTake(in, to))

\* They do not change what the future and the output depend on.
LEMMA QuietFates ==
    ASSUME IInv, IInv', Fate, NEW a \in Actors, NEW in, NEW to, SameFate(in, to), pc[a] = in, Goto(a, to),
           QuietStep(a, in, to)
    PROVE  Fate'
<1>1. FateBits(hdr') = FateBits(hdr) /\ UNCHANGED <<future, output, queue>>
  <2>0. hdr \in Header
    BY DEF IInv, TypeOK
  <2>1. CASE TakeBegin(a, in, to, to) \/ TakeEnd(a, in, to)
    BY <2>0, <2>1 DEF TakeBegin, TakeEnd, TakenHdr, FateBits, Header, cell, side
  <2>2. CASE WakeTaken(a, in, to)
    BY <2>2 DEF WakeTaken, cell
  <2>3. CASE DropRef(a, in, to) \/ Schedule(a, in, to)
    BY <2>0, <2>3 DEF DropRef, Schedule, FateBits, Header, cell, side
  <2>4. CASE RegStore(in, to) \/ RegEnd(in, to) \/ NotifyTake(in, to)
    BY <2>0, <2>4 DEF RegStore, RegEnd, NotifyTake, RegEndHdr, TakenHdr, FateBits, Header, side
  <2> QED BY <2>1, <2>2, <2>3, <2>4 DEF QuietStep
<1> QED BY <1>1, SameFateMoves

\* A step of a thread with a Runnable.
LEMMA RunnerFate ==
    ASSUME IInv, IInv', Fate, NEW r \in Runners,
           RunnerStep(r) \/ PollEnd(r) \/ Pop(r, "run") \/ Pop(r, "discard") \/ Pop(r, "resched")
    PROVE  Fate'
<1>0. r \in Actors
  BY Kinds
<1>1. CASE \/ RunClosed(r) \/ RunStart(r) \/ PollEnd(r) \/ PendingClosed(r) \/ GuardClosed(r) \/ Guard(r)
           \/ Discard(r)
  BY <1>1, RunFates
<1>2. CASE \/ RunClosedEnd(r) \/ Ready(r) \/ PendingClosedEnd(r) \/ Pending(r)
           \/ GuardClosedEnd(r) \/ GuardDrop(r) \/ DiscardEnd(r)
  BY <1>2, RunEndFates
<1>3. CASE Pop(r, "run") \/ Pop(r, "discard") \/ Pop(r, "resched")
  BY <1>0, <1>3, QueueFates
<1>4. CASE Push(r, "push", IF SizedSched THEN "drop_waker" ELSE "idle")
  <2> DEFINE to == IF SizedSched THEN "drop_waker" ELSE "idle"
  <2>1. "push" \in PermitPcs \ (DeadPcs \cup ThrowPcs) /\ SameFate("idle", to)
    BY DEF SameFate, PermitPcs, LivePcs, DeadPcs, ThrowPcs, GuardPcs, ReadPcs, DonePcs, WaitPcs
  <2> HIDE DEF to
  <2>2. Push(r, "push", to)
    BY <1>4 DEF to
  <2> QED BY <1>0, <2>1, <2>2, QueueFates
<1>5. CASE DropWaker(r, "drop_waker", "resched", "idle")
  BY <1>0, <1>5, DropFates DEF DropPcs, SchedPcs
<1>6. CASE \/ TakeBegin(r, "take", "taking", "drop_ref") \/ TakeBegin(r, "d_take", "d_taking", "drop_ref")
           \/ TakeEnd(r, "taking", "drop_ref") \/ TakeEnd(r, "d_taking", "d_wake")
           \/ WakeTaken(r, "wake", "idle") \/ WakeTaken(r, "d_wake", "drop_ref")
           \/ DropRef(r, "drop_ref", "wake") \/ Schedule(r, "resched", "push")
  <2>1. PICK in \in {"take", "d_take", "taking", "d_taking", "wake", "d_wake", "drop_ref", "resched"},
             to \in {"taking", "d_taking", "drop_ref", "d_wake", "idle", "wake", "push"} :
             pc[r] = in /\ Goto(r, to) /\ QuietStep(r, in, to) /\ (in = "resched" <=> to = "push")
    BY <1>6 DEF QuietStep, TakeBegin, TakeEnd, WakeTaken, DropRef, Schedule
  <2>2. SameFate(in, to)
    BY <2>1 DEF SameFate, PermitPcs, LivePcs, DeadPcs, ThrowPcs, GuardPcs, ReadPcs, DonePcs, WaitPcs
  <2> QED BY <1>0, <2>1, <2>2, QuietFates
<1> QED BY <1>1, <1>2, <1>3, <1>4, <1>5, <1>6 DEF RunnerStep

\* A step with a kept Waker, or that clones one.
LEMMA WakerFate ==
    ASSUME IInv, IInv', Fate,
           \/ \E w \in Wakers : WakerOp(w) \/ WakerStep(w)
           \/ \E r \in Runners : \E w \in Wakers : PollClone(r, w)
    PROVE  Fate'
<1>1. ASSUME NEW w \in Wakers, NEW a \in Actors, PollClone(a, w) \/ CloneWaker(a, w) PROVE Fate'
  <2>1. /\ w \in Actors /\ pc[w] = "none" /\ Goto(w, "held") /\ UNCHANGED <<future, output, queue>>
        /\ FateBits(hdr') = FateBits(hdr)
    BY <1>1, Kinds DEF PollClone, CloneWaker, cell, side, FateBits, IInv, TypeOK, Header
  <2>2. SameFate("none", "held")
    BY DEF SameFate, PermitPcs, LivePcs, DeadPcs, ThrowPcs, GuardPcs, ReadPcs, DonePcs, WaitPcs
  <2> QED BY <2>1, <2>2, SameFateMoves
<1>2. ASSUME NEW w \in Wakers, WakerOp(w) \/ WakerStep(w) PROVE Fate'
  <2>0. w \in Actors
    BY Kinds
  <2>1. CASE \/ WakeByRef(w, "wake_ref_push", "held") \/ WakeByRef(w, "wake_push", "drop_waker") \/ WakeZst(w)
    BY <2>1, WakeFates
  <2>2. CASE DropWaker(w, "held", "resched", "none") \/ DropWaker(w, "drop_waker", "resched", "none")
    BY <2>0, <2>2, DropFates DEF DropPcs, SchedPcs
  <2>3. CASE \/ Push(w, "wake_ref_push", "held") \/ Push(w, "wake_push", "drop_waker")
             \/ Push(w, "push", IF SizedSched THEN "drop_waker" ELSE "none")
    <3>1. PICK in \in {"wake_ref_push", "wake_push", "push"}, to \in {"held", "drop_waker", "none"} : Push(w, in, to)
      BY <2>3
    <3>2. in \in PermitPcs \ (DeadPcs \cup ThrowPcs) /\ SameFate("idle", to)
      BY DEF SameFate, PermitPcs, LivePcs, DeadPcs, ThrowPcs, GuardPcs, ReadPcs, DonePcs, WaitPcs
    <3> QED BY <2>0, <3>1, <3>2, QueueFates
  <2>4. CASE Schedule(w, "resched", "push")
    <3>1. SameFate("resched", "push")
      BY DEF SameFate, PermitPcs, LivePcs, DeadPcs, ThrowPcs, GuardPcs, ReadPcs, DonePcs, WaitPcs
    <3>2. pc[w] = "resched" /\ Goto(w, "push") /\ QuietStep(w, "resched", "push")
      BY <2>4 DEF Schedule, QuietStep
    <3> QED BY <2>0, <3>1, <3>2, QuietFates
  <2> QED BY <1>1, <1>2, <2>0, <2>1, <2>2, <2>3, <2>4 DEF WakerOp, WakerStep
<1> QED BY <1>1, <1>2, Kinds

\* A step of the handle.
LEMMA HandleFate ==
    ASSUME IInv, IInv', Fate, HandleStep \/ Detach \/ (\E p \in Parents : HandlePoll(p))
    PROVE  Fate'
<1>0. Handle \in Actors
  BY Kinds
<1>1. CASE PollTask \/ RecheckClosed \/ RecheckOpen \/ ReadOutput \/ DetachOutput \/ DetachTask
  BY <1>1, HandleFates
<1>2. CASE \/ DropWaker(Handle, "c_drop", "c_sched", "c_done") \/ DropWaker(Handle, "c_drop_aw", "c_sched_aw", "c_take")
           \/ DropWaker(Handle, "d_drop", "d_sched", "gone")
  BY <1>0, <1>2, DropFates DEF DropPcs, SchedPcs
<1>3. CASE \/ Push(Handle, "c_push", IF SizedSched THEN "c_drop" ELSE "c_done")
           \/ Push(Handle, "c_push_aw", IF SizedSched THEN "c_drop_aw" ELSE "c_take")
           \/ Push(Handle, "d_push", IF SizedSched THEN "d_drop" ELSE "gone")
  <2>1. PICK in \in {"c_push", "c_push_aw", "d_push"},
             to \in {"c_drop", "c_done", "c_drop_aw", "c_take", "d_drop", "gone"} : Push(Handle, in, to)
    BY <1>3
  <2>2. in \in PermitPcs \ (DeadPcs \cup ThrowPcs) /\ SameFate("idle", to)
    BY DEF SameFate, PermitPcs, LivePcs, DeadPcs, ThrowPcs, GuardPcs, ReadPcs, DonePcs, WaitPcs
  <2> QED BY <1>0, <2>1, <2>2, QueueFates
<1>4. CASE \/ RegBegin("reg_closed", "store_closed", "recheck_closed")
           \/ RegBegin("reg_open", "store_open", "recheck_open")
           \/ CancelDone \/ Detach \/ \E p \in Parents : HandlePoll(p)
  <2>1. /\ FateBits(hdr') = FateBits(hdr) /\ UNCHANGED <<future, output, queue>>
    BY <1>4 DEF RegBegin, CancelDone, Detach, HandlePoll, cell, side, FateBits, IInv, TypeOK, Header
  <2>2. PICK to \in {"store_closed", "recheck_closed", "store_open", "recheck_open", "idle", "detach", "poll"} :
           Goto(Handle, to) /\ (to \in {"store_closed", "recheck_closed"} => pc[Handle] = "reg_closed")
           /\ pc[Handle] \in {"reg_closed", "reg_open", "c_done", "idle", "waiting", "done"}
    BY <1>4 DEF RegBegin, CancelDone, Detach, HandlePoll, Resting
  <2>3. SameFate(pc[Handle], to)
    BY <2>2 DEF SameFate, PermitPcs, LivePcs, DeadPcs, ThrowPcs, GuardPcs, ReadPcs, DonePcs, WaitPcs
  <2> QED BY <1>0, <2>1, <2>2, <2>3, SameFateMoves
<1>5. CASE \/ TakeBegin(Handle, "c_take", "c_taking", "c_done") \/ TakeEnd(Handle, "c_taking", "c_wake")
           \/ WakeTaken(Handle, "c_wake", "c_done")
           \/ RegStore("store_open", "regend_open") \/ RegEnd("regend_open", "regwake_open")
           \/ WakeTaken(Handle, "regwake_open", "recheck_open")
  <2>1. PICK in \in {"c_take", "c_taking", "c_wake", "store_open", "regend_open", "regwake_open"},
             to \in {"c_taking", "c_done", "c_wake", "regend_open", "regwake_open", "recheck_open"} :
             pc[Handle] = in /\ Goto(Handle, to) /\ QuietStep(Handle, in, to)
    BY <1>5 DEF QuietStep, TakeBegin, TakeEnd, WakeTaken, RegStore, RegEnd
  <2>2. SameFate(in, to)
    BY <2>1 DEF SameFate, PermitPcs, LivePcs, DeadPcs, ThrowPcs, GuardPcs, ReadPcs, DonePcs, WaitPcs
  <2> QED BY <1>0, <2>1, <2>2, QuietFates
<1>6. CASE \/ RegStore("store_closed", "regend_closed") \/ RegEnd("regend_closed", "regwake_closed")
           \/ WakeTaken(Handle, "regwake_closed", "recheck_closed")
  <2>1. PICK in \in {"store_closed", "regend_closed", "regwake_closed"},
             to \in {"regend_closed", "regwake_closed", "recheck_closed"} :
             pc[Handle] = in /\ Goto(Handle, to) /\ QuietStep(Handle, in, to)
    BY <1>6 DEF QuietStep, WakeTaken, RegStore, RegEnd
  <2>2. SameFate(in, to)
    BY <2>1 DEF SameFate, PermitPcs, LivePcs, DeadPcs, ThrowPcs, GuardPcs, ReadPcs, DonePcs, WaitPcs
  <2> QED BY <1>0, <2>1, <2>2, QuietFates
<1>7. CASE \/ TakeBegin(Handle, "notify_none", "notifying_none", "done") \/ NotifyTake("notifying_none", "done")
           \/ TakeBegin(Handle, "notify_some", "notifying_some", "read") \/ NotifyTake("notifying_some", "read")
  <2>1. PICK in \in {"notify_none", "notifying_none", "notify_some", "notifying_some"},
             to \in {"notifying_none", "done", "notifying_some", "read"} :
             /\ pc[Handle] = in /\ Goto(Handle, to) /\ QuietStep(Handle, in, to)
             /\ in \in {"notify_none", "notifying_none"} <=> to \in {"notifying_none", "done"}
    BY <1>7 DEF QuietStep, TakeBegin, NotifyTake
  <2>2. SameFate(in, to)
    BY <2>1 DEF SameFate, PermitPcs, LivePcs, DeadPcs, ThrowPcs, GuardPcs, ReadPcs, DonePcs, WaitPcs
  <2> QED BY <1>0, <2>1, <2>2, QuietFates
<1>8. CASE \/ Schedule(Handle, "c_sched", "c_push") \/ Schedule(Handle, "c_sched_aw", "c_push_aw")
           \/ Schedule(Handle, "d_sched", "d_push")
  <2>1. PICK in \in {"c_sched", "c_sched_aw", "d_sched"}, to \in {"c_push", "c_push_aw", "d_push"} :
             pc[Handle] = in /\ Goto(Handle, to) /\ QuietStep(Handle, in, to)
    BY <1>8 DEF QuietStep, Schedule
  <2>2. SameFate(in, to)
    BY <2>1 DEF SameFate, PermitPcs, LivePcs, DeadPcs, ThrowPcs, GuardPcs, ReadPcs, DonePcs, WaitPcs
  <2> QED BY <1>0, <2>1, <2>2, QuietFates
<1> QED BY <1>1, <1>2, <1>3, <1>4, <1>5, <1>6, <1>7, <1>8 DEF HandleStep

\* Every step preserves the fate of future and output.
LEMMA FateNextOK == IInv /\ Fate /\ [Next]_vars => IInv' /\ Fate'
<1> SUFFICES ASSUME IInv, Fate, [Next]_vars PROVE IInv' /\ Fate'
  OBVIOUS
<1>1. IInv'
  BY NextOK
<1>2. CASE UNCHANGED vars
  BY <1>1, <1>2 DEF vars, Fate, FutureFate, BitsFate, OutputFate, Permit, At, Finished
<1>3. CASE Next
  BY <1>1, <1>3, RunnerFate, WakerFate, HandleFate, WakeFates DEF Next
<1> QED BY <1>1, <1>2, <1>3

\* The future of the task that spawn made is alive, its Runnable in the queue.
LEMMA FateInitOK == Init => Fate
<1> SUFFICES ASSUME Init PROVE Fate
  OBVIOUS
<1>1. Permit = "queued" /\ pc[Handle] = "idle"
  BY ActorsAssumption DEF Init, Permit, Actors
<1>2. ~hdr.comp /\ ~hdr.closed /\ hdr.sched /\ future = "live" /\ output = "none"
  BY DEF Init, NewHdr
<1> QED BY <1>1, <1>2 DEF Fate, FutureFate, BitsFate, OutputFate, Finished, LivePcs, DeadPcs, ThrowPcs, GuardPcs,
           ReadPcs, DonePcs, WaitPcs, PermitPcs

\* The future and the output follow the Runnable and the bits.
LEMMA FateHolds == Spec => [](IInv /\ Fate)
BY InitOK, FateInitOK, FateNextOK, PTL DEF Spec

\* The future is dropped once and never while it is polled, and the output is
\* moved once, in whatever order run, wake, cancel, detach and drop come.
THEOREM FutureAndOutputDropOnce == Spec => []DroppedOnce
<1>1. IInv /\ Fate => DroppedOnce
  <2> SUFFICES ASSUME IInv, Fate PROVE DroppedOnce
    OBVIOUS
  <2>1. (\E r \in Runners : pc[r] = "polling") => future = "live"
    BY PermitIs, Kinds DEF Fate, FutureFate, LivePcs, PermitPcs, DeadPcs
  <2>2. ASSUME mem = "freed" PROVE (Finished(hdr) => future = "dropped") /\ output # "live"
    <3>1. hdr.ref = 0 /\ ~hdr.task
      BY <2>2 DEF IInv, BitsAgree, FreedAtLast, LastRef
    <3>2. queue = 0 /\ At(RefPcs) = {}
      BY <3>1, NoneLeft DEF IInv
    <3>3. PermitPcs \subseteq RefPcs
      BY DEF PermitPcs, RefPcs, RunnerPcs, WakerPcs
    <3>4. Permit = "none"
      BY <3>2, <3>3 DEF Permit, At
    <3>5. pc[Handle] \notin ReadPcs
      BY <3>1 DEF IInv, BitsAgree, HandleBits, DetachedPcs, ReadPcs
    <3> QED BY <3>1, <3>4, <3>5 DEF Fate, FutureFate, OutputFate
  <2> QED BY <2>1, <2>2 DEF DroppedOnce, FutureDroppedOnce, OutputMovedOnce, Fate, FutureFate, OutputFate
<1> QED BY <1>1, FateHolds, PTL

\* When cancel().await has returned, the future of a task that does not panic
\* has been dropped.
THEOREM CancelIsFinal == ~MayPanic => (Spec => []CancelStops)
<1>1. ~MayPanic /\ Fate => CancelStops
  BY DEF Fate, FutureFate, BitsFate, CancelStops, DonePcs, GuardPcs
<1>2. CASE MayPanic
  BY <1>2
<1>3. CASE ~MayPanic
  <2>1. Fate => CancelStops
    BY <1>1, <1>3
  <2> QED BY <2>1, FateHolds, PTL
<1> QED BY <1>2, <1>3
=============================================================================
