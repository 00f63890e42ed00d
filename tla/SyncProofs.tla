----------------------------- MODULE SyncProofs -----------------------------
(***************************************************************************)
(* Proofs about the locks and the other ways to wait that MCRuntime runs,  *)
(* for every value of their constants: the semaphore, the barrier, the     *)
(* wait group, the blocking mutex and the parker.  Each has an inductive   *)
(* invariant of its own; a step of MCSpec is a step of one of them and     *)
(* leaves the others alone.  The reader-writer lock is proved about by its *)
(* own specification, Spec.                                                *)
(***************************************************************************)
EXTENDS MCRuntime, ProofLemmas

(***************************************************************************)
(* Semaphore                                                               *)
(***************************************************************************)
UserPcs == {"out", "in", "listen", "look_again", "drop_listener", "await", "look", "notify"}

\* the counter is exact
SemCounts ==
    /\ count \in Nat /\ user \in [Users -> UserPcs]
    /\ PermitsConserved

\* A step that moves one task changes the number of guards by what its old and
\* its new place bring.
LEMMA GuardsMove ==
    ASSUME user \in [Users -> UserPcs],
           NEW u \in Users, NEW here, NEW to \in UserPcs, Moves(u, here, to)
    PROVE  /\ user' \in [Users -> UserPcs] /\ Cardinality(PermitGuards) \in Nat
           /\ Cardinality(PermitGuards') = Cardinality(PermitGuards) + In(to, GuardPcs) - In(here, GuardPcs)
<1>1. user' \in [Users -> UserPcs] /\ user'[u] = to /\ user[u] = here
  BY DEF Moves
<1>2. ChangedAt(user, user', u, Users)
  BY DEF Moves, ChangedAt
<1>3. PermitGuards = Where(user, Users, GuardPcs) /\ PermitGuards' = Where(user', Users, GuardPcs)
  BY DEF PermitGuards, Where
<1>4. /\ Cardinality(Where(user, Users, GuardPcs)) \in Nat
      /\ Cardinality(Where(user', Users, GuardPcs)) =
           Cardinality(Where(user, Users, GuardPcs)) + In(user'[u], GuardPcs) - In(user[u], GuardPcs)
  BY <1>2, CountAfterChange, SemaphoreAssumption
<1> QED BY <1>1, <1>3, <1>4

\* A step that neither makes nor drops a guard, and leaves the count alone,
\* preserves the invariant.
LEMMA SameGuards ==
    ASSUME SemCounts, NEW u \in Users, NEW here, NEW to \in UserPcs, Moves(u, here, to),
           UNCHANGED count, In(here, GuardPcs) = In(to, GuardPcs)
    PROVE  SemCounts'
<1>1. user \in [Users -> UserPcs]
  BY DEF SemCounts
<1>2. /\ user' \in [Users -> UserPcs] /\ Cardinality(PermitGuards) \in Nat
      /\ Cardinality(PermitGuards') = Cardinality(PermitGuards) + In(to, GuardPcs) - In(here, GuardPcs)
  BY <1>1, GuardsMove
<1>3. In(to, GuardPcs) \in {0, 1}
  BY DEF In
<1>4. Cardinality(PermitGuards') = Cardinality(PermitGuards)
  BY <1>2, <1>3
<1> QED BY <1>2, <1>4 DEF SemCounts, PermitsConserved

\* try_acquire takes a permit exactly when it makes a guard.
LEMMA TryAcquireCounts ==
    ASSUME SemCounts, NEW u \in Users, NEW here \in UserPcs, NEW won \in GuardPcs,
           NEW lost \in UserPcs, here \notin GuardPcs, lost \notin GuardPcs, TryAcquire(u, here, won, lost)
    PROVE  SemCounts'
<1>1. CASE count > 0
  <2>1. Moves(u, here, won) /\ count' = count - 1 /\ won \in UserPcs
    BY <1>1 DEF TryAcquire, GuardPcs, UserPcs
  <2>2. /\ user' \in [Users -> UserPcs] /\ Cardinality(PermitGuards) \in Nat
        /\ Cardinality(PermitGuards') = Cardinality(PermitGuards) + In(won, GuardPcs) - In(here, GuardPcs)
    BY <2>1, GuardsMove DEF SemCounts
  <2>3. In(won, GuardPcs) = 1 /\ In(here, GuardPcs) = 0
    BY DEF In
  <2> QED BY <1>1, <2>1, <2>2, <2>3 DEF SemCounts, PermitsConserved
<1>2. CASE ~(count > 0)
  <2>1. Moves(u, here, lost) /\ UNCHANGED count
    BY <1>2 DEF TryAcquire
  <2>2. In(here, GuardPcs) = In(lost, GuardPcs)
    BY DEF In
  <2> QED BY <2>1, <2>2, SameGuards
<1> QED BY <1>1, <1>2

\* Every step keeps the counter exact.
LEMMA SemStepCounts == SemCounts /\ [SNext]_svars => SemCounts'
<1> SUFFICES ASSUME SemCounts, [SNext]_svars PROVE SemCounts'
  OBVIOUS
<1>1. CASE UNCHANGED svars
  BY <1>1 DEF svars, SemCounts, PermitsConserved, PermitGuards
<1>2. ASSUME NEW u \in Users, Acquire(u) \/ LookAgain(u) \/ Look(u) PROVE SemCounts'
  <2>1. /\ "out" \in UserPcs \ GuardPcs /\ "listen" \in UserPcs \ GuardPcs /\ "look" \in UserPcs \ GuardPcs
        /\ "look_again" \in UserPcs \ GuardPcs /\ "await" \in UserPcs \ GuardPcs
        /\ "in" \in GuardPcs /\ "drop_listener" \in GuardPcs
    BY DEF UserPcs, GuardPcs
  <2> QED BY <1>2, <2>1, TryAcquireCounts DEF Acquire, LookAgain, Look
<1>3. ASSUME NEW u \in Users, GiveUp(u) \/ ListenTo(u) \/ Awaited(u) \/ CancelAcquire(u) \/ NotifyOne(u) \/ DropIt(u)
      PROVE SemCounts'
  <2>1. PICK here \in UserPcs, to \in UserPcs : Moves(u, here, to) /\ (here \in GuardPcs <=> to \in GuardPcs) /\ UNCHANGED count
    BY <1>3 DEF GiveUp, ListenTo, Awaited, CancelAcquire, NotifyOne, DropIt, UserPcs, GuardPcs
  <2>2. In(here, GuardPcs) = In(to, GuardPcs)
    BY <2>1 DEF In
  <2> QED BY <2>1, <2>2, SameGuards
<1>4. ASSUME NEW u \in Users, Release(u) PROVE SemCounts'
  <2>1. Moves(u, "in", "notify") /\ count' = count + 1 /\ "notify" \in UserPcs
    BY <1>4 DEF Release, UserPcs
  <2>2. /\ user' \in [Users -> UserPcs] /\ Cardinality(PermitGuards) \in Nat
        /\ Cardinality(PermitGuards') = Cardinality(PermitGuards) + In("notify", GuardPcs) - In("in", GuardPcs)
    BY <2>1, GuardsMove DEF SemCounts
  <2>3. In("notify", GuardPcs) = 0 /\ In("in", GuardPcs) = 1
    BY DEF In, GuardPcs
  <2> QED BY <2>1, <2>2, <2>3 DEF SemCounts, PermitsConserved
<1> QED BY <1>1, <1>2, <1>3, <1>4 DEF SNext


ListenPcs == {"look_again", "drop_listener", "await"}

\* who listens, and that nobody waits for permits that are all free
SemWaits ==
    /\ IsList(event, Users) /\ Ids(event) = {u \in Users : user[u] \in ListenPcs}
    /\ Permits > 0 /\ (\E u \in Users : user[u] = "await") =>
          \/ PermitGuards # {} \/ Told(event) # {}
          \/ \E u \in Users : user[u] \in {"notify", "look"}
SemInv == SemCounts /\ SemWaits

\* No permits are left only while there are guards.
LEMMA NoneLeft == ASSUME SemCounts, Permits > 0, ~(count > 0) PROVE PermitGuards # {}
<1>1. count = 0
  BY DEF SemCounts
<1>2. Cardinality(PermitGuards) \in Nat
  <2>1. PermitGuards \subseteq Users
    BY DEF PermitGuards
  <2> QED BY <2>1, SemaphoreAssumption, FS_Subset, FS_CardinalityType
<1>3. Cardinality(PermitGuards) = Permits
  BY <1>1, <1>2, SemaphoreAssumption DEF SemCounts, PermitsConserved
<1> QED BY <1>3, FS_EmptySet

\* A step that makes somebody notify or look, or leaves a guard, leaves nobody
\* to wait for nothing.
LEMMA SemStepWaits == ASSUME SemInv, SNext, SemCounts' PROVE SemWaits'
<1> USE DEF SemInv
<1> PICK u \in Users :
        \/ Acquire(u) \/ GiveUp(u) \/ ListenTo(u) \/ LookAgain(u) \/ DropIt(u) \/ Awaited(u) \/ Look(u)
        \/ CancelAcquire(u) \/ Release(u) \/ NotifyOne(u)
  BY DEF SNext
<1>1. /\ user \in [Users -> UserPcs] /\ user' \in [Users -> UserPcs]
      /\ IsList(event, Users) /\ Ids(event) = {x \in Users : user[x] \in ListenPcs} /\ Told(event) \subseteq Ids(event)
      /\ \A l : IsNotified(event, l) <=> l \in Told(event)
  BY ListViews DEF SemWaits, SemCounts
<1>2. ASSUME UNCHANGED event, NEW here, NEW to, Moves(u, here, to), here \in ListenPcs <=> to \in ListenPcs,
             to \in GuardPcs \cup {"notify", "look"} \/ here \notin GuardPcs \cup {"notify", "look"},
             Permits > 0 /\ to = "await" => PermitGuards' # {}
      PROVE  SemWaits'
  <2>1. IsList(event, Users)' /\ Ids(event)' = {x \in Users : user'[x] \in ListenPcs}
    BY <1>1, <1>2 DEF Moves
  <2>2. ASSUME Permits > 0, NEW x \in Users, user'[x] = "await"
        PROVE  \/ PermitGuards' # {} \/ Told(event) # {} \/ \E y \in Users : user'[y] \in {"notify", "look"}
    <3>1. CASE to = "await"
      BY <2>2, <3>1, <1>2
    <3>2. CASE to \in GuardPcs \cup {"notify", "look"}
      <4>1. user'[u] = to
        BY <1>1, <1>2 DEF Moves
      <4> QED BY <3>2, <4>1 DEF PermitGuards
    <3>3. CASE to # "await" /\ here \notin GuardPcs \cup {"notify", "look"}
      <4>1. x # u /\ user[x] = "await"
        BY <1>1, <1>2, <2>2, <3>3 DEF Moves
      <4>2. \/ PermitGuards # {} \/ Told(event) # {} \/ \E y \in Users : user[y] \in {"notify", "look"}
        BY <4>1, <2>2 DEF SemWaits
      <4>3. \A y \in Users : user[y] \in GuardPcs \cup {"notify", "look"} => user'[y] = user[y]
        BY <1>1, <1>2, <3>3 DEF Moves
      <4> QED BY <4>2, <4>3 DEF PermitGuards
    <3> QED BY <1>2, <3>1, <3>2, <3>3
  <2> QED BY <1>2, <2>1, <2>2 DEF SemWaits
<1>3. CASE Acquire(u) \/ Look(u) \/ LookAgain(u)
  <2>1. CASE count > 0
    BY <1>2, <1>3, <2>1 DEF Acquire, Look, LookAgain, TryAcquire, ListenPcs, GuardPcs
  <2>2. CASE ~(count > 0)
    <3>1. Permits > 0 => PermitGuards # {}
      BY <2>2, NoneLeft
    <3>2. \A x \in PermitGuards : x \in PermitGuards'
      BY <1>1, <1>3, <2>2 DEF Acquire, Look, LookAgain, TryAcquire, Moves, PermitGuards, GuardPcs
    <3>3. IsList(event, Users)' /\ Ids(event)' = {x \in Users : user'[x] \in ListenPcs}
      BY <1>1, <1>3, <2>2 DEF Acquire, Look, LookAgain, TryAcquire, Moves, ListenPcs
    <3> QED BY <3>1, <3>2, <3>3 DEF SemWaits
  <2> QED BY <2>1, <2>2
<1>4. CASE GiveUp(u) \/ Release(u)
  BY <1>2, <1>4 DEF GiveUp, Release, ListenPcs, GuardPcs
<1>5. CASE ListenTo(u)
  <2>1. u \notin Ids(event) /\ user[u] = "listen" /\ user'[u] = "look_again" /\ \A x \in Users \ {u} : user'[x] = user[x]
    BY <1>1, <1>5 DEF ListenTo, Moves, ListenPcs
  <2>2. IsList(event', Users) /\ Ids(event') = Ids(event) \cup {u} /\ Told(event') = Told(event)
    BY <1>1, <1>5, <2>1, ListenList DEF ListenTo
  <2>3. Ids(event') = {x \in Users : user'[x] \in ListenPcs} /\ PermitGuards' = PermitGuards
    BY <1>1, <2>1, <2>2 DEF ListenPcs, PermitGuards, GuardPcs
  <2> QED BY <2>1, <2>2, <2>3 DEF SemWaits
<1>6. CASE DropIt(u) \/ CancelAcquire(u)
  <2>1. u \in Ids(event) /\ user'[u] \in {"in", "out"} /\ \A x \in Users \ {u} : user'[x] = user[x]
    BY <1>1, <1>6 DEF DropIt, CancelAcquire, Moves, ListenPcs
  <2>2. /\ IsList(event', Users) /\ Ids(event') = Ids(event) \ {u} /\ Told(event) \ {u} \subseteq Told(event')
        /\ u \in Told(event) /\ Ids(event) # {u} => Told(event') # {}
    BY <1>1, <1>6, DropList DEF DropIt, CancelAcquire
  <2>3. Ids(event') = {x \in Users : user'[x] \in ListenPcs}
    BY <1>1, <2>1, <2>2 DEF ListenPcs
  <2>4. ASSUME Permits > 0, NEW x \in Users, user'[x] = "await"
        PROVE  \/ PermitGuards' # {} \/ Told(event') # {} \/ \E y \in Users : user'[y] \in {"notify", "look"}
    <3>1. x # u /\ x \in Ids(event) /\ user[x] = "await"
      BY <1>1, <2>1, <2>4 DEF ListenPcs
    <3>2. \/ PermitGuards # {} \/ Told(event) # {} \/ \E y \in Users : user[y] \in {"notify", "look"}
      BY <3>1, <2>4 DEF SemWaits
    <3>3. CASE DropIt(u)
      <4>1. user'[u] = "in"
        BY <1>1, <3>3 DEF DropIt, Moves
      <4> QED BY <4>1 DEF PermitGuards, GuardPcs
    <3>4. CASE CancelAcquire(u)
      <4>1. user[u] = "await"
        BY <3>4 DEF CancelAcquire, Moves
      <4>2. PermitGuards \subseteq PermitGuards'
        BY <2>1, <4>1 DEF PermitGuards, GuardPcs
      <4>3. \A y \in Users : user[y] \in {"notify", "look"} => user'[y] = user[y]
        BY <2>1, <4>1
      <4> QED BY <2>2, <3>1, <3>2, <4>2, <4>3
    <3> QED BY <1>6, <3>3, <3>4
  <2> QED BY <2>2, <2>3, <2>4 DEF SemWaits
<1>7. CASE Awaited(u)
  <2>1. user'[u] = "look" /\ user[u] = "await" /\ \A x \in Users \ {u} : user'[x] = user[x]
    BY <1>1, <1>7 DEF Awaited, Moves
  <2>2. IsList(event', Users) /\ Ids(event') = Ids(event) \ {u}
    BY <1>1, <1>7, WithoutList DEF Awaited, Consume
  <2>3. Ids(event') = {x \in Users : user'[x] \in ListenPcs}
    BY <1>1, <2>1, <2>2 DEF ListenPcs
  <2> QED BY <2>1, <2>2, <2>3 DEF SemWaits
<1>8. CASE NotifyOne(u)
  <2>1. user'[u] = "out" /\ user[u] = "notify" /\ \A x \in Users \ {u} : user'[x] = user[x]
    BY <1>1, <1>8 DEF NotifyOne, Moves
  <2>2. IsList(event', Users) /\ Ids(event') = Ids(event) /\ (Ids(event) # {} => Told(event') # {})
    <3>1. event' = Notify(event, 1) /\ 1 \in Nat /\ 1 > 0
      BY <1>8 DEF NotifyOne
    <3> QED BY <1>1, <3>1, NotifyList
  <2>3. Ids(event') = {x \in Users : user'[x] \in ListenPcs}
    BY <1>1, <2>1, <2>2 DEF ListenPcs
  <2>4. (\E x \in Users : user'[x] = "await") => Told(event') # {}
    BY <2>2, <2>3 DEF ListenPcs
  <2> QED BY <2>2, <2>3, <2>4 DEF SemWaits
<1> QED BY <1>3, <1>4, <1>5, <1>6, <1>7, <1>8

\* The semaphore's invariant holds at first, every step preserves it, and it
\* says what is to be shown.
LEMMA SemInitHolds == SInit => SemInv
<1> SUFFICES ASSUME SInit PROVE SemInv
  OBVIOUS
<1>1. PermitGuards = {} /\ user \in [Users -> UserPcs] /\ count = Permits
  BY DEF SInit, PermitGuards, GuardPcs, UserPcs
<1>2. Cardinality(PermitGuards) = 0
  BY <1>1, FS_EmptySet
<1>3. SemCounts
  BY <1>1, <1>2, SemaphoreAssumption DEF SemCounts, PermitsConserved
<1>4. SemWaits
  BY EmptyList DEF SInit, SemWaits, ListenPcs
<1> QED BY <1>3, <1>4 DEF SemInv

\* See SemInitHolds.
LEMMA SemStepHolds == SemInv /\ [SNext]_svars => SemInv'
<1>1. CASE SemInv /\ UNCHANGED svars
  BY <1>1 DEF svars, SemInv, SemCounts, SemWaits, PermitsConserved, PermitGuards
<1>2. CASE SemInv /\ SNext
  BY <1>2, SemStepCounts, SemStepWaits DEF SemInv
<1> QED BY <1>1, <1>2

\* See SemInitHolds.
LEMMA SemInvSays == SemInv => PermitsConserved /\ WaitsForGuard
BY ListViews DEF SemInv, SemCounts, SemWaits, WaitsForGuard

(***************************************************************************)
(* Barrier                                                                 *)
(***************************************************************************)
BarTypeOK ==
    /\ arrived \in Nat /\ generation \in Nat
    /\ party \in [Parties -> {"out", "await", "relock", "left"}] /\ mine \in [Parties -> Nat]
    /\ IsList(bell, Parties) /\ Ids(bell) = {p \in Parties : party[p] = "await"}

\* a generation that somebody is in has begun and is not full, and who is in an
\* older one has been notified
BarInv ==
    /\ BarTypeOK
    /\ arrived > 0 => arrived < Needed
    /\ \A p \in Parties :
          /\ mine[p] <= generation
          /\ party[p] \in {"await", "relock"} /\ mine[p] = generation => arrived > 0
          /\ party[p] = "await" /\ p \notin Told(bell) => mine[p] = generation

\* The operators of the instance are those that the lemmas are about.
LEMMA BarSame ==
    /\ Bar!NoListeners = NoListeners /\ \A S : Bar!Cardinality(S) = Cardinality(S)
    /\ \A ev, l : /\ Bar!Listen(ev, l) = Listen(ev, l) /\ Bar!Consume(ev, l) = Consume(ev, l)
                  /\ Bar!DropListener(ev, l) = DropListener(ev, l) /\ Bar!Notify(ev, l) = Notify(ev, l)
                  /\ Bar!IsNotified(ev, l) = IsNotified(ev, l)
<1>1. \A S : Bar!Cardinality(S) = Cardinality(S)
  BY DEF Bar!Cardinality, Cardinality
<1>2. \A ev, l : Bar!Without(ev, l) = Without(ev, l)
  BY DEF Bar!Without, Without, Bar!Listening, Listening
<1>3. \A ev : Bar!NotifiedCount(ev) = NotifiedCount(ev)
  BY <1>1 DEF Bar!NotifiedCount, NotifiedCount
<1>4. \A ev, k, tag : Bar!Mark(ev, k, tag) = Mark(ev, k, tag)
  BY <1>1 DEF Bar!Mark, Mark
<1>5. \A ev, l : Bar!DropListener(ev, l) = DropListener(ev, l)
  BY <1>2, <1>3, <1>4
     DEF Bar!DropListener, DropListener, Bar!Notify, Notify, Bar!NotifyAdditional, NotifyAdditional
<1>6. \A ev, n : Bar!Notify(ev, n) = Notify(ev, n)
  BY <1>3, <1>4 DEF Bar!Notify, Notify
<1> QED BY <1>1, <1>2, <1>5, <1>6
        DEF Bar!NoListeners, NoListeners, Bar!Listen, Listen, Bar!Consume, Consume, Bar!IsNotified, IsNotified

\* The barrier's invariant holds at first.
LEMMA BarInitHolds == Bar!BaInit => BarInv
BY BarSame, EmptyList DEF Bar!BaInit, BarInv, BarTypeOK

\* What the calls of the event do to the list.
LEMMA BarArrives == ASSUME BarInv, NEW p \in Parties, Bar!Arrive(p) PROVE BarInv'
<1>0. /\ party[p] = "out" /\ p \notin Ids(bell) /\ mine' = [mine EXCEPT ![p] = generation]
      /\ BarTypeOK /\ Needed \in Nat /\ Told(bell) \subseteq Ids(bell)
  BY RuntimeAssumption, ListViews DEF Bar!Arrive, BarInv, BarTypeOK
<1>1. CASE arrived + 1 < Needed
  <2>1. arrived' = arrived + 1 /\ generation' = generation /\ party' = [party EXCEPT ![p] = "await"]
    BY <1>1 DEF Bar!Arrive, Bar!Goes
  <2>2. IsList(bell', Parties) /\ Ids(bell') = Ids(bell) \cup {p} /\ Told(bell') = Told(bell)
    BY BarSame, <1>0, <1>1, ListenList DEF Bar!Arrive, BarTypeOK
  <2>3. BarTypeOK'
    BY <1>0, <2>1, <2>2 DEF BarTypeOK
  <2> QED BY <1>0, <1>1, <2>1, <2>2, <2>3 DEF BarInv, BarTypeOK
<1>2. CASE ~(arrived + 1 < Needed)
  <2>1. arrived' = 0 /\ generation' = generation + 1 /\ party' = party
    BY <1>0, <1>2 DEF Bar!Arrive, Bar!Goes, BarTypeOK
  <2>2. IsFiniteSet(Parties) /\ Cardinality(Parties) \in Nat /\ Cardinality(Parties) > 0
    BY RuntimeAssumption, FS_CardinalityType, FS_EmptySet
  <2>3. Len(bell) <= Cardinality(Parties) /\ Len(bell) \in Nat
    BY <1>0, <2>2, ListLength, ListEntries DEF BarTypeOK
  <2>4. bell' = Notify(bell, Cardinality(Parties))
    BY BarSame, <1>2 DEF Bar!Arrive
  <2>5. IsList(bell', Parties) /\ Ids(bell') = Ids(bell) /\ Told(bell') = Ids(bell)
    BY <1>0, <2>2, <2>3, <2>4, NotifyList DEF BarTypeOK
  <2>6. BarTypeOK'
    BY <1>0, <2>1, <2>5 DEF BarTypeOK
  <2> QED BY <1>0, <2>1, <2>5, <2>6 DEF BarInv, BarTypeOK
<1> QED BY <1>1, <1>2

\* See BarInitHolds.
LEMMA BarStepHolds == BarInv /\ [Bar!BaNext]_bavars => BarInv'
<1> SUFFICES ASSUME BarInv, [Bar!BaNext]_bavars PROVE BarInv'
  OBVIOUS
<1>1. CASE UNCHANGED bavars
  BY <1>1 DEF bavars, BarInv, BarTypeOK
<1>2. ASSUME NEW p \in Parties, Bar!Rung(p) PROVE BarInv'
  <2>1. IsList(bell', Parties) /\ Ids(bell') = Ids(bell) \ {p} /\ Told(bell') = Told(bell) \ {p}
    BY BarSame, <1>2, WithoutList DEF Bar!Rung, Consume, BarInv, BarTypeOK
  <2>2. party' = [party EXCEPT ![p] = "relock"] /\ UNCHANGED <<arrived, generation, mine>> /\ party[p] = "await"
    BY <1>2 DEF Bar!Rung, Bar!Goes
  <2> QED BY <2>1, <2>2 DEF BarInv, BarTypeOK
<1>3. ASSUME NEW p \in Parties, Bar!Recheck(p) PROVE BarInv'
  <2>0. party[p] = "relock" /\ p \notin Ids(bell) /\ p \notin Told(bell) /\ UNCHANGED <<arrived, generation, mine>>
    BY <1>3, ListViews DEF Bar!Recheck, BarInv, BarTypeOK
  <2>1. CASE mine[p] = generation /\ arrived < Needed
    <3>1. IsList(bell', Parties) /\ Ids(bell') = Ids(bell) \cup {p} /\ Told(bell') = Told(bell)
      BY BarSame, <1>3, <2>0, <2>1, ListenList DEF Bar!Recheck, BarInv, BarTypeOK
    <3>2. party' = [party EXCEPT ![p] = "await"]
      BY <1>3, <2>1 DEF Bar!Recheck, Bar!Goes
    <3> QED BY <2>0, <2>1, <3>1, <3>2 DEF BarInv, BarTypeOK
  <2>2. CASE ~(mine[p] = generation /\ arrived < Needed)
    <3>1. party' = [party EXCEPT ![p] = "out"] /\ UNCHANGED bell
      BY <1>3, <2>2 DEF Bar!Recheck, Bar!Goes
    <3> QED BY <2>0, <3>1 DEF BarInv, BarTypeOK
  <2> QED BY <2>1, <2>2
<1>4. ASSUME NEW p \in Parties, Bar!Leave(p) PROVE BarInv'
  <2>1. IsList(bell', Parties) /\ Ids(bell') = Ids(bell) \ {p} /\ Told(bell) \ {p} \subseteq Told(bell')
    BY BarSame, <1>4, DropList DEF Bar!Leave, BarInv, BarTypeOK
  <2>2. party' = [party EXCEPT ![p] = "left"] /\ UNCHANGED <<arrived, generation, mine>>
    BY <1>4 DEF Bar!Leave, Bar!Goes
  <2> QED BY <2>1, <2>2 DEF BarInv, BarTypeOK
<1> QED BY <1>1, <1>2, <1>3, <1>4, BarArrives DEF Bar!BaNext

\* See BarInitHolds.
LEMMA BarInvSays == BarInv => Bar!NobodyLeftBehind
BY BarSame, ListViews DEF BarInv, BarTypeOK, Bar!NobodyLeftBehind

(***************************************************************************)
(* WaitGroup                                                               *)
(***************************************************************************)
ChildPcs == {"none", "attach", "live", "done"}
LivePcs == {"live"}
Live == {c \in Children : child[c] = "live"}

\* the count is exact, and every child that is to be done has its maker's waker
WgInv ==
    /\ child \in [Children -> ChildPcs] /\ captured \in [Children -> Cloners \cup {NoTask}]
    /\ pending = Cardinality(Live)
    /\ \A c \in Children : child[c] \in {"attach", "live"} => captured[c] \in Cloners
    /\ source = "asleep" => pending > 0 \/ rang \in Cloners \ {Main}

\* The instance counts as this module does.
LEMMA SameCardinality == \A S : Wg!Cardinality(S) = Cardinality(S)
BY DEF Wg!Cardinality, Cardinality

ChildTo(c, to) == child' = [child EXCEPT ![c] = to]

\* A step of one child changes the count of those that live by what it does.
LEMMA LiveMoves ==
    ASSUME WgInv, NEW c \in Children, NEW to \in ChildPcs, ChildTo(c, to)
    PROVE  /\ pending \in Nat /\ child' \in [Children -> ChildPcs]
           /\ Cardinality(Live') = pending + In(to, LivePcs) - In(child[c], LivePcs)
<1>1. ChangedAt(child, child', c, Children) /\ child'[c] = to /\ child' \in [Children -> ChildPcs]
  BY DEF ChangedAt, ChildTo, WgInv
<1>2. Live = Where(child, Children, LivePcs) /\ Live' = Where(child', Children, LivePcs)
  BY DEF Live, LivePcs, Where
<1>3. IsFiniteSet(Children)
  BY RuntimeAssumption
<1>4. /\ Cardinality(Where(child, Children, LivePcs)) \in Nat
      /\ Cardinality(Where(child', Children, LivePcs)) = Cardinality(Where(child, Children, LivePcs))
                + In(child'[c], LivePcs) - In(child[c], LivePcs)
  BY <1>1, <1>3, CountAfterChange
<1> QED BY <1>1, <1>2, <1>4 DEF WgInv

\* The wait group's invariant holds at first.
LEMMA WgInitHolds == Wg!WgInit => WgInv
<1> SUFFICES ASSUME Wg!WgInit PROVE WgInv
  OBVIOUS
<1>1. Live = {}
  BY DEF Live, Wg!WgInit
<1>2. Cardinality(Live) = 0
  BY <1>1, FS_EmptySet
<1> QED BY <1>2 DEF Wg!WgInit, WgInv, ChildPcs

\* See WgInitHolds.
LEMMA WgStepHolds == WgInv /\ [Wg!WgNext]_wgvars => WgInv'
<1> SUFFICES ASSUME WgInv, [Wg!WgNext]_wgvars PROVE WgInv'
  OBVIOUS
<1>1. CASE UNCHANGED wgvars
  BY <1>1 DEF wgvars, WgInv, Live
<1>2. CASE Wg!SourcePoll
  <2>1. Live' = Live
    BY <1>2 DEF Wg!SourcePoll, Live
  <2> QED BY <1>2, <2>1 DEF Wg!SourcePoll, WgInv
<1>3. ASSUME NEW c \in Children, NEW t \in Cloners, Wg!Register(c, t) PROVE WgInv'
  <2>1. child[c] = "none" /\ ChildTo(c, "attach")
    BY <1>3 DEF Wg!Register, ChildTo
  <2>2. In("attach", LivePcs) = 0 /\ In("none", LivePcs) = 0 /\ "attach" \in ChildPcs
    BY DEF In, ChildPcs, LivePcs
  <2>3. pending \in Nat /\ child' \in [Children -> ChildPcs] /\ Cardinality(Live') = pending
    BY <2>1, <2>2, LiveMoves
  <2> QED BY <1>3, <2>1, <2>3 DEF Wg!Register, ChildTo, WgInv
<1>4. ASSUME NEW c \in Children, Wg!Attach(c) PROVE WgInv'
  <2>1. child[c] = "attach" /\ ChildTo(c, "live")
    BY <1>4 DEF Wg!Attach, ChildTo
  <2>2. In("attach", LivePcs) = 0 /\ In("live", LivePcs) = 1 /\ "live" \in ChildPcs
    BY DEF In, ChildPcs, LivePcs
  <2>3. pending \in Nat /\ child' \in [Children -> ChildPcs] /\ Cardinality(Live') = pending + 1
    BY <2>1, <2>2, LiveMoves
  <2> QED BY <1>4, <2>1, <2>3 DEF Wg!Attach, ChildTo, WgInv
<1>5. ASSUME NEW c \in Children, Wg!Done(c) PROVE WgInv'
  <2>1. child[c] = "live" /\ ChildTo(c, "done")
    BY <1>5 DEF Wg!Done, ChildTo
  <2>2. In("done", LivePcs) = 0 /\ In("live", LivePcs) = 1 /\ "done" \in ChildPcs
    BY DEF In, ChildPcs, LivePcs
  <2>3. pending \in Nat /\ child' \in [Children -> ChildPcs] /\ Cardinality(Live') = pending - 1
    BY <2>1, <2>2, LiveMoves
  <2>4. pending' = Cardinality(Live') /\ captured' \in [Children -> Cloners \cup {NoTask}]
    BY <1>5, <2>3 DEF Wg!Done, ChildTo, WgInv
  <2>5. \A d \in Children : child'[d] \in {"attach", "live"} => captured'[d] \in Cloners
    BY <1>5, <2>1 DEF Wg!Done, ChildTo, WgInv
  <2>6. source' = "asleep" => pending' > 0 \/ rang' \in Cloners \ {Main}
    <3>1. captured[c] \in Cloners /\ pending' = pending - 1
      BY <1>5, <2>1 DEF Wg!Done, ChildTo, WgInv
    <3>2. CASE pending = 1
      BY <1>5, <3>1, <3>2 DEF Wg!Done, Wg!Wake
    <3>3. CASE pending # 1
      BY <1>5, <2>3, <3>1, <3>3 DEF Wg!Done, ChildTo, WgInv
    <3> QED BY <3>2, <3>3
  <2> QED BY <2>3, <2>4, <2>5, <2>6 DEF WgInv
<1> QED BY <1>1, <1>2, <1>3, <1>4, <1>5 DEF Wg!WgNext

\* See WgInitHolds.
LEMMA WgInvSays == WgInv => Wg!LastChildWakes
BY SameCardinality DEF WgInv, Wg!LastChildWakes, Live

(***************************************************************************)
(* Parker                                                                  *)
(***************************************************************************)
PaTypeOK ==
    /\ pstate \in {"EMPTY", "PARKED", "NOTIFIED"} /\ plock \in {"thread", "nobody"}
    /\ kpc \in {"poll", "park", "lock", "locked", "waiting", "asleep", "awake", "returned"}
    /\ timed \in BOOLEAN /\ told \in BOOLEAN
    /\ upc \in [Unparkers -> {"start", "unpark", "lock", "notify", "end"}]
    /\ happened = {u \in Unparkers : upc[u] # "start"}

\* the state word is that of a thread that parks; who has the lock; an unpark
\* that found the thread about to sleep waits for that lock, so that it comes
\* after; and with all done since the poll, an unpark came since
PaInv ==
    /\ PaTypeOK
    /\ told <=> pstate = "NOTIFIED"
    /\ pstate = "PARKED" => kpc \in {"waiting", "asleep", "awake"}
    /\ kpc \in {"waiting", "asleep", "awake"} => pstate # "EMPTY"
    /\ plock = "thread" <=> kpc \in {"locked", "waiting"}
    /\ kpc = "waiting" /\ told => \E u \in Unparkers : upc[u] = "lock"
    /\ kpc = "asleep" /\ told => \E u \in Unparkers : upc[u] \in {"lock", "notify"}
    /\ kpc \notin {"poll", "returned"} /\ (\A u \in Unparkers : upc[u] \notin {"start", "unpark"}) => told

\* The parker's invariant holds at first.
LEMMA PaInitHolds == Pa!KInit => PaInv
BY DEF Pa!KInit, PaInv, PaTypeOK

\* See PaInitHolds.
LEMMA PaStepHolds == PaInv /\ [Pa!KNext]_kvars => PaInv'
<1> SUFFICES ASSUME PaInv, [Pa!KNext]_kvars PROVE PaInv'
  OBVIOUS
<1>1. CASE UNCHANGED kvars
  BY <1>1 DEF kvars, PaInv, PaTypeOK
<1>2. CASE Pa!PollFuture
  BY <1>2 DEF Pa!PollFuture, PaInv, PaTypeOK
<1>3. CASE Pa!ParkFast \/ Pa!ParkLock \/ Pa!ParkCas \/ Pa!ParkWait \/ Pa!ParkWakes \/ Pa!ParkLook
  BY <1>3 DEF Pa!ParkFast, Pa!ParkLock, Pa!ParkCas, Pa!ParkWait, Pa!ParkWakes, Pa!ParkLook, PaInv, PaTypeOK
<1>4. ASSUME NEW u \in Unparkers, Pa!Happens(u) PROVE PaInv'
  BY <1>4 DEF Pa!Happens, Pa!To, PaInv, PaTypeOK
<1>5. ASSUME NEW u \in Unparkers, Pa!Unpark(u) PROVE PaInv'
  BY <1>5 DEF Pa!Unpark, Pa!To, PaInv, PaTypeOK
<1>6. ASSUME NEW u \in Unparkers, Pa!UnparkLock(u) PROVE PaInv'
  BY <1>6 DEF Pa!UnparkLock, Pa!To, PaInv, PaTypeOK
<1>7. ASSUME NEW u \in Unparkers, Pa!NotifyOne(u) PROVE PaInv'
  BY <1>7 DEF Pa!NotifyOne, Pa!To, PaInv, PaTypeOK
<1> QED BY <1>1, <1>2, <1>3, <1>4, <1>5, <1>6, <1>7 DEF Pa!KNext

\* See PaInitHolds.
LEMMA PaInvSays == PaInv => Pa!UnparkNotLost
BY DEF PaInv, PaTypeOK, Pa!UnparkNotLost, Pa!Notifying

(***************************************************************************)
(* BlockingMutex                                                           *)
(***************************************************************************)
BmPcs == {"out", "listen", "cas", "drop_in", "drop_starve", "await", "cas_again", "notify_starve", "starve",
          "s_listen", "s_cas", "s_drop", "s_await", "s_or", "s_end", "in", "notify_out"}
BmOwnerPcs   == {"drop_in", "in", "s_drop", "s_end"}
BmStarvedPcs == {"s_listen", "s_cas", "s_drop", "s_await", "s_or", "s_end"}
BmListenPcs  == {"cas", "drop_in", "drop_starve", "await", "s_cas", "s_drop", "s_await"}
BmIdlePcs    == {"out", "await", "s_await"}
BmOwners  == Where(bpc, Lockers, BmOwnerPcs)
BmStarved == Where(bpc, Lockers, BmStarvedPcs)

\* the word is exact, and at most one thread has the lock
BmCounts ==
    /\ bpc \in [Lockers -> BmPcs] /\ bstate \in Nat
    /\ bstate = 2 * Cardinality(BmStarved) + Cardinality(BmOwners) /\ Cardinality(BmOwners) \in {0, 1}
\* the listeners are those who should be
BmListens == IsList(bev, Lockers) /\ Ids(bev) = {l \in Lockers : bpc[l] \in BmListenPcs}
\* who waits is woken, or somebody is on the way, or two starve
BmWaits ==
    (\E l \in Lockers : bpc[l] \in {"await", "s_await"}) =>
       \/ Told(bev) # {} \/ \E l \in Lockers : bpc[l] \notin BmIdlePcs
       \/ Cardinality(BmStarved) >= 2
BmInv == BmCounts /\ BmListens /\ BmWaits

\* The operators of the instance are those that the lemmas are about.
LEMMA BmSame ==
    /\ Bm!M!NoListeners = NoListeners
    /\ \A S : Bm!M!Cardinality(S) = Cardinality(S) /\ Bm!Cardinality(S) = Cardinality(S)
    /\ \A ev : Bm!NotifiedCount(ev) = NotifiedCount(ev)
    /\ \A ev, l : /\ Bm!M!Listen(ev, l) = Listen(ev, l) /\ Bm!M!Consume(ev, l) = Without(ev, l)
                  /\ Bm!M!DropListener(ev, l) = DropListener(ev, l) /\ Bm!M!Notify(ev, l) = Notify(ev, l)
                  /\ Bm!M!IsNotified(ev, l) = IsNotified(ev, l) /\ Bm!IsNotified(ev, l) = IsNotified(ev, l)
<1>1. \A S : Bm!M!Cardinality(S) = Cardinality(S)
  BY DEF Bm!M!Cardinality, Cardinality
<1>2. \A S : Bm!Cardinality(S) = Cardinality(S)
  BY DEF Bm!Cardinality, Cardinality
<1>3. \A ev, l : Bm!M!Without(ev, l) = Without(ev, l)
  BY DEF Bm!M!Without, Without, Bm!M!Listening, Listening
<1>4. \A ev : Bm!M!NotifiedCount(ev) = NotifiedCount(ev)
  BY <1>1 DEF Bm!M!NotifiedCount, NotifiedCount
<1>5. \A ev : Bm!NotifiedCount(ev) = NotifiedCount(ev)
  BY <1>2 DEF Bm!NotifiedCount, NotifiedCount
<1>6. \A ev, k, tag : Bm!M!Mark(ev, k, tag) = Mark(ev, k, tag)
  BY <1>1 DEF Bm!M!Mark, Mark
<1>7. \A ev, l : Bm!M!DropListener(ev, l) = DropListener(ev, l)
  BY <1>3, <1>4, <1>6
     DEF Bm!M!DropListener, DropListener, Bm!M!Notify, Notify, Bm!M!NotifyAdditional, NotifyAdditional
<1>8. \A ev, n : Bm!M!Notify(ev, n) = Notify(ev, n)
  BY <1>4, <1>6 DEF Bm!M!Notify, Notify
<1> QED BY <1>1, <1>2, <1>3, <1>5, <1>7, <1>8
        DEF Bm!M!NoListeners, NoListeners, Bm!M!Listen, Listen, Bm!M!Consume, Bm!M!IsNotified, Bm!IsNotified, IsNotified

\* A thread goes from here to there.
BmTo(l, here, to) == bpc[l] = here /\ bpc' = [bpc EXCEPT ![l] = to]
\* what a step owes the word
Due(here, to) == 2 * (In(to, BmStarvedPcs) - In(here, BmStarvedPcs)) + In(to, BmOwnerPcs) - In(here, BmOwnerPcs)

\* A step that changes the word by what it owes, and takes the lock only if
\* nobody has it, keeps the word exact.
LEMMA BmMoves ==
    ASSUME BmCounts, NEW l \in Lockers, NEW here \in BmPcs, NEW to \in BmPcs, BmTo(l, here, to),
           bstate' = bstate + Due(here, to),
           to \in BmOwnerPcs /\ here \notin BmOwnerPcs => Cardinality(BmOwners) = 0
    PROVE  BmCounts'
<1>1. ChangedAt(bpc, bpc', l, Lockers) /\ bpc'[l] = to /\ bpc[l] = here /\ bpc' \in [Lockers -> BmPcs]
  BY DEF ChangedAt, BmTo, BmCounts
<1>2. IsFiniteSet(Lockers)
  BY RuntimeAssumption
<1>3. /\ Cardinality(BmOwners) \in Nat
      /\ Cardinality(BmOwners') = Cardinality(BmOwners) + In(bpc'[l], BmOwnerPcs) - In(bpc[l], BmOwnerPcs)
  BY <1>1, <1>2, CountAfterChange DEF BmOwners
<1>4. /\ Cardinality(BmStarved) \in Nat
      /\ Cardinality(BmStarved') = Cardinality(BmStarved) + In(bpc'[l], BmStarvedPcs) - In(bpc[l], BmStarvedPcs)
  BY <1>1, <1>2, CountAfterChange DEF BmStarved
<1>5. /\ In(to, BmOwnerPcs) \in {0, 1} /\ In(here, BmOwnerPcs) \in {0, 1}
      /\ In(to, BmStarvedPcs) \in {0, 1} /\ In(here, BmStarvedPcs) \in {0, 1}
      /\ (In(to, BmOwnerPcs) = 1 <=> to \in BmOwnerPcs) /\ (In(here, BmOwnerPcs) = 1 <=> here \in BmOwnerPcs)
  BY DEF In
<1>6. /\ IsFiniteSet(BmOwners') /\ IsFiniteSet(BmStarved')
  <2>1. BmOwners' \subseteq Lockers /\ BmStarved' \subseteq Lockers
    BY DEF BmOwners, BmStarved, Where
  <2> QED BY <1>2, <2>1, FS_Subset
<1>7. Cardinality(BmOwners') \in Nat /\ Cardinality(BmStarved') \in Nat
  BY <1>6, FS_CardinalityType
<1>8. bstate' = 2 * Cardinality(BmStarved') + Cardinality(BmOwners')
  BY <1>1, <1>3, <1>4, <1>5 DEF BmCounts, Due
<1>9. Cardinality(BmOwners') \in {0, 1}
  BY <1>1, <1>3, <1>5, <1>7 DEF BmCounts
<1> QED BY <1>1, <1>7, <1>8, <1>9 DEF BmCounts

\* What the word tells.
LEMMA BmWord ==
    ASSUME BmCounts
    PROVE  /\ Cardinality(BmStarved) \in Nat
           /\ bstate % 2 = 0 <=> Cardinality(BmOwners) = 0
           /\ bstate % 2 = 0 \/ \E l \in Lockers : bpc[l] \in BmOwnerPcs
           /\ bstate = 0 => Cardinality(BmOwners) = 0 /\ Cardinality(BmStarved) = 0
           /\ \A l \in Lockers : bpc[l] \in BmOwnerPcs => bstate % 2 = 1
           /\ \A l \in Lockers : bpc[l] \in BmStarvedPcs => Cardinality(BmStarved) >= 1
<1>1. IsFiniteSet(BmOwners) /\ IsFiniteSet(BmStarved)
  <2>1. BmOwners \subseteq Lockers /\ BmStarved \subseteq Lockers
    BY DEF BmOwners, BmStarved, Where
  <2> QED BY <2>1, RuntimeAssumption, FS_Subset
<1>2. Cardinality(BmOwners) \in Nat /\ Cardinality(BmStarved) \in Nat
  BY <1>1, FS_CardinalityType
<1>3. (Cardinality(BmOwners) = 0 <=> BmOwners = {}) /\ (Cardinality(BmStarved) = 0 <=> BmStarved = {})
  BY <1>1, FS_EmptySet
<1>4. bstate % 2 = Cardinality(BmOwners)
  BY <1>2 DEF BmCounts
<1>5. /\ BmOwners = {l \in Lockers : bpc[l] \in BmOwnerPcs}
      /\ BmStarved = {l \in Lockers : bpc[l] \in BmStarvedPcs}
  BY DEF BmOwners, BmStarved, Where
<1> HIDE DEF BmOwners, BmStarved
<1>6. bstate = 0 => Cardinality(BmOwners) = 0 /\ Cardinality(BmStarved) = 0
  BY <1>2 DEF BmCounts
<1>7. \A l \in Lockers : bpc[l] \in BmStarvedPcs => Cardinality(BmStarved) >= 1
  BY <1>2, <1>3, <1>5
<1> QED BY <1>2, <1>3, <1>4, <1>5, <1>6, <1>7 DEF BmCounts

\* A step that leaves the event alone.
BmQuiet(l) ==
    \/ Bm!Lock(l) \/ Bm!Spin(l) \/ Bm!M!Cas(l) \/ Bm!M!CasAgain(l) \/ Bm!M!Starve(l) \/ Bm!StarvedCas(l)
    \/ Bm!M!SOr(l) \/ Bm!M!EndStarve(l, "s_end", "in") \/ Bm!DropGuard(l)

\* What such a step does: it goes on by what it finds in the word, and changes it.
LEMMA BmQuietShape ==
    ASSUME BmCounts, NEW l \in Lockers, BmQuiet(l)
    PROVE  /\ UNCHANGED bev
           /\ \E here, to \in BmPcs :
                /\ BmTo(l, here, to) /\ bstate' = bstate + Due(here, to)
                /\ here \in BmListenPcs <=> to \in BmListenPcs
                /\ to \in BmOwnerPcs /\ here \notin BmOwnerPcs => bstate % 2 = 0
                /\ to = "await" => here = "cas" /\ bstate = 1
                /\ to = "s_await" => here = "s_cas" /\ bstate # 2
                /\ to # "out"
<1> DEFINE Shape(here, to) ==
        /\ BmTo(l, here, to) /\ bstate' = bstate + Due(here, to)
        /\ here \in BmListenPcs <=> to \in BmListenPcs
        /\ to \in BmOwnerPcs /\ here \notin BmOwnerPcs => bstate % 2 = 0
        /\ to = "await" => here = "cas" /\ bstate = 1
        /\ to = "s_await" => here = "s_cas" /\ bstate # 2
        /\ to # "out"
<1>0. bstate \in Nat /\ bpc[l] \in BmPcs
  BY DEF BmCounts
<1>1. UNCHANGED bev
  BY DEF BmQuiet, Bm!Lock, Bm!M!TryLock, Bm!Spin, Bm!M!Cas, Bm!M!CasAgain, Bm!M!Starve, Bm!StarvedCas,
         Bm!M!SOr, Bm!M!EndStarve, Bm!DropGuard, Bm!M!Release
<1>2. CASE Bm!Lock(l)
  <2>1. \/ bstate = 0 /\ bstate' = 1 /\ BmTo(l, "out", "in")
        \/ bstate' = bstate /\ BmTo(l, "out", "listen")
    BY <1>2 DEF Bm!Lock, Bm!M!TryLock, Bm!M!CasFree, Bm!M!LockerGoto, BmTo
  <2>2. Shape("out", "in") \/ Shape("out", "listen")
    BY <1>0, <2>1 DEF Due, In, BmOwnerPcs, BmStarvedPcs, BmListenPcs
  <2> QED BY <1>1, <2>2 DEF BmPcs
<1>3. CASE Bm!Spin(l)
  <2>1. bstate = 0 /\ bstate' = 1 /\ BmTo(l, "listen", "in")
    BY <1>3 DEF Bm!Spin, Bm!M!LockerGoto, BmTo
  <2>2. Shape("listen", "in")
    BY <1>0, <2>1 DEF Due, In, BmOwnerPcs, BmStarvedPcs, BmListenPcs
  <2> QED BY <1>1, <2>2 DEF BmPcs
<1>4. CASE Bm!M!Cas(l)
  <2>1. \/ bstate = 0 /\ bstate' = 1 /\ BmTo(l, "cas", "drop_in")
        \/ bstate' = bstate /\ bstate = 1 /\ BmTo(l, "cas", "await")
        \/ bstate' = bstate /\ BmTo(l, "cas", "drop_starve")
    BY <1>4 DEF Bm!M!Cas, Bm!M!CasFree, Bm!M!LockerGoto, BmTo
  <2>2. Shape("cas", "drop_in") \/ Shape("cas", "await") \/ Shape("cas", "drop_starve")
    BY <1>0, <2>1 DEF Due, In, BmOwnerPcs, BmStarvedPcs, BmListenPcs
  <2> QED BY <1>1, <2>2 DEF BmPcs
<1>5. CASE Bm!M!CasAgain(l)
  <2>1. \/ bstate = 0 /\ bstate' = 1 /\ BmTo(l, "cas_again", "in")
        \/ bstate' = bstate /\ \E to \in {"starve", "listen", "notify_starve"} : BmTo(l, "cas_again", to)
    BY <1>5 DEF Bm!M!CasAgain, Bm!M!CasFree, Bm!M!LockerGoto, BmTo
  <2>2. Shape("cas_again", "in") \/ \E to \in {"starve", "listen", "notify_starve"} : Shape("cas_again", to)
    BY <1>0, <2>1 DEF Due, In, BmOwnerPcs, BmStarvedPcs, BmListenPcs
  <2> QED BY <1>1, <2>2 DEF BmPcs
<1>6. CASE Bm!M!Starve(l)
  <2>1. bstate' = bstate + 2 /\ BmTo(l, "starve", "s_listen")
    BY <1>6 DEF Bm!M!Starve, Bm!M!LockerGoto, BmTo
  <2>2. Shape("starve", "s_listen")
    BY <1>0, <2>1 DEF Due, In, BmOwnerPcs, BmStarvedPcs, BmListenPcs
  <2> QED BY <1>1, <2>2 DEF BmPcs
<1>7. CASE Bm!StarvedCas(l)
  <2>1. \/ bstate = 2 /\ bstate' = 3 /\ BmTo(l, "s_cas", "s_drop")
        \/ bstate' = bstate /\ bstate # 2 /\ BmTo(l, "s_cas", "s_await")
    BY <1>7 DEF Bm!StarvedCas, Bm!M!LockerGoto, BmTo
  <2>2. Shape("s_cas", "s_drop") \/ Shape("s_cas", "s_await")
    BY <1>0, <2>1 DEF Due, In, BmOwnerPcs, BmStarvedPcs, BmListenPcs
  <2> QED BY <1>1, <2>2 DEF BmPcs
<1>8. CASE Bm!M!SOr(l)
  <2>1. \/ bstate % 2 = 0 /\ bstate' = bstate + 1 /\ BmTo(l, "s_or", "s_end")
        \/ bstate' = bstate /\ BmTo(l, "s_or", "s_listen")
    BY <1>8 DEF Bm!M!SOr, Bm!M!LockerGoto, BmTo
  <2>2. Shape("s_or", "s_end") \/ Shape("s_or", "s_listen")
    BY <1>0, <2>1 DEF Due, In, BmOwnerPcs, BmStarvedPcs, BmListenPcs
  <2> QED BY <1>1, <2>2 DEF BmPcs
<1>9. CASE Bm!M!EndStarve(l, "s_end", "in") \/ Bm!DropGuard(l)
  <2>1. \/ bstate' = bstate - 2 /\ BmTo(l, "s_end", "in")
        \/ bstate' = bstate - 1 /\ BmTo(l, "in", "notify_out")
    BY <1>9 DEF Bm!M!EndStarve, Bm!DropGuard, Bm!M!Release, Bm!M!LockerGoto, BmTo
  <2>2. Shape("s_end", "in") \/ Shape("in", "notify_out")
    BY <1>0, <2>1 DEF Due, In, BmOwnerPcs, BmStarvedPcs, BmListenPcs
  <2> QED BY <1>1, <2>2 DEF BmPcs
<1> QED BY <1>2, <1>3, <1>4, <1>5, <1>6, <1>7, <1>8, <1>9 DEF BmQuiet

\* Such a step keeps the invariant: who goes to sleep has seen an owner, or
\* starves with another.
LEMMA BmQuietHolds == ASSUME BmInv, NEW l \in Lockers, BmQuiet(l) PROVE BmInv'
<1>0. BmCounts /\ BmListens
  BY DEF BmInv
<1>1. PICK here \in BmPcs, to \in BmPcs :
        /\ BmTo(l, here, to) /\ bstate' = bstate + Due(here, to) /\ UNCHANGED bev
        /\ here \in BmListenPcs <=> to \in BmListenPcs
        /\ to \in BmOwnerPcs /\ here \notin BmOwnerPcs => bstate % 2 = 0
        /\ to = "await" => here = "cas" /\ bstate = 1
        /\ to = "s_await" => here = "s_cas" /\ bstate # 2
        /\ to # "out"
  BY <1>0, BmQuietShape
<1>2. BmCounts'
  <2>1. to \in BmOwnerPcs /\ here \notin BmOwnerPcs => Cardinality(BmOwners) = 0
    BY <1>0, <1>1, BmWord
  <2> QED BY <1>0, <1>1, <2>1, BmMoves
<1>3. bpc'[l] = to /\ bpc[l] = here /\ \A x \in Lockers \ {l} : bpc'[x] = bpc[x]
  BY <1>0, <1>1 DEF BmTo, BmCounts
<1>4. BmListens'
  BY <1>0, <1>1, <1>3 DEF BmListens
<1>5. BmWaits'
  <2>1. CASE to \notin BmIdlePcs
    BY <1>3, <2>1 DEF BmWaits
  <2>2. CASE to \in {"await", "s_await"} /\ bstate % 2 # 0
    <3>1. PICK x \in Lockers : bpc[x] \in BmOwnerPcs
      BY <1>0, <2>2, BmWord
    <3>2. here \notin BmOwnerPcs
      BY <1>1, <2>2 DEF BmOwnerPcs
    <3>3. x # l /\ bpc'[x] \in BmOwnerPcs
      BY <1>3, <3>1, <3>2
    <3> QED BY <3>3 DEF BmWaits, BmOwnerPcs, BmIdlePcs
  <2>3. CASE to \in {"await", "s_await"} /\ bstate % 2 = 0
    <3>1. to = "s_await" /\ here = "s_cas" /\ bstate # 2 /\ bstate \in Nat
      BY <1>0, <1>1, <2>3 DEF BmCounts
    <3>2. Cardinality(BmStarved) \in Nat /\ Cardinality(BmStarved) >= 1 /\ Cardinality(BmOwners) = 0
      BY <1>0, <1>3, <2>3, <3>1, BmWord DEF BmStarvedPcs
    <3>3. Cardinality(BmStarved) >= 2
      BY <1>0, <3>1, <3>2 DEF BmCounts
    <3>4. BmStarved' = BmStarved
      BY <1>3, <3>1 DEF BmStarved, Where, BmStarvedPcs
    <3> QED BY <3>3, <3>4 DEF BmWaits
  <2> QED BY <1>1, <2>1, <2>2, <2>3 DEF BmIdlePcs
<1> QED BY <1>2, <1>4, <1>5 DEF BmInv

\* A step that calls the event keeps the word, and goes on awake or has notified.
LEMMA BmCallHolds ==
    ASSUME BmInv, NEW l \in Lockers, NEW here \in BmPcs, NEW to \in BmPcs, BmTo(l, here, to), UNCHANGED bstate,
           here \in BmOwnerPcs <=> to \in BmOwnerPcs, here \in BmStarvedPcs <=> to \in BmStarvedPcs,
           \/ /\ here \notin BmListenPcs /\ to \in BmListenPcs /\ bev' = Listen(bev, l)
           \/ /\ here \in BmListenPcs /\ to \notin BmListenPcs
              /\ bev' = DropListener(bev, l) \/ bev' = Without(bev, l)
           \/ /\ here \notin BmListenPcs /\ to \notin BmListenPcs /\ bev' = Notify(bev, 1),
           to \notin BmIdlePcs \/ (to = "out" /\ bev' = Notify(bev, 1))
    PROVE  BmInv'
<1>0. BmCounts /\ BmListens
  BY DEF BmInv
<1>1. bpc'[l] = to /\ bpc[l] = here /\ \A x \in Lockers \ {l} : bpc'[x] = bpc[x]
  BY <1>0 DEF BmTo, BmCounts
<1>2. BmCounts'
  <2>1. Due(here, to) = 0
    BY DEF Due, In
  <2>2. bstate' = bstate + Due(here, to)
    BY <1>0, <2>1 DEF BmCounts
  <2> QED BY <1>0, <2>2, BmMoves
<1>3. l \in Ids(bev) <=> here \in BmListenPcs
  BY <1>0, <1>1 DEF BmListens
<1>4. /\ IsList(bev', Lockers)
      /\ Ids(bev') = IF to \in BmListenPcs THEN Ids(bev) \cup {l} ELSE Ids(bev) \ {l}
  <2>1. CASE bev' = Listen(bev, l) /\ here \notin BmListenPcs /\ to \in BmListenPcs
    BY <1>0, <1>3, <2>1, ListenList DEF BmListens
  <2>2. CASE bev' = DropListener(bev, l) /\ to \notin BmListenPcs
    BY <1>0, <2>2, DropList DEF BmListens
  <2>3. CASE bev' = Without(bev, l) /\ to \notin BmListenPcs
    BY <1>0, <2>3, WithoutList DEF BmListens
  <2>4. CASE bev' = Notify(bev, 1) /\ here \notin BmListenPcs /\ to \notin BmListenPcs
    <3>1. 1 \in Nat /\ 1 > 0
      OBVIOUS
    <3>2. IsList(bev', Lockers) /\ Ids(bev') = Ids(bev)
      BY <1>0, <2>4, <3>1, NotifyList DEF BmListens
    <3> QED BY <1>3, <2>4, <3>2
  <2> QED BY <2>1, <2>2, <2>3, <2>4
<1>5. BmListens'
  BY <1>0, <1>1, <1>4 DEF BmListens
<1>6. BmWaits'
  <2>1. CASE to \notin BmIdlePcs
    BY <1>1, <2>1 DEF BmWaits
  <2>2. CASE bev' = Notify(bev, 1) /\ to = "out"
    <3>1. 1 \in Nat /\ 1 > 0
      OBVIOUS
    <3>2. Ids(bev') = Ids(bev) /\ (Ids(bev) # {} => Told(bev') # {})
      BY <1>0, <2>2, <3>1, NotifyList DEF BmListens
    <3>3. \A x \in Lockers : bpc'[x] \in {"await", "s_await"} => x \in Ids(bev')
      BY <1>5 DEF BmListens, BmListenPcs
    <3> QED BY <3>2, <3>3 DEF BmWaits
  <2> QED BY <2>1, <2>2
<1> QED BY <1>2, <1>5, <1>6 DEF BmInv

\* The mutex's invariant holds at first.
LEMMA BmInitHolds == Bm!BmInit => BmInv
<1> SUFFICES ASSUME Bm!BmInit PROVE BmInv
  OBVIOUS
<1>1. bstate = 0 /\ bev = NoListeners /\ bpc = [l \in Lockers |-> "out"]
  BY BmSame DEF Bm!BmInit, Bm!M!MutexInit
<1>2. BmOwners = {} /\ BmStarved = {}
  BY <1>1 DEF BmOwners, BmStarved, Where, BmOwnerPcs, BmStarvedPcs
<1>3. Cardinality(BmOwners) = 0 /\ Cardinality(BmStarved) = 0
  BY <1>2, FS_EmptySet
<1>4. BmCounts
  BY <1>1, <1>3 DEF BmCounts, BmPcs
<1>5. BmListens /\ BmWaits
  BY <1>1, EmptyList DEF BmListens, BmWaits, BmListenPcs
<1> QED BY <1>4, <1>5 DEF BmInv

\* See BmInitHolds.
LEMMA BmStepHolds == BmInv /\ [Bm!BmNext]_mvars => BmInv'
<1> SUFFICES ASSUME BmInv, [Bm!BmNext]_mvars PROVE BmInv'
  OBVIOUS
<1>1. CASE UNCHANGED mvars
  BY <1>1 DEF mvars, BmInv, BmCounts, BmListens, BmWaits, BmOwners, BmStarved
<1>2. ASSUME NEW l \in Lockers, BmQuiet(l) PROVE BmInv'
  BY <1>2, BmQuietHolds
<1>3. ASSUME NEW l \in Lockers,
             Bm!M!ListenForLock(l, "listen", "cas") \/ Bm!M!ListenForLock(l, "s_listen", "s_cas")
      PROVE  BmInv'
  <2>1. PICK here \in {"listen", "s_listen"}, to \in {"cas", "s_cas"} :
             BmTo(l, here, to) /\ (here = "listen" <=> to = "cas") /\ bev' = Listen(bev, l) /\ UNCHANGED bstate
    BY <1>3, BmSame DEF Bm!M!ListenForLock, Bm!M!LockerGoto, BmTo
  <2>2. /\ here \in BmPcs /\ to \in BmPcs /\ (here \in BmOwnerPcs <=> to \in BmOwnerPcs)
        /\ here \in BmStarvedPcs <=> to \in BmStarvedPcs
        /\ here \notin BmListenPcs /\ to \in BmListenPcs /\ to \notin BmIdlePcs
    BY <2>1 DEF BmPcs, BmOwnerPcs, BmStarvedPcs, BmListenPcs, BmIdlePcs
  <2> QED BY <2>1, <2>2, BmCallHolds
<1>4. ASSUME NEW l \in Lockers,
             \/ Bm!M!DropFor(l, "drop_in", "in") \/ Bm!M!DropFor(l, "drop_starve", "starve")
             \/ Bm!M!DropFor(l, "s_drop", "s_end")
             \/ Bm!M!AwaitTurn(l, "await", "cas_again") \/ Bm!M!AwaitTurn(l, "s_await", "s_or")
      PROVE  BmInv'
  <2>1. PICK here \in BmPcs, to \in BmPcs :
             /\ BmTo(l, here, to) /\ (bev' = DropListener(bev, l) \/ bev' = Without(bev, l)) /\ UNCHANGED bstate
             /\ <<here, to>> \in {<<"drop_in", "in">>, <<"drop_starve", "starve">>, <<"s_drop", "s_end">>,
                                  <<"await", "cas_again">>, <<"s_await", "s_or">>}
    BY <1>4, BmSame DEF Bm!M!DropFor, Bm!M!AwaitTurn, Bm!M!LockerGoto, BmTo, BmPcs
  <2>2. /\ here \in BmPcs /\ to \in BmPcs /\ (here \in BmOwnerPcs <=> to \in BmOwnerPcs)
        /\ here \in BmStarvedPcs <=> to \in BmStarvedPcs
        /\ here \in BmListenPcs /\ to \notin BmListenPcs /\ to \notin BmIdlePcs
    BY <2>1 DEF BmPcs, BmOwnerPcs, BmStarvedPcs, BmListenPcs, BmIdlePcs
  <2> QED BY <2>1, <2>2, BmCallHolds
<1>5. ASSUME NEW l \in Lockers,
             Bm!M!NotifyFor(l, "notify_starve", "starve") \/ Bm!M!NotifyFor(l, "notify_out", "out")
      PROVE  BmInv'
  <2>1. PICK here \in {"notify_starve", "notify_out"}, to \in {"starve", "out"} :
             BmTo(l, here, to) /\ bev' = Notify(bev, 1) /\ UNCHANGED bstate
    BY <1>5, BmSame DEF Bm!M!NotifyFor, Bm!M!LockerGoto, BmTo
  <2>2. /\ here \in BmPcs /\ to \in BmPcs /\ (here \in BmOwnerPcs <=> to \in BmOwnerPcs)
        /\ here \in BmStarvedPcs <=> to \in BmStarvedPcs
        /\ here \notin BmListenPcs /\ to \notin BmListenPcs /\ (to \notin BmIdlePcs \/ to = "out")
    BY <2>1 DEF BmPcs, BmOwnerPcs, BmStarvedPcs, BmListenPcs, BmIdlePcs
  <2> QED BY <2>1, <2>2, BmCallHolds
<1> QED BY <1>1, <1>2, <1>3, <1>4, <1>5 DEF Bm!BmNext, Bm!BmStep, BmQuiet

\* See BmInitHolds.
LEMMA BmInvSays == BmInv => Bm!SleepsOnHeldLock
<1> SUFFICES ASSUME BmInv PROVE Bm!SleepsOnHeldLock
  OBVIOUS
<1>1. Bm!M!Owners = BmOwners /\ Bm!M!Starved = BmStarved
  BY DEF Bm!M!Owners, Bm!M!Starved, BmOwners, BmStarved, Where, Bm!M!OwnerPcs, Bm!M!StarvedPcs,
         BmOwnerPcs, BmStarvedPcs, BmInv, BmCounts, BmPcs
<1>2. IsFiniteSet(BmOwners)
  <2>1. BmOwners \subseteq Lockers
    BY DEF BmOwners, Where
  <2> QED BY <2>1, RuntimeAssumption, FS_Subset
<1>3. \A x, y \in BmOwners : x = y
  BY <1>2, AtMostOne DEF BmInv, BmCounts
<1>4. \A x : IsNotified(bev, x) <=> x \in Told(bev)
  BY ListViews DEF BmInv, BmListens
<1>5. NotifiedCount(bev) > 0 <=> Told(bev) # {}
  BY ListViews DEF BmInv, BmListens
<1> QED BY <1>1, <1>3, <1>4, <1>5, BmSame DEF Bm!SleepsOnHeldLock, Bm!M!MutualExclusion, BmInv, BmWaits, BmIdlePcs

(***************************************************************************)
(* RwLock.  The first invariant says what the word counts, the second who  *)
(* hears that a guard is gone.                                             *)
(***************************************************************************)
\* A step that moves one task changes the counts of readers and of writers by
\* what its old and its new place bring.
LEMMA CountsMove ==
    ASSUME TypeOK, NEW t \in Tasks, NEW to \in Pcs, Goto(t, to)
    PROVE  /\ pc' \in [Tasks -> Pcs] /\ pc'[t] = to
           /\ \A u \in Tasks : u # t => pc'[u] = pc[u]
           /\ Cardinality(At(ReaderPcs)) \in Nat /\ Cardinality(At(WriterPcs)) \in Nat
           /\ Cardinality(At(ReaderPcs)') =
                Cardinality(At(ReaderPcs)) + In(to, ReaderPcs) - In(pc[t], ReaderPcs)
           /\ Cardinality(At(WriterPcs)') =
                Cardinality(At(WriterPcs)) + In(to, WriterPcs) - In(pc[t], WriterPcs)
<1>1. /\ pc' \in [Tasks -> Pcs] /\ pc'[t] = to
      /\ \A u \in Tasks : u # t => pc'[u] = pc[u]
  BY DEF TypeOK, Goto
<1>2. ChangedAt(pc, pc', t, Tasks)
  BY <1>1 DEF ChangedAt
<1>3. IsFiniteSet(Tasks)
  BY RwLockAssumption
<1>4. /\ At(ReaderPcs) = Where(pc, Tasks, ReaderPcs)
      /\ At(ReaderPcs)' = Where(pc', Tasks, ReaderPcs)
      /\ At(WriterPcs) = Where(pc, Tasks, WriterPcs)
      /\ At(WriterPcs)' = Where(pc', Tasks, WriterPcs)
  BY DEF At, Where, ReaderPcs, WriterPcs
<1>5. /\ Cardinality(Where(pc, Tasks, ReaderPcs)) \in Nat
      /\ Cardinality(Where(pc', Tasks, ReaderPcs)) =
           Cardinality(Where(pc, Tasks, ReaderPcs)) + In(pc'[t], ReaderPcs) - In(pc[t], ReaderPcs)
  BY <1>2, <1>3, CountAfterChange
<1>6. /\ Cardinality(Where(pc, Tasks, WriterPcs)) \in Nat
      /\ Cardinality(Where(pc', Tasks, WriterPcs)) =
           Cardinality(Where(pc, Tasks, WriterPcs)) + In(pc'[t], WriterPcs) - In(pc[t], WriterPcs)
  BY <1>2, <1>3, CountAfterChange
<1> QED BY <1>1, <1>4, <1>5, <1>6

\* What a step of one task owes to the invariant: the word follows its move,
\* it holds the mutex where it must and takes it from nobody, it is handed the
\* write guard on the word 1 only, and it touches the word only while nobody
\* else has the write guard.
LEMMA MovePreserves ==
    ASSUME IInv, NEW t \in Tasks, NEW to \in Pcs, Goto(t, to),
           state' = state + 2 * (In(to, ReaderPcs) - In(pc[t], ReaderPcs))
                          + In(to, WriterPcs) - In(pc[t], WriterPcs),
           state' \in Nat, mutex' \in Tasks \cup {None},
           mutex' = mutex \/ mutex = None \/ mutex = t,
           to \in MutexPcs => mutex' = t,
           to = "writing" => state' = 1,
           state' = state \/ \A u \in Tasks : u # t => pc[u] # "writing"
    PROVE  IInv'
<1>1. /\ TypeOK
      /\ state = 2 * Cardinality(At(ReaderPcs)) + Cardinality(At(WriterPcs))
      /\ \A u \in Tasks : pc[u] \in MutexPcs => mutex = u
      /\ \A u \in Tasks : pc[u] = "writing" => state = 1
  BY DEF IInv
<1>2. /\ pc' \in [Tasks -> Pcs] /\ pc'[t] = to
      /\ \A u \in Tasks : u # t => pc'[u] = pc[u]
  BY <1>1, CountsMove
<1>3. TypeOK'
  BY <1>2 DEF TypeOK
<1>4. state' = 2 * Cardinality(At(ReaderPcs)') + Cardinality(At(WriterPcs)')
  <2> DEFINE r == Cardinality(At(ReaderPcs))
             w == Cardinality(At(WriterPcs))
  <2>1. /\ r \in Nat /\ w \in Nat
        /\ Cardinality(At(ReaderPcs)') = r + In(to, ReaderPcs) - In(pc[t], ReaderPcs)
        /\ Cardinality(At(WriterPcs)') = w + In(to, WriterPcs) - In(pc[t], WriterPcs)
    BY <1>1, CountsMove
  <2>2. /\ In(to, ReaderPcs) \in Int /\ In(pc[t], ReaderPcs) \in Int
        /\ In(to, WriterPcs) \in Int /\ In(pc[t], WriterPcs) \in Int
    BY DEF In
  <2>3. state = 2 * r + w
    BY <1>1
  <2> HIDE DEF r, w
  <2> QED BY <2>1, <2>2, <2>3
<1>5. ASSUME NEW u \in Tasks, pc'[u] \in MutexPcs PROVE mutex' = u
  <2>1. CASE u = t
    BY <2>1, <1>2, <1>5
  <2>2. CASE u # t
    <3>1. mutex = u
      BY <2>2, <1>1, <1>2, <1>5
    <3>2. mutex # None
      BY <3>1, RwLockAssumption
    <3> QED BY <3>1, <3>2, <2>2
  <2> QED BY <2>1, <2>2
<1>6. ASSUME NEW u \in Tasks, pc'[u] = "writing" PROVE state' = 1
  <2>1. CASE u = t
    BY <2>1, <1>2, <1>6
  <2>2. CASE u # t
    <3>1. pc[u] = "writing"
      BY <2>2, <1>2, <1>6
    <3> QED BY <3>1, <2>2, <1>1
  <2> QED BY <2>1, <2>2
<1> QED BY <1>3, <1>4, <1>5, <1>6 DEF IInv

\* Who holds the mutex for sure is the only one that may have the write guard
\* or the writer bit.
LEMMA HolderIsAlone ==
    ASSUME IInv, NEW t \in Tasks, pc[t] \in MutexPcs
    PROVE  /\ mutex = t
           /\ \A u \in Tasks : u # t => pc[u] # "writing" /\ pc[u] \notin WriterPcs
           /\ Cardinality(At(WriterPcs)) = In(pc[t], WriterPcs)
           /\ state = 2 * Cardinality(At(ReaderPcs)) + In(pc[t], WriterPcs)
<1>1. \A u \in Tasks : pc[u] \in MutexPcs => mutex = u
  BY DEF IInv
<1>2. "writing" \in WriterPcs /\ WriterPcs \subseteq MutexPcs
  BY DEF WriterPcs, MutexPcs
<1>3. \A u \in Tasks : u # t => pc[u] # "writing" /\ pc[u] \notin WriterPcs
  BY <1>1, <1>2
<1>4. Cardinality(At(WriterPcs)) = In(pc[t], WriterPcs)
  <2>1. CASE pc[t] \in WriterPcs
    <3>1. At(WriterPcs) = {t}
      BY <2>1, <1>3 DEF At
    <3> QED BY <3>1, <2>1, FS_Singleton DEF In
  <2>2. CASE pc[t] \notin WriterPcs
    <3>1. At(WriterPcs) = {}
      BY <2>2, <1>3 DEF At
    <3> QED BY <3>1, <2>2, FS_EmptySet DEF In
  <2> QED BY <2>1, <2>2
<1> QED BY <1>1, <1>3, <1>4 DEF IInv

\* A step that only moves a task, between places that count the same.
LEMMA QuietPreserves ==
    ASSUME IInv, NEW t \in Tasks, NEW to \in Pcs, Goto(t, to), UNCHANGED <<state, mutex>>,
           to \in ReaderPcs <=> pc[t] \in ReaderPcs,
           to \in WriterPcs <=> pc[t] \in WriterPcs,
           to \in MutexPcs => (pc[t] \in MutexPcs \/ mutex = t),
           to = "writing" => state = 1
    PROVE  IInv'
<1>1. state \in Nat /\ mutex \in Tasks \cup {None}
  BY DEF IInv, TypeOK
<1>2. to \in MutexPcs => mutex' = t
  BY HolderIsAlone
<1>3. /\ In(to, ReaderPcs) = In(pc[t], ReaderPcs) /\ In(pc[t], ReaderPcs) \in Int
      /\ In(to, WriterPcs) = In(pc[t], WriterPcs) /\ In(pc[t], WriterPcs) \in Int
  BY DEF In
<1>4. state' = state + 2 * (In(to, ReaderPcs) - In(pc[t], ReaderPcs))
                     + In(to, WriterPcs) - In(pc[t], WriterPcs)
  BY <1>1, <1>3
<1> QED BY <1>1, <1>2, <1>4, MovePreserves

\* The steps that leave the word and the mutex alone: loads that decide where
\* to go, calls of the events, failed tries, and futures dropped where they wait.
LEMMA QuietStepPreserves ==
    ASSUME IInv, NEW t \in Tasks,
           \/ Call(t) \/ FailRead(t) \/ ReadListen(t) \/ ReadCheck(t) \/ ReadLoad(t)
           \/ ReadDrop(t) \/ ReadAwait(t) \/ ReadNotify(t) \/ FailReserve(t) \/ WriteLoad(t)
           \/ WriteListen(t) \/ WriteCheck(t) \/ WriteDrop(t) \/ WriteAwait(t)
           \/ LastReader(t) \/ WriteNotify(t) \/ DowngradeUpgradable(t) \/ Cancel(t)
    PROVE  IInv'
<1> USE DEF Pcs, ReaderPcs, WriterPcs, MutexPcs
<1>1. UNCHANGED <<state, mutex>>
  BY DEF Call, FailRead, ReadListen, ReadCheck, ReadLoad, ReadDrop, ReadAwait, ReadNotify,
         FailReserve, WriteLoad, WriteListen, WriteCheck, WriteDrop, WriteAwait, LastReader,
         WriteNotify, DowngradeUpgradable, Cancel
<1>2. PICK to \in Pcs :
        /\ Goto(t, to)
        /\ to \in ReaderPcs <=> pc[t] \in ReaderPcs
        /\ to \in WriterPcs <=> pc[t] \in WriterPcs
        /\ to \in MutexPcs => (pc[t] \in MutexPcs \/ mutex = t)
        /\ to = "writing" => state = 1
  <2>1. CASE Call(t)
    BY <2>1 DEF Call
  <2>2. CASE \/ FailRead(t) \/ ReadListen(t) \/ ReadCheck(t) \/ ReadLoad(t)
             \/ ReadDrop(t) \/ ReadAwait(t) \/ ReadNotify(t)
    BY <2>2 DEF FailRead, ReadListen, ReadCheck, ReadLoad, ReadDrop, ReadAwait, ReadNotify
  <2>3. CASE \/ FailReserve(t) \/ WriteLoad(t) \/ WriteListen(t) \/ WriteCheck(t)
             \/ WriteDrop(t) \/ WriteAwait(t)
    BY <2>3 DEF FailReserve, WriteLoad, WriteListen, WriteCheck, WriteDrop, WriteAwait
  <2>4. CASE LastReader(t) \/ WriteNotify(t) \/ DowngradeUpgradable(t)
    BY <2>4 DEF LastReader, WriteNotify, DowngradeUpgradable
  <2>5. CASE Cancel(t)
    BY <2>5 DEF Cancel
  <2> QED BY <2>1, <2>2, <2>3, <2>4, <2>5
<1> HIDE DEF Pcs, ReaderPcs, WriterPcs, MutexPcs
<1> QED BY <1>1, <1>2, QuietPreserves

\* Taking and giving back the mutex.
LEMMA MutexStepPreserves ==
    ASSUME IInv, NEW t \in Tasks, Reserve(t) \/ Unlock(t)
    PROVE  IInv'
<1>1. state \in Nat /\ state' = state
  BY DEF IInv, TypeOK, Reserve, Unlock
<1>2. CASE Reserve(t)
  <2>1. PICK to \in {"wset", "wcas", "uadd"} : Goto(t, to)
    BY <1>2 DEF Reserve
  <2>2. mutex = None /\ mutex' = t
    BY <1>2 DEF Reserve
  <2>3. /\ to \in Pcs /\ to # "writing" /\ In(to, ReaderPcs) = 0 /\ In(to, WriterPcs) = 0
        /\ In(pc[t], ReaderPcs) = 0 /\ In(pc[t], WriterPcs) = 0
    BY <1>2 DEF Reserve, In, Pcs, ReaderPcs, WriterPcs, MutexPcs
  <2> QED BY <1>1, <2>1, <2>2, <2>3, MovePreserves
<1>3. CASE Unlock(t) /\ pc[t] = "unlock"
  <2>1. Goto(t, "idle") /\ mutex' = None
    BY <1>3 DEF Unlock
  <2>2. /\ "idle" \in Pcs /\ "idle" \notin MutexPcs /\ pc[t] \in MutexPcs
        /\ In("idle", WriterPcs) = 0 /\ In(pc[t], WriterPcs) = 0
        /\ In("idle", ReaderPcs) = 0 /\ In(pc[t], ReaderPcs) = 0
    BY <1>3 DEF In, Pcs, ReaderPcs, WriterPcs, MutexPcs
  <2>3. mutex = t
    BY <2>2, HolderIsAlone
  <2> QED BY <1>1, <2>1, <2>2, <2>3, MovePreserves
<1>4. CASE Unlock(t) /\ pc[t] = "dunlock"
  <2>1. Goto(t, "reading") /\ mutex' = None
    BY <1>4 DEF Unlock
  <2>2. /\ "reading" \in Pcs /\ "reading" \notin MutexPcs /\ pc[t] \in MutexPcs
        /\ In("reading", WriterPcs) = 0 /\ In(pc[t], WriterPcs) = 0
        /\ In("reading", ReaderPcs) = 1 /\ In(pc[t], ReaderPcs) = 1
    BY <1>4 DEF In, Pcs, ReaderPcs, WriterPcs, MutexPcs
  <2>3. mutex = t
    BY <2>2, HolderIsAlone
  <2> QED BY <1>1, <2>1, <2>2, <2>3, MovePreserves
<1> QED BY <1>2, <1>3, <1>4 DEF Unlock

\* A reader comes only while no writer bit is set, so nobody writes.
LEMMA TakeReadPreserves ==
    ASSUME IInv, NEW t \in Tasks, TakeRead(t)
    PROVE  IInv'
<1>1. /\ state \in Nat /\ state' = state + 2 /\ Goto(t, "reading")
      /\ mutex' = mutex /\ mutex \in Tasks \cup {None} /\ state # 1
  BY DEF IInv, TypeOK, TakeRead, Writer
<1>2. /\ "reading" \in Pcs /\ "reading" \notin MutexPcs
      /\ In("reading", ReaderPcs) = 1 /\ In("reading", WriterPcs) = 0
      /\ In(pc[t], ReaderPcs) = 0 /\ In(pc[t], WriterPcs) = 0
  BY DEF TakeRead, In, Pcs, ReaderPcs, WriterPcs, MutexPcs
<1>3. \A u \in Tasks : pc[u] # "writing"
  BY <1>1 DEF IInv
<1> QED BY <1>1, <1>2, <1>3, MovePreserves

\* A reader goes: it is counted, so nobody writes.
LEMMA ReadReleasePreserves ==
    ASSUME IInv, NEW t \in Tasks, ReadRelease(t)
    PROVE  IInv'
<1>1. /\ state \in Nat /\ state' = state - 2
      /\ mutex' = mutex /\ mutex \in Tasks \cup {None}
  BY DEF IInv, TypeOK, ReadRelease
<1>2. PICK to \in {"lastreader", "unlock", "idle"} :
        /\ Goto(t, to)
        /\ to = "unlock" => mutex = t
  BY DEF ReadRelease
<1>3. /\ to \in Pcs /\ to # "writing" /\ (to \in MutexPcs => to = "unlock")
      /\ In(to, ReaderPcs) = 0 /\ In(to, WriterPcs) = 0
      /\ In(pc[t], ReaderPcs) = 1 /\ In(pc[t], WriterPcs) = 0
  BY <1>2 DEF ReadRelease, In, Pcs, ReaderPcs, WriterPcs, MutexPcs
<1>4. state >= 2
  <2>1. IsFiniteSet(At(ReaderPcs)) /\ IsFiniteSet(At(WriterPcs))
    BY RwLockAssumption, FS_Subset DEF At
  <2>2. t \in At(ReaderPcs)
    BY DEF ReadRelease, At, ReaderPcs
  <2>3. /\ Cardinality(At(ReaderPcs)) \in Nat /\ Cardinality(At(WriterPcs)) \in Nat
        /\ Cardinality(At(ReaderPcs)) # 0
    BY <2>1, <2>2, FS_CardinalityType, FS_EmptySet
  <2> QED BY <2>3 DEF IInv
<1>5. \A u \in Tasks : pc[u] # "writing"
  BY <1>1, <1>4 DEF IInv
<1>6. /\ state' = state + 2 * (In(to, ReaderPcs) - In(pc[t], ReaderPcs))
                        + In(to, WriterPcs) - In(pc[t], WriterPcs)
      /\ state' \in Nat
  BY <1>1, <1>3, <1>4
<1>7. to \in MutexPcs => mutex' = t
  BY <1>1, <1>2, <1>3
<1> QED BY <1>1, <1>2, <1>3, <1>5, <1>6, <1>7, MovePreserves

\* The steps of the holder of the mutex that change the word.
LEMMA HolderStepPreserves ==
    ASSUME IInv, NEW t \in Tasks,
           \/ WriteCas(t) \/ WriteSet(t) \/ UpgradableAdd(t) \/ WriteRelease(t)
           \/ TryUpgrade(t) \/ Upgrade(t) \/ Downgrade(t) \/ DowngradeToUpgradable(t)
    PROVE  IInv'
<1> DEFINE r == Cardinality(At(ReaderPcs))
<1>1. pc[t] \in MutexPcs /\ mutex' = mutex
  BY DEF WriteCas, WriteSet, UpgradableAdd, WriteRelease, TryUpgrade, Upgrade, Downgrade,
         DowngradeToUpgradable, MutexPcs, WriterPcs
<1>2. /\ mutex = t /\ \A u \in Tasks : u # t => pc[u] # "writing"
      /\ state = 2 * r + In(pc[t], WriterPcs)
  BY <1>1, HolderIsAlone
<1>3. r \in Nat
  <2>1. IsFiniteSet(At(ReaderPcs))
    BY RwLockAssumption, FS_Subset DEF At
  <2> QED BY <2>1, FS_CardinalityType
<1>4. pc[t] \in {"upgradable"} => r # 0
  <2>1. IsFiniteSet(At(ReaderPcs))
    BY RwLockAssumption, FS_Subset DEF At
  <2>2. pc[t] = "upgradable" => t \in At(ReaderPcs)
    BY DEF At, ReaderPcs
  <2> QED BY <2>1, <2>2, FS_EmptySet
<1> HIDE DEF r
<1>5. ASSUME NEW to \in Pcs, Goto(t, to),
             state' = state + 2 * (In(to, ReaderPcs) - In(pc[t], ReaderPcs))
                            + In(to, WriterPcs) - In(pc[t], WriterPcs),
             state' \in Nat, to = "writing" => state' = 1
      PROVE  IInv'
  BY <1>1, <1>2, <1>5, MovePreserves
<1>6. CASE WriteCas(t)
  <2>1. CASE state = 0
    <3>1. Goto(t, "writing") /\ state' = 1
      BY <1>6, <2>1 DEF WriteCas
    <3>2. /\ "writing" \in Pcs /\ In("writing", ReaderPcs) = 0 /\ In("writing", WriterPcs) = 1
          /\ In(pc[t], ReaderPcs) = 0 /\ In(pc[t], WriterPcs) = 0
      BY <1>6 DEF WriteCas, In, Pcs, ReaderPcs, WriterPcs, MutexPcs
    <3> QED BY <3>1, <3>2, <2>1, <1>5
  <2>2. CASE state # 0
    <3>1. Goto(t, "unlock") /\ state' = state /\ state \in Nat
      BY <1>6, <2>2 DEF WriteCas, IInv, TypeOK
    <3>2. /\ "unlock" \in Pcs /\ In("unlock", ReaderPcs) = 0 /\ In("unlock", WriterPcs) = 0
          /\ In(pc[t], ReaderPcs) = 0 /\ In(pc[t], WriterPcs) = 0
      BY <1>6 DEF WriteCas, In, Pcs, ReaderPcs, WriterPcs, MutexPcs
    <3> QED BY <3>1, <3>2, <1>5
  <2> QED BY <2>1, <2>2
<1>7. CASE WriteSet(t)
  <2>1. /\ "wload" \in Pcs /\ In("wload", ReaderPcs) = 0 /\ In("wload", WriterPcs) = 1
        /\ In(pc[t], ReaderPcs) = 0 /\ In(pc[t], WriterPcs) = 0
    BY <1>7 DEF WriteSet, In, Pcs, ReaderPcs, WriterPcs, MutexPcs
  <2>2. Goto(t, "wload") /\ state' = state + 1 /\ state' \in Nat
    BY <1>7, <1>2, <1>3, <2>1 DEF WriteSet, Readers
  <2> QED BY <2>1, <2>2, <1>2, <1>3, <1>5
<1>8. CASE UpgradableAdd(t)
  <2>1. /\ "upgradable" \in Pcs /\ In("upgradable", ReaderPcs) = 1
        /\ In("upgradable", WriterPcs) = 0
        /\ In(pc[t], ReaderPcs) = 0 /\ In(pc[t], WriterPcs) = 0
    BY <1>8 DEF UpgradableAdd, In, Pcs, ReaderPcs, WriterPcs, MutexPcs
  <2>2. Goto(t, "upgradable") /\ state' = state + 2 /\ state' \in Nat
    BY <1>8, <1>2, <1>3, <2>1 DEF UpgradableAdd
  <2> QED BY <2>1, <2>2, <1>2, <1>3, <1>5
<1>9. CASE WriteRelease(t)
  <2>1. /\ "wnotify" \in Pcs /\ In("wnotify", ReaderPcs) = 0 /\ In("wnotify", WriterPcs) = 0
        /\ In(pc[t], ReaderPcs) = 0 /\ In(pc[t], WriterPcs) = 1
    BY <1>9 DEF WriteRelease, In, Pcs, ReaderPcs, WriterPcs, MutexPcs
  <2>2. Goto(t, "wnotify") /\ state' = state - 1 /\ state' \in Nat
    BY <1>9, <1>2, <1>3, <2>1 DEF WriteRelease, Readers
  <2> QED BY <2>1, <2>2, <1>2, <1>3, <1>5
<1>10. CASE TryUpgrade(t)
  <2>1. /\ "writing" \in Pcs /\ In("writing", ReaderPcs) = 0 /\ In("writing", WriterPcs) = 1
        /\ In(pc[t], ReaderPcs) = 1 /\ In(pc[t], WriterPcs) = 0
    BY <1>10 DEF TryUpgrade, In, Pcs, ReaderPcs, WriterPcs, MutexPcs
  <2>2. Goto(t, "writing") /\ state = 2 /\ state' = 1
    BY <1>10 DEF TryUpgrade
  <2> QED BY <2>1, <2>2, <1>5
<1>11. CASE Upgrade(t)
  <2>1. /\ "wload" \in Pcs /\ In("wload", ReaderPcs) = 0 /\ In("wload", WriterPcs) = 1
        /\ In(pc[t], ReaderPcs) = 1 /\ In(pc[t], WriterPcs) = 0
    BY <1>11 DEF Upgrade, In, Pcs, ReaderPcs, WriterPcs, MutexPcs
  <2>2. Goto(t, "wload") /\ state' = state - 1 /\ state' \in Nat /\ state \in Nat
    BY <1>11, <1>2, <1>3, <1>4, <2>1 DEF Upgrade
  <2> QED BY <2>1, <2>2, <1>5
<1>12. CASE Downgrade(t) \/ DowngradeToUpgradable(t)
  <2>1. PICK to \in {"dnotify", "upgradable"} : Goto(t, to)
    BY <1>12 DEF Downgrade, DowngradeToUpgradable
  <2>2. /\ to \in Pcs /\ to # "writing" /\ In(to, ReaderPcs) = 1 /\ In(to, WriterPcs) = 0
        /\ In(pc[t], ReaderPcs) = 0 /\ In(pc[t], WriterPcs) = 1
    BY <1>12 DEF Downgrade, DowngradeToUpgradable, In, Pcs, ReaderPcs, WriterPcs, MutexPcs
  <2>3. state' = state + 1 /\ state \in Nat /\ state' \in Nat
    BY <1>12, <1>2, <1>3, <2>2 DEF Downgrade, DowngradeToUpgradable
  <2> QED BY <2>1, <2>2, <2>3, <1>5
<1> QED BY <1>6, <1>7, <1>8, <1>9, <1>10, <1>11, <1>12

\* Every step preserves the invariant.
LEMMA NextPreserves == IInv /\ [Next]_vars => IInv'
<1> SUFFICES ASSUME IInv, [Next]_vars PROVE IInv'
  OBVIOUS
<1>1. CASE UNCHANGED vars
  BY <1>1 DEF vars, IInv, TypeOK, At
<1>2. ASSUME NEW t \in Tasks, Call(t) \/ Step(t) \/ Guards(t) \/ Cancel(t) PROVE IInv'
  BY <1>2, QuietStepPreserves, MutexStepPreserves, TakeReadPreserves, ReadReleasePreserves,
     HolderStepPreserves DEF Step, Guards
<1> QED BY <1>1, <1>2 DEF Next

\* Initially nobody is in.
LEMMA InitHolds == Init => IInv
<1> SUFFICES ASSUME Init PROVE IInv
  OBVIOUS
<1>1. At(ReaderPcs) = {} /\ At(WriterPcs) = {}
  BY DEF Init, At, ReaderPcs, WriterPcs
<1>2. TypeOK
  BY DEF Init, TypeOK, Pcs
<1>3. \A t \in Tasks : pc[t] \notin MutexPcs /\ pc[t] # "writing"
  BY DEF Init, MutexPcs, WriterPcs
<1> QED BY <1>1, <1>2, <1>3, FS_EmptySet DEF IInv, Init

\* The inductive invariant of the reader-writer lock holds in every reachable
\* state.
THEOREM Invariant == Spec => []IInv
BY InitHolds, NextPreserves, PTL DEF Spec

\* The guards of rwlock.rs exclude one another, for any finite set of tasks.
THEOREM GuardsAreExclusive == Spec => []GuardsExclude
<1>1. IInv => GuardsExclude
  <2> SUFFICES ASSUME IInv PROVE GuardsExclude
    OBVIOUS
  <2>1. ASSUME Holding("writing") # {}
        PROVE  Cardinality(Holding("writing") \cup Holding("reading")
                           \cup Holding("upgradable")) = 1
    <3>1. PICK t \in Tasks : pc[t] = "writing"
      BY <2>1 DEF Holding
    <3>2. state = 1 /\ pc[t] \in MutexPcs /\ pc[t] \in WriterPcs
      BY <3>1 DEF IInv, MutexPcs, WriterPcs
    <3>3. /\ \A u \in Tasks : u # t => pc[u] # "writing"
          /\ state = 2 * Cardinality(At(ReaderPcs)) + 1
      BY <3>2, HolderIsAlone DEF In
    <3>4. IsFiniteSet(At(ReaderPcs))
      BY RwLockAssumption, FS_Subset DEF At
    <3>5. Cardinality(At(ReaderPcs)) \in Nat
      BY <3>4, FS_CardinalityType
    <3>6. Cardinality(At(ReaderPcs)) = 0
      BY <3>2, <3>3, <3>5
    <3>7. At(ReaderPcs) = {}
      BY <3>4, <3>6, FS_EmptySet
    <3>8. Holding("reading") = {} /\ Holding("upgradable") = {}
      BY <3>7 DEF Holding, At, ReaderPcs
    <3>9. Holding("writing") = {t}
      BY <3>1, <3>3 DEF Holding
    <3> QED BY <3>8, <3>9, FS_Singleton
  <2>2. Cardinality(Holding("upgradable")) <= 1
    <3>1. \A t, u \in Holding("upgradable") : t = u
      BY DEF Holding, IInv, MutexPcs
    <3>2. CASE Holding("upgradable") = {}
      BY <3>2, FS_EmptySet
    <3>3. CASE Holding("upgradable") # {}
      <4>1. PICK t \in Holding("upgradable") : Holding("upgradable") = {t}
        BY <3>1, <3>3
      <4> QED BY <4>1, FS_Singleton
    <3> QED BY <3>2, <3>3
  <2> QED BY <2>1, <2>2 DEF GuardsExclude
<1> QED BY <1>1, Invariant, PTL

-----------------------------------------------------------------------------
\* Where a task has a listener: of no_readers, and of no_writer.
WListenPcs == {"wcheck", "wdrop", "wawait"}
RListenPcs == {"rcheck", "rload", "rdrop", "rdroplisten", "rawait"}
Tellers    == {"wnotify", "dnotify", "rnotify"}

Listeners ==
    /\ IsList(no_readers, Tasks) /\ Ids(no_readers) = At(WListenPcs)
    /\ IsList(no_writer, Tasks) /\ Ids(no_writer) = At(RListenPcs)

\* A writer that waits has a reader left, was told, or will be by the reader
\* that was the last; where readers wait there is a writer, or one of them has a
\* notification, which it passes on, or somebody is about to give one.
WriterHears == \A t \in Tasks : pc[t] = "wawait" =>
    Readers > 0 \/ t \in Told(no_readers) \/ At({"lastreader"}) # {}
ReadersHear == At({"rawait"}) # {} =>
    Writer \/ untold \/ Told(no_writer) # {} \/ At(Tellers) # {}

WaitInv == Listeners /\ WriterHears /\ ReadersHear

\* What a step that calls no event owes to the invariant.
LEMMA WaitMoves ==
    ASSUME WaitInv, TypeOK, NEW t \in Tasks, NEW to, Goto(t, to), UNCHANGED <<no_readers, no_writer>>,
           to \in WListenPcs <=> pc[t] \in WListenPcs, to \in RListenPcs <=> pc[t] \in RListenPcs,
           pc[t] \notin Tellers \cup {"lastreader"},
           to = "wawait" => Readers' > 0,
           \/ Readers > 0 => Readers' > 0
           \/ to = "lastreader"
           \/ \A u \in Tasks : u # t => pc[u] # "wawait",
           to = "rawait" => Writer',
           Writer => Writer' \/ untold' \/ to \in Tellers,
           untold => untold'
    PROVE  WaitInv'
<1>1. /\ pc'[t] = to /\ \A u \in Tasks : u # t => pc'[u] = pc[u]
  BY DEF TypeOK, Goto
<1>2. Listeners'
  <2>1. At(WListenPcs)' = At(WListenPcs) /\ At(RListenPcs)' = At(RListenPcs)
    BY <1>1 DEF At, WListenPcs, RListenPcs
  <2> QED BY <2>1 DEF WaitInv, Listeners
<1>3. WriterHears'
  <2> SUFFICES ASSUME NEW u \in Tasks, pc'[u] = "wawait"
               PROVE  (Readers > 0)' \/ u \in Told(no_readers') \/ At({"lastreader"})' # {}
    BY DEF WriterHears
  <2>1. CASE u = t
    BY <2>1, <1>1
  <2>2. CASE u # t
    <3>1. pc[u] = "wawait"
      BY <2>2, <1>1
    <3>2. Readers > 0 \/ u \in Told(no_readers) \/ At({"lastreader"}) # {}
      BY <3>1 DEF WaitInv, WriterHears
    <3>3. /\ At({"lastreader"}) # {} => At({"lastreader"})' # {}
          /\ to = "lastreader" => At({"lastreader"})' # {}
      BY <1>1 DEF At
    <3> QED BY <2>2, <3>1, <3>2, <3>3
  <2> QED BY <2>1, <2>2
<1>4. ReadersHear'
  <2> SUFFICES ASSUME At({"rawait"})' # {}
               PROVE  Writer' \/ untold' \/ Told(no_writer') # {} \/ At(Tellers)' # {}
    BY DEF ReadersHear
  <2>1. /\ At(Tellers) # {} => At(Tellers)' # {}
        /\ to \in Tellers => At(Tellers)' # {}
    BY <1>1 DEF At, Tellers
  <2>2. CASE to = "rawait"
    BY <2>2
  <2>3. CASE to # "rawait"
    <3>1. At({"rawait"}) # {}
      BY <2>3, <1>1 DEF At
    <3>2. Writer \/ untold \/ Told(no_writer) # {} \/ At(Tellers) # {}
      BY <3>1 DEF WaitInv, ReadersHear
    <3> QED BY <3>2, <2>1
  <2> QED BY <2>2, <2>3
<1> QED BY <1>2, <1>3, <1>4 DEF WaitInv

\* The steps that leave the events and the word alone.
LEMMA WaitQuiet ==
    ASSUME IInv, WaitInv, NEW t \in Tasks,
           \/ Call(t) \/ FailRead(t) \/ ReadCheck(t) \/ ReadLoad(t)
           \/ Reserve(t) \/ FailReserve(t) \/ WriteLoad(t) \/ WriteCheck(t) \/ Unlock(t)
           \/ DowngradeUpgradable(t)
           \/ (Cancel(t) /\ pc[t] \in {"write", "upgradable_read"})
    PROVE  WaitInv'
<1>1. TypeOK /\ state \in Nat
  BY DEF IInv, TypeOK
<1>2. UNCHANGED <<state, no_readers, no_writer, untold>>
  BY DEF Call, FailRead, ReadCheck, ReadLoad, Reserve, FailReserve, WriteLoad, WriteCheck, Unlock,
         DowngradeUpgradable, Cancel
<1>3. Readers' = Readers /\ Writer' = Writer
  BY <1>2 DEF Readers, Writer
<1>4. ASSUME NEW to, Goto(t, to), to \in WListenPcs <=> pc[t] \in WListenPcs,
             to \in RListenPcs <=> pc[t] \in RListenPcs, pc[t] \notin Tellers \cup {"lastreader"},
             to = "wawait" => Readers > 0, to = "rawait" => Writer
      PROVE  WaitInv'
  BY <1>1, <1>2, <1>3, <1>4, WaitMoves
<1> USE DEF WListenPcs, RListenPcs, Tellers
<1>5. CASE Call(t)
  BY <1>5, <1>4 DEF Call
<1>6. CASE FailRead(t)
  BY <1>6, <1>4 DEF FailRead
<1>7. CASE ReadCheck(t)
  BY <1>7, <1>4 DEF ReadCheck
<1>8. CASE ReadLoad(t)
  BY <1>8, <1>4 DEF ReadLoad
<1>9. CASE Reserve(t)
  <2>1. PICK to \in {"wset", "wcas", "uadd"} : Goto(t, to)
    BY <1>9 DEF Reserve
  <2> QED BY <1>9, <2>1, <1>4 DEF Reserve
<1>10. CASE FailReserve(t)
  BY <1>10, <1>4 DEF FailReserve
<1>11. CASE WriteLoad(t)
  BY <1>11, <1>4 DEF WriteLoad
<1>12. CASE WriteCheck(t)
  <2>1. pc[t] \in MutexPcs /\ pc[t] \in WriterPcs
    BY <1>12 DEF WriteCheck, MutexPcs, WriterPcs
  <2>2. state = 2 * Cardinality(At(ReaderPcs)) + 1
    BY <2>1, HolderIsAlone DEF In
  <2>3. Cardinality(At(ReaderPcs)) \in Nat
    <3>1. IsFiniteSet(At(ReaderPcs))
      BY RwLockAssumption, FS_Subset DEF At
    <3> QED BY <3>1, FS_CardinalityType
  <2>4. state # 1 => Readers > 0
    BY <2>2, <2>3 DEF Readers
  <2> QED BY <1>12, <2>4, <1>4 DEF WriteCheck
<1>13. CASE Unlock(t)
  BY <1>13, <1>4 DEF Unlock
<1>14. CASE DowngradeUpgradable(t)
  BY <1>14, <1>4 DEF DowngradeUpgradable
<1>15. CASE Cancel(t) /\ pc[t] \in {"write", "upgradable_read"}
  BY <1>15, <1>4 DEF Cancel
<1> QED BY <1>5, <1>6, <1>7, <1>8, <1>9, <1>10, <1>11, <1>12, <1>13, <1>14, <1>15

\* The steps that change the word: the last reader says so, whoever clears the
\* writer bit goes on to tell the readers, or leaves them untold.
LEMMA WaitWord ==
    ASSUME IInv, WaitInv, NEW t \in Tasks,
           \/ TakeRead(t) \/ WriteCas(t) \/ WriteSet(t) \/ UpgradableAdd(t)
           \/ ReadRelease(t) \/ WriteRelease(t) \/ TryUpgrade(t) \/ Upgrade(t)
           \/ Downgrade(t) \/ DowngradeToUpgradable(t)
    PROVE  WaitInv'
<1>1. TypeOK /\ state \in Nat
  BY DEF IInv, TypeOK
<1>2. UNCHANGED <<no_readers, no_writer>> /\ (untold => untold')
  BY DEF TakeRead, WriteCas, WriteSet, UpgradableAdd, ReadRelease, WriteRelease, TryUpgrade, Upgrade,
         Downgrade, DowngradeToUpgradable
<1>3. pc[t] \in MutexPcs => \A u \in Tasks : u # t => pc[u] # "wawait"
  BY HolderIsAlone DEF WriterPcs
<1>4. ASSUME NEW to, Goto(t, to), to \notin WListenPcs, pc[t] \notin WListenPcs,
             to \notin RListenPcs, pc[t] \notin RListenPcs, pc[t] \notin Tellers \cup {"lastreader"},
             (Readers > 0 => Readers' > 0) \/ to = "lastreader" \/ pc[t] \in MutexPcs,
             Writer => Writer' \/ untold' \/ to \in Tellers
      PROVE  WaitInv'
  <2>1. to # "wawait" /\ to # "rawait"
    BY <1>4 DEF WListenPcs, RListenPcs
  <2> QED BY <1>1, <1>2, <1>3, <1>4, <2>1, WaitMoves
<1> USE DEF WListenPcs, RListenPcs, Tellers
<1>5. CASE TakeRead(t)
  <2>1. (Readers > 0 => Readers' > 0) /\ (Writer => Writer')
    BY <1>5, <1>1 DEF TakeRead, Readers, Writer
  <2> QED BY <1>5, <2>1, <1>4 DEF TakeRead
<1>6. CASE WriteCas(t)
  <2>1. pc[t] = "wcas" /\ pc[t] \in MutexPcs
    BY <1>6 DEF WriteCas, MutexPcs
  <2>2. CASE state = 0
    BY <1>6, <2>1, <2>2, <1>4 DEF WriteCas, Writer
  <2>3. CASE state # 0
    <3>1. Goto(t, "unlock") /\ state' = state
      BY <1>6, <2>3 DEF WriteCas
    <3> QED BY <2>1, <3>1, <1>4 DEF Writer
  <2> QED BY <2>2, <2>3
<1>7. CASE WriteSet(t)
  <2>1. pc[t] = "wset" /\ pc[t] \in MutexPcs /\ Goto(t, "wload") /\ Writer'
    BY <1>7, <1>1 DEF WriteSet, MutexPcs, Readers, Writer
  <2> QED BY <2>1, <1>4
<1>8. CASE UpgradableAdd(t)
  <2>1. Writer => Writer'
    BY <1>8, <1>1 DEF UpgradableAdd, Writer
  <2>2. pc[t] \in MutexPcs
    BY <1>8 DEF UpgradableAdd, MutexPcs
  <2> QED BY <1>8, <2>1, <2>2, <1>4 DEF UpgradableAdd
<1>9. CASE ReadRelease(t)
  <2>1. state' = state - 2 /\ Readers' = Readers - 1 /\ Writer' = Writer /\ Readers \in Nat
    BY <1>9, <1>1 DEF ReadRelease, Readers, Writer
  <2>2. CASE Readers = 1
    BY <1>9, <2>1, <2>2, <1>4 DEF ReadRelease
  <2>3. CASE Readers # 1
    <3>1. PICK to \in {"unlock", "idle"} : Goto(t, to)
      BY <1>9, <2>3 DEF ReadRelease
    <3>2. Readers > 0 => Readers' > 0
      BY <2>1, <2>3
    <3> QED BY <1>9, <2>1, <3>1, <3>2, <1>4 DEF ReadRelease
  <2> QED BY <2>2, <2>3
<1>10. CASE WriteRelease(t)
  <2>1. pc[t] \in MutexPcs
    BY <1>10 DEF WriteRelease, MutexPcs, WriterPcs
  <2> QED BY <1>10, <2>1, <1>4 DEF WriteRelease
<1>11. CASE TryUpgrade(t)
  <2>1. pc[t] \in MutexPcs /\ Writer'
    BY <1>11 DEF TryUpgrade, MutexPcs, Writer
  <2> QED BY <1>11, <2>1, <1>4 DEF TryUpgrade
<1>12. CASE Upgrade(t)
  <2>1. pc[t] = "upgradable" /\ pc[t] \in MutexPcs /\ pc[t] \notin WriterPcs
    BY <1>12 DEF Upgrade, MutexPcs, WriterPcs
  <2>2. state = 2 * Cardinality(At(ReaderPcs)) + 0
    BY <2>1, HolderIsAlone DEF In
  <2>3. Cardinality(At(ReaderPcs)) \in Nat
    <3>1. IsFiniteSet(At(ReaderPcs))
      BY RwLockAssumption, FS_Subset DEF At
    <3> QED BY <3>1, FS_CardinalityType
  <2>4. ~Writer
    BY <2>2, <2>3 DEF Writer
  <2> QED BY <1>12, <2>1, <2>4, <1>4 DEF Upgrade
<1>13. CASE Downgrade(t)
  <2>1. pc[t] \in MutexPcs
    BY <1>13 DEF Downgrade, MutexPcs, WriterPcs
  <2> QED BY <1>13, <2>1, <1>4 DEF Downgrade
<1>14. CASE DowngradeToUpgradable(t)
  <2>1. pc[t] \in MutexPcs
    BY <1>14 DEF DowngradeToUpgradable, MutexPcs, WriterPcs
  <2> QED BY <1>14, <2>1, <1>4 DEF DowngradeToUpgradable
<1> QED BY <1>5, <1>6, <1>7, <1>8, <1>9, <1>10, <1>11, <1>12, <1>13, <1>14

\* What a call of no_readers owes to the invariant.
LEMMA WaitOnReaders ==
    ASSUME IInv, WaitInv, NEW t \in Tasks, NEW to, Goto(t, to), UNCHANGED <<state, no_writer, untold>>,
           IsList(no_readers', Tasks),
           Ids(no_readers') = {u \in Tasks : IF u = t THEN to \in WListenPcs ELSE pc[u] \in WListenPcs},
           pc[t] \notin RListenPcs \cup Tellers, to \notin RListenPcs, to # "wawait",
           to \in WListenPcs => pc[t] \in WriterPcs,
           \/ Told(no_readers) \ {t} \subseteq Told(no_readers') /\ pc[t] # "lastreader"
           \/ Ids(no_readers') # {} => Told(no_readers') # {}
    PROVE  WaitInv'
<1>1. /\ pc'[t] = to /\ \A u \in Tasks : u # t => pc'[u] = pc[u]
  BY DEF IInv, TypeOK, Goto
<1>2. Listeners'
  <2>1. Ids(no_readers') = At(WListenPcs)' /\ At(RListenPcs)' = At(RListenPcs)
    BY <1>1 DEF At, WListenPcs, RListenPcs
  <2> QED BY <2>1 DEF WaitInv, Listeners
<1>3. WriterHears'
  <2> SUFFICES ASSUME NEW u \in Tasks, pc'[u] = "wawait"
               PROVE  (Readers > 0)' \/ u \in Told(no_readers') \/ At({"lastreader"})' # {}
    BY DEF WriterHears
  <2>1. u # t /\ pc[u] = "wawait"
    BY <1>1
  <2>2. Readers > 0 \/ u \in Told(no_readers) \/ At({"lastreader"}) # {}
    BY <2>1 DEF WaitInv, WriterHears
  <2>3. Readers' = Readers
    BY DEF Readers
  <2>4. CASE Told(no_readers) \ {t} \subseteq Told(no_readers') /\ pc[t] # "lastreader"
    <3>1. At({"lastreader"}) # {} => At({"lastreader"})' # {}
      BY <2>4, <1>1 DEF At
    <3> QED BY <2>1, <2>2, <2>3, <2>4, <3>1
  <2>5. CASE Ids(no_readers') # {} => Told(no_readers') # {}
    <3>1. u \in Ids(no_readers')
      BY <2>1 DEF WListenPcs
    <3>2. Told(no_readers') \subseteq Ids(no_readers')
      BY ListViews
    <3>3. PICK x \in Told(no_readers') : x \in Ids(no_readers')
      BY <2>5, <3>1, <3>2
    <3>4. x \in Tasks /\ (x # t => pc[x] \in WListenPcs) /\ (x = t => to \in WListenPcs)
      BY <3>3
    <3>5. pc[u] \in MutexPcs
      BY <2>1 DEF MutexPcs, WriterPcs
    <3>6. \A y \in Tasks : y # u => pc[y] \notin WriterPcs
      BY <3>5, HolderIsAlone
    <3>7. WListenPcs \subseteq WriterPcs
      BY DEF WListenPcs, WriterPcs
    <3>8. CASE x = t
      BY <3>4, <3>8, <3>6, <2>1, <1>1 DEF WListenPcs, WriterPcs
    <3>9. CASE x # t
      BY <3>4, <3>9, <3>6, <3>7, <3>3
    <3> QED BY <3>8, <3>9
  <2> QED BY <2>4, <2>5
<1>4. ReadersHear'
  <2>1. At({"rawait"})' = At({"rawait"}) /\ (At(Tellers) # {} => At(Tellers)' # {})
    BY <1>1 DEF At, RListenPcs, Tellers
  <2>2. Writer' = Writer
    BY DEF Writer
  <2> QED BY <2>1, <2>2 DEF WaitInv, ReadersHear
<1> QED BY <1>2, <1>3, <1>4 DEF WaitInv

\* What a call of no_writer owes to the invariant.
LEMMA WaitOnWriter ==
    ASSUME IInv, WaitInv, NEW t \in Tasks, NEW to, Goto(t, to), UNCHANGED <<state, no_readers>>,
           IsList(no_writer', Tasks),
           Ids(no_writer') = {u \in Tasks : IF u = t THEN to \in RListenPcs ELSE pc[u] \in RListenPcs},
           pc[t] \notin WListenPcs \cup {"lastreader"}, to \notin WListenPcs, to # "rawait",
           \/ /\ untold' = untold /\ pc[t] \notin Tellers
              /\ Told(no_writer) # {} =>
                    Told(no_writer') # {} \/ Ids(no_writer') = {} \/ to \in Tellers
           \/ Ids(no_writer') # {} => Told(no_writer') # {}
    PROVE  WaitInv'
<1>1. /\ pc'[t] = to /\ \A u \in Tasks : u # t => pc'[u] = pc[u]
  BY DEF IInv, TypeOK, Goto
<1>2. Ids(no_writer') = At(RListenPcs)' /\ At(WListenPcs)' = At(WListenPcs)
  BY <1>1 DEF At, WListenPcs, RListenPcs
<1>3. Listeners'
  BY <1>2 DEF WaitInv, Listeners
<1>4. WriterHears'
  <2> SUFFICES ASSUME NEW u \in Tasks, pc'[u] = "wawait"
               PROVE  (Readers > 0)' \/ u \in Told(no_readers') \/ At({"lastreader"})' # {}
    BY DEF WriterHears
  <2>1. u # t /\ pc[u] = "wawait"
    BY <1>1 DEF WListenPcs
  <2>2. Readers > 0 \/ u \in Told(no_readers) \/ At({"lastreader"}) # {}
    BY <2>1 DEF WaitInv, WriterHears
  <2>3. Readers' = Readers
    BY DEF Readers
  <2>4. At({"lastreader"}) # {} => At({"lastreader"})' # {}
    BY <1>1 DEF At
  <2> QED BY <2>2, <2>3, <2>4
<1>5. ReadersHear'
  <2> SUFFICES ASSUME At({"rawait"})' # {}
               PROVE  Writer' \/ untold' \/ Told(no_writer') # {} \/ At(Tellers)' # {}
    BY DEF ReadersHear
  <2>1. Ids(no_writer') # {}
    BY <1>2 DEF At, RListenPcs
  <2>2. CASE Ids(no_writer') # {} => Told(no_writer') # {}
    BY <2>1, <2>2
  <2>3. CASE /\ untold' = untold /\ pc[t] \notin Tellers
             /\ Told(no_writer) # {} =>
                   Told(no_writer') # {} \/ Ids(no_writer') = {} \/ to \in Tellers
    <3>1. At({"rawait"}) # {}
      BY <1>1 DEF At
    <3>2. Writer \/ untold \/ Told(no_writer) # {} \/ At(Tellers) # {}
      BY <3>1 DEF WaitInv, ReadersHear
    <3>3. /\ At(Tellers) # {} => At(Tellers)' # {}
          /\ to \in Tellers => At(Tellers)' # {}
      BY <2>3, <1>1 DEF At, Tellers
    <3>4. Writer' = Writer
      BY DEF Writer
    <3> QED BY <2>1, <2>3, <3>2, <3>3, <3>4
  <2> QED BY <2>2, <2>3
<1> QED BY <1>3, <1>4, <1>5 DEF WaitInv

\* The calls of the events.
LEMMA WaitCalls ==
    ASSUME IInv, WaitInv, NEW t \in Tasks,
           \/ ReadListen(t) \/ ReadDrop(t) \/ ReadAwait(t) \/ ReadNotify(t)
           \/ WriteListen(t) \/ WriteDrop(t) \/ WriteAwait(t) \/ LastReader(t) \/ WriteNotify(t)
           \/ (Cancel(t) /\ pc[t] \in {"rawait", "wawait"})
    PROVE  WaitInv'
<1>1. /\ IsList(no_readers, Tasks) /\ IsList(no_writer, Tasks)
      /\ Ids(no_readers) = {u \in Tasks : pc[u] \in WListenPcs}
      /\ Ids(no_writer) = {u \in Tasks : pc[u] \in RListenPcs}
  BY DEF WaitInv, Listeners, At
<1>2. Told(no_readers) \subseteq Ids(no_readers) /\ Told(no_writer) \subseteq Ids(no_writer)
  BY <1>1, ListViews
<1>3. CASE ReadListen(t)
  <2>1. pc[t] = "rlisten" /\ Goto(t, "rcheck") /\ no_writer' = Listen(no_writer, t)
        /\ UNCHANGED <<state, no_readers, untold>>
    BY <1>3 DEF ReadListen
  <2>2. t \notin Ids(no_writer)
    BY <1>1, <2>1 DEF RListenPcs
  <2>3. /\ IsList(no_writer', Tasks) /\ Ids(no_writer') = Ids(no_writer) \cup {t}
        /\ Told(no_writer') = Told(no_writer)
    BY <1>1, <2>1, <2>2, ListenList
  <2>4. Ids(no_writer') = {u \in Tasks : IF u = t THEN "rcheck" \in RListenPcs ELSE pc[u] \in RListenPcs}
    BY <1>1, <2>3 DEF RListenPcs
  <2>5. /\ pc[t] \notin WListenPcs \cup {"lastreader"} /\ pc[t] \notin Tellers
        /\ "rcheck" \notin WListenPcs
    BY <2>1 DEF WListenPcs, Tellers
  <2> QED BY <2>1, <2>3, <2>4, <2>5, WaitOnWriter
<1>4. CASE ReadDrop(t) \/ (Cancel(t) /\ pc[t] = "rawait")
  <2>1. PICK to \in {"read", "rlisten", "idle"} : Goto(t, to)
    BY <1>4 DEF ReadDrop, Cancel
  <2>2. /\ pc[t] \in {"rdrop", "rdroplisten", "rawait"} /\ no_writer' = DropListener(no_writer, t)
        /\ UNCHANGED <<state, no_readers, untold>>
    BY <1>4 DEF ReadDrop, Cancel
  <2>3. /\ IsList(no_writer', Tasks) /\ Ids(no_writer') = Ids(no_writer) \ {t}
        /\ Told(no_writer) \ {t} \subseteq Told(no_writer')
        /\ t \in Told(no_writer) /\ Ids(no_writer) # {t} => Told(no_writer') # {}
    BY <1>1, <2>2, DropList
  <2>4. to \notin RListenPcs /\ to \notin WListenPcs /\ to # "rawait"
    BY <2>1 DEF RListenPcs, WListenPcs
  <2>5. Ids(no_writer') = {u \in Tasks : IF u = t THEN to \in RListenPcs ELSE pc[u] \in RListenPcs}
    BY <1>1, <2>3, <2>4
  <2>6. pc[t] \notin WListenPcs \cup {"lastreader"} /\ pc[t] \notin Tellers
    BY <2>2 DEF WListenPcs, Tellers
  <2>7. Told(no_writer) # {} => Told(no_writer') # {} \/ Ids(no_writer') = {}
    BY <2>3, <1>2
  <2> QED BY <2>1, <2>2, <2>3, <2>4, <2>5, <2>6, <2>7, WaitOnWriter
<1>5. CASE ReadAwait(t)
  <2>1. pc[t] = "rawait" /\ Goto(t, "rnotify") /\ no_writer' = Without(no_writer, t)
        /\ UNCHANGED <<state, no_readers, untold>>
    BY <1>5 DEF ReadAwait, Consume
  <2>2. IsList(no_writer', Tasks) /\ Ids(no_writer') = Ids(no_writer) \ {t}
    BY <1>1, <2>1, WithoutList
  <2>3. Ids(no_writer') = {u \in Tasks : IF u = t THEN "rnotify" \in RListenPcs ELSE pc[u] \in RListenPcs}
    BY <1>1, <2>2 DEF RListenPcs
  <2>4. /\ pc[t] \notin WListenPcs \cup {"lastreader"} /\ pc[t] \notin Tellers
        /\ "rnotify" \notin WListenPcs /\ "rnotify" \in Tellers
    BY <2>1 DEF WListenPcs, Tellers
  <2> QED BY <2>1, <2>2, <2>3, <2>4, WaitOnWriter
<1>6. CASE ReadNotify(t) \/ WriteNotify(t)
  <2>1. PICK to \in {"read", "unlock", "dunlock"} : Goto(t, to)
    BY <1>6 DEF ReadNotify, WriteNotify
  <2>2. /\ pc[t] \in Tellers /\ no_writer' = Notify(no_writer, 1)
        /\ UNCHANGED <<state, no_readers>>
    BY <1>6 DEF ReadNotify, WriteNotify, Tellers
  <2>3. /\ IsList(no_writer', Tasks) /\ Ids(no_writer') = Ids(no_writer)
        /\ Ids(no_writer) # {} => Told(no_writer') # {}
    BY <1>1, <2>2, NotifyList
  <2>4. to \notin RListenPcs /\ to \notin WListenPcs /\ to # "rawait"
    BY <2>1 DEF RListenPcs, WListenPcs
  <2>5. pc[t] \notin WListenPcs \cup {"lastreader"} /\ pc[t] \notin RListenPcs
    BY <2>2 DEF WListenPcs, RListenPcs, Tellers
  <2>6. Ids(no_writer') = {u \in Tasks : IF u = t THEN to \in RListenPcs ELSE pc[u] \in RListenPcs}
    BY <1>1, <2>3, <2>4, <2>5
  <2> QED BY <2>1, <2>2, <2>3, <2>4, <2>5, <2>6, WaitOnWriter
<1>7. CASE WriteListen(t)
  <2>1. pc[t] = "wlisten" /\ Goto(t, "wcheck") /\ no_readers' = Listen(no_readers, t)
        /\ UNCHANGED <<state, no_writer, untold>>
    BY <1>7 DEF WriteListen
  <2>2. t \notin Ids(no_readers)
    BY <1>1, <2>1 DEF WListenPcs
  <2>3. /\ IsList(no_readers', Tasks) /\ Ids(no_readers') = Ids(no_readers) \cup {t}
        /\ Told(no_readers') = Told(no_readers)
    BY <1>1, <2>1, <2>2, ListenList
  <2>4. Ids(no_readers') = {u \in Tasks : IF u = t THEN "wcheck" \in WListenPcs ELSE pc[u] \in WListenPcs}
    BY <1>1, <2>3 DEF WListenPcs
  <2>5. /\ pc[t] \notin RListenPcs \cup Tellers /\ pc[t] \in WriterPcs
        /\ "wcheck" \notin RListenPcs
    BY <2>1 DEF RListenPcs, Tellers, WriterPcs
  <2> QED BY <2>1, <2>3, <2>4, <2>5, WaitOnReaders
<1>8. CASE WriteDrop(t) \/ WriteAwait(t) \/ (Cancel(t) /\ pc[t] = "wawait")
  <2>1. PICK to \in {"wload", "wcancel"} : Goto(t, to)
    BY <1>8 DEF WriteDrop, WriteAwait, Cancel
  <2>2. /\ pc[t] \in {"wdrop", "wawait"} /\ UNCHANGED <<state, no_writer, untold>>
        /\ no_readers' \in {DropListener(no_readers, t), Without(no_readers, t)}
    BY <1>8 DEF WriteDrop, WriteAwait, Cancel, Consume
  <2>3. /\ IsList(no_readers', Tasks) /\ Ids(no_readers') = Ids(no_readers) \ {t}
        /\ Told(no_readers) \ {t} \subseteq Told(no_readers')
    BY <1>1, <2>2, DropList, WithoutList
  <2>4. to \notin RListenPcs /\ to \notin WListenPcs /\ to # "wawait"
    BY <2>1 DEF RListenPcs, WListenPcs
  <2>5. Ids(no_readers') = {u \in Tasks : IF u = t THEN to \in WListenPcs ELSE pc[u] \in WListenPcs}
    BY <1>1, <2>3, <2>4
  <2>6. pc[t] \notin RListenPcs \cup Tellers /\ pc[t] # "lastreader"
    BY <2>2 DEF RListenPcs, Tellers
  <2> QED BY <2>1, <2>2, <2>3, <2>4, <2>5, <2>6, WaitOnReaders
<1>9. CASE LastReader(t)
  <2>1. PICK to \in {"unlock", "idle"} : Goto(t, to)
    BY <1>9 DEF LastReader
  <2>2. /\ pc[t] = "lastreader" /\ no_readers' = Notify(no_readers, 1)
        /\ UNCHANGED <<state, no_writer, untold>>
    BY <1>9 DEF LastReader
  <2>3. /\ IsList(no_readers', Tasks) /\ Ids(no_readers') = Ids(no_readers)
        /\ Ids(no_readers) # {} => Told(no_readers') # {}
    BY <1>1, <2>2, NotifyList
  <2>4. to \notin RListenPcs /\ to \notin WListenPcs /\ to # "wawait"
    BY <2>1 DEF RListenPcs, WListenPcs
  <2>5. pc[t] \notin RListenPcs \cup Tellers /\ pc[t] \notin WListenPcs
    BY <2>2 DEF WListenPcs, RListenPcs, Tellers
  <2>6. Ids(no_readers') = {u \in Tasks : IF u = t THEN to \in WListenPcs ELSE pc[u] \in WListenPcs}
    BY <1>1, <2>3, <2>4, <2>5
  <2> QED BY <2>1, <2>2, <2>3, <2>4, <2>5, <2>6, WaitOnReaders
<1> QED BY <1>3, <1>4, <1>5, <1>6, <1>7, <1>8, <1>9

\* Initially nobody waits.
LEMMA WaitInitHolds == Init => WaitInv
<1> SUFFICES ASSUME Init PROVE WaitInv
  OBVIOUS
<1>1. /\ At(WListenPcs) = {} /\ At(RListenPcs) = {} /\ At({"rawait"}) = {}
      /\ \A t \in Tasks : pc[t] # "wawait"
  BY DEF Init, At, WListenPcs, RListenPcs
<1>2. Listeners
  BY <1>1, EmptyList DEF Init, Listeners
<1> QED BY <1>1, <1>2 DEF WaitInv, WriterHears, ReadersHear

\* Every step keeps the waiting in order.
LEMMA WaitStepHolds == IInv /\ WaitInv /\ [Next]_vars => WaitInv'
<1> SUFFICES ASSUME IInv, WaitInv, [Next]_vars PROVE WaitInv'
  OBVIOUS
<1>1. CASE UNCHANGED vars
  BY <1>1 DEF vars, WaitInv, Listeners, WriterHears, ReadersHear, At, Readers, Writer
<1>2. ASSUME NEW t \in Tasks, Call(t) \/ Step(t) \/ Guards(t) \/ Cancel(t) PROVE WaitInv'
  <2>1. Cancel(t) => pc[t] \in {"write", "upgradable_read"} \/ pc[t] \in {"rawait", "wawait"}
    BY DEF Cancel
  <2> QED BY <1>2, <2>1, WaitQuiet, WaitWord, WaitCalls DEF Step, Guards
<1> QED BY <1>1, <1>2 DEF Next

\* No wake-up of rwlock.rs is lost: when no task moves, a reader waits only for a
\* writer (or for one that was downgraded without telling it) and a writer only
\* for readers, for any finite set of tasks.
THEOREM NobodyWaitsForNobody == Spec => []WaitsForSomeone
<1>1. Init => IInv /\ WaitInv
  BY InitHolds, WaitInitHolds
<1>2. IInv /\ WaitInv /\ [Next]_vars => IInv' /\ WaitInv'
  BY NextPreserves, WaitStepHolds
<1>3. IInv /\ WaitInv => WaitsForSomeone
  <2> SUFFICES ASSUME IInv, WaitInv, \A t \in Tasks : Resting(t), NEW t \in Tasks
               PROVE  /\ pc[t] = "rawait" => Writer \/ untold
                      /\ pc[t] = "wawait" => Readers > 0
    BY DEF WaitsForSomeone
  <2>1. /\ IsList(no_readers, Tasks) /\ IsList(no_writer, Tasks)
        /\ Ids(no_readers) = At(WListenPcs) /\ Ids(no_writer) = At(RListenPcs)
    BY DEF WaitInv, Listeners
  <2>2. /\ Told(no_readers) \subseteq Ids(no_readers) /\ Told(no_writer) \subseteq Ids(no_writer)
        /\ \A u : IsNotified(no_readers, u) <=> u \in Told(no_readers)
        /\ \A u : IsNotified(no_writer, u) <=> u \in Told(no_writer)
    BY <2>1, ListViews
  <2>3. At({"lastreader"}) = {} /\ At(Tellers) = {}
    BY DEF At, Resting, Tellers
  <2>4. Told(no_writer) = {}
    <3> SUFFICES ASSUME NEW u \in Told(no_writer) PROVE FALSE
      OBVIOUS
    <3>1. u \in Tasks /\ pc[u] \in RListenPcs /\ IsNotified(no_writer, u)
      BY <2>1, <2>2 DEF At
    <3> QED BY <3>1 DEF Resting, RListenPcs
  <2>5. ASSUME pc[t] = "rawait" PROVE Writer \/ untold
    <3>1. At({"rawait"}) # {}
      BY <2>5 DEF At
    <3> QED BY <3>1, <2>3, <2>4 DEF WaitInv, ReadersHear
  <2>6. ASSUME pc[t] = "wawait" PROVE Readers > 0
    <3>1. t \notin Told(no_readers)
      BY <2>6, <2>2 DEF Resting
    <3> QED BY <3>1, <2>3, <2>6 DEF WaitInv, WriterHears
  <2> QED BY <2>5, <2>6
<1> QED BY <1>1, <1>2, <1>3, PTL DEF Spec

(***************************************************************************)
(* The theorems                                                            *)
(***************************************************************************)
SyncInv == SemInv /\ BarInv /\ WgInv /\ PaInv /\ BmInv

\* A step of MCSpec is a step of each of them, or leaves it alone.
LEMMA StepOfSyncs ==
    ASSUME [MCNext]_<<which, syvars, iovars, advars>>
    PROVE  [SNext]_svars /\ [Bar!BaNext]_bavars /\ [Wg!WgNext]_wgvars /\ [Bm!BmNext]_mvars /\ [Pa!KNext]_kvars
BY DEF MCNext, SyNext, syvars

\* Every one keeps its invariant.
LEMMA SyncInvHolds == MCSpec => []SyncInv
<1>1. MCInit => SyncInv
  BY SemInitHolds, BarInitHolds, WgInitHolds, PaInitHolds, BmInitHolds DEF MCInit, SyInit, SyncInv
<1>2. SyncInv /\ [MCNext]_<<which, syvars, iovars, advars>> => SyncInv'
  BY StepOfSyncs, SemStepHolds, BarStepHolds, WgStepHolds, PaStepHolds, BmStepHolds DEF SyncInv
<1> QED BY <1>1, <1>2, PTL DEF MCSpec

\* The counter and the guards that exist always add up to the permits the
\* semaphore was made with, so no more than n guards exist at once, for every
\* n and every finite set of tasks that acquire, release and cancel.
THEOREM PermitsAreConserved == MCSpec => []PermitsConserved
<1>1. SyncInv => PermitsConserved
  BY SemInvSays DEF SyncInv
<1> QED BY <1>1, SyncInvHolds, PTL

\* Nobody waits for what has happened or cannot happen, in any number of tasks
\* or threads: not on permits that are all free, nor in a barrier's past
\* generation, nor for children that are all done, unless the last was made by
\* another task, nor, unless two threads starve, on a free blocking mutex, which
\* two threads never hold; and a thread that was unparked does not stay asleep.
\* Any set of tasks may make the children, at any time.
THEOREM NobodyIsStranded == MCSpec => []NobodyStranded
<1>1. SyncInv => NobodyStranded
  BY SemInvSays, BarInvSays, WgInvSays, PaInvSays, BmInvSays DEF SyncInv, NobodyStranded
<1> QED BY <1>1, SyncInvHolds, PTL
=============================================================================
