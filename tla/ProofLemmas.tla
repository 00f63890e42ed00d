----------------------------- MODULE ProofLemmas -----------------------------
(***************************************************************************)
(* Lemmas the proofs share.  Counting: how the number of the actors that   *)
(* are at some place of their program changes with a step of one, which an *)
(* invariant such as "the word is the number of lockers in here" needs.    *)
(* Lists of listeners: what the operators of EventList do to the set of    *)
(* the listeners and to the set of those that are notified, which is all   *)
(* the proofs of the locks need of the order in the list.                  *)
(***************************************************************************)
EXTENDS EventList, FiniteSetTheorems, WellFoundedInduction, TLAPS

\* 1 when x lies in T, else 0
In(x, T) == IF x \in T THEN 1 ELSE 0

\* the elements of L that f maps into T
Where(f, L, T) == {x \in L : f[x] \in T}

\* f and g differ at e at most
ChangedAt(f, g, e, L) == \A x \in L : x # e => g[x] = f[x]

\* When one element of a function changes, the count of the elements whose
\* value lies in T changes by what that element brings and takes.
LEMMA CountAfterChange ==
    ASSUME NEW L, IsFiniteSet(L), NEW e \in L, NEW f, NEW g, ChangedAt(f, g, e, L), NEW T
    PROVE  /\ Cardinality(Where(f, L, T)) \in Nat
           /\ Cardinality(Where(g, L, T)) =
                Cardinality(Where(f, L, T)) + In(g[e], T) - In(f[e], T)
<1> DEFINE A == Where(f, L, T)
           B == Where(g, L, T)
<1>1. IsFiniteSet(A) /\ IsFiniteSet(B)
  <2>1. A \subseteq L /\ B \subseteq L
    BY DEF Where
  <2> QED BY <2>1, FS_Subset
<1>2. Cardinality(A) \in Nat /\ Cardinality(B) \in Nat
  BY <1>1, FS_CardinalityType
<1>3. CASE f[e] \in T /\ g[e] \in T
  <2>1. A = B
    BY <1>3 DEF Where, ChangedAt
  <2>2. In(g[e], T) = 1 /\ In(f[e], T) = 1
    BY <1>3 DEF In
  <2> QED BY <2>1, <2>2, <1>2
<1>4. CASE f[e] \notin T /\ g[e] \notin T
  <2>1. A = B
    BY <1>4 DEF Where, ChangedAt
  <2>2. In(g[e], T) = 0 /\ In(f[e], T) = 0
    BY <1>4 DEF In
  <2> QED BY <2>1, <2>2, <1>2
<1>5. CASE f[e] \notin T /\ g[e] \in T
  <2>1. B = A \cup {e} /\ e \notin A
    BY <1>5 DEF Where, ChangedAt
  <2>2. Cardinality(B) = Cardinality(A) + 1
    BY <2>1, <1>1, FS_AddElement
  <2>3. In(g[e], T) = 1 /\ In(f[e], T) = 0
    BY <1>5 DEF In
  <2> QED BY <2>2, <2>3, <1>2
<1>6. CASE f[e] \in T /\ g[e] \notin T
  <2>1. B = A \ {e} /\ e \in A
    BY <1>6 DEF Where, ChangedAt
  <2>2. Cardinality(B) = Cardinality(A) - 1
    BY <2>1, <1>1, FS_RemoveElement
  <2>3. In(g[e], T) = 0 /\ In(f[e], T) = 1
    BY <1>6 DEF In
  <2> QED BY <2>2, <2>3, <1>2
<1> QED BY <1>2, <1>3, <1>4, <1>5, <1>6

\* A set of at most one element has no two different ones.
LEMMA AtMostOne ==
    ASSUME NEW S, IsFiniteSet(S), Cardinality(S) \in {0, 1}
    PROVE  \A x, y \in S : x = y
<1> SUFFICES ASSUME NEW x \in S, NEW y \in S, x # y PROVE FALSE
  OBVIOUS
<1>1. IsFiniteSet(S \ {x}) /\ Cardinality(S \ {x}) = Cardinality(S) - 1
  BY FS_RemoveElement
<1>2. y \in S \ {x}
  OBVIOUS
<1>3. IsFiniteSet((S \ {x}) \ {y}) /\ Cardinality((S \ {x}) \ {y}) = Cardinality(S \ {x}) - 1
  BY <1>1, <1>2, FS_RemoveElement
<1>4. Cardinality((S \ {x}) \ {y}) \in Nat
  BY <1>3, FS_CardinalityType
<1> QED BY <1>1, <1>3, <1>4

-----------------------------------------------------------------------------
Tags == {"wait", "one", "add"}

\* ev is a list of listeners of S, each of which is in it at most once
IsList(ev, S) ==
    /\ ev \in Seq([id : S, tag : Tags])
    /\ \A i, j \in DOMAIN ev : ev[i].id = ev[j].id => i = j

\* the listeners, and those that are notified
Ids(ev)  == {ev[i].id : i \in DOMAIN ev}
Told(ev) == {ev[i].id : i \in {j \in DOMAIN ev : ev[j].tag # "wait"}}

\* What a sequence is.
LEMMA SeqElements ==
    ASSUME NEW E, NEW s \in Seq(E)
    PROVE  DOMAIN s = 1 .. Len(s) /\ Len(s) \in Nat /\ \A i \in DOMAIN s : s[i] \in E
OBVIOUS

\* How many numbers there are from 1 to n.
LEMMA UpToCount == ASSUME NEW n \in Nat PROVE IsFiniteSet(1 .. n) /\ Cardinality(1 .. n) = n
<1>1. 1 \in Int /\ n \in Int
  OBVIOUS
<1>2. IsFiniteSet(1 .. n) /\ Cardinality(1 .. n) = IF 1 > n THEN 0 ELSE n - 1 + 1
  BY <1>1, FS_Interval
<1> QED BY <1>2

\* What the entries of a list are.
LEMMA ListEntries ==
    ASSUME NEW S, NEW ev, IsList(ev, S)
    PROVE  /\ DOMAIN ev = 1 .. Len(ev) /\ Len(ev) \in Nat
           /\ \A i \in DOMAIN ev : ev[i] \in [id : S, tag : Tags]
BY SeqElements DEF IsList

\* What the lists say of a listener, in terms of Ids and Told.
LEMMA ListViews ==
    ASSUME NEW S, NEW ev, IsList(ev, S)
    PROVE  /\ Ids(ev) \subseteq S /\ Told(ev) \subseteq Ids(ev)
           /\ \A l : (Listening(ev, l) <=> l \in Ids(ev)) /\ (IsNotified(ev, l) <=> l \in Told(ev))
           /\ NotifiedCount(ev) \in Nat /\ (NotifiedCount(ev) > 0 <=> Told(ev) # {})
<1>1. DOMAIN ev = 1 .. Len(ev) /\ Len(ev) \in Nat /\ \A i \in DOMAIN ev : ev[i] \in [id : S, tag : Tags]
  BY ListEntries
<1>2. /\ Ids(ev) \subseteq S /\ Told(ev) \subseteq Ids(ev)
      /\ \A l : (Listening(ev, l) <=> l \in Ids(ev)) /\ (IsNotified(ev, l) <=> l \in Told(ev))
  BY <1>1 DEF Ids, Told, Listening, IsNotified
<1> DEFINE N == {i \in DOMAIN ev : ev[i].tag # "wait"}
<1>3. IsFiniteSet(N)
  <2>1. IsFiniteSet(1 .. Len(ev))
    BY <1>1, FS_Interval
  <2>2. N \subseteq 1 .. Len(ev)
    BY <1>1
  <2> QED BY <2>1, <2>2, FS_Subset
<1>4. Cardinality(N) \in Nat /\ (Cardinality(N) = 0 <=> N = {})
  BY <1>3, FS_CardinalityType, FS_EmptySet
<1>5. N = {} <=> Told(ev) = {}
  BY DEF Told
<1> QED BY <1>2, <1>4, <1>5 DEF NotifiedCount

\* Event::new.
LEMMA EmptyList == \A S : IsList(NoListeners, S) /\ Ids(NoListeners) = {} /\ Told(NoListeners) = {}
BY DEF IsList, NoListeners, Ids, Told

\* Event::listen adds a listener that is not notified.
LEMMA ListenList ==
    ASSUME NEW S, NEW ev, IsList(ev, S), NEW l \in S, l \notin Ids(ev)
    PROVE  /\ IsList(Listen(ev, l), S)
           /\ Ids(Listen(ev, l)) = Ids(ev) \cup {l} /\ Told(Listen(ev, l)) = Told(ev)
<1> DEFINE new == Listen(ev, l)
           E == [id : S, tag : Tags]
           e == [id |-> l, tag |-> "wait"]
<1>1. ev \in Seq(E) /\ e \in E /\ DOMAIN ev = 1 .. Len(ev) /\ Len(ev) \in Nat
  BY DEF IsList, Tags
<1>2. /\ new \in Seq(E) /\ DOMAIN new = 1 .. Len(ev) + 1
      /\ new[Len(ev) + 1] = e /\ \A i \in 1 .. Len(ev) : new[i] = ev[i]
  BY <1>1 DEF Listen
<1>3. e.id = l /\ e.tag = "wait"
  OBVIOUS
<1> HIDE DEF new, e
<1>4. \A i, j \in DOMAIN new : new[i].id = new[j].id => i = j
  BY <1>1, <1>2, <1>3 DEF IsList, Ids
<1>5. Ids(new) = Ids(ev) \cup {l} 
  BY <1>1, <1>2, <1>3 DEF Ids
<1>6. Told(new) = Told(ev)
  BY <1>1, <1>2, <1>3 DEF Told
<1> QED BY <1>2, <1>4, <1>5, <1>6 DEF IsList, new

\* A listener that is taken out leaves the others as they were.
LEMMA WithoutList ==
    ASSUME NEW S, NEW ev, IsList(ev, S), NEW l
    PROVE  /\ IsList(Without(ev, l), S)
           /\ Ids(Without(ev, l)) = Ids(ev) \ {l} /\ Told(Without(ev, l)) = Told(ev) \ {l}
<1>1. CASE ~Listening(ev, l)
  BY <1>1 DEF Without, Listening, Ids, Told
<1>2. CASE Listening(ev, l)
  <2> DEFINE E == [id : S, tag : Tags]
             i == CHOOSE j \in DOMAIN ev : ev[j].id = l
             new == Without(ev, l)
  <2>1. ev \in Seq(E) /\ DOMAIN ev = 1 .. Len(ev) /\ Len(ev) \in Nat /\ i \in DOMAIN ev /\ ev[i].id = l
    BY <1>2 DEF IsList, Listening
  <2>2. \A j \in DOMAIN ev : ev[j] \in E /\ (j # i => ev[j].id # l)
    BY <2>1, ListEntries DEF IsList
  <2>3. new = [j \in 1 .. Len(ev) - 1 |-> IF j < i THEN ev[j] ELSE ev[j + 1]]
    BY <1>2 DEF Without
  <2> HIDE DEF i, new, E
  <2>4. new \in Seq(E) /\ DOMAIN new = 1 .. Len(ev) - 1
    BY <2>1, <2>2, <2>3
  <2>5. \A j \in DOMAIN new : new[j] = IF j < i THEN ev[j] ELSE ev[j + 1]
    BY <2>3
  <2>6. \A j, k \in DOMAIN new : new[j].id = new[k].id => j = k
    <3>1. \A j, k \in DOMAIN ev : ev[j].id = ev[k].id => j = k
      BY DEF IsList
    <3> QED BY <2>1, <2>4, <2>5, <3>1
  <2>7. /\ \A j \in DOMAIN new : \E k \in DOMAIN ev : k # i /\ new[j] = ev[k]
        /\ \A k \in DOMAIN ev : k # i => \E j \in DOMAIN new : new[j] = ev[k]
    <3>1. ASSUME NEW j \in DOMAIN new PROVE \E k \in DOMAIN ev : k # i /\ new[j] = ev[k]
      BY <2>1, <2>4, <2>5
    <3>2. ASSUME NEW k \in DOMAIN ev, k # i PROVE \E j \in DOMAIN new : new[j] = ev[k]
      <4>1. CASE k < i
        BY <2>1, <2>4, <2>5, <4>1
      <4>2. CASE k > i
        <5>1. k - 1 \in DOMAIN new /\ ~(k - 1 < i) /\ (k - 1) + 1 = k
          BY <2>1, <2>4, <4>2
        <5>2. new[k - 1] = ev[k]
          BY <2>5, <5>1
        <5> QED BY <5>1, <5>2
      <4> QED BY <2>1, <3>2, <4>1, <4>2
    <3> QED BY <3>1, <3>2
  <2>8. Ids(new) = Ids(ev) \ {l} /\ Told(new) = Told(ev) \ {l}
    BY <2>1, <2>2, <2>7 DEF Ids, Told
  <2> QED BY <2>4, <2>6, <2>8 DEF IsList, E, new
<1> QED BY <1>1, <1>2

\* Marking changes tags only, marks a listener if there are any, and all of them
\* if there are no more that wait than it is to mark.
LEMMA MarkList ==
    ASSUME NEW S, NEW ev, IsList(ev, S), NEW k \in Nat, k > 0, NEW tag \in {"one", "add"}
    PROVE  /\ IsList(Mark(ev, k, tag), S) /\ Ids(Mark(ev, k, tag)) = Ids(ev)
           /\ Told(ev) \subseteq Told(Mark(ev, k, tag))
           /\ Ids(ev) # {} => Told(Mark(ev, k, tag)) # {}
           /\ k >= Len(ev) - NotifiedCount(ev) => Told(Mark(ev, k, tag)) = Ids(ev)
<1> DEFINE E == [id : S, tag : Tags]
           new == Mark(ev, k, tag)
           W(i) == {j \in 1..(i - 1) : ev[j].tag = "wait"}
<1>1. ev \in Seq(E) /\ DOMAIN ev = 1 .. Len(ev) /\ Len(ev) \in Nat /\ \A i \in DOMAIN ev : ev[i] \in E
  BY ListEntries DEF IsList
<1>2. /\ DOMAIN new = 1 .. Len(ev)
      /\ \A i \in DOMAIN ev : new[i] = IF ev[i].tag = "wait" /\ Cardinality(W(i)) < k
                                       THEN [ev[i] EXCEPT !.tag = tag] ELSE ev[i]
  BY <1>1 DEF Mark
<1>3. \A i \in DOMAIN ev : new[i] \in E /\ new[i].id = ev[i].id /\ (ev[i].tag # "wait" => new[i].tag # "wait")
      /\ (ev[i].tag = "wait" /\ Cardinality(W(i)) < k => new[i].tag # "wait")
  BY <1>1, <1>2 DEF Tags
<1>4. \A i \in DOMAIN ev : IsFiniteSet(W(i)) /\ Cardinality(W(i)) \in Nat /\ Cardinality(W(i)) <= i - 1
  <2> SUFFICES ASSUME NEW i \in DOMAIN ev
               PROVE  IsFiniteSet(W(i)) /\ Cardinality(W(i)) \in Nat /\ Cardinality(W(i)) <= i - 1
    OBVIOUS
  <2>1. 1 \in Int /\ i - 1 \in Int
    BY <1>1
  <2>2. IsFiniteSet(1 .. (i - 1)) /\ Cardinality(1 .. (i - 1)) = i - 1
    BY <1>1, <2>1, FS_Interval
  <2>3. W(i) \subseteq 1 .. (i - 1)
    OBVIOUS
  <2> QED BY <2>2, <2>3, FS_Subset, FS_CardinalityType
<1> HIDE DEF W, new, E
<1>5. new \in Seq(E)
  <2>1. new \in [1 .. Len(ev) -> E]
    BY <1>1, <1>2, <1>3 DEF new, Mark
  <2> QED BY <1>1, <2>1
<1>6. IsList(new, S)
  BY <1>1, <1>2, <1>3, <1>5 DEF IsList, E
<1>7. Ids(new) = Ids(ev) /\ Told(ev) \subseteq Told(new)
  BY <1>1, <1>2, <1>3 DEF Ids, Told
<1>8. Ids(ev) # {} => Told(new) # {}
  <2> SUFFICES ASSUME Ids(ev) # {}, Told(ev) = {} PROVE Told(new) # {}
    BY <1>7
  <2>0. DOMAIN ev # {} /\ \A i \in DOMAIN ev : ev[i].tag = "wait"
    BY DEF Ids, Told
  <2>1. 1 \in DOMAIN ev /\ ev[1].tag = "wait"
    BY <1>1, <2>0
  <2>2. Cardinality(W(1)) = 0
    BY <1>4, <2>1
  <2>3. new[1].tag # "wait"
    BY <1>3, <2>1, <2>2
  <2>4. 1 \in DOMAIN new
    BY <1>1, <1>2, <2>1
  <2> QED BY <2>3, <2>4 DEF Told
<1>9. ASSUME k >= Len(ev) - NotifiedCount(ev) PROVE Told(new) = Ids(ev)
  <2> DEFINE N == {i \in DOMAIN ev : ev[i].tag # "wait"}
             D == DOMAIN ev
  <2>1. IsFiniteSet(D) /\ Cardinality(D) = Len(ev)
    BY <1>1, FS_Interval
  <2>2. NotifiedCount(ev) = Cardinality(N) /\ NotifiedCount(ev) \in Nat
    BY ListViews DEF NotifiedCount
  <2>3. IsFiniteSet(D \ N) /\ Cardinality(D \ N) = Len(ev) - NotifiedCount(ev)
    <3>1. D \cap N = N
      OBVIOUS
    <3>2. IsFiniteSet(D \ N) /\ Cardinality(D \ N) = Cardinality(D) - Cardinality(D \cap N)
      BY <2>1, FS_Difference
    <3>3. Cardinality(D \cap N) = NotifiedCount(ev)
      BY <2>2, <3>1
    <3> HIDE DEF D, N
    <3> QED BY <2>1, <3>2, <3>3
  <2>4. ASSUME NEW i \in D, ev[i].tag = "wait" PROVE Cardinality(W(i)) < k
    <3>1. i \in D \ N
      BY <2>4
    <3>2. /\ IsFiniteSet((D \ N) \ {i})
          /\ Cardinality((D \ N) \ {i}) = Cardinality(D \ N) - 1
      BY <2>3, <3>1, FS_RemoveElement
    <3>3. W(i) \subseteq (D \ N) \ {i}
      BY <1>1 DEF W
    <3>4. Cardinality(W(i)) <= Cardinality((D \ N) \ {i})
      BY <3>2, <3>3, FS_Subset
    <3> QED BY <1>1, <1>4, <1>9, <2>2, <2>3, <3>2, <3>4
  <2>5. \A i \in DOMAIN new : new[i].tag # "wait"
    BY <1>1, <1>2, <1>3, <2>4
  <2> QED BY <1>7, <2>5 DEF Told, Ids
<1> QED BY <1>6, <1>7, <1>8, <1>9 DEF new

\* Event::notify of n > 0: nobody leaves or is forgotten, somebody is notified if
\* anybody listens, and all are if n is large enough.
LEMMA NotifyList ==
    ASSUME NEW S, NEW ev, IsList(ev, S), NEW n \in Nat, n > 0
    PROVE  /\ IsList(Notify(ev, n), S) /\ Ids(Notify(ev, n)) = Ids(ev)
           /\ Told(ev) \subseteq Told(Notify(ev, n))
           /\ Ids(ev) # {} => Told(Notify(ev, n)) # {}
           /\ n >= Len(ev) => Told(Notify(ev, n)) = Ids(ev)
<1>1. NotifiedCount(ev) \in Nat /\ (NotifiedCount(ev) > 0 <=> Told(ev) # {})
  BY ListViews
<1>2. CASE n <= NotifiedCount(ev)
  <2>1. Notify(ev, n) = ev /\ Told(ev) # {}
    BY <1>1, <1>2 DEF Notify
  <2>2. ASSUME n >= Len(ev) PROVE Told(ev) = Ids(ev)
    <3> DEFINE N == {i \in DOMAIN ev : ev[i].tag # "wait"}
    <3>1. DOMAIN ev = 1 .. Len(ev) /\ Len(ev) \in Nat
      BY ListEntries
    <3>2. IsFiniteSet(DOMAIN ev) /\ Cardinality(DOMAIN ev) = Len(ev)
      <4>1. IsFiniteSet(1 .. Len(ev)) /\ Cardinality(1 .. Len(ev)) = Len(ev)
        BY <3>1, UpToCount
      <4> QED BY <3>1, <4>1
    <3>3. N \in SUBSET DOMAIN ev /\ Cardinality(N) = NotifiedCount(ev)
      BY DEF NotifiedCount
    <3>4. N = DOMAIN ev
      <4>1. Cardinality(N) <= Cardinality(DOMAIN ev) /\ (Cardinality(DOMAIN ev) = Cardinality(N) => DOMAIN ev = N)
        BY <3>2, <3>3, FS_Subset
      <4>2. Cardinality(N) = Len(ev)
        <5> HIDE DEF N
        <5> QED BY <1>1, <1>2, <2>2, <3>1, <3>2, <3>3, <4>1
      <4> QED BY <3>2, <4>1, <4>2
    <3> QED BY <3>4 DEF Told, Ids
  <2> QED BY <2>1, <2>2
<1>3. CASE n > NotifiedCount(ev)
  <2>1. Notify(ev, n) = Mark(ev, n - NotifiedCount(ev), "one")
    BY <1>1, <1>3 DEF Notify
  <2>2. n - NotifiedCount(ev) \in Nat /\ n - NotifiedCount(ev) > 0
    BY <1>1, <1>3
  <2>3. "one" \in {"one", "add"}
    OBVIOUS
  <2>4. n >= Len(ev) => n - NotifiedCount(ev) >= Len(ev) - NotifiedCount(ev)
    BY <1>1, ListEntries
  <2> QED BY <2>1, <2>2, <2>3, <2>4, MarkList
<1> QED BY <1>1, <1>2, <1>3

\* A list is no longer than the set its listeners are from.
LEMMA ListLength ==
    ASSUME NEW S, IsFiniteSet(S), NEW ev, IsList(ev, S)
    PROVE  Len(ev) <= Cardinality(S)
<1>1. DOMAIN ev = 1 .. Len(ev) /\ Len(ev) \in Nat /\ \A i \in DOMAIN ev : ev[i].id \in S
  BY ListEntries
<1>2. IsFiniteSet(DOMAIN ev) /\ Cardinality(DOMAIN ev) = Len(ev)
  BY <1>1, FS_Interval
<1>3. Cardinality(S) \in Nat
  BY FS_CardinalityType
<1> DEFINE f == [i \in DOMAIN ev |-> ev[i].id]
<1>4. f \in [DOMAIN ev -> S] /\ \A i, j \in DOMAIN ev : f[i] = f[j] => i = j
  BY <1>1 DEF IsList
<1> HIDE DEF f
<1> SUFFICES ASSUME Cardinality(S) < Cardinality(DOMAIN ev) PROVE FALSE
  BY <1>1, <1>2, <1>3
<1>5. \E i, j \in DOMAIN ev : i # j /\ f[i] = f[j]
  BY <1>2, <1>4, FS_PigeonHole
<1> QED BY <1>4, <1>5

\* Drop for EventListener: a notification is passed on if anybody is left.
LEMMA DropList ==
    ASSUME NEW S, NEW ev, IsList(ev, S), NEW l
    PROVE  /\ IsList(DropListener(ev, l), S) /\ Ids(DropListener(ev, l)) = Ids(ev) \ {l}
           /\ Told(ev) \ {l} \subseteq Told(DropListener(ev, l))
           /\ l \in Told(ev) /\ Ids(ev) # {l} => Told(DropListener(ev, l)) # {}
<1> DEFINE rest == Without(ev, l)
           tags == {ev[i].tag : i \in {j \in DOMAIN ev : ev[j].id = l}}
<1>1. IsList(rest, S) /\ Ids(rest) = Ids(ev) \ {l} /\ Told(rest) = Told(ev) \ {l}
  BY WithoutList
<1>2. l \in Told(ev) => "one" \in tags \/ "add" \in tags
  <2> SUFFICES ASSUME NEW i \in DOMAIN ev, ev[i].id = l, ev[i].tag # "wait" PROVE "one" \in tags \/ "add" \in tags
    BY DEF Told
  <2>1. ev[i].tag \in Tags
    BY ListEntries
  <2> QED BY <2>1 DEF Tags
<1>3. DropListener(ev, l) = IF "one" \in tags THEN Notify(rest, 1)
                            ELSE IF "add" \in tags THEN NotifyAdditional(rest, 1) ELSE rest
  BY DEF DropListener
<1>4. l \in Told(ev) => l \in Ids(ev)
  BY ListViews
<1> HIDE DEF rest, tags
<1>5. CASE "one" \in tags
  <2>1. DropListener(ev, l) = Notify(rest, 1)
    BY <1>3, <1>5
  <2>2. 1 \in Nat /\ 1 > 0
    OBVIOUS
  <2>3. /\ IsList(Notify(rest, 1), S) /\ Ids(Notify(rest, 1)) = Ids(rest)
        /\ Told(rest) \subseteq Told(Notify(rest, 1))
        /\ Ids(rest) # {} => Told(Notify(rest, 1)) # {}
    BY <1>1, <2>2, NotifyList
  <2> QED BY <1>1, <1>4, <2>1, <2>3
<1>6. CASE "one" \notin tags /\ "add" \in tags
  <2>1. DropListener(ev, l) = Mark(rest, 1, "add")
    BY <1>3, <1>6 DEF NotifyAdditional
  <2>2. "add" \in {"one", "add"} /\ 1 \in Nat /\ 1 > 0
    OBVIOUS
  <2>3. /\ IsList(Mark(rest, 1, "add"), S) /\ Ids(Mark(rest, 1, "add")) = Ids(rest)
        /\ Told(rest) \subseteq Told(Mark(rest, 1, "add"))
        /\ Ids(rest) # {} => Told(Mark(rest, 1, "add")) # {}
    BY <1>1, <2>2, MarkList
  <2> QED BY <1>1, <1>4, <2>1, <2>3
<1>7. CASE "one" \notin tags /\ "add" \notin tags
  BY <1>1, <1>2, <1>3, <1>7
<1> QED BY <1>5, <1>6, <1>7
-----------------------------------------------------------------------------
(* Numbers.  The least number principle is what the proofs by induction    *)
(* start from: a set of counterexamples has a least one.                   *)

\* A set of numbers that is not empty has a least element: the least of the
\* initial segments they bound, which strict inclusion orders well.
LEMMA LeastNumber ==
    ASSUME NEW A \in SUBSET Nat, A # {}
    PROVE  \E m \in A : \A k \in A : m <= k
<1> DEFINE Up(n) == {k \in Nat : k <= n}
           T == {Up(n) : n \in A}
<1>1. IsWellFoundedOn(StrictSubsetOrdering(Nat), FiniteSubsetsOf(Nat))
  BY FS_StrictSubsetOrderingWellFounded
<1>2. T \subseteq FiniteSubsetsOf(Nat) /\ T # {}
  <2>1. \A n \in Nat : IsFiniteSet(Up(n)) /\ Up(n) \subseteq Nat
    <3> SUFFICES ASSUME NEW n \in Nat PROVE IsFiniteSet(Up(n))
      OBVIOUS
    <3>1. Up(n) \in SUBSET Nat /\ \A k \in Up(n) : k <= n
      OBVIOUS
    <3> QED BY <3>1, FS_BoundedSetOfNaturals
  <2> QED BY <2>1 DEF FiniteSubsetsOf
<1>3. \E x \in T : \A y \in T : <<y, x>> \notin StrictSubsetOrdering(Nat)
  BY <1>1, <1>2, WFMin
<1>4. PICK m \in A : \A k \in A : <<Up(k), Up(m)>> \notin StrictSubsetOrdering(Nat)
  BY <1>3
<1>5. ASSUME NEW k \in A, ~(m <= k) PROVE FALSE
  <2>1. Up(k) \subseteq Up(m) /\ Up(k) # Up(m) /\ Up(k) \in SUBSET Nat /\ Up(m) \in SUBSET Nat
    <3>1. m \in Up(m) /\ m \notin Up(k)
      BY <1>5
    <3> QED BY <1>5, <3>1
  <2>2. <<Up(k), Up(m)>> \in StrictSubsetOrdering(Nat)
    BY <2>1, <1>2 DEF StrictSubsetOrdering, FiniteSubsetsOf
  <2> QED BY <1>4, <2>2
<1> QED BY <1>5

\* A power of two exceeds its exponent: so many subsets has a set of n elements.
LEMMA PowersOfTwo == \A n \in Nat : 2^n \in Nat /\ 2^n >= n + 1
<1> SUFFICES ASSUME NEW n \in Nat PROVE 2^n \in Nat /\ 2^n >= n + 1
  OBVIOUS
<1> DEFINE S == 1 .. n
           f == [k \in 0 .. n |-> 1 .. k]
<1>1. IsFiniteSet(S) /\ Cardinality(S) = n /\ IsFiniteSet(0 .. n) /\ Cardinality(0 .. n) = n + 1
  <2>1. 1 \in Int /\ n \in Int /\ 0 \in Int
    OBVIOUS
  <2> QED BY <2>1, FS_Interval
<1>2. IsFiniteSet(SUBSET S) /\ Cardinality(SUBSET S) = 2^n
  BY <1>1, FS_SUBSET
<1>3. f \in Injection(0 .. n, SUBSET S)
  <2>1. f \in [0 .. n -> SUBSET S]
    OBVIOUS
  <2>2. ASSUME NEW a \in 0 .. n, NEW b \in 0 .. n, f[a] = f[b] PROVE a = b
    <3>1. 1 .. a = 1 .. b
      BY <2>2
    <3>2. \A k \in Nat : (1 <= k /\ k <= a) <=> (1 <= k /\ k <= b)
      BY <3>1
    <3> QED BY <3>2
  <2> QED BY <2>1, <2>2 DEF Injection, IsInjective
<1>4. n + 1 <= 2^n
  BY <1>1, <1>2, <1>3, FS_Injection
<1>5. 2^n \in Nat
  BY <1>2, FS_CardinalityType
<1> QED BY <1>4, <1>5

\* a is q times b and r more, r less than b.
Split(a, q, b, r) == q \in Int /\ r \in Int /\ b \in Nat /\ 0 <= r /\ r < b /\ a = q * b + r

\* Quotient and remainder are unique.
LEMMA DivMod ==
    ASSUME NEW a, NEW q, NEW b, NEW r, Split(a, q, b, r)
    PROVE  a \div b = q /\ a % b = r
<1>0. q \in Int /\ r \in Int /\ b \in Nat /\ 0 <= r /\ r < b /\ a = q * b + r
  BY DEF Split
<1> DEFINE d == a \div b
           m == a % b
<1>1. a \in Int /\ b \in Int /\ b > 0
  BY <1>0
<1>2. d \in Int /\ m \in Int /\ a = d * b + m /\ 0 <= m /\ m < b
  BY <1>0, <1>1
<1>3. (q - d) * b = m - r
  BY <1>0, <1>2
<1>4. q - d \in Int /\ -b < m - r /\ m - r < b
  BY <1>0, <1>2
<1> HIDE DEF d, m
<1>5. ~(q - d >= 1)
  <2> SUFFICES ASSUME q - d >= 1 PROVE FALSE
    OBVIOUS
  <2>1. (q - d) * b >= b
    BY <1>0, <1>1, <1>2
  <2> QED BY <1>0, <1>3, <1>4, <1>2, <2>1
<1>6. ~(q - d <= -1)
  <2> SUFFICES ASSUME q - d <= -1 PROVE FALSE
    OBVIOUS
  <2>1. (q - d) * b <= -b
    BY <1>0, <1>1, <1>2
  <2> QED BY <1>0, <1>3, <1>4, <1>2, <2>1
<1>7. q = d
  BY <1>0, <1>2, <1>4, <1>5, <1>6
<1>8. m = r
  BY <1>0, <1>2, <1>3, <1>7
<1> QED BY <1>7, <1>8 DEF d, m

\* What they are.
LEMMA Euclid ==
    ASSUME NEW a \in Nat, NEW b \in Nat, b > 0
    PROVE  a \div b \in Nat /\ (a % b) \in Nat /\ (a % b) < b /\ a = (a \div b) * b + (a % b)
<1> DEFINE q == a \div b
<1>1. q \in Int /\ (a % b) \in Nat /\ (a % b) < b /\ a = q * b + (a % b)
  OBVIOUS
<1> HIDE DEF q
<1>2. q <= -1 => q * b <= -b
  BY <1>1
<1>3. q >= 0
  BY <1>1, <1>2
<1> QED BY <1>1, <1>3 DEF q
=============================================================================
