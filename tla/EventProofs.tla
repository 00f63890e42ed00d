---------------------------- MODULE EventProofs -----------------------------
(***************************************************************************)
(* Proofs about Event, and about AsyncMutex and Channel, which use Events  *)
(* as EventSpec has them, for any finite sets of actors.                   *)
(***************************************************************************)
EXTENDS Event, AsyncMutex, Channel, ProofLemmas

-----------------------------------------------------------------------------
(***************************************************************************)
(* Event.                                                                  *)
(*                                                                         *)
(* A list is sound for an injective order of the entries in use: `next` and*)
(* `prev` follow it, the first `notified` of them are notified.  Each method*)
(* of List changes that order as EventList changes its sequence.  The      *)
(* invariant of the Event: what was last shown is a sound list and the hint*)
(* is its hint, and whoever holds the Mutex did one operation of EventList *)
(* on it, which takes effect when the Mutex is released.                   *)
(***************************************************************************)

Actors == Listeners \cup Notifiers
States == {"free", "created", "polling", "waiting", "one", "add"}
Pointers == Listeners \cup {NULL}

\* The fields of the list.
ListTypes(L) ==
    /\ L \in [head : Pointers, tail : Pointers, start : Pointers, len : Int, notified : Int,
              cache_used : BOOLEAN, state : [Listeners -> States], prev : [Listeners -> Pointers],
              next : [Listeners -> Pointers], cached : [Listeners -> BOOLEAN]]

\* The n entries in use, in the order o.
Lists(L, n, o) ==
    /\ n \in Nat /\ o \in [1..n -> Listeners]
    /\ \A i, j \in 1..n : o[i] = o[j] => i = j
    /\ \A e \in Listeners : L.state[e] # "free" <=> \E k \in 1..n : o[k] = e
    /\ L.len = n

Links(L, n, o) ==
    /\ L.head = (IF n = 0 THEN NULL ELSE o[1])
    /\ L.tail = (IF n = 0 THEN NULL ELSE o[n])
    /\ \A k \in 1..n : L.next[o[k]] = IF k = n THEN NULL ELSE o[k + 1]
    /\ \A k \in 1..n : L.prev[o[k]] = IF k = 1 THEN NULL ELSE o[k - 1]

\* The first L.notified of them are notified.
Marks(L, n, o) ==
    /\ L.notified \in 0..n
    /\ \A k \in 1..n : L.state[o[k]] \in Notified <=> k <= L.notified
    /\ L.start = IF L.notified < n THEN o[L.notified + 1] ELSE NULL

Cache(L) ==
    /\ \A e \in Listeners : L.cached[e] => L.state[e] # "free"
    /\ L.cache_used <=> (\E e \in Listeners : L.cached[e])
    /\ \A d, e \in Listeners : L.cached[d] /\ L.cached[e] => d = e

Sound(L, n, o) == ListTypes(L) /\ Lists(L, n, o) /\ Links(L, n, o) /\ Marks(L, n, o) /\ Cache(L)

LEMMA NullIsNone == NULL \notin Listeners /\ NULL \notin Notifiers /\ Listeners \cap Notifiers = {}
BY EventAssumption

\* The fields of a list.
LEMMA FieldsOf ==
    ASSUME NEW L, ListTypes(L)
    PROVE  /\ L.head \in Pointers /\ L.tail \in Pointers /\ L.start \in Pointers
           /\ L.len \in Int /\ L.notified \in Int /\ L.cache_used \in BOOLEAN
           /\ L.state \in [Listeners -> States] /\ L.prev \in [Listeners -> Pointers]
           /\ L.next \in [Listeners -> Pointers] /\ L.cached \in [Listeners -> BOOLEAN]
BY DEF ListTypes

LEMMA NewSound == Sound(NewList, 0, [k \in 1..0 |-> NULL])
<1>1. ListTypes(NewList)
  BY DEF NewList, ListTypes, Pointers, States
<1>2. Lists(NewList, 0, [k \in 1..0 |-> NULL])
  BY DEF NewList, Lists
<1>3. Links(NewList, 0, [k \in 1..0 |-> NULL])
  BY DEF NewList, Links
<1>4. Marks(NewList, 0, [k \in 1..0 |-> NULL])
  BY DEF NewList, Marks
<1>5. Cache(NewList)
  BY DEF NewList, Cache
<1> QED BY <1>1, <1>2, <1>3, <1>4, <1>5 DEF Sound

-----------------------------------------------------------------------------
\* What insert writes.
LEMMA InsertFields ==
    ASSUME NEW L, ListTypes(L), NEW e \in Listeners
    PROVE  LET M == Insert(L, e)
           IN  /\ ListTypes(M)
               /\ M.head = (IF L.tail = NULL THEN e ELSE L.head) /\ M.tail = e
               /\ M.start = (IF L.start = NULL THEN e ELSE L.start)
               /\ M.len = L.len + 1 /\ M.notified = L.notified /\ M.cache_used = TRUE
               /\ M.state = [L.state EXCEPT ![e] = "created"]
               /\ M.prev = [L.prev EXCEPT ![e] = L.tail]
               /\ M.next = [x \in Listeners |-> IF x = e THEN NULL
                                                ELSE IF x = L.tail THEN e ELSE L.next[x]]
               /\ M.cached = [L.cached EXCEPT ![e] = ~L.cache_used]
<1> DEFINE M == Insert(L, e)
<1>1. /\ L.head \in Pointers /\ L.tail \in Pointers /\ L.start \in Pointers
      /\ L.len \in Int /\ L.notified \in Int /\ L.cache_used \in BOOLEAN
      /\ L.state \in [Listeners -> States] /\ L.prev \in [Listeners -> Pointers]
      /\ L.next \in [Listeners -> Pointers] /\ L.cached \in [Listeners -> BOOLEAN]
  BY FieldsOf
<1>2. /\ M.head = (IF L.tail = NULL THEN e ELSE L.head) /\ M.tail = e
      /\ M.start = (IF L.start = NULL THEN e ELSE L.start)
      /\ M.len = L.len + 1 /\ M.notified = L.notified /\ M.cache_used = TRUE
  BY DEF Insert, ListTypes
<1>3. /\ M.state = [L.state EXCEPT ![e] = "created"]
      /\ M.prev = [L.prev EXCEPT ![e] = L.tail]
      /\ M.next = [x \in Listeners |-> IF x = e THEN NULL
                                       ELSE IF x = L.tail THEN e ELSE L.next[x]]
      /\ M.cached = [L.cached EXCEPT ![e] = ~L.cache_used]
  BY DEF Insert, ListTypes
<1>4. e \in Pointers /\ NULL \in Pointers /\ "created" \in States
  BY DEF Pointers, States
<1>5. /\ M.head \in Pointers /\ M.tail \in Pointers /\ M.start \in Pointers
      /\ M.len \in Int /\ M.notified \in Int
  BY <1>1, <1>2, <1>4
<1>c. M.cache_used \in BOOLEAN
  BY <1>2
<1>6. /\ M.state \in [Listeners -> States] /\ M.prev \in [Listeners -> Pointers]
      /\ M.next \in [Listeners -> Pointers] /\ M.cached \in [Listeners -> BOOLEAN]
  BY <1>1, <1>3, <1>4
<1>7. M = [head |-> M.head, tail |-> M.tail, start |-> M.start, len |-> M.len,
           notified |-> M.notified, cache_used |-> M.cache_used, state |-> M.state,
           prev |-> M.prev, next |-> M.next, cached |-> M.cached]
  <2> DEFINE nx == [x \in Listeners |-> IF x = e THEN NULL
                                        ELSE IF x = L.tail THEN e ELSE L.next[x]]
             ca == [L.cached EXCEPT ![e] = ~L.cache_used]
             st == [L.state EXCEPT ![e] = "created"]
             pr == [L.prev EXCEPT ![e] = L.tail]
             hd == IF L.tail = NULL THEN e ELSE L.head
             sa == IF L.start = NULL THEN e ELSE L.start
  <2>1. M = [L EXCEPT !.state = st, !.prev = pr, !.next = nx, !.cached = ca, !.cache_used = TRUE,
                      !.head = hd, !.tail = e, !.start = sa, !.len = L.len + 1]
    BY DEF Insert, ListTypes
  <2> HIDE DEF nx, ca, st, pr, hd, sa, M
  <2> QED BY <2>1 DEF ListTypes
<1>8. ListTypes(M)
  BY ONLY <1>5, <1>c, <1>6, <1>7 DEF ListTypes
<1> QED BY <1>2, <1>3, <1>8

\* insert appends the entry.
LEMMA InsertSound ==
    ASSUME NEW L, NEW n, NEW o, Sound(L, n, o), NEW e \in Listeners, L.state[e] = "free"
    PROVE  Sound(Insert(L, e), n + 1, [k \in 1..n + 1 |-> IF k <= n THEN o[k] ELSE e])
<1> DEFINE M == Insert(L, e)
           p == [k \in 1..n + 1 |-> IF k <= n THEN o[k] ELSE e]
<1>1. /\ ListTypes(M)
      /\ M.head = (IF L.tail = NULL THEN e ELSE L.head) /\ M.tail = e
      /\ M.start = (IF L.start = NULL THEN e ELSE L.start)
      /\ M.len = L.len + 1 /\ M.notified = L.notified /\ M.cache_used = TRUE
      /\ M.state = [L.state EXCEPT ![e] = "created"]
      /\ M.prev = [L.prev EXCEPT ![e] = L.tail]
      /\ M.next = [x \in Listeners |-> IF x = e THEN NULL
                                       ELSE IF x = L.tail THEN e ELSE L.next[x]]
      /\ M.cached = [L.cached EXCEPT ![e] = ~L.cache_used]
  BY InsertFields DEF Sound
<1>2. /\ L.state \in [Listeners -> States] /\ L.prev \in [Listeners -> Pointers]
      /\ L.next \in [Listeners -> Pointers] /\ L.cached \in [Listeners -> BOOLEAN]
      /\ L.cache_used \in BOOLEAN
  BY FieldsOf DEF Sound
<1>3. n \in Nat /\ o \in [1..n -> Listeners] /\ \A i, j \in 1..n : o[i] = o[j] => i = j
  BY DEF Sound, Lists
<1>4. \A k \in 1..n : o[k] # e /\ o[k] # NULL
  BY <1>3, NullIsNone DEF Sound, Lists
<1>5. /\ p \in [1..n + 1 -> Listeners] /\ p[n + 1] = e /\ \A k \in 1..n : p[k] = o[k]
  BY <1>3
<1> HIDE DEF M, p
<1>6. Lists(M, n + 1, p)
  <2>1. \A i, j \in 1..n + 1 : p[i] = p[j] => i = j
    BY <1>3, <1>4, <1>5
  <2>2. ASSUME NEW x \in Listeners
        PROVE  M.state[x] # "free" <=> \E k \in 1..n + 1 : p[k] = x
    BY <1>1, <1>2, <1>3, <1>4, <1>5 DEF Sound, Lists
  <2> QED BY <2>1, <2>2, <1>1, <1>3, <1>5 DEF Lists, Sound
<1>7. Links(M, n + 1, p)
  <2>1. L.head = (IF n = 0 THEN NULL ELSE o[1]) /\ L.tail = (IF n = 0 THEN NULL ELSE o[n])
    BY DEF Sound, Links
  <2>2. M.head = p[1]
    BY <1>1, <1>3, <1>4, <1>5, <2>1
  <2>3. M.tail = p[n + 1]
    BY <1>1, <1>5
  <2>4. ASSUME NEW k \in 1..n + 1
        PROVE  M.next[p[k]] = IF k = n + 1 THEN NULL ELSE p[k + 1]
    <3>1. CASE k = n + 1
      BY <3>1, <1>1, <1>5
    <3>2. CASE k = n
      <4>1. p[k] = o[n] /\ L.tail = o[n] /\ o[n] # e /\ k \in 1..n /\ p[k + 1] = e
        BY <3>2, <1>3, <1>4, <1>5, <2>1
      <4> QED BY <4>1, <3>2, <1>1, <1>3
    <3>3. CASE k < n
      <4>1. /\ p[k] = o[k] /\ L.tail = o[n] /\ o[k] # o[n] /\ k \in 1..n
            /\ p[k + 1] = o[k + 1] /\ o[k] # e
        BY <3>3, <1>3, <1>4, <1>5, <2>1
      <4>2. L.next[o[k]] = o[k + 1]
        BY <3>3, <4>1, <1>3 DEF Sound, Links
      <4> QED BY <4>1, <4>2, <3>3, <1>1, <1>3
    <3> QED BY <3>1, <3>2, <3>3, <1>3
  <2>5. ASSUME NEW k \in 1..n + 1
        PROVE  M.prev[p[k]] = IF k = 1 THEN NULL ELSE p[k - 1]
    <3>1. CASE k = n + 1
      BY <3>1, <1>1, <1>2, <1>3, <1>5, <2>1
    <3>2. CASE k \in 1..n
      <4>1. p[k] = o[k] /\ o[k] # e /\ (k # 1 => p[k - 1] = o[k - 1])
        BY <3>2, <1>3, <1>4, <1>5
      <4>2. L.prev[o[k]] = IF k = 1 THEN NULL ELSE o[k - 1]
        BY <3>2, <1>3 DEF Sound, Links
      <4> QED BY <4>1, <4>2, <3>2, <1>1, <1>2, <1>3
    <3> QED BY <3>1, <3>2, <1>3
  <2>6. n + 1 # 0
    BY <1>3
  <2> QED BY <2>2, <2>3, <2>4, <2>5, <2>6 DEF Links
<1>8. Marks(M, n + 1, p)
  <2>1. /\ L.notified \in 0..n /\ \A k \in 1..n : L.state[o[k]] \in Notified <=> k <= L.notified
        /\ L.start = IF L.notified < n THEN o[L.notified + 1] ELSE NULL
    BY DEF Sound, Marks
  <2>2. ASSUME NEW k \in 1..n + 1 PROVE M.state[p[k]] \in Notified <=> k <= M.notified
    <3>1. CASE k = n + 1
      BY <3>1, <2>1, <1>1, <1>2, <1>3, <1>5 DEF Notified
    <3>2. CASE k \in 1..n
      BY <3>2, <2>1, <1>1, <1>2, <1>3, <1>4, <1>5
    <3> QED BY <3>1, <3>2, <1>3
  <2>3. M.start = IF M.notified < n + 1 THEN p[M.notified + 1] ELSE NULL
    <3>1. CASE L.notified < n
      BY <3>1, <2>1, <1>1, <1>3, <1>4, <1>5
    <3>2. CASE L.notified = n
      BY <3>2, <2>1, <1>1, <1>3, <1>5
    <3> QED BY <3>1, <3>2, <2>1, <1>3
  <2> QED BY <2>1, <2>2, <2>3, <1>1, <1>3 DEF Marks
<1>9. Cache(M)
  <2>1. /\ \A x \in Listeners : L.cached[x] => L.state[x] # "free"
        /\ L.cache_used <=> (\E x \in Listeners : L.cached[x])
        /\ \A d, x \in Listeners : L.cached[d] /\ L.cached[x] => d = x
    BY DEF Sound, Cache
  <2>2. ~L.cached[e]
    BY <2>1
  <2>3. M.cached[e] = ~L.cache_used /\ \A x \in Listeners : x # e => M.cached[x] = L.cached[x]
    BY <1>1, <1>2
  <2>4. \A x \in Listeners : M.cached[x] => M.state[x] # "free"
    BY <2>1, <2>3, <1>1, <1>2
  <2>5. M.cache_used <=> (\E x \in Listeners : M.cached[x])
    BY <2>1, <2>2, <2>3, <1>1
  <2>6. \A d, x \in Listeners : M.cached[d] /\ M.cached[x] => d = x
    BY <2>1, <2>2, <2>3
  <2> QED BY <2>4, <2>5, <2>6 DEF Cache
<1> QED BY <1>1, <1>6, <1>7, <1>8, <1>9 DEF Sound, M, p

-----------------------------------------------------------------------------
\* What remove writes.
LEMMA RemoveFields ==
    ASSUME NEW L, ListTypes(L), NEW e \in Listeners
    PROVE  LET M == Remove(L, e)
               p == L.prev[e]
               n == L.next[e]
           IN  /\ ListTypes(M)
               /\ M.head = (IF p = NULL THEN n ELSE L.head)
               /\ M.tail = (IF n = NULL THEN p ELSE L.tail)
               /\ M.start = (IF L.start = e THEN n ELSE L.start)
               /\ M.len = L.len - 1 /\ M.notified = NotifiedWithout(L, e)
               /\ M.cache_used = (L.cache_used /\ ~L.cached[e])
               /\ M.state = [L.state EXCEPT ![e] = "free"]
               /\ M.next = [x \in Listeners |-> IF x = e THEN NULL ELSE IF x = p THEN n ELSE L.next[x]]
               /\ M.prev = [x \in Listeners |-> IF x = e THEN NULL ELSE IF x = n THEN p ELSE L.prev[x]]
               /\ M.cached = [L.cached EXCEPT ![e] = FALSE]
<1> DEFINE M == Remove(L, e)
           p == L.prev[e]
           n == L.next[e]
           hd == IF p = NULL THEN n ELSE L.head
           tl == IF n = NULL THEN p ELSE L.tail
           nx == [x \in Listeners |-> IF x = e THEN NULL ELSE IF x = p THEN n ELSE L.next[x]]
           pr == [x \in Listeners |-> IF x = e THEN NULL ELSE IF x = n THEN p ELSE L.prev[x]]
           sa == StartWithout(L, e)
           cu == L.cache_used /\ ~L.cached[e]
           ca == [L.cached EXCEPT ![e] = FALSE]
           st == [L.state EXCEPT ![e] = "free"]
           no == NotifiedWithout(L, e)
<1>1. /\ L.head \in Pointers /\ L.tail \in Pointers /\ L.start \in Pointers
      /\ L.len \in Int /\ L.notified \in Int /\ L.cache_used \in BOOLEAN
      /\ L.state \in [Listeners -> States] /\ L.prev \in [Listeners -> Pointers]
      /\ L.next \in [Listeners -> Pointers] /\ L.cached \in [Listeners -> BOOLEAN]
  BY FieldsOf
<1>2. M = [L EXCEPT !.head = hd, !.tail = tl, !.next = nx, !.prev = pr, !.start = sa,
                    !.cache_used = cu, !.cached = ca, !.state = st, !.notified = no,
                    !.len = L.len - 1]
  BY DEF Remove, ListTypes
<1>3. /\ hd \in Pointers /\ tl \in Pointers /\ sa \in Pointers /\ no \in Int
      /\ nx \in [Listeners -> Pointers] /\ pr \in [Listeners -> Pointers]
  BY <1>1 DEF NotifiedWithout, StartWithout, Pointers
<1>4. st \in [Listeners -> States] /\ ca \in [Listeners -> BOOLEAN]
  BY <1>1 DEF States
<1>5. cu \in BOOLEAN
  OBVIOUS
<1>6. sa = IF L.start = e THEN n ELSE L.start
  BY DEF StartWithout
<1> HIDE DEF hd, tl, nx, pr, sa, cu, ca, st, no, M
<1>7. /\ M.head = hd /\ M.tail = tl /\ M.next = nx /\ M.prev = pr /\ M.start = sa
      /\ M.cache_used = cu /\ M.cached = ca /\ M.state = st /\ M.notified = no
      /\ M.len = L.len - 1
  BY <1>2 DEF ListTypes
<1>8. M = [head |-> M.head, tail |-> M.tail, start |-> M.start, len |-> M.len,
           notified |-> M.notified, cache_used |-> M.cache_used, state |-> M.state,
           prev |-> M.prev, next |-> M.next, cached |-> M.cached]
  BY <1>2 DEF ListTypes
<1>9. M.len \in Int
  BY <1>1, <1>7
<1>10. ListTypes(M)
  BY ONLY <1>3, <1>4, <1>5, <1>7, <1>8, <1>9 DEF ListTypes
<1> QED BY <1>7, <1>10, <1>6 DEF hd, tl, nx, pr, cu, ca, st, no, M

\* The order without its entry at i.
Out(n, o, i) == [k \in 1..n - 1 |-> IF k < i THEN o[k] ELSE o[k + 1]]

\* remove unlinks the entry, wherever it is in the list.
LEMMA RemoveSound ==
    ASSUME NEW L, NEW n, NEW o, Sound(L, n, o), NEW i \in 1..n
    PROVE  Sound(Remove(L, o[i]), n - 1, Out(n, o, i))
<1> DEFINE e == o[i]
           M == Remove(L, e)
           p == Out(n, o, i)
           b == L.prev[e]
           a == L.next[e]
<1>1. n \in Nat /\ o \in [1..n -> Listeners] /\ \A j, k \in 1..n : o[j] = o[k] => j = k
  BY DEF Sound, Lists
<1>2. e \in Listeners /\ \A k \in 1..n : o[k] \in Listeners /\ o[k] # NULL
  BY <1>1, NullIsNone
<1>3. /\ ListTypes(M)
      /\ M.head = (IF b = NULL THEN a ELSE L.head)
      /\ M.tail = (IF a = NULL THEN b ELSE L.tail)
      /\ M.start = (IF L.start = e THEN a ELSE L.start)
      /\ M.len = L.len - 1 /\ M.notified = NotifiedWithout(L, e)
      /\ M.cache_used = (L.cache_used /\ ~L.cached[e])
      /\ M.state = [L.state EXCEPT ![e] = "free"]
      /\ M.next = [x \in Listeners |-> IF x = e THEN NULL ELSE IF x = b THEN a ELSE L.next[x]]
      /\ M.prev = [x \in Listeners |-> IF x = e THEN NULL ELSE IF x = a THEN b ELSE L.prev[x]]
      /\ M.cached = [L.cached EXCEPT ![e] = FALSE]
  BY <1>2, RemoveFields DEF Sound
<1>4. /\ L.state \in [Listeners -> States] /\ L.prev \in [Listeners -> Pointers]
      /\ L.next \in [Listeners -> Pointers] /\ L.cached \in [Listeners -> BOOLEAN]
      /\ L.cache_used \in BOOLEAN
  BY FieldsOf DEF Sound
<1>5. b = (IF i = 1 THEN NULL ELSE o[i - 1]) /\ a = IF i = n THEN NULL ELSE o[i + 1]
  BY <1>1 DEF Sound, Links
<1>6. /\ DOMAIN p = 1..n - 1 /\ \A k \in 1..n - 1 : p[k] = IF k < i THEN o[k] ELSE o[k + 1]
      /\ p \in [1..n - 1 -> Listeners]
  BY <1>1 DEF Out
<1> HIDE DEF M, p, a, b
<1>7. Lists(M, n - 1, p)
  <2>1. n - 1 \in Nat
    BY <1>1
  <2>2. \A j, k \in 1..n - 1 : p[j] = p[k] => j = k
    BY <1>1, <1>6
  <2>3. ASSUME NEW x \in Listeners
        PROVE  M.state[x] # "free" <=> \E k \in 1..n - 1 : p[k] = x
    <3>1. CASE x = e
      <4>1. \A k \in 1..n - 1 : p[k] # e
        BY <1>1, <1>6
      <4> QED BY <3>1, <4>1, <1>3, <1>4
    <3>2. CASE x # e
      <4>1. M.state[x] # "free" <=> \E k \in 1..n : o[k] = x
        BY <3>2, <1>3, <1>4 DEF Sound, Lists
      <4>2. ASSUME NEW k \in 1..n, o[k] = x PROVE \E j \in 1..n - 1 : p[j] = x
        <5>1. CASE k < i
          BY <5>1, <4>2, <1>1, <1>6
        <5>2. CASE k > i
          <6>1. k - 1 \in 1..n - 1 /\ p[k - 1] = o[k]
            BY <5>2, <1>1, <1>6
          <6> QED BY <6>1, <4>2
        <5>3. k # i
          BY <4>2, <3>2
        <5> QED BY <5>1, <5>2, <5>3, <1>1
      <4>3. ASSUME NEW j \in 1..n - 1, p[j] = x PROVE \E k \in 1..n : o[k] = x
        BY <4>3, <1>1, <1>6
      <4> QED BY <4>1, <4>2, <4>3
    <3> QED BY <3>1, <3>2
  <2>4. M.len = n - 1
    BY <1>3 DEF Sound, Lists
  <2> QED BY <2>1, <2>2, <2>3, <2>4, <1>6 DEF Lists
<1>8. Links(M, n - 1, p)
  <2>1. L.head = (IF n = 0 THEN NULL ELSE o[1]) /\ L.tail = (IF n = 0 THEN NULL ELSE o[n])
    BY DEF Sound, Links
  <2>2. M.head = IF n - 1 = 0 THEN NULL ELSE p[1]
    BY <2>1, <1>1, <1>2, <1>3, <1>5, <1>6
  <2>3. M.tail = IF n - 1 = 0 THEN NULL ELSE p[n - 1]
    BY <2>1, <1>1, <1>2, <1>3, <1>5, <1>6
  <2>4. \A k \in 1..n : /\ L.next[o[k]] = IF k = n THEN NULL ELSE o[k + 1]
                        /\ L.prev[o[k]] = IF k = 1 THEN NULL ELSE o[k - 1]
    BY DEF Sound, Links
  <2>5. ASSUME NEW k \in 1..n - 1
        PROVE  M.next[p[k]] = IF k = n - 1 THEN NULL ELSE p[k + 1]
    <3>1. CASE k < i - 1
      <4>1. /\ p[k] = o[k] /\ p[k + 1] = o[k + 1] /\ k \in 1..n /\ k # n - 1 /\ k # n
            /\ o[k] # e /\ o[k] # b /\ o[k] \in Listeners
        BY <3>1, <1>1, <1>2, <1>5, <1>6
      <4> QED BY <4>1, <2>4, <1>3
    <3>2. CASE k = i - 1
      <4>1. p[k] = o[k] /\ o[k] = b /\ o[k] # e /\ o[k] \in Listeners
        BY <3>2, <1>1, <1>2, <1>5, <1>6
      <4>2. M.next[p[k]] = a
        BY <4>1, <1>3
      <4> QED BY <4>2, <3>2, <1>1, <1>5, <1>6
    <3>3. CASE k >= i
      <4>1. /\ p[k] = o[k + 1] /\ k + 1 \in 1..n /\ o[k + 1] # e /\ o[k + 1] # b
            /\ o[k + 1] \in Listeners
        BY <3>3, <1>1, <1>2, <1>5, <1>6
      <4>2. M.next[p[k]] = L.next[o[k + 1]]
        BY <4>1, <1>3
      <4>3. k # n - 1 => p[k + 1] = o[k + 2]
        BY <3>3, <1>1, <1>6
      <4> QED BY <4>1, <4>2, <4>3, <2>4, <1>1
    <3> QED BY <3>1, <3>2, <3>3, <1>1
  <2>6. ASSUME NEW k \in 1..n - 1
        PROVE  M.prev[p[k]] = IF k = 1 THEN NULL ELSE p[k - 1]
    <3>1. CASE k < i
      <4>1. /\ p[k] = o[k] /\ k \in 1..n /\ o[k] # e /\ o[k] # a /\ o[k] \in Listeners
            /\ (k # 1 => p[k - 1] = o[k - 1])
        BY <3>1, <1>1, <1>2, <1>5, <1>6
      <4> QED BY <4>1, <2>4, <1>3
    <3>2. CASE k = i
      <4>1. p[k] = o[i + 1] /\ o[i + 1] = a /\ o[i + 1] # e /\ o[i + 1] \in Listeners
        BY <3>2, <1>1, <1>2, <1>5, <1>6
      <4>2. M.prev[p[k]] = b
        BY <4>1, <1>3
      <4> QED BY <4>2, <3>2, <1>1, <1>5, <1>6
    <3>3. CASE k > i
      <4>1. /\ p[k] = o[k + 1] /\ k + 1 \in 1..n /\ o[k + 1] # e /\ o[k + 1] # a
            /\ o[k + 1] \in Listeners /\ p[k - 1] = o[k] /\ k # 1
        BY <3>3, <1>1, <1>2, <1>5, <1>6
      <4>2. M.prev[p[k]] = L.prev[o[k + 1]]
        BY <4>1, <1>3
      <4>3. L.prev[o[k + 1]] = o[k]
        BY <4>1, <2>4, <3>3, <1>1
      <4> QED BY <4>1, <4>2, <4>3
    <3> QED BY <3>1, <3>2, <3>3, <1>1
  <2> QED BY <2>2, <2>3, <2>5, <2>6 DEF Links
<1>9. Marks(M, n - 1, p)
  <2>1. /\ L.notified \in 0..n /\ \A k \in 1..n : L.state[o[k]] \in Notified <=> k <= L.notified
        /\ L.start = IF L.notified < n THEN o[L.notified + 1] ELSE NULL
    BY DEF Sound, Marks
  <2>2. M.notified = IF i <= L.notified THEN L.notified - 1 ELSE L.notified
    BY <2>1, <1>3 DEF NotifiedWithout
  <2>3. M.notified \in 0..n - 1
    BY <2>1, <2>2, <1>1
  <2>4. ASSUME NEW k \in 1..n - 1 PROVE M.state[p[k]] \in Notified <=> k <= M.notified
    <3>1. CASE k < i
      <4>1. p[k] = o[k] /\ o[k] # e /\ k \in 1..n
        BY <3>1, <1>1, <1>6
      <4> QED BY <4>1, <3>1, <2>1, <2>2, <1>1, <1>3, <1>4
    <3>2. CASE k >= i
      <4>1. p[k] = o[k + 1] /\ o[k + 1] # e /\ k + 1 \in 1..n
        BY <3>2, <1>1, <1>6
      <4> QED BY <4>1, <3>2, <2>1, <2>2, <1>1, <1>3, <1>4
    <3> QED BY <3>1, <3>2, <1>1
  <2>5. M.start = IF M.notified < n - 1 THEN p[M.notified + 1] ELSE NULL
    <3>1. CASE i <= L.notified
      <4>1. L.start # e
        BY <3>1, <2>1, <1>1, <1>2
      <4> QED BY <4>1, <3>1, <2>1, <2>2, <1>1, <1>3, <1>6
    <3>2. CASE i = L.notified + 1
      <4>1. L.start = e /\ M.start = a
        BY <3>2, <2>1, <1>1, <1>3
      <4> QED BY <4>1, <3>2, <2>1, <2>2, <1>1, <1>5, <1>6
    <3>3. CASE i > L.notified + 1
      <4>1. L.start # e
        BY <3>3, <2>1, <1>1, <1>2
      <4> QED BY <4>1, <3>3, <2>1, <2>2, <1>1, <1>3, <1>6
    <3> QED BY <3>1, <3>2, <3>3, <2>1, <1>1
  <2> QED BY <2>3, <2>4, <2>5 DEF Marks
<1>10. Cache(M)
  <2>1. /\ \A x \in Listeners : L.cached[x] => L.state[x] # "free"
        /\ L.cache_used <=> (\E x \in Listeners : L.cached[x])
        /\ \A d, x \in Listeners : L.cached[d] /\ L.cached[x] => d = x
    BY DEF Sound, Cache
  <2>3. ~M.cached[e] /\ \A x \in Listeners : x # e => M.cached[x] = L.cached[x]
    BY <1>2, <1>3, <1>4
  <2>4. \A x \in Listeners : M.cached[x] => M.state[x] # "free"
    BY <2>1, <2>3, <1>3, <1>4
  <2>5. M.cache_used <=> (\E x \in Listeners : M.cached[x])
    BY <2>1, <2>3, <1>2, <1>3
  <2>6. \A d, x \in Listeners : M.cached[d] /\ M.cached[x] => d = x
    BY <2>1, <2>3
  <2> QED BY <2>4, <2>5, <2>6 DEF Cache
<1> QED BY <1>3, <1>7, <1>8, <1>9, <1>10 DEF Sound, M, p

-----------------------------------------------------------------------------
\* Lists that agree in each field are one.
LEMMA SameList ==
    ASSUME NEW L, NEW M, ListTypes(L), ListTypes(M),
           L.head = M.head, L.tail = M.tail, L.start = M.start, L.len = M.len,
           L.notified = M.notified, L.cache_used = M.cache_used, L.state = M.state,
           L.prev = M.prev, L.next = M.next, L.cached = M.cached
    PROVE  L = M
BY DEF ListTypes

\* What one turn of the loop of notify writes.
LEMMA AdvanceFields ==
    ASSUME NEW L, ListTypes(L), NEW tag \in Notified, L.start # NULL
    PROVE  LET M == Advance(L, tag)
           IN  /\ ListTypes(M)
               /\ M.head = L.head /\ M.tail = L.tail /\ M.start = L.next[L.start]
               /\ M.len = L.len /\ M.notified = L.notified + 1 /\ M.cache_used = L.cache_used
               /\ M.state = [L.state EXCEPT ![L.start] = tag] /\ M.prev = L.prev
               /\ M.next = L.next /\ M.cached = L.cached
<1> DEFINE M == Advance(L, tag)
           st == [L.state EXCEPT ![L.start] = tag]
           sa == L.next[L.start]
           no == L.notified + 1
<1>1. /\ L.head \in Pointers /\ L.tail \in Pointers /\ L.start \in Pointers
      /\ L.len \in Int /\ L.notified \in Int /\ L.cache_used \in BOOLEAN
      /\ L.state \in [Listeners -> States] /\ L.prev \in [Listeners -> Pointers]
      /\ L.next \in [Listeners -> Pointers] /\ L.cached \in [Listeners -> BOOLEAN]
  BY FieldsOf
<1>2. M = [L EXCEPT !.start = sa, !.state = st, !.notified = no]
  BY DEF Advance, ListTypes
<1>3. sa \in Pointers /\ no \in Int /\ st \in [Listeners -> States]
  BY <1>1 DEF Pointers, States, Notified
<1> HIDE DEF M, st, sa, no
<1>4. /\ M.start = sa /\ M.state = st /\ M.notified = no /\ M.head = L.head /\ M.tail = L.tail
      /\ M.len = L.len /\ M.prev = L.prev /\ M.next = L.next
  BY <1>2 DEF ListTypes
<1>5. M.cache_used = L.cache_used /\ M.cached = L.cached
  BY <1>2 DEF ListTypes
<1>6. M = [head |-> M.head, tail |-> M.tail, start |-> M.start, len |-> M.len,
           notified |-> M.notified, cache_used |-> M.cache_used, state |-> M.state,
           prev |-> M.prev, next |-> M.next, cached |-> M.cached]
  BY <1>2 DEF ListTypes
<1>7. /\ M.head \in Pointers /\ M.tail \in Pointers /\ M.start \in Pointers
      /\ M.len \in Int /\ M.notified \in Int
      /\ M.state \in [Listeners -> States] /\ M.prev \in [Listeners -> Pointers]
      /\ M.next \in [Listeners -> Pointers]
  BY <1>1, <1>3, <1>4
<1>8. M.cached \in [Listeners -> BOOLEAN] /\ M.cache_used \in BOOLEAN
  BY <1>1, <1>5
<1>9. ListTypes(M)
  BY ONLY <1>6, <1>7, <1>8 DEF ListTypes
<1> QED BY <1>4, <1>5, <1>9 DEF M, st, sa, no

\* The number of notified entries, and the states, after k turns.
Counted(L, n, k) == IF L.notified + k <= n THEN L.notified + k ELSE n
Retagged(L, n, o, k, tag) ==
    [e \in Listeners |-> IF \E j \in 1..n : o[j] = e /\ L.notified < j /\ j <= Counted(L, n, k)
                         THEN tag ELSE L.state[e]]

\* The list after k turns.
Turned(L, n, o, k, tag) ==
    [head |-> L.head, tail |-> L.tail,
     start |-> IF Counted(L, n, k) < n THEN o[Counted(L, n, k) + 1] ELSE NULL,
     len |-> L.len, notified |-> Counted(L, n, k), cache_used |-> L.cache_used,
     state |-> Retagged(L, n, o, k, tag), prev |-> L.prev, next |-> L.next, cached |-> L.cached]

LEMMA CountedIs ==
    ASSUME NEW L, NEW n \in Nat, L.notified \in 0..n, NEW k \in Nat
    PROVE  /\ Counted(L, n, k) \in 0..n /\ L.notified <= Counted(L, n, k)
           /\ Counted(L, n, 0) = L.notified
           /\ Counted(L, n, k + 1) = IF Counted(L, n, k) < n THEN Counted(L, n, k) + 1 ELSE n
BY DEF Counted

LEMMA TurnedFields ==
    ASSUME NEW L, NEW n, NEW o, Sound(L, n, o), NEW k \in Nat, NEW tag \in Notified
    PROVE  LET M == Turned(L, n, o, k, tag)
           IN  /\ ListTypes(M)
               /\ M.head = L.head /\ M.tail = L.tail
               /\ M.start = (IF Counted(L, n, k) < n THEN o[Counted(L, n, k) + 1] ELSE NULL)
               /\ M.len = L.len /\ M.notified = Counted(L, n, k) /\ M.cache_used = L.cache_used
               /\ M.state = Retagged(L, n, o, k, tag) /\ M.prev = L.prev
               /\ M.next = L.next /\ M.cached = L.cached
<1> DEFINE M == Turned(L, n, o, k, tag)
           c == Counted(L, n, k)
           st == Retagged(L, n, o, k, tag)
           sa == IF c < n THEN o[c + 1] ELSE NULL
<1>1. /\ L.head \in Pointers /\ L.tail \in Pointers /\ L.start \in Pointers
      /\ L.len \in Int /\ L.notified \in Int /\ L.cache_used \in BOOLEAN
      /\ L.state \in [Listeners -> States] /\ L.prev \in [Listeners -> Pointers]
      /\ L.next \in [Listeners -> Pointers] /\ L.cached \in [Listeners -> BOOLEAN]
  BY FieldsOf DEF Sound
<1>2. n \in Nat /\ o \in [1..n -> Listeners] /\ L.notified \in 0..n
  BY DEF Sound, Lists, Marks
<1>3. c \in 0..n
  BY <1>2, CountedIs
<1>4. sa \in Pointers
  BY <1>2, <1>3 DEF Pointers
<1>5. st \in [Listeners -> States]
  BY <1>1 DEF Retagged, States, Notified
<1>6. M = [head |-> L.head, tail |-> L.tail, start |-> sa, len |-> L.len, notified |-> c,
           cache_used |-> L.cache_used, state |-> st, prev |-> L.prev, next |-> L.next,
           cached |-> L.cached]
  BY DEF Turned
<1>7. c \in Int
  BY <1>2, <1>3
<1> HIDE DEF M, c, st, sa
<1>8. ListTypes(M)
  BY ONLY <1>1, <1>4, <1>5, <1>6, <1>7 DEF ListTypes
<1>9. /\ M.head = L.head /\ M.tail = L.tail /\ M.start = sa
      /\ M.len = L.len /\ M.notified = c
      /\ M.state = st /\ M.prev = L.prev /\ M.next = L.next
  BY ONLY <1>6
<1>10. M.cached = L.cached /\ M.cache_used = L.cache_used
  BY ONLY <1>6
<1> QED BY <1>8, <1>9, <1>10 DEF M, c, st, sa

\* No turn changes nothing.
LEMMA TurnedZero ==
    ASSUME NEW L, NEW n, NEW o, Sound(L, n, o), NEW tag \in Notified
    PROVE  Turned(L, n, o, 0, tag) = L
<1> DEFINE M == Turned(L, n, o, 0, tag)
<1>1. n \in Nat /\ L.notified \in 0..n /\ L.start = (IF L.notified < n THEN o[L.notified + 1] ELSE NULL)
  BY DEF Sound, Lists, Marks
<1>2. Counted(L, n, 0) = L.notified
  BY <1>1, CountedIs
<1>3. /\ ListTypes(M)
      /\ M.head = L.head /\ M.tail = L.tail
      /\ M.start = (IF Counted(L, n, 0) < n THEN o[Counted(L, n, 0) + 1] ELSE NULL)
      /\ M.len = L.len /\ M.notified = Counted(L, n, 0) /\ M.cache_used = L.cache_used
      /\ M.state = Retagged(L, n, o, 0, tag) /\ M.prev = L.prev
      /\ M.next = L.next /\ M.cached = L.cached
  BY TurnedFields
<1>4. L.state \in [Listeners -> States]
  BY FieldsOf DEF Sound
<1>5. Retagged(L, n, o, 0, tag) = L.state
  <2>1. \A j \in 1..n : ~(L.notified < j /\ j <= L.notified)
    BY <1>1
  <2> QED BY <2>1, <1>2, <1>4 DEF Retagged
<1> HIDE DEF M
<1>6. ListTypes(L)
  BY DEF Sound
<1>7. M = L
  BY <1>1, <1>2, <1>3, <1>5, <1>6, SameList
<1> QED BY <1>7 DEF M

\* One turn more.
LEMMA TurnedMore ==
    ASSUME NEW L, NEW n, NEW o, Sound(L, n, o), NEW k \in Nat, NEW tag \in Notified
    PROVE  Advance(Turned(L, n, o, k, tag), tag) = Turned(L, n, o, k + 1, tag)
<1> DEFINE M == Turned(L, n, o, k, tag)
           q == k + 1
           N == Turned(L, n, o, q, tag)
           A == Advance(M, tag)
           c == Counted(L, n, k)
           d == Counted(L, n, q)
<1>1. /\ n \in Nat /\ o \in [1..n -> Listeners] /\ L.notified \in 0..n
      /\ \A i, j \in 1..n : o[i] = o[j] => i = j
  BY DEF Sound, Lists, Marks
<1>2. c \in 0..n /\ L.notified <= c /\ d = IF c < n THEN c + 1 ELSE n
  BY <1>1, CountedIs
<1>3. /\ ListTypes(M)
      /\ M.head = L.head /\ M.tail = L.tail
      /\ M.start = (IF c < n THEN o[c + 1] ELSE NULL)
      /\ M.len = L.len /\ M.notified = c /\ M.cache_used = L.cache_used
      /\ M.state = Retagged(L, n, o, k, tag) /\ M.prev = L.prev
      /\ M.next = L.next /\ M.cached = L.cached
  BY TurnedFields
<1>4. q \in Nat
  OBVIOUS
<1> HIDE DEF q
<1>5. /\ ListTypes(N)
      /\ N.head = L.head /\ N.tail = L.tail
      /\ N.start = (IF d < n THEN o[d + 1] ELSE NULL)
      /\ N.len = L.len /\ N.notified = d /\ N.cache_used = L.cache_used
      /\ N.state = Retagged(L, n, o, q, tag) /\ N.prev = L.prev
      /\ N.next = L.next /\ N.cached = L.cached
  BY <1>4, TurnedFields
<1>6. /\ Retagged(L, n, o, k, tag) = [e \in Listeners |->
            IF \E j \in 1..n : o[j] = e /\ L.notified < j /\ j <= c THEN tag ELSE L.state[e]]
      /\ Retagged(L, n, o, q, tag) = [e \in Listeners |->
            IF \E j \in 1..n : o[j] = e /\ L.notified < j /\ j <= d THEN tag ELSE L.state[e]]
  BY DEF Retagged
<1> HIDE DEF M, N, c, d
<1>7. CASE c = n
  <2>1. A = M
    BY <1>7, <1>1, <1>3 DEF Advance
  <2>2. d = c
    BY <1>7, <1>2, <1>1
  <2>3. M = N
    BY <2>2, <1>3, <1>5, <1>6, SameList
  <2> QED BY <2>1, <2>3 DEF M, N, q
<1>8. CASE c < n
  <2>1. M.start = o[c + 1] /\ c + 1 \in 1..n /\ o[c + 1] \in Listeners /\ o[c + 1] # NULL /\ d = c + 1
    BY <1>8, <1>1, <1>2, <1>3, NullIsNone
  <2>2. /\ ListTypes(A)
        /\ A.head = M.head /\ A.tail = M.tail /\ A.start = M.next[M.start]
        /\ A.len = M.len /\ A.notified = M.notified + 1 /\ A.cache_used = M.cache_used
        /\ A.state = [M.state EXCEPT ![M.start] = tag] /\ A.prev = M.prev
        /\ A.next = M.next /\ A.cached = M.cached
    BY <1>3, <2>1, AdvanceFields
  <2> HIDE DEF A
  <2>3. A.start = N.start
    <3>1. L.next[o[c + 1]] = IF c + 1 = n THEN NULL ELSE o[c + 1 + 1]
      BY <2>1 DEF Sound, Links
    <3> QED BY <3>1, <2>1, <2>2, <1>3, <1>5, <1>1, <1>2
  <2>4. A.state = N.state
    <3>1. \A e \in Listeners : (\E j \in 1..n : o[j] = e /\ L.notified < j /\ j <= d)
             <=> (e = o[c + 1] \/ \E j \in 1..n : o[j] = e /\ L.notified < j /\ j <= c)
      BY <2>1, <1>1, <1>2
    <3>2. N.state = [M.state EXCEPT ![o[c + 1]] = tag]
      BY <3>1, <1>3, <1>5, <1>6, <2>1
    <3> QED BY <3>2, <2>1, <2>2
  <2>5. A = N
    BY <2>1, <2>2, <2>3, <2>4, <1>3, <1>5, SameList
  <2> QED BY <2>5 DEF A, M, N, q
<1> QED BY <1>1, <1>2, <1>7, <1>8

\* The recursion of the loop.
Turns(f, L, m, tag) == f = [k \in 0..m |-> IF k = 0 THEN L ELSE Advance(f[k - 1], tag)]

\* The loop of notify, for any number of turns.
LEMMA LoopIs ==
    ASSUME NEW L, NEW n, NEW o, Sound(L, n, o), NEW m \in Nat, NEW tag \in Notified
    PROVE  Loop(L, m, tag) = Turned(L, n, o, m, tag)
<1> DEFINE g == [k \in 0..m |-> Turned(L, n, o, k, tag)]
           f == CHOOSE h : Turns(h, L, m, tag)
<1>1. \A k \in 0..m : g[k] = IF k = 0 THEN L ELSE Advance(g[k - 1], tag)
  <2> SUFFICES ASSUME NEW k \in 0..m PROVE g[k] = IF k = 0 THEN L ELSE Advance(g[k - 1], tag)
    OBVIOUS
  <2>1. CASE k = 0
    BY <2>1, TurnedZero
  <2>2. CASE k # 0
    <3>1. k - 1 \in 0..m /\ k - 1 \in Nat /\ (k - 1) + 1 = k
      BY <2>2
    <3>2. Advance(Turned(L, n, o, k - 1, tag), tag) = Turned(L, n, o, k, tag)
      BY <3>1, TurnedMore
    <3> QED BY <2>2, <3>1, <3>2
  <2> QED BY <2>1, <2>2
<1>2. Turns(g, L, m, tag)
  <2>1. g = [k \in 0..m |-> g[k]]
    OBVIOUS
  <2> HIDE DEF g
  <2> QED BY <1>1, <2>1 DEF Turns
<1>3. Turns(f, L, m, tag)
  BY <1>2
<1>4. Loop(L, m, tag) = f[m]
  BY DEF Loop, Turns
<1> HIDE DEF f
<1>5. \A k \in 0..m : f[k] = IF k = 0 THEN L ELSE Advance(f[k - 1], tag)
  BY <1>3 DEF Turns
<1> DEFINE A == {k \in 0..m : f[k] # Turned(L, n, o, k, tag)}
<1>6. A = {}
  <2> SUFFICES ASSUME A # {} PROVE FALSE
    OBVIOUS
  <2>1. A \in SUBSET Nat
    OBVIOUS
  <2>2. PICK k \in A : \A j \in A : k <= j
    BY <2>1, LeastNumber
  <2>3. k \in 0..m /\ f[k] # Turned(L, n, o, k, tag)
    BY <2>2
  <2>4. k # 0
    BY <2>3, <1>5, TurnedZero
  <2>5. k - 1 \in 0..m /\ k - 1 \notin A /\ k - 1 \in Nat /\ (k - 1) + 1 = k
    BY <2>2, <2>3, <2>4
  <2>6. f[k - 1] = Turned(L, n, o, k - 1, tag)
    BY <2>5
  <2>7. f[k] = Advance(Turned(L, n, o, k - 1, tag), tag)
    BY <2>3, <2>4, <2>6, <1>5
  <2> QED BY <2>3, <2>5, <2>7, TurnedMore
<1>7. m \in 0..m /\ m \notin A
  BY <1>6
<1> QED BY <1>4, <1>7

\* The loop leaves the list sound.
LEMMA TurnedSound ==
    ASSUME NEW L, NEW n, NEW o, Sound(L, n, o), NEW k \in Nat, NEW tag \in Notified
    PROVE  Sound(Turned(L, n, o, k, tag), n, o)
<1> DEFINE M == Turned(L, n, o, k, tag)
           c == Counted(L, n, k)
<1>1. /\ n \in Nat /\ o \in [1..n -> Listeners] /\ L.notified \in 0..n
      /\ \A i, j \in 1..n : o[i] = o[j] => i = j
      /\ \A e \in Listeners : L.state[e] # "free" <=> \E j \in 1..n : o[j] = e
      /\ \A j \in 1..n : L.state[o[j]] \in Notified <=> j <= L.notified
  BY DEF Sound, Lists, Marks
<1>2. c \in 0..n /\ L.notified <= c
  BY <1>1, CountedIs
<1>3. /\ ListTypes(M)
      /\ M.head = L.head /\ M.tail = L.tail
      /\ M.start = (IF c < n THEN o[c + 1] ELSE NULL)
      /\ M.len = L.len /\ M.notified = c /\ M.cache_used = L.cache_used
      /\ M.state = Retagged(L, n, o, k, tag) /\ M.prev = L.prev
      /\ M.next = L.next /\ M.cached = L.cached
  BY TurnedFields
<1>4. Retagged(L, n, o, k, tag) = [e \in Listeners |->
            IF \E j \in 1..n : o[j] = e /\ L.notified < j /\ j <= c THEN tag ELSE L.state[e]]
  BY DEF Retagged
<1> HIDE DEF M, c
<1>5. \A e \in Listeners : M.state[e] # "free" <=> L.state[e] # "free"
  BY <1>1, <1>3, <1>4 DEF Notified
<1>6. ASSUME NEW j \in 1..n PROVE M.state[o[j]] \in Notified <=> j <= M.notified
  <2>1. o[j] \in Listeners /\ M.notified = c
    BY <1>1, <1>3
  <2>2. CASE j <= L.notified
    <3>1. L.state[o[j]] \in Notified /\ j <= c
      BY <2>2, <1>1, <1>2
    <3> QED BY <3>1, <2>1, <1>3, <1>4
  <2>3. CASE L.notified < j /\ j <= c
    BY <2>1, <2>3, <1>3, <1>4
  <2>4. CASE c < j
    <3>1. ~(j <= L.notified) /\ ~(j <= c)
      BY <2>4, <1>1, <1>2
    <3>2. ~\E i \in 1..n : o[i] = o[j] /\ L.notified < i /\ i <= c
      BY <3>1, <1>1
    <3> QED BY <3>1, <3>2, <2>1, <1>1, <1>3, <1>4
  <2> QED BY <2>2, <2>3, <2>4, <1>1, <1>2
<1>7. Lists(M, n, o)
  BY <1>1, <1>3, <1>5 DEF Sound, Lists
<1>8. Links(M, n, o)
  BY <1>3 DEF Sound, Links
<1>9. Marks(M, n, o)
  BY <1>2, <1>3, <1>6 DEF Marks
<1>10. Cache(M)
  <2>1. /\ \A x \in Listeners : L.cached[x] => L.state[x] # "free"
        /\ L.cache_used <=> (\E x \in Listeners : L.cached[x])
        /\ \A d, x \in Listeners : L.cached[d] /\ L.cached[x] => d = x
    BY DEF Sound, Cache
  <2>2. M.cached = L.cached /\ M.cache_used = L.cache_used
    BY <1>3
  <2> QED BY <2>1, <2>2, <1>5 DEF Cache
<1> QED BY <1>3, <1>7, <1>8, <1>9, <1>10 DEF Sound, M

\* A listener that is not notified registers its task or thread.
LEMMA RegisterSound ==
    ASSUME NEW L, NEW n, NEW o, Sound(L, n, o), NEW e \in Listeners, NEW s \in {"polling", "waiting"},
           L.state[e] \notin Notified, L.state[e] # "free"
    PROVE  LET M == [L EXCEPT !.state[e] = s]
           IN  Sound(M, n, o) /\ M.state = [L.state EXCEPT ![e] = s]
<1> DEFINE st == [L.state EXCEPT ![e] = s]
           M == [L EXCEPT !.state = st]
<1>1. [L EXCEPT !.state[e] = s] = M
  OBVIOUS
<1>2. /\ L.head \in Pointers /\ L.tail \in Pointers /\ L.start \in Pointers
      /\ L.len \in Int /\ L.notified \in Int /\ L.cache_used \in BOOLEAN
      /\ L.state \in [Listeners -> States] /\ L.prev \in [Listeners -> Pointers]
      /\ L.next \in [Listeners -> Pointers] /\ L.cached \in [Listeners -> BOOLEAN]
  BY FieldsOf DEF Sound
<1>3. st \in [Listeners -> States] /\ st[e] = s /\ \A x \in Listeners : x # e => st[x] = L.state[x]
  BY <1>2 DEF States
<1> HIDE DEF st
<1>4. /\ M.state = st /\ M.head = L.head /\ M.tail = L.tail /\ M.start = L.start /\ M.len = L.len
      /\ M.notified = L.notified /\ M.prev = L.prev /\ M.next = L.next
  BY DEF Sound, ListTypes
<1>5. M.cache_used = L.cache_used /\ M.cached = L.cached
  BY DEF Sound, ListTypes
<1>6. M = [head |-> M.head, tail |-> M.tail, start |-> M.start, len |-> M.len,
           notified |-> M.notified, cache_used |-> M.cache_used, state |-> M.state,
           prev |-> M.prev, next |-> M.next, cached |-> M.cached]
  BY DEF Sound, ListTypes
<1> HIDE DEF M
<1>7. ListTypes(M)
  BY ONLY <1>2, <1>3, <1>4, <1>5, <1>6 DEF ListTypes
<1>8. Lists(M, n, o)
  BY <1>3, <1>4 DEF Sound, Lists
<1>9. Links(M, n, o)
  BY <1>4 DEF Sound, Links
<1>10. Marks(M, n, o)
  BY <1>3, <1>4 DEF Sound, Marks, Lists, Notified
<1>11. Cache(M)
  <2>1. /\ \A x \in Listeners : L.cached[x] => L.state[x] # "free"
        /\ L.cache_used <=> (\E x \in Listeners : L.cached[x])
        /\ \A d, x \in Listeners : L.cached[d] /\ L.cached[x] => d = x
    BY DEF Sound, Cache
  <2>2. \A x \in Listeners : L.state[x] # "free" => M.state[x] # "free"
    BY <1>3, <1>4
  <2> QED BY <2>1, <2>2, <1>5 DEF Cache
<1>12. Sound(M, n, o) /\ M.state = st
  BY <1>4, <1>7, <1>8, <1>9, <1>10, <1>11 DEF Sound
<1> QED BY <1>1, <1>12 DEF st

-----------------------------------------------------------------------------
\* There are no more entries than listeners.
LEMMA Fits ==
    ASSUME NEW L, NEW n, NEW o, Sound(L, n, o)
    PROVE  n <= Cardinality(Listeners) /\ Cardinality(Listeners) \in Nat
<1>1. n \in Nat /\ o \in [1..n -> Listeners] /\ \A i, j \in 1..n : o[i] = o[j] => i = j
  BY DEF Sound, Lists
<1>2. IsFiniteSet(Listeners) /\ Cardinality(Listeners) \in Nat
  BY EventAssumption, FS_CardinalityType
<1>3. IsFiniteSet(1..n) /\ Cardinality(1..n) = n
  BY <1>1, UpToCount
<1> SUFFICES ASSUME Cardinality(Listeners) < Cardinality(1..n) PROVE FALSE
  BY <1>1, <1>2, <1>3
<1>4. \E i, j \in 1..n : i # j /\ o[i] = o[j]
  BY <1>1, <1>2, <1>3, FS_PigeonHole
<1> QED BY <1>1, <1>4

\* The recursion of the walk along `next`.
Walks(f, L, m) ==
    f = [k \in 1..m |-> IF k = 1 THEN L.head ELSE IF f[k - 1] = NULL THEN NULL ELSE L.next[f[k - 1]]]

\* The walk from the head passes the entries in their order.
LEMMA OrderIs ==
    ASSUME NEW L, NEW n, NEW o, Sound(L, n, o)
    PROVE  Order(L) = o
<1> DEFINE m == Cardinality(Listeners)
           At(k) == IF k <= n THEN o[k] ELSE NULL
           g == [k \in 1..m |-> At(k)]
           f == CHOOSE h : Walks(h, L, m)
<1>1. /\ n \in Nat /\ o \in [1..n -> Listeners]
      /\ L.head = (IF n = 0 THEN NULL ELSE o[1])
      /\ \A k \in 1..n : L.next[o[k]] = IF k = n THEN NULL ELSE o[k + 1]
      /\ \A k \in 1..n : o[k] # NULL
  BY NullIsNone DEF Sound, Lists, Links
<1>2. m \in Nat /\ n <= m
  BY Fits
<1>3. Order(L) = [k \in 1..Cardinality({k \in DOMAIN f : f[k] # NULL}) |-> f[k]]
  BY DEF Order, Walks
<1> HIDE DEF m
<1>4. /\ At(1) = L.head
      /\ \A k \in 1..m : k # 1 => At(k) = IF At(k - 1) = NULL THEN NULL ELSE L.next[At(k - 1)]
  BY <1>1, <1>2
<1>5. Walks(g, L, m)
  <2>1. \A k \in 1..m : g[k] = IF k = 1 THEN L.head ELSE IF g[k - 1] = NULL THEN NULL ELSE L.next[g[k - 1]]
    <3> SUFFICES ASSUME NEW k \in 1..m
                 PROVE  g[k] = IF k = 1 THEN L.head ELSE IF g[k - 1] = NULL THEN NULL ELSE L.next[g[k - 1]]
      OBVIOUS
    <3>1. k # 1 => k - 1 \in 1..m
      BY <1>2
    <3>2. g[k] = At(k) /\ (k # 1 => g[k - 1] = At(k - 1))
      BY <3>1
    <3> HIDE DEF g, At
    <3> QED BY <3>2, <1>4
  <2>2. g = [k \in 1..m |-> g[k]]
    OBVIOUS
  <2> HIDE DEF g
  <2> QED BY <2>1, <2>2 DEF Walks
<1>6. Walks(f, L, m)
  BY <1>5
<1> HIDE DEF f, At
<1>7. \A k \in 1..m : f[k] = IF k = 1 THEN L.head ELSE IF f[k - 1] = NULL THEN NULL ELSE L.next[f[k - 1]]
  BY <1>6 DEF Walks
<1> DEFINE A == {k \in 1..m : f[k] # At(k)}
<1>8. A = {}
  <2> SUFFICES ASSUME A # {} PROVE FALSE
    OBVIOUS
  <2>1. A \in SUBSET Nat
    OBVIOUS
  <2>2. PICK k \in A : \A j \in A : k <= j
    BY <2>1, LeastNumber
  <2>3. k \in 1..m /\ f[k] # At(k)
    BY <2>2
  <2>4. k # 1
    BY <2>3, <1>4, <1>7
  <2>5. k - 1 \in 1..m /\ k - 1 \notin A
    BY <2>2, <2>3, <2>4, <1>2
  <2>6. f[k - 1] = At(k - 1)
    BY <2>5
  <2> QED BY <2>3, <2>4, <2>6, <1>4, <1>7
<1>9. DOMAIN f = 1..m
  BY <1>6 DEF Walks
<1>10. {k \in DOMAIN f : f[k] # NULL} = 1..n
  <2>1. \A k \in 1..m : f[k] = At(k)
    BY <1>8
  <2>2. \A k \in 1..m : At(k) # NULL <=> k <= n
    BY <1>1, <1>2 DEF At
  <2> QED BY <2>1, <2>2, <1>1, <1>2, <1>9
<1>11. Cardinality({k \in DOMAIN f : f[k] # NULL}) = n
  BY <1>1, <1>10, UpToCount
<1>12. \A k \in 1..n : f[k] = o[k]
  <2> SUFFICES ASSUME NEW k \in 1..n PROVE f[k] = o[k]
    OBVIOUS
  <2>1. k \in 1..m /\ k <= n
    BY <1>1, <1>2
  <2>2. f[k] = At(k)
    BY <2>1, <1>8
  <2> QED BY <2>1, <2>2 DEF At
<1>13. Order(L) = [k \in 1..n |-> f[k]]
  BY <1>3, <1>11
<1> QED BY <1>1, <1>12, <1>13

\* The list as EventSpec has it.
View(L, n, o) == [k \in 1..n |-> [id |-> o[k], tag |-> Tag(L.state[o[k]])]]

LEMMA AbsListIs ==
    ASSUME NEW L, NEW n, NEW o, Sound(L, n, o)
    PROVE  AbsList(L) = View(L, n, o)
<1>1. Order(L) = o
  BY OrderIs
<1>2. DOMAIN o = 1..n
  BY DEF Sound, Lists
<1>3. AbsList(L) = [k \in DOMAIN o |-> [id |-> o[k], tag |-> Tag(L.state[o[k]])]]
  BY <1>1 DEF AbsList
<1> QED BY <1>2, <1>3 DEF View

\* What the view of a sound list is.
LEMMA ViewIs ==
    ASSUME NEW L, NEW n, NEW o, Sound(L, n, o)
    PROVE  LET V == View(L, n, o)
           IN  /\ IsList(V, Listeners) /\ n \in Nat /\ Len(V) = n /\ DOMAIN V = 1..n
               /\ \A k \in 1..n : /\ V[k].id = o[k] /\ V[k].tag = Tag(L.state[o[k]])
                                  /\ (V[k].tag # "wait" <=> k <= L.notified)
               /\ Ids(V) = {e \in Listeners : L.state[e] # "free"}
               /\ Told(V) = {e \in Listeners : L.state[e] \in Notified}
               /\ NotifiedCount(V) = L.notified
<1> DEFINE V == View(L, n, o)
<1>1. /\ n \in Nat /\ o \in [1..n -> Listeners] /\ \A i, j \in 1..n : o[i] = o[j] => i = j
      /\ \A e \in Listeners : L.state[e] # "free" <=> \E k \in 1..n : o[k] = e
      /\ L.notified \in 0..n
      /\ \A k \in 1..n : L.state[o[k]] \in Notified <=> k <= L.notified
  BY DEF Sound, Lists, Marks
<1>2. L.state \in [Listeners -> States]
  BY FieldsOf DEF Sound
<1>3. \A s \in States : Tag(s) \in Tags /\ (Tag(s) # "wait" <=> s \in Notified)
  BY DEF Tag, Tags, Notified, States
<1>4. \A k \in 1..n : Tag(L.state[o[k]]) \in Tags /\ (Tag(L.state[o[k]]) # "wait" <=> k <= L.notified)
  BY <1>1, <1>2, <1>3
<1>5. V \in [1..n -> [id : Listeners, tag : Tags]]
  BY <1>1, <1>4 DEF View
<1>6. V \in Seq([id : Listeners, tag : Tags]) /\ Len(V) = n /\ DOMAIN V = 1..n
  <2> DEFINE E == [id : Listeners, tag : Tags]
  <2> SUFFICES V \in Seq(E) /\ Len(V) = n /\ DOMAIN V = 1..n
    OBVIOUS
  <2>1. n \in Nat /\ V \in [1..n -> E]
    BY <1>1, <1>5
  <2> HIDE DEF V, E
  <2> QED BY <2>1
<1>7. \A k \in 1..n : V[k].id = o[k] /\ V[k].tag = Tag(L.state[o[k]])
  BY DEF View
<1> HIDE DEF V
<1>8. IsList(V, Listeners)
  BY <1>1, <1>6, <1>7 DEF IsList
<1>9. Ids(V) = {e \in Listeners : L.state[e] # "free"}
  BY <1>1, <1>6, <1>7 DEF Ids
<1>10. Told(V) = {e \in Listeners : L.state[e] \in Notified}
  <2>1. ASSUME NEW e \in Listeners, L.state[e] \in Notified PROVE e \in Told(V)
    <3>1. L.state[e] # "free"
      BY <2>1 DEF Notified
    <3>2. PICK k \in 1..n : o[k] = e
      BY <3>1, <1>1
    <3>3. V[k].id = e /\ V[k].tag # "wait" /\ k \in DOMAIN V
      BY <2>1, <3>2, <1>1, <1>4, <1>6, <1>7
    <3> QED BY <3>3 DEF Told
  <2>2. ASSUME NEW e \in Told(V) PROVE e \in Listeners /\ L.state[e] \in Notified
    <3>1. PICK k \in DOMAIN V : V[k].tag # "wait" /\ V[k].id = e
      BY DEF Told
    <3> QED BY <3>1, <1>1, <1>4, <1>6, <1>7
  <2> QED BY <2>1, <2>2
<1>11. NotifiedCount(V) = L.notified
  <2>1. {i \in DOMAIN V : V[i].tag # "wait"} = 1..L.notified
    BY <1>1, <1>4, <1>6, <1>7
  <2>2. L.notified \in Nat
    BY <1>1
  <2> QED BY <2>1, <2>2, UpToCount DEF NotifiedCount
<1> QED BY <1>1, <1>4, <1>6, <1>7, <1>8, <1>9, <1>10, <1>11 DEF V

-----------------------------------------------------------------------------
\* Two sequences of the same length and entries are one.
LEMMA SameView ==
    ASSUME NEW E, NEW n \in Nat, NEW s, NEW t, DOMAIN s = 1..n, DOMAIN t = 1..n,
           s = [k \in DOMAIN s |-> s[k]], t = [k \in DOMAIN t |-> t[k]],
           \A k \in 1..n : s[k] = t[k]
    PROVE  s = t
OBVIOUS

\* The list L is sound, and EventSpec has it as V.
Shows(L, V) == \E n, o : Sound(L, n, o) /\ V = View(L, n, o)

\* What a list that is shown as V is like.
LEMMA ShownIs ==
    ASSUME NEW L, NEW V, Shows(L, V)
    PROVE  /\ AbsList(L) = V /\ IsList(V, Listeners)
           /\ Ids(V) = {e \in Listeners : L.state[e] # "free"}
           /\ Told(V) = {e \in Listeners : L.state[e] \in Notified}
           /\ NotifiedCount(V) = L.notified /\ Len(V) = L.len
           /\ L.state \in [Listeners -> States]
           /\ Len(V) \in Nat /\ Len(V) <= Cardinality(Listeners) /\ Cardinality(Listeners) \in Nat
           /\ L.notified \in 0..Len(V)
<1>1. PICK n, o : Sound(L, n, o) /\ V = View(L, n, o)
  BY DEF Shows
<1>2. /\ IsList(V, Listeners) /\ n \in Nat /\ Len(V) = n
      /\ Ids(V) = {e \in Listeners : L.state[e] # "free"}
      /\ Told(V) = {e \in Listeners : L.state[e] \in Notified}
      /\ NotifiedCount(V) = L.notified
  BY <1>1, ViewIs
<1>3. AbsList(L) = V
  BY <1>1, AbsListIs
<1>4. n <= Cardinality(Listeners) /\ Cardinality(Listeners) \in Nat
  BY <1>1, Fits
<1>5. L.len = n /\ L.notified \in 0..n
  BY <1>1 DEF Sound, Lists, Marks
<1>6. L.state \in [Listeners -> States]
  BY <1>1, FieldsOf DEF Sound
<1> QED BY <1>2, <1>3, <1>4, <1>5, <1>6

\* List::new.
LEMMA NewShows == Shows(NewList, NoListeners)
<1>1. View(NewList, 0, [k \in 1..0 |-> NULL]) = NoListeners
  BY DEF View, NoListeners
<1> QED BY <1>1, NewSound DEF Shows

\* insert implements listen.
LEMMA InsertShows ==
    ASSUME NEW L, NEW V, Shows(L, V), NEW e \in Listeners, L.state[e] = "free"
    PROVE  Shows(Insert(L, e), Listen(V, e)) /\ Insert(L, e).state = [L.state EXCEPT ![e] = "created"]
<1>1. PICK n, o : Sound(L, n, o) /\ V = View(L, n, o)
  BY DEF Shows
<1> DEFINE M == Insert(L, e)
           p == [k \in 1..n + 1 |-> IF k <= n THEN o[k] ELSE e]
           W == View(M, n + 1, p)
           r == [id |-> e, tag |-> "wait"]
           X == Listen(V, e)
           E == [id : Listeners, tag : Tags]
<1>2. Sound(M, n + 1, p)
  BY <1>1, InsertSound
<1>3. M.state = [L.state EXCEPT ![e] = "created"]
  BY <1>1, InsertFields DEF Sound
<1>4. /\ n \in Nat /\ o \in [1..n -> Listeners] /\ \A k \in 1..n : o[k] # e
  BY <1>1 DEF Sound, Lists
<1>5. L.state \in [Listeners -> States]
  BY <1>1, FieldsOf DEF Sound
<1>6. V \in Seq(E) /\ Len(V) = n /\ DOMAIN V = 1..n
  <2>1. IsList(V, Listeners) /\ Len(V) = n /\ DOMAIN V = 1..n
    BY <1>1, ViewIs
  <2> QED BY <2>1 DEF IsList
<1>7. r \in E
  BY DEF Tags
<1>8. X = Append(V, r)
  BY DEF Listen
<1>9. X \in Seq(E) /\ DOMAIN X = 1..n + 1 /\ X[n + 1] = r /\ \A k \in 1..n : X[k] = V[k]
  <2> HIDE DEF X, E, r
  <2> QED BY <1>4, <1>6, <1>7, <1>8
<1>10. DOMAIN W = 1..n + 1 /\ \A k \in 1..n + 1 : W[k] = [id |-> p[k], tag |-> Tag(M.state[p[k]])]
  BY DEF View
<1>11. p[n + 1] = e /\ \A k \in 1..n : p[k] = o[k]
  BY <1>4
<1> HIDE DEF p, M
<1>12. ASSUME NEW k \in 1..n + 1 PROVE W[k] = X[k]
  <2>1. CASE k = n + 1
    <3>1. Tag("created") = "wait"
      BY DEF Tag, Notified
    <3> QED BY <2>1, <3>1, <1>3, <1>5, <1>9, <1>10, <1>11
  <2>2. CASE k \in 1..n
    <3>1. V[k] = [id |-> o[k], tag |-> Tag(L.state[o[k]])]
      BY <2>2, <1>1 DEF View
    <3>2. p[k] = o[k] /\ o[k] # e /\ o[k] \in Listeners
      BY <2>2, <1>4, <1>11
    <3>3. M.state[o[k]] = L.state[o[k]]
      BY <3>2, <1>3, <1>5
    <3> QED BY <2>2, <3>1, <3>2, <3>3, <1>9, <1>10
  <2> QED BY <2>1, <2>2, <1>4
<1>13. W = [k \in DOMAIN W |-> W[k]]
  BY DEF View
<1>14. X = [k \in DOMAIN X |-> X[k]]
  <2> HIDE DEF X, E
  <2> QED BY <1>9
<1> HIDE DEF W, X
<1>15. W = X
  BY <1>4, <1>9, <1>10, <1>12, <1>13, <1>14, SameView
<1> QED BY <1>2, <1>3, <1>15 DEF Shows, M, W, X

\* remove implements the loss of an entry.
LEMMA RemoveShows ==
    ASSUME NEW L, NEW V, Shows(L, V), NEW e \in Listeners, L.state[e] # "free"
    PROVE  Shows(Remove(L, e), Without(V, e)) /\ Remove(L, e).state = [L.state EXCEPT ![e] = "free"]
<1>1. PICK n, o : Sound(L, n, o) /\ V = View(L, n, o)
  BY DEF Shows
<1>2. /\ n \in Nat /\ o \in [1..n -> Listeners] /\ \A j, k \in 1..n : o[j] = o[k] => j = k
      /\ \E k \in 1..n : o[k] = e
  BY <1>1 DEF Sound, Lists
<1>3. PICK i \in 1..n : o[i] = e
  BY <1>2
<1> DEFINE M == Remove(L, e)
           p == Out(n, o, i)
           W == View(M, n - 1, p)
           X == Without(V, e)
<1>4. Sound(M, n - 1, p)
  BY <1>1, <1>3, RemoveSound
<1>5. M.state = [L.state EXCEPT ![e] = "free"]
  BY <1>1, RemoveFields DEF Sound
<1>6. L.state \in [Listeners -> States]
  BY <1>1, FieldsOf DEF Sound
<1>7. /\ Len(V) = n /\ DOMAIN V = 1..n
      /\ \A k \in 1..n : V[k].id = o[k] /\ V[k] = [id |-> o[k], tag |-> Tag(L.state[o[k]])]
  BY <1>1, ViewIs DEF View
<1>8. /\ Listening(V, e)
      /\ (CHOOSE j \in DOMAIN V : V[j].id = e) = i
  BY <1>2, <1>3, <1>7 DEF Listening
<1>9. X = [j \in 1..n - 1 |-> IF j < i THEN V[j] ELSE V[j + 1]]
  BY <1>7, <1>8 DEF Without
<1>10. W = [k \in 1..n - 1 |-> [id |-> p[k], tag |-> Tag(M.state[p[k]])]]
  BY DEF View
<1>11. \A k \in 1..n - 1 : p[k] = IF k < i THEN o[k] ELSE o[k + 1]
  BY DEF Out
<1> HIDE DEF M, p, W, X
<1>12. ASSUME NEW k \in 1..n - 1
       PROVE  [id |-> p[k], tag |-> Tag(M.state[p[k]])] = IF k < i THEN V[k] ELSE V[k + 1]
  <2> DEFINE q == IF k < i THEN k ELSE k + 1
  <2>1. q \in 1..n /\ q # i
    BY <1>2
  <2>2. p[k] = o[q] /\ (IF k < i THEN V[k] ELSE V[k + 1]) = V[q]
    BY <1>11
  <2> HIDE DEF q
  <2>3. o[q] # e /\ o[q] \in Listeners
    BY <2>1, <1>2, <1>3
  <2>4. M.state[o[q]] = L.state[o[q]]
    BY <2>3, <1>5, <1>6
  <2>5. V[q] = [id |-> o[q], tag |-> Tag(L.state[o[q]])]
    BY <2>1, <1>7
  <2> QED BY <2>2, <2>4, <2>5
<1>13. W = X
  BY ONLY <1>9, <1>10, <1>12
<1> QED BY <1>4, <1>5, <1>13 DEF Shows, M, W, X

\* To register is not seen.
LEMMA RegisterShows ==
    ASSUME NEW L, NEW V, Shows(L, V), NEW e \in Listeners, NEW s \in {"polling", "waiting"},
           L.state[e] \notin Notified, L.state[e] # "free"
    PROVE  Shows([L EXCEPT !.state[e] = s], V) /\ [L EXCEPT !.state[e] = s].state = [L.state EXCEPT ![e] = s]
<1>1. PICK n, o : Sound(L, n, o) /\ V = View(L, n, o)
  BY DEF Shows
<1> DEFINE M == [L EXCEPT !.state[e] = s]
<1>2. Sound(M, n, o) /\ M.state = [L.state EXCEPT ![e] = s]
  BY <1>1, RegisterSound
<1> HIDE DEF M
<1>3. L.state \in [Listeners -> States] /\ o \in [1..n -> Listeners]
  BY <1>1, FieldsOf DEF Sound, Lists
<1>4. \A k \in 1..n : Tag(M.state[o[k]]) = Tag(L.state[o[k]])
  BY <1>2, <1>3 DEF Tag, Notified
<1>5. View(M, n, o) = View(L, n, o)
  BY <1>4 DEF View
<1> QED BY <1>1, <1>2, <1>5 DEF Shows, M

\* A list whose states are those of L but for some that became notified.
Marked(M, L) ==
    /\ M.state \in [Listeners -> States]
    /\ \A e \in Listeners : /\ M.state[e] = L.state[e] \/ M.state[e] \in Notified
                            /\ M.state[e] = "free" <=> L.state[e] = "free"

\* The loop implements Mark.
LEMMA LoopShows ==
    ASSUME NEW L, NEW V, Shows(L, V), NEW m \in Nat, NEW tag \in Notified
    PROVE  Shows(Loop(L, m, tag), Mark(V, m, tag)) /\ Marked(Loop(L, m, tag), L)
<1>1. PICK n, o : Sound(L, n, o) /\ V = View(L, n, o)
  BY DEF Shows
<1> DEFINE M == Turned(L, n, o, m, tag)
           c == L.notified
           d == Counted(L, n, m)
           X == Mark(V, m, tag)
           Before(i) == {j \in 1..(i - 1) : V[j].tag = "wait"}
<1>2. Loop(L, m, tag) = M /\ Sound(M, n, o)
  BY <1>1, LoopIs, TurnedSound
<1>3. /\ n \in Nat /\ o \in [1..n -> Listeners] /\ \A i, j \in 1..n : o[i] = o[j] => i = j
      /\ c \in 0..n /\ \A k \in 1..n : L.state[o[k]] \in Notified <=> k <= c
      /\ \A e \in Listeners : L.state[e] # "free" <=> \E k \in 1..n : o[k] = e
  BY <1>1 DEF Sound, Lists, Marks
<1>4. d = IF c + m <= n THEN c + m ELSE n
  BY DEF Counted
<1>5. M.state = [e \in Listeners |->
            IF \E j \in 1..n : o[j] = e /\ c < j /\ j <= d THEN tag ELSE L.state[e]]
  BY <1>1, TurnedFields DEF Retagged
<1>6. /\ Len(V) = n /\ DOMAIN V = 1..n
      /\ \A k \in 1..n : /\ V[k].id = o[k] /\ V[k].tag = Tag(L.state[o[k]])
                         /\ V[k].tag # "wait" <=> k <= c
      /\ \A k \in 1..n : V[k] = [id |-> o[k], tag |-> Tag(L.state[o[k]])]
  BY <1>1, ViewIs DEF View
<1>7. X = [i \in 1..n |-> IF V[i].tag = "wait" /\ Cardinality(Before(i)) < m
                          THEN [V[i] EXCEPT !.tag = tag] ELSE V[i]]
  BY <1>6 DEF Mark
<1>8. L.state \in [Listeners -> States] /\ M.state \in [Listeners -> States]
  BY <1>1, <1>2, FieldsOf DEF Sound
<1>9. View(M, n, o) = [i \in 1..n |-> [id |-> o[i], tag |-> Tag(M.state[o[i]])]]
  BY DEF View
<1> HIDE DEF M, d, c, X, Before
<1>10. ASSUME NEW i \in 1..n
       PROVE  [id |-> o[i], tag |-> Tag(M.state[o[i]])]
                = IF V[i].tag = "wait" /\ Cardinality(Before(i)) < m
                  THEN [V[i] EXCEPT !.tag = tag] ELSE V[i]
  <2>1. M.state[o[i]] = IF c < i /\ i <= d THEN tag ELSE L.state[o[i]]
    <3>1. o[i] \in Listeners
      BY <1>3
    <3>2. (\E j \in 1..n : o[j] = o[i] /\ c < j /\ j <= d) <=> (c < i /\ i <= d)
      BY <1>3
    <3> QED BY <3>1, <3>2, <1>5
  <2>2. CASE i <= c
    <3>1. ~(c < i) /\ V[i].tag # "wait"
      BY <2>2, <1>3, <1>6
    <3> QED BY <3>1, <2>1, <1>6
  <2>3. CASE c < i
    <3>1. Before(i) = (c + 1)..(i - 1)
      BY <2>3, <1>3, <1>6 DEF Before
    <3>2. Cardinality(Before(i)) = IF c + 1 > i - 1 THEN 0 ELSE (i - 1) - (c + 1) + 1
      <4>1. c + 1 \in Int /\ i - 1 \in Int
        BY <1>3
      <4> QED BY <3>1, <4>1, FS_Interval
    <3>3. Cardinality(Before(i)) < m <=> i <= d
      BY <3>2, <2>3, <1>3, <1>4
    <3>4. V[i].tag = "wait"
      BY <2>3, <1>3, <1>6
    <3>5. Tag(tag) = tag
      BY DEF Tag
    <3>6. V[i] = [id |-> o[i], tag |-> Tag(L.state[o[i]])]
      BY <1>6
    <3>7. [V[i] EXCEPT !.tag = tag] = [id |-> o[i], tag |-> tag]
      BY <3>6
    <3> QED BY <3>3, <3>4, <3>5, <3>6, <3>7, <2>1, <2>3
  <2> QED BY <2>2, <2>3, <1>3
<1>11. View(M, n, o) = X
  BY ONLY <1>7, <1>9, <1>10
<1>12. Marked(M, L)
  <2>1. ASSUME NEW e \in Listeners
        PROVE  /\ M.state[e] = L.state[e] \/ M.state[e] \in Notified
               /\ M.state[e] = "free" <=> L.state[e] = "free"
    <3>1. M.state[e] = L.state[e] \/ M.state[e] \in Notified
      BY <1>5
    <3>2. M.state[e] = "free" <=> L.state[e] = "free"
      BY <1>2, <1>3 DEF Sound, Lists
    <3> QED BY <3>1, <3>2
  <2> QED BY <2>1, <1>8 DEF Marked
<1> QED BY <1>2, <1>11, <1>12 DEF Shows, M, X

\* notify implements Notify.
LEMMA NotifyShows ==
    ASSUME NEW L, NEW V, Shows(L, V), NEW m \in Nat
    PROVE  /\ Shows(NotifyUpTo(L, m), Notify(V, m)) /\ Marked(NotifyUpTo(L, m), L)
           /\ Shows(NotifyMore(L, m), NotifyAdditional(V, m)) /\ Marked(NotifyMore(L, m), L)
<1>1. NotifiedCount(V) = L.notified /\ L.state \in [Listeners -> States] /\ L.notified \in Nat
  BY ShownIs
<1>2. "one" \in Notified /\ "add" \in Notified
  BY DEF Notified
<1>3. CASE m <= L.notified
  <2>1. NotifyUpTo(L, m) = L /\ Notify(V, m) = V
    BY <1>1, <1>3 DEF NotifyUpTo, Notify
  <2> QED BY <2>1, <1>1, <1>2, LoopShows DEF Marked, NotifyMore, NotifyAdditional
<1>4. CASE ~(m <= L.notified)
  <2>1. m - L.notified \in Nat
    BY <1>1, <1>4
  <2>2. /\ NotifyUpTo(L, m) = Loop(L, m - L.notified, "one")
        /\ Notify(V, m) = Mark(V, m - L.notified, "one")
    BY <1>1, <1>4 DEF NotifyUpTo, Notify
  <2> QED BY <2>1, <2>2, <1>2, LoopShows DEF NotifyMore, NotifyAdditional
<1> QED BY <1>3, <1>4

\* The drop of a listener implements DropListener.
LEMMA DropShows ==
    ASSUME NEW L, NEW V, Shows(L, V), NEW e \in Listeners, L.state[e] # "free"
    PROVE  /\ Shows(DropEntry(L, e), DropListener(V, e))
           /\ Marked(DropEntry(L, e), Remove(L, e))
<1> DEFINE R == Remove(L, e)
           W == Without(V, e)
           tags == {V[i].tag : i \in {j \in DOMAIN V : V[j].id = e}}
<1>1. Shows(R, W) /\ R.state = [L.state EXCEPT ![e] = "free"]
  BY RemoveShows
<1>2. tags = {Tag(L.state[e])}
  <2>1. PICK n, o : Sound(L, n, o) /\ V = View(L, n, o)
    BY DEF Shows
  <2>2. /\ \A j, k \in 1..n : o[j] = o[k] => j = k
        /\ \E k \in 1..n : o[k] = e
    BY <2>1 DEF Sound, Lists
  <2>3. DOMAIN V = 1..n /\ \A k \in 1..n : V[k].id = o[k] /\ V[k].tag = Tag(L.state[o[k]])
    BY <2>1, ViewIs
  <2> QED BY <2>2, <2>3
<1>3. DropListener(V, e) = IF "one" \in tags THEN Notify(W, 1)
                           ELSE IF "add" \in tags THEN NotifyAdditional(W, 1) ELSE W
  BY DEF DropListener
<1>4. DropEntry(L, e) = CASE L.state[e] = "one" -> NotifyUpTo(R, 1)
                          [] L.state[e] = "add" -> NotifyMore(R, 1)
                          [] OTHER -> R
  BY DEF DropEntry
<1>5. R.state \in [Listeners -> States]
  BY <1>1, ShownIs
<1>6. Marked(R, R)
  BY <1>5 DEF Marked
<1> HIDE DEF R, W, tags
<1>7. /\ Shows(NotifyUpTo(R, 1), Notify(W, 1)) /\ Marked(NotifyUpTo(R, 1), R)
      /\ Shows(NotifyMore(R, 1), NotifyAdditional(W, 1)) /\ Marked(NotifyMore(R, 1), R)
  BY <1>1, NotifyShows
<1>8. CASE L.state[e] = "one"
  <2>1. "one" \in tags
    BY <1>2, <1>8 DEF Tag, Notified
  <2>2. DropListener(V, e) = Notify(W, 1) /\ DropEntry(L, e) = NotifyUpTo(R, 1)
    BY <2>1, <1>3, <1>4, <1>8
  <2> QED BY <2>2, <1>7 DEF R
<1>9. CASE L.state[e] = "add"
  <2>1. "one" \notin tags /\ "add" \in tags
    BY <1>2, <1>9 DEF Tag, Notified
  <2>2. DropListener(V, e) = NotifyAdditional(W, 1) /\ DropEntry(L, e) = NotifyMore(R, 1)
    BY <2>1, <1>3, <1>4, <1>9
  <2> QED BY <2>2, <1>7 DEF R
<1>10. CASE L.state[e] \notin {"one", "add"}
  <2>1. "one" \notin tags /\ "add" \notin tags
    BY <1>2, <1>10 DEF Tag, Notified
  <2>2. DropListener(V, e) = W /\ DropEntry(L, e) = R
    BY <2>1, <1>3, <1>4, <1>10
  <2> QED BY <2>2, <1>1, <1>6 DEF R, W
<1> QED BY <1>8, <1>9, <1>10

\* Where all are notified there is nobody to mark.
LEMMA NothingToMark ==
    ASSUME NEW L, NEW V, Shows(L, V), NEW m \in Nat, NEW tag \in Notified,
           NotifiedCount(V) = Len(V)
    PROVE  Mark(V, m, tag) = V
<1>1. PICK n, o : Sound(L, n, o) /\ V = View(L, n, o)
  BY DEF Shows
<1>2. /\ DOMAIN V = 1..n /\ Len(V) = n /\ NotifiedCount(V) = L.notified
      /\ \A k \in 1..n : V[k].tag # "wait" <=> k <= L.notified
  BY <1>1, ViewIs
<1>3. V = [k \in 1..n |-> V[k]]
  BY <1>1 DEF View
<1>4. n \in Nat
  BY <1>1 DEF Sound, Lists
<1>5. \A k \in 1..n : V[k].tag # "wait"
  BY <1>2, <1>4
<1> QED BY <1>2, <1>3, <1>5 DEF Mark

\* A list that is shown is sound as the property says.
LEMMA ShownSound == ASSUME NEW V, Shows(lst, V) PROVE ListSound
<1>1. PICK n, o : Sound(lst, n, o) /\ V = View(lst, n, o)
  BY DEF Shows
<1>2. Order(lst) = o
  BY <1>1, OrderIs
<1>3. /\ n \in Nat /\ o \in [1..n -> Listeners] /\ \A i, j \in 1..n : o[i] = o[j] => i = j
      /\ \A e \in Listeners : lst.state[e] # "free" <=> \E k \in 1..n : o[k] = e
      /\ lst.len = n
  BY <1>1 DEF Sound, Lists
<1>4. DOMAIN o = 1..n /\ Len(o) = n /\ (o = <<>> <=> n = 0)
  BY <1>3
<1> DEFINE live == {l \in Listeners : lst.state[l] # "free"}
           stored == {l \in Listeners : lst.cached[l]}
<1>5. {o[k] : k \in DOMAIN o} = live
  BY <1>3, <1>4
<1>6. Cardinality(live) = n
  <2>1. IsFiniteSet(1..n) /\ Cardinality(1..n) = n
    BY <1>3, UpToCount
  <2>2. o \in Bijection(1..n, live)
    <3>1. o \in [1..n -> live] /\ \A x \in live : \E k \in 1..n : o[k] = x
      BY <1>3, <1>5, <1>4
    <3> HIDE DEF live
    <3>2. o \in Injection(1..n, live)
      BY <3>1, <1>3 DEF Injection, IsInjective
    <3>3. o \in Surjection(1..n, live)
      BY <3>1 DEF Surjection
    <3> QED BY <3>2, <3>3 DEF Bijection
  <2> QED BY <2>1, <2>2, FS_Bijection DEF ExistsBijection
<1>7. /\ lst.tail = IF o = <<>> THEN NULL ELSE o[Len(o)]
      /\ \A k \in DOMAIN o : lst.prev[o[k]] = IF k = 1 THEN NULL ELSE o[k - 1]
  BY <1>1, <1>4 DEF Sound, Links
<1>8. /\ \A k \in DOMAIN o : lst.state[o[k]] \in Notified <=> k <= lst.notified
      /\ lst.start = IF lst.notified < Len(o) THEN o[lst.notified + 1] ELSE NULL
  BY <1>1, <1>4 DEF Sound, Marks
<1>9. /\ \A x \in Listeners : lst.cached[x] => lst.state[x] # "free"
      /\ lst.cache_used <=> (\E x \in Listeners : lst.cached[x])
      /\ \A d, x \in Listeners : lst.cached[d] /\ lst.cached[x] => d = x
  BY <1>1 DEF Sound, Cache
<1>10. {l \in live : lst.cached[l]} = {} <=> ~lst.cache_used
  BY <1>9
<1>11. Cardinality(stored) <= 1
  <2>1. CASE stored = {}
    BY <2>1, FS_EmptySet
  <2>2. CASE stored # {}
    <3>1. PICK e \in stored : TRUE
      BY <2>2
    <3>2. stored = {e}
      BY <3>1, <1>9
    <3>3. Cardinality({e}) = 1
      BY FS_Singleton
    <3> QED BY <3>2, <3>3
  <2> QED BY <2>1, <2>2
<1> HIDE DEF live, stored
<1> QED BY <1>2, <1>3, <1>4, <1>5, <1>6, <1>7, <1>8, <1>10, <1>11 DEF ListSound, live, stored

-----------------------------------------------------------------------------
ListenerPcs == {"none", "inner", "alloc", "insert", "idle_x", "idle", "poll", "wait", "park_x",
                "park", "rewait", "expired", "discard", "drop", "gone_x"}
NotifierPcs == {"none", "load", "notify", "additional", "x"}

\* Where an actor holds the Mutex, where a listener has no entry, and where it
\* has none, or one, and does not hold the Mutex.
HeldPcs   == {"idle_x", "park_x", "gone_x", "x"}
FreePcs   == {"none", "inner", "alloc", "insert", "gone_x"}
AbsentPcs == FreePcs \ HeldPcs
ListedPcs == ListenerPcs \ (FreePcs \cup HeldPcs)
EarlyPcs  == {"none", "inner", "alloc", "load"}

\* The call a listener is in where it is, and that of a notifier.
ListenerCallOK(at, c) ==
    /\ c.n = 0
    /\ \/ at \in {"none", "idle"} /\ c = NoCall
       \/ at \in {"inner", "alloc", "insert"} /\ c.op = "listen"
       \/ at \in {"poll", "wait", "park_x", "park", "rewait"} /\ c.op = "take"
       \/ at = "expired" /\ c.op = "timeout"
       \/ at = "discard" /\ c.op = "discard"
       \/ at = "drop" /\ c.op = "drop"
       \/ at = "idle_x" /\ c.op \in {"listen", "take"}
       \/ at = "gone_x" /\ c.op \in {"take", "timeout", "discard", "drop"}
NotifierCallOK(at, c) ==
    \/ at = "none" /\ c = NoCall
    \/ at \in {"load", "x"} /\ c.op \in {"notify", "additional"} /\ c.n \in Nat
    \/ at = "notify" /\ c.op = "notify" /\ c.n \in Nat
    \/ at = "additional" /\ c.op = "additional" /\ c.n \in Nat

\* The work of actor a, who holds the Mutex at `at`: it took the list from S to W.
DoneBy(a, at, c, S, W) ==
    \/ at = "idle_x" /\ c.op = "listen" /\ W = Listen(S, a)
    \/ at = "idle_x" /\ c.op = "take" /\ ~IsNotified(S, a) /\ W = S
    \/ at = "park_x" /\ W = S
    \/ at = "gone_x" /\ c.op = "take" /\ IsNotified(S, a) /\ W = Consume(S, a)
    \/ at = "gone_x" /\ c.op \in {"timeout", "discard"} /\ W = Consume(S, a)
    \/ at = "gone_x" /\ c.op = "drop" /\ W = DropListener(S, a)
    \/ at = "x" /\ c.op = "notify" /\ W = Notify(S, c.n)
    \/ at = "x" /\ c.op = "additional" /\ W = NotifyAdditional(S, c.n)

\* Where everybody is.
PlacesInv ==
    /\ DOMAIN pc = Actors /\ DOMAIN call = Actors /\ inner \in BOOLEAN
    /\ call = [a \in Actors |-> [op |-> call[a].op, n |-> call[a].n]]
    /\ \A l \in Listeners : pc[l] \in ListenerPcs /\ ListenerCallOK(pc[l], call[l])
    /\ \A m \in Notifiers : pc[m] \in NotifierPcs /\ NotifierCallOK(pc[m], call[m])
    /\ holder \in Actors \cup {NULL}
    /\ \A a \in Actors : holder = a <=> pc[a] \in HeldPcs

\* The list, and who is in it.
ListInv ==
    /\ \E V : Shows(lst, V)
    /\ \A l \in Listeners : lst.state[l] = "free" <=> pc[l] \in FreePcs
    /\ asleep \subseteq Listeners
    /\ \A l \in asleep : lst.state[l] \in {"polling", "waiting"}

\* What the others know of it: the list as it was when the Mutex was last
\* released, from which the work of who holds it started.
Viewed(V) == \E L : Shows(L, V)
ShownInv ==
    /\ Viewed(shown)
    /\ hint = (IF NotifiedCount(shown) < Len(shown) THEN NotifiedCount(shown) ELSE UMAX)
    /\ holder = NULL => Shows(lst, shown)
    /\ \A a \in Actors : pc[a] \in HeldPcs =>
          \E W : Shows(lst, W) /\ DoneBy(a, pc[a], call[a], shown, W)
    /\ \A l \in Listeners : /\ pc[l] \in AbsentPcs => l \notin Ids(shown)
                            /\ pc[l] \in ListedPcs => l \in Ids(shown)
    /\ ~inner => shown = NoListeners /\ \A a \in Actors : pc[a] \in EarlyPcs

EventInv == PlacesInv /\ ListInv /\ ShownInv

\* What the invariant says.
LEMMA EventInvSays == EventInv => EventSound
<1> SUFFICES ASSUME EventInv PROVE EventSound
  OBVIOUS
<1>1. ListSound
  BY ShownSound DEF EventInv, ListInv
<1>2. NoMissedWake
  BY DEF EventInv, ListInv, NoMissedWake, Notified
<1> QED BY <1>1, <1>2 DEF EventSound

\* It holds first.
LEMMA EventInvInit == Init => EventInv
<1> SUFFICES ASSUME Init PROVE EventInv
  OBVIOUS
<1>1. /\ inner = FALSE /\ lst = NewList /\ holder = NULL /\ hint = UMAX
      /\ pc = [a \in Actors |-> "none"] /\ call = [a \in Actors |-> NoCall]
      /\ asleep = {} /\ shown = NoListeners
  BY DEF Init, Actors, NoListeners
<1>2. \A a \in Actors : pc[a] = "none" /\ call[a] = NoCall /\ a # NULL
  BY <1>1, NullIsNone DEF Actors
<1>3. PlacesInv
  <2>1. \A l \in Listeners : pc[l] \in ListenerPcs /\ ListenerCallOK(pc[l], call[l])
    BY <1>2 DEF Actors, ListenerPcs, ListenerCallOK, NoCall
  <2>2. \A m \in Notifiers : pc[m] \in NotifierPcs /\ NotifierCallOK(pc[m], call[m])
    BY <1>2 DEF Actors, NotifierPcs, NotifierCallOK, NoCall
  <2>3. \A a \in Actors : holder = a <=> pc[a] \in HeldPcs
    BY <1>1, <1>2 DEF HeldPcs
  <2>4. call = [a \in Actors |-> [op |-> call[a].op, n |-> call[a].n]]
    BY <1>1 DEF NoCall
  <2> QED BY <2>1, <2>2, <2>3, <2>4, <1>1 DEF PlacesInv
<1>4. Shows(lst, NoListeners)
  BY <1>1, NewShows
<1>5. /\ \A l \in Listeners : lst.state[l] = "free"
      /\ Ids(NoListeners) = {}
  BY <1>1, EmptyList DEF NewList
<1>6. ListInv
  BY <1>1, <1>2, <1>4, <1>5 DEF ListInv, FreePcs, Actors
<1>7. ShownInv
  <2>1. NotifiedCount(shown) = Len(shown)
    <3>1. NotifiedCount(shown) \in 0..Len(shown) /\ Len(shown) = 0
      BY <1>1, <1>4, ShownIs DEF NoListeners
    <3> QED BY <3>1
  <2>2. Len(shown) = 0
    BY <1>1 DEF NoListeners
  <2>3. \A a \in Actors : pc[a] \notin HeldPcs /\ pc[a] \notin ListedPcs /\ pc[a] \in EarlyPcs
    BY <1>2 DEF HeldPcs, ListedPcs, FreePcs, EarlyPcs
  <2> QED BY <2>1, <2>2, <2>3, <1>1, <1>4, <1>5 DEF ShownInv, Viewed, Actors
<1> QED BY <1>3, <1>6, <1>7 DEF EventInv

\* A step of one actor that leaves the Mutex and the list alone.
LEMMA QuietKeeps ==
    ASSUME EventInv, NEW a \in Actors, NEW to, NEW c,
           pc' = [pc EXCEPT ![a] = to], call' = [call EXCEPT ![a] = c],
           c = [op |-> c.op, n |-> c.n],
           UNCHANGED <<lst, holder, hint, shown>>, asleep' \subseteq asleep,
           inner' \in BOOLEAN, inner => inner', ~inner' => to \in EarlyPcs,
           pc[a] \notin HeldPcs, to \notin HeldPcs,
           a \in Listeners => /\ to \in ListenerPcs /\ ListenerCallOK(to, c)
                              /\ pc[a] \in FreePcs <=> to \in FreePcs,
           a \in Notifiers => to \in NotifierPcs /\ NotifierCallOK(to, c)
    PROVE  EventInv'
<1>1. /\ DOMAIN pc = Actors /\ DOMAIN call = Actors /\ inner \in BOOLEAN
      /\ call = [b \in Actors |-> [op |-> call[b].op, n |-> call[b].n]]
      /\ \A l \in Listeners : pc[l] \in ListenerPcs /\ ListenerCallOK(pc[l], call[l])
      /\ \A m \in Notifiers : pc[m] \in NotifierPcs /\ NotifierCallOK(pc[m], call[m])
      /\ holder \in Actors \cup {NULL}
      /\ \A b \in Actors : holder = b <=> pc[b] \in HeldPcs
  BY DEF EventInv, PlacesInv
<1>2. /\ DOMAIN pc' = Actors /\ pc'[a] = to /\ \A b \in Actors : b # a => pc'[b] = pc[b]
      /\ DOMAIN call' = Actors /\ call'[a] = c /\ \A b \in Actors : b # a => call'[b] = call[b]
  BY <1>1
<1>3. Listeners \subseteq Actors /\ Notifiers \subseteq Actors
  BY DEF Actors
<1>4. PlacesInv'
  <2>1. \A l \in Listeners : pc'[l] \in ListenerPcs /\ ListenerCallOK(pc'[l], call'[l])
    BY <1>1, <1>2, <1>3
  <2>2. \A m \in Notifiers : pc'[m] \in NotifierPcs /\ NotifierCallOK(pc'[m], call'[m])
    BY <1>1, <1>2, <1>3
  <2>3. call' = [b \in Actors |-> [op |-> call'[b].op, n |-> call'[b].n]]
    <3>1. \A b \in Actors : call'[b] = [op |-> call'[b].op, n |-> call'[b].n]
      BY <1>1, <1>2
    <3>2. call' = [b \in Actors |-> call'[b]]
      BY <1>1
    <3> QED BY <3>1, <3>2
  <2>4. \A b \in Actors : holder' = b <=> pc'[b] \in HeldPcs
    BY <1>1, <1>2
  <2> QED BY <1>1, <1>2, <2>1, <2>2, <2>3, <2>4 DEF PlacesInv
<1>5. \A l \in Listeners : pc'[l] \in FreePcs <=> pc[l] \in FreePcs
  BY <1>2, <1>3
<1>6. ListInv'
  BY <1>5 DEF EventInv, ListInv
<1>7. ShownInv'
  <2>1. Viewed(shown)'
    BY DEF EventInv, ShownInv, Viewed
  <2>2. ASSUME NEW b \in Actors, pc'[b] \in HeldPcs
        PROVE  \E W : Shows(lst', W) /\ DoneBy(b, pc'[b], call'[b], shown', W)
    <3>1. b # a /\ pc'[b] = pc[b] /\ call'[b] = call[b]
      BY <2>2, <1>2
    <3> QED BY <2>2, <3>1 DEF EventInv, ShownInv
  <2>3. ASSUME NEW l \in Listeners
        PROVE  /\ pc'[l] \in AbsentPcs => l \notin Ids(shown')
               /\ pc'[l] \in ListedPcs => l \in Ids(shown')
    <3>1. pc'[l] \in HeldPcs <=> pc[l] \in HeldPcs
      BY <1>2, <1>3
    <3>2. pc'[l] \in ListenerPcs /\ pc[l] \in ListenerPcs
      BY <1>1, <1>4 DEF PlacesInv
    <3>3. /\ pc'[l] \in AbsentPcs <=> pc[l] \in AbsentPcs
          /\ pc'[l] \in ListedPcs <=> pc[l] \in ListedPcs
      BY <3>1, <3>2, <1>5 DEF AbsentPcs, ListedPcs
    <3> QED BY <3>3 DEF EventInv, ShownInv
  <2>4. ~inner' => shown' = NoListeners /\ \A b \in Actors : pc'[b] \in EarlyPcs
    BY <1>2 DEF EventInv, ShownInv
  <2>5. /\ hint' = (IF NotifiedCount(shown') < Len(shown') THEN NotifiedCount(shown') ELSE UMAX)
        /\ holder' = NULL => Shows(lst', shown')
    BY DEF EventInv, ShownInv
  <2> QED BY <2>1, <2>2, <2>3, <2>4, <2>5 DEF ShownInv, UMAX
<1> QED BY <1>4, <1>6, <1>7 DEF EventInv

\* The work of one actor under the lock.
LEMMA LockedKeeps ==
    ASSUME EventInv, NEW a \in Actors, NEW in, NEW out, NEW L, NEW W, NEW sleeper,
           Locked(a, in, L, out, sleeper), in \notin EarlyPcs,
           Shows(L, W), DoneBy(a, out, call[a], shown, W), out \in HeldPcs,
           \A l \in Listeners \ {a} : /\ L.state[l] = lst.state[l] \/ L.state[l] \in Notified
                                      /\ L.state[l] = "free" <=> lst.state[l] = "free",
           a \in Listeners => /\ out \in ListenerPcs /\ ListenerCallOK(out, call[a])
                              /\ L.state[a] = "free" <=> out \in FreePcs,
           a \in Notifiers => out \in NotifierPcs /\ NotifierCallOK(out, call[a]),
           sleeper = {} \/ (a \in Listeners /\ sleeper = {a} /\ L.state[a] \in {"polling", "waiting"})
    PROVE  EventInv'
<1>1. /\ DOMAIN pc = Actors /\ DOMAIN call = Actors /\ inner \in BOOLEAN
      /\ call = [b \in Actors |-> [op |-> call[b].op, n |-> call[b].n]]
      /\ \A l \in Listeners : pc[l] \in ListenerPcs /\ ListenerCallOK(pc[l], call[l])
      /\ \A m \in Notifiers : pc[m] \in NotifierPcs /\ NotifierCallOK(pc[m], call[m])
      /\ holder \in Actors \cup {NULL}
      /\ \A b \in Actors : holder = b <=> pc[b] \in HeldPcs
  BY DEF EventInv, PlacesInv
<1>2. /\ pc[a] = in /\ holder = NULL /\ holder' = a /\ lst' = L
      /\ asleep' = ((asleep \ {a}) \cup sleeper) \ Woken(L)
      /\ pc' = [pc EXCEPT ![a] = out] /\ UNCHANGED <<inner, hint, call, shown>>
  BY DEF Locked, Goto
<1>3. Listeners \subseteq Actors /\ Notifiers \subseteq Actors /\ NULL \notin Actors
  BY NullIsNone DEF Actors
<1>4. DOMAIN pc' = Actors /\ pc'[a] = out /\ \A b \in Actors : b # a => pc'[b] = pc[b]
  BY <1>1, <1>2
<1>5. \A b \in Actors : pc[b] \notin HeldPcs
  BY <1>1, <1>2, <1>3
<1>6. PlacesInv'
  <2>1. \A l \in Listeners : pc'[l] \in ListenerPcs /\ ListenerCallOK(pc'[l], call[l])
    BY <1>1, <1>3, <1>4
  <2>2. \A m \in Notifiers : pc'[m] \in NotifierPcs /\ NotifierCallOK(pc'[m], call[m])
    BY <1>1, <1>3, <1>4
  <2>3. \A b \in Actors : holder' = b <=> pc'[b] \in HeldPcs
    BY <1>2, <1>4, <1>5
  <2> QED BY <1>1, <1>2, <1>4, <2>1, <2>2, <2>3 DEF PlacesInv
<1>7. ListInv'
  <2>0. /\ \A l \in Listeners : lst.state[l] = "free" <=> pc[l] \in FreePcs
        /\ asleep \subseteq Listeners /\ \A l \in asleep : lst.state[l] \in {"polling", "waiting"}
    BY DEF EventInv, ListInv
  <2>1. \A l \in Listeners : L.state[l] = "free" <=> pc'[l] \in FreePcs
    BY <2>0, <1>3, <1>4
  <2>2. asleep' \subseteq Listeners
    BY <2>0, <1>2
  <2>3. ASSUME NEW l \in asleep' PROVE L.state[l] \in {"polling", "waiting"}
    <3>1. CASE l = a
      BY <3>1, <2>3, <1>2
    <3>2. CASE l # a
      <4>1. l \in asleep /\ l \in Listeners /\ l \notin Woken(L) /\ lst.state[l] \in {"polling", "waiting"}
        BY <3>2, <2>0, <2>3, <1>2
      <4>2. L.state[l] \notin Notified
        BY <4>1 DEF Woken
      <4>3. L.state[l] = lst.state[l]
        BY <3>2, <4>1, <4>2
      <4> QED BY <4>1, <4>3
    <3> QED BY <3>1, <3>2
  <2> QED BY <1>2, <2>1, <2>2, <2>3 DEF ListInv
<1>8. ShownInv'
  <2>1. Viewed(shown)'
    BY <1>2 DEF EventInv, ShownInv, Viewed
  <2>2. ASSUME NEW b \in Actors, pc'[b] \in HeldPcs
        PROVE  \E V : Shows(lst', V) /\ DoneBy(b, pc'[b], call'[b], shown', V)
    <3>1. b = a
      BY <2>2, <1>4, <1>5
    <3> QED BY <3>1, <1>2, <1>4
  <2>3. ASSUME NEW l \in Listeners
        PROVE  /\ pc'[l] \in AbsentPcs => l \notin Ids(shown)
               /\ pc'[l] \in ListedPcs => l \in Ids(shown)
    <3>1. CASE l = a
      BY <3>1, <1>4 DEF AbsentPcs, ListedPcs
    <3>2. CASE l # a
      BY <3>2, <1>3, <1>4 DEF EventInv, ShownInv
    <3> QED BY <3>1, <3>2
  <2>4. inner
    BY <1>1, <1>2 DEF EventInv, ShownInv
  <2>5. hint = (IF NotifiedCount(shown) < Len(shown) THEN NotifiedCount(shown) ELSE UMAX)
    BY DEF EventInv, ShownInv
  <2>6. holder' # NULL
    BY <1>2, <1>3
  <2> QED BY <1>2, <2>1, <2>2, <2>3, <2>4, <2>5, <2>6 DEF ShownInv, UMAX
<1> QED BY <1>6, <1>7, <1>8 DEF EventInv

\* ListGuard::drop.
LEMMA UnlockKeeps ==
    ASSUME EventInv, NEW a \in Actors, NEW in, NEW next,
           Unlock(a, in, next), in \in HeldPcs, next \notin HeldPcs,
           a \in Listeners => /\ next \in ListenerPcs /\ ListenerCallOK(next, call'[a])
                              /\ in \in FreePcs <=> next \in FreePcs,
           a \in Notifiers => next \in NotifierPcs /\ NotifierCallOK(next, call'[a])
    PROVE  /\ EventInv'
           /\ \E W : DoneBy(a, in, call[a], shown, W) /\ shown' = W
<1>1. /\ DOMAIN pc = Actors /\ DOMAIN call = Actors /\ inner \in BOOLEAN
      /\ call = [b \in Actors |-> [op |-> call[b].op, n |-> call[b].n]]
      /\ \A l \in Listeners : pc[l] \in ListenerPcs /\ ListenerCallOK(pc[l], call[l])
      /\ \A m \in Notifiers : pc[m] \in NotifierPcs /\ NotifierCallOK(pc[m], call[m])
      /\ holder \in Actors \cup {NULL}
      /\ \A b \in Actors : holder = b <=> pc[b] \in HeldPcs
  BY DEF EventInv, PlacesInv
<1>2. /\ pc[a] = in /\ hint' = HintOf(lst) /\ holder' = NULL /\ shown' = AbsList(lst)
      /\ pc' = [pc EXCEPT ![a] = next]
      /\ call' = (IF next = "park" THEN call ELSE [call EXCEPT ![a] = NoCall])
      /\ UNCHANGED <<inner, lst, asleep>>
  BY DEF Unlock, Goto
<1>3. Listeners \subseteq Actors /\ Notifiers \subseteq Actors /\ NULL \notin Actors
  BY NullIsNone DEF Actors
<1>4. DOMAIN pc' = Actors /\ pc'[a] = next /\ \A b \in Actors : b # a => pc'[b] = pc[b]
  BY <1>1, <1>2
<1>5. DOMAIN call' = Actors /\ \A b \in Actors : b # a => call'[b] = call[b]
  BY <1>1, <1>2
<1>6. \A b \in Actors : pc'[b] \notin HeldPcs
  BY <1>1, <1>2, <1>4
<1>7. PICK W : Shows(lst, W) /\ DoneBy(a, in, call[a], shown, W)
  BY <1>2 DEF EventInv, ShownInv
<1>8. /\ AbsList(lst) = W /\ NotifiedCount(W) = lst.notified /\ Len(W) = lst.len
      /\ Ids(W) = {e \in Listeners : lst.state[e] # "free"}
  BY <1>7, ShownIs
<1>9. shown' = W
  BY <1>2, <1>8
<1>10. PlacesInv'
  <2>1. \A l \in Listeners : pc'[l] \in ListenerPcs /\ ListenerCallOK(pc'[l], call'[l])
    BY <1>1, <1>3, <1>4, <1>5
  <2>2. \A m \in Notifiers : pc'[m] \in NotifierPcs /\ NotifierCallOK(pc'[m], call'[m])
    BY <1>1, <1>3, <1>4, <1>5
  <2>3. call' = [b \in Actors |-> [op |-> call'[b].op, n |-> call'[b].n]]
    <3>1. \A b \in Actors : call'[b] = [op |-> call'[b].op, n |-> call'[b].n]
      BY <1>1, <1>2 DEF NoCall
    <3>2. call' = [b \in Actors |-> call'[b]]
      BY <1>1, <1>2
    <3> QED BY <3>1, <3>2
  <2>4. \A b \in Actors : holder' = b <=> pc'[b] \in HeldPcs
    BY <1>2, <1>3, <1>6
  <2> QED BY <1>1, <1>2, <1>4, <1>5, <2>1, <2>2, <2>3, <2>4 DEF PlacesInv
<1>11. \A l \in Listeners : lst.state[l] = "free" <=> pc'[l] \in FreePcs
  BY <1>2, <1>3, <1>4 DEF EventInv, ListInv
<1>12. ListInv'
  BY <1>2, <1>11 DEF EventInv, ListInv
<1>13. ShownInv'
  <2>1. Viewed(shown)' /\ Shows(lst', shown')
    BY <1>2, <1>7, <1>9 DEF Viewed
  <2>2. hint' = IF NotifiedCount(shown') < Len(shown') THEN NotifiedCount(shown') ELSE UMAX
    BY <1>2, <1>8, <1>9 DEF HintOf
  <2>3. \A l \in Listeners : /\ pc'[l] \in AbsentPcs => l \notin Ids(shown')
                             /\ pc'[l] \in ListedPcs => l \in Ids(shown')
    BY <1>8, <1>9, <1>11 DEF AbsentPcs, ListedPcs
  <2>4. inner
    <3>1. pc[a] \notin EarlyPcs
      BY <1>2 DEF HeldPcs, EarlyPcs
    <3> QED BY <3>1, <1>1 DEF EventInv, ShownInv
  <2> QED BY <1>2, <1>6, <2>1, <2>2, <2>3, <2>4 DEF ShownInv, UMAX
<1> QED BY <1>7, <1>9, <1>10, <1>12, <1>13 DEF EventInv

-----------------------------------------------------------------------------
\* EventSpec speaks of the same operators.
LEMMA SameOperators ==
    /\ Abstract!None = NoCall /\ Abstract!NoListeners = NoListeners
    /\ \A S, a : /\ Abstract!Listening(S, a) <=> Listening(S, a)
                 /\ Abstract!IsNotified(S, a) <=> IsNotified(S, a)
                 /\ Abstract!Listen(S, a) = Listen(S, a)
                 /\ Abstract!Consume(S, a) = Consume(S, a)
                 /\ Abstract!DropListener(S, a) = DropListener(S, a)
    /\ \A S, k : /\ Abstract!Notify(S, k) = Notify(S, k)
                 /\ Abstract!NotifyAdditional(S, k) = NotifyAdditional(S, k)
<1>1. Abstract!None = NoCall /\ Abstract!NoListeners = NoListeners
  BY DEF Abstract!None, NoCall, Abstract!NoListeners, NoListeners
<1>2. ASSUME NEW S, NEW a PROVE Abstract!Listening(S, a) = Listening(S, a)
  BY DEF Abstract!Listening, Listening
<1>3. ASSUME NEW S, NEW a PROVE Abstract!IsNotified(S, a) <=> IsNotified(S, a)
  BY DEF Abstract!IsNotified, IsNotified
<1>4. ASSUME NEW S, NEW a PROVE Abstract!Listen(S, a) = Listen(S, a)
  BY DEF Abstract!Listen, Listen
<1>5. ASSUME NEW S, NEW a PROVE Abstract!Without(S, a) = Without(S, a)
  BY Zenon DEF Abstract!Without, Without, Abstract!Listening, Listening
<1>c. ASSUME NEW S PROVE Abstract!Cardinality(S) = Cardinality(S)
  BY Zenon DEF Abstract!Cardinality, Cardinality
<1>6. ASSUME NEW S, NEW k, NEW tag PROVE Abstract!Mark(S, k, tag) = Mark(S, k, tag)
  BY <1>c DEF Abstract!Mark, Mark
<1>7. ASSUME NEW S PROVE Abstract!NotifiedCount(S) = NotifiedCount(S)
  BY <1>c DEF Abstract!NotifiedCount, NotifiedCount
<1>8. ASSUME NEW S, NEW k
      PROVE  /\ Abstract!Notify(S, k) = Notify(S, k)
             /\ Abstract!NotifyAdditional(S, k) = NotifyAdditional(S, k)
  BY <1>6, <1>7 DEF Abstract!Notify, Notify, Abstract!NotifyAdditional, NotifyAdditional
<1>9. ASSUME NEW S, NEW a PROVE Abstract!Consume(S, a) = Consume(S, a)
  BY <1>5 DEF Abstract!Consume, Consume
<1>10. ASSUME NEW S, NEW a PROVE Abstract!DropListener(S, a) = DropListener(S, a)
  BY <1>5, <1>8, Zenon DEF Abstract!DropListener, DropListener
<1> QED BY <1>1, <1>2, <1>3, <1>4, <1>8, <1>9, <1>10

AbstractStep == [Abstract!Next]_<<shown, call>>

\* A call returns when the Mutex is released: the work takes effect.
LEMMA WorkTakesEffect ==
    ASSUME NEW a \in Actors, NEW in \in HeldPcs \ {"park_x"}, NEW W,
           DoneBy(a, in, call[a], shown, W), shown' = W, call' = [call EXCEPT ![a] = NoCall],
           a \in Listeners <=> in # "x", a \in Notifiers <=> in = "x"
    PROVE  AbstractStep
<1>1. Abstract!Returned(a)
  BY SameOperators DEF Abstract!Returned
<1>2. CASE in # "x"
  <2>1. a \in Listeners
    BY <1>2
  <2>2. \/ call[a].op = "listen" /\ shown' = Abstract!Listen(shown, a)
        \/ Abstract!Take(a)
        \/ call[a].op = "discard" /\ shown' = Abstract!Consume(shown, a)
        \/ call[a].op = "drop" /\ shown' = Abstract!DropListener(shown, a)
    <3>1. CASE call[a].op = "listen"
      BY <3>1, <1>2, SameOperators DEF DoneBy
    <3>2. CASE call[a].op = "take"
      BY <3>2, <1>2, SameOperators DEF DoneBy, Abstract!Take
    <3>3. CASE call[a].op = "timeout"
      BY <3>3, <1>2, SameOperators DEF DoneBy, Abstract!Take
    <3>4. CASE call[a].op = "discard"
      BY <3>4, <1>2, SameOperators DEF DoneBy
    <3>5. CASE call[a].op = "drop"
      BY <3>5, <1>2, SameOperators DEF DoneBy
    <3> QED BY <3>1, <3>2, <3>3, <3>4, <3>5, <1>2 DEF DoneBy, HeldPcs
  <2>3. Abstract!Effect
    BY <1>1, <2>1, <2>2 DEF Abstract!Effect
  <2> QED BY <2>3 DEF AbstractStep, Abstract!Next
<1>3. CASE in = "x"
  <2>1. a \in Notifiers
    BY <1>3
  <2>2. \/ call[a].op = "notify" /\ shown' = Abstract!Notify(shown, call[a].n)
        \/ call[a].op = "additional" /\ shown' = Abstract!NotifyAdditional(shown, call[a].n)
    BY <1>3, SameOperators DEF DoneBy
  <2>3. Abstract!Effect
    BY <1>1, <2>1, <2>2 DEF Abstract!Effect
  <2> QED BY <2>3 DEF AbstractStep, Abstract!Next
<1> QED BY <1>2, <1>3

Good == EventInv' /\ AbstractStep
\* A step that changes neither what is shown nor a call.
LEMMA Unseen == ASSUME shown' = shown, call' = call PROVE AbstractStep
BY DEF AbstractStep

LEMMA CallGood ==
    ASSUME EventInv, NEW l \in Listeners, ListenerCall(l)
    PROVE  Good
<1>0. /\ l \in Actors /\ l \notin Notifiers /\ DOMAIN pc = Actors /\ DOMAIN call = Actors
      /\ call[l] = [op |-> call[l].op, n |-> call[l].n] /\ inner \in BOOLEAN
      /\ ListenerCallOK(pc[l], call[l])
  BY NullIsNone DEF EventInv, PlacesInv, Actors
<1>1. ASSUME NEW from \in {"none", "idle"},
             NEW to \in {"inner", "poll", "wait", "discard", "drop"}, NEW o,
             Call(l, from, to, o), o \in {"listen", "take", "discard", "drop"},
             from = "none" <=> o = "listen",
             ListenerCallOK(to, [op |-> o, n |-> 0]), from = "none" => to = "inner",
             from = "idle" => to # "inner"
      PROVE  Good
  <2> DEFINE c == [op |-> o, n |-> 0]
  <2>1. /\ pc[l] = from /\ pc' = [pc EXCEPT ![l] = to] /\ asleep' = asleep \ {l}
        /\ call' = [call EXCEPT ![l].op = o] /\ UNCHANGED <<inner, lst, holder, hint, shown>>
    BY <1>1 DEF Call, Goto
  <2>2. call[l] = NoCall
    BY <1>0, <1>1, <2>1 DEF ListenerCallOK
  <2>3. call' = [call EXCEPT ![l] = c]
    <3>1. [NoCall EXCEPT !.op = o] = c
      BY DEF NoCall
    <3>2. call' = [call EXCEPT ![l] = [call[l] EXCEPT !.op = o]]
      BY <2>1
    <3> QED BY <3>1, <3>2, <2>2
  <2>4. /\ to \in ListenerPcs /\ (from \in FreePcs <=> to \in FreePcs)
        /\ from \notin HeldPcs /\ to \notin HeldPcs
    BY <1>1 DEF ListenerPcs, FreePcs, HeldPcs
  <2>5. ~inner => to \in EarlyPcs
    <3>1. ~inner => pc[l] \in EarlyPcs
      BY <1>0 DEF EventInv, ShownInv
    <3> QED BY <3>1, <2>1, <1>1 DEF EarlyPcs
  <2>6. EventInv'
    <3>1. c = [op |-> c.op, n |-> c.n] /\ asleep' \subseteq asleep
      BY <2>1
    <3>2. ListenerCallOK(to, c)
      BY <1>1
    <3>3. /\ pc' = [pc EXCEPT ![l] = to] /\ UNCHANGED <<lst, holder, hint, shown>>
          /\ inner' \in BOOLEAN /\ (inner => inner') /\ (~inner' => to \in EarlyPcs)
          /\ pc[l] \notin HeldPcs /\ to \notin HeldPcs
          /\ to \in ListenerPcs /\ (pc[l] \in FreePcs <=> to \in FreePcs)
      BY <2>1, <2>4, <2>5, <1>0
    <3> HIDE DEF c
    <3> QED BY ONLY EventInv, <3>1, <3>2, <3>3, <1>0, <2>3, QuietKeeps
  <2>7. AbstractStep
    <3>1. Abstract!Listening(shown, l) <=> l \in Ids(shown)
      <4>1. IsList(shown, Listeners)
        BY ShownIs DEF EventInv, ShownInv, Viewed
      <4> QED BY <4>1, ListViews, SameOperators
    <3>2. (o = "listen") = ~Abstract!Listening(shown, l)
      <4>1. from = "none" => l \notin Ids(shown)
        BY <2>1 DEF EventInv, ShownInv, AbsentPcs, FreePcs, HeldPcs
      <4>2. from = "idle" => l \in Ids(shown)
        BY <2>1 DEF EventInv, ShownInv, ListedPcs, FreePcs, HeldPcs, ListenerPcs
      <4> QED BY <4>1, <4>2, <3>1, <1>1
    <3>3. Abstract!Call /\ UNCHANGED shown
      BY <3>2, <2>1, <2>2, <1>1, SameOperators DEF Abstract!Call
    <3> QED BY <3>3 DEF AbstractStep, Abstract!Next
  <2> QED BY <2>6, <2>7 DEF Good
<1>2. CASE Call(l, "none", "inner", "listen")
  BY <1>1, <1>2 DEF ListenerCallOK
<1>3. CASE Call(l, "idle", "poll", "take")
  BY <1>1, <1>3 DEF ListenerCallOK
<1>4. CASE Call(l, "idle", "wait", "take")
  BY <1>1, <1>4 DEF ListenerCallOK
<1>5. CASE Call(l, "idle", "discard", "discard")
  BY <1>1, <1>5 DEF ListenerCallOK
<1>6. CASE Call(l, "idle", "drop", "drop")
  BY <1>1, <1>6 DEF ListenerCallOK
<1> QED BY <1>2, <1>3, <1>4, <1>5, <1>6 DEF ListenerCall

\* A quiet step of a listener, which makes no call and returns from none.
LEMMA MoveGood ==
    ASSUME EventInv, NEW l \in Listeners, NEW to,
           pc' = [pc EXCEPT ![l] = to], UNCHANGED <<lst, holder, hint, call, asleep, shown>>,
           inner' \in BOOLEAN, inner => inner', ~inner' => to \in EarlyPcs,
           pc[l] \notin HeldPcs, to \notin HeldPcs, to \in ListenerPcs, ListenerCallOK(to, call[l]),
           pc[l] \in FreePcs <=> to \in FreePcs
    PROVE  Good
<1>1. /\ l \in Actors /\ l \notin Notifiers /\ DOMAIN call = Actors
      /\ call[l] = [op |-> call[l].op, n |-> call[l].n]
      /\ call = [a \in Actors |-> [op |-> call[a].op, n |-> call[a].n]]
  BY NullIsNone DEF EventInv, PlacesInv, Actors
<1>2. call' = [call EXCEPT ![l] = call[l]]
  BY <1>1
<1>3. UNCHANGED <<lst, holder, hint, shown>> /\ asleep' \subseteq asleep
  OBVIOUS
<1>4. EventInv'
  BY <1>1, <1>2, <1>3, QuietKeeps
<1> QED BY <1>4, Unseen DEF Good

LEMMA LoadInnerGood == ASSUME EventInv, NEW l \in Listeners, LoadInner(l) PROVE Good
<1>1. inner \in BOOLEAN /\ ListenerCallOK(pc[l], call[l])
  BY DEF EventInv, PlacesInv
<1> DEFINE to == IF inner THEN "insert" ELSE "alloc"
<1>2. /\ pc[l] = "inner" /\ pc' = [pc EXCEPT ![l] = to]
      /\ UNCHANGED <<inner, lst, holder, hint, call, asleep, shown>>
  BY DEF LoadInner, Goto
<1>3. /\ to \in ListenerPcs \ HeldPcs /\ to \in FreePcs /\ (~inner => to \in EarlyPcs)
      /\ "inner" \notin HeldPcs /\ "inner" \in FreePcs
  BY DEF ListenerPcs, HeldPcs, FreePcs, EarlyPcs
<1>4. ListenerCallOK(to, call[l])
  BY <1>1, <1>2 DEF ListenerCallOK
<1> HIDE DEF to
<1> QED BY <1>1, <1>2, <1>3, <1>4, MoveGood

LEMMA CasInnerGood == ASSUME EventInv, NEW l \in Listeners, CasInner(l) PROVE Good
<1>1. inner \in BOOLEAN /\ ListenerCallOK(pc[l], call[l])
  BY DEF EventInv, PlacesInv
<1>2. /\ pc[l] = "alloc" /\ inner' = TRUE /\ pc' = [pc EXCEPT ![l] = "insert"]
      /\ UNCHANGED <<lst, holder, hint, call, asleep, shown>>
  BY DEF CasInner, Goto
<1>3. /\ "insert" \in ListenerPcs \ HeldPcs /\ "insert" \in FreePcs
      /\ "alloc" \notin HeldPcs /\ "alloc" \in FreePcs
  BY DEF ListenerPcs, HeldPcs, FreePcs
<1>4. ListenerCallOK("insert", call[l])
  BY <1>1, <1>2 DEF ListenerCallOK
<1> QED BY <1>1, <1>2, <1>3, <1>4, MoveGood

\* Where a listener has an entry, Inner is allocated.
LEMMA InnerThere == ASSUME EventInv, NEW a \in Actors, pc[a] \notin EarlyPcs PROVE inner
BY DEF EventInv, ShownInv, PlacesInv

LEMMA UnparkedGood == ASSUME EventInv, NEW l \in Listeners, Unparked(l) PROVE Good
<1>1. inner \in BOOLEAN /\ ListenerCallOK(pc[l], call[l]) /\ l \in Actors
  BY DEF EventInv, PlacesInv, Actors
<1>2. /\ pc[l] = "park" /\ pc' = [pc EXCEPT ![l] = "rewait"]
      /\ UNCHANGED <<inner, lst, holder, hint, call, asleep, shown>>
  BY DEF Unparked, Goto
<1>3. /\ "rewait" \in ListenerPcs \ HeldPcs /\ "rewait" \notin FreePcs
      /\ "park" \notin HeldPcs /\ "park" \notin FreePcs /\ "park" \notin EarlyPcs
  BY DEF ListenerPcs, HeldPcs, FreePcs, EarlyPcs
<1>4. ListenerCallOK("rewait", call[l])
  BY <1>1, <1>2 DEF ListenerCallOK
<1>5. inner
  BY <1>1, <1>2, <1>3, InnerThere
<1> QED BY <1>1, <1>2, <1>3, <1>4, <1>5, MoveGood

LEMMA DeadlineGood == ASSUME EventInv, NEW l \in Listeners, DeadlinePassed(l) PROVE Good
<1>1. /\ l \in Actors /\ l \notin Notifiers /\ DOMAIN call = Actors /\ inner \in BOOLEAN
      /\ call[l] = [op |-> call[l].op, n |-> call[l].n] /\ ListenerCallOK(pc[l], call[l])
  BY NullIsNone DEF EventInv, PlacesInv, Actors
<1>2. /\ pc[l] = "park" /\ pc' = [pc EXCEPT ![l] = "expired"]
      /\ call' = [call EXCEPT ![l].op = "timeout"]
      /\ UNCHANGED <<inner, lst, holder, hint, asleep, shown>>
  BY DEF DeadlinePassed, Goto
<1> DEFINE c == [call[l] EXCEPT !.op = "timeout"]
<1>3. call' = [call EXCEPT ![l] = c]
  BY <1>2
<1>4. call[l].op = "take" /\ call[l].n = 0
  BY <1>1, <1>2 DEF ListenerCallOK
<1>5. c = [op |-> "timeout", n |-> 0]
  BY <1>1, <1>4
<1>6. /\ "expired" \in ListenerPcs /\ "expired" \notin HeldPcs /\ "expired" \notin FreePcs
      /\ "park" \notin HeldPcs /\ "park" \notin FreePcs /\ "park" \notin EarlyPcs
  BY DEF ListenerPcs, HeldPcs, FreePcs, EarlyPcs
<1> HIDE DEF c
<1>7. c = [op |-> c.op, n |-> c.n] /\ ListenerCallOK("expired", c)
  BY <1>5 DEF ListenerCallOK
<1>8. inner
  BY <1>1, <1>2, <1>6, InnerThere
<1>9. UNCHANGED <<lst, holder, hint, shown>> /\ asleep' \subseteq asleep
  BY <1>2
<1>10. EventInv'
  BY <1>1, <1>2, <1>3, <1>6, <1>7, <1>8, <1>9, QuietKeeps
<1>11. Abstract!Deadline
  BY <1>2, <1>4 DEF Abstract!Deadline
<1> QED BY <1>10, <1>11 DEF Good, AbstractStep, Abstract!Next

-----------------------------------------------------------------------------
\* Work under the lock is not seen before the Mutex is released.
LEMMA LockedUnseen ==
    ASSUME NEW a, NEW in, NEW out, NEW L, NEW sleeper, Locked(a, in, L, out, sleeper)
    PROVE  AbstractStep
BY Unseen DEF Locked

\* What holds where a listener takes the lock.
LEMMA AtWork ==
    ASSUME EventInv, NEW a \in Actors, holder = NULL
    PROVE  /\ Shows(lst, shown) /\ Ids(shown) = {e \in Listeners : lst.state[e] # "free"}
           /\ Told(shown) = {e \in Listeners : lst.state[e] \in Notified}
           /\ lst.state \in [Listeners -> States]
           /\ \A l : IsNotified(shown, l) <=> l \in Told(shown)
           /\ a \in Listeners => /\ a \notin Notifiers /\ ListenerCallOK(pc[a], call[a])
                                 /\ lst.state[a] = "free" <=> pc[a] \in FreePcs
           /\ a \in Notifiers => a \notin Listeners /\ NotifierCallOK(pc[a], call[a])
<1>1. Shows(lst, shown)
  BY DEF EventInv, ShownInv
<1>2. /\ Ids(shown) = {e \in Listeners : lst.state[e] # "free"}
      /\ Told(shown) = {e \in Listeners : lst.state[e] \in Notified}
      /\ lst.state \in [Listeners -> States] /\ IsList(shown, Listeners)
  BY <1>1, ShownIs
<1>3. \A l : IsNotified(shown, l) <=> l \in Told(shown)
  BY <1>2, ListViews
<1> QED BY <1>1, <1>2, <1>3, NullIsNone DEF EventInv, PlacesInv, ListInv

LEMMA InsertGood ==
    ASSUME EventInv, NEW l \in Listeners, Locked(l, "insert", Insert(lst, l), "idle_x", {})
    PROVE  Good
<1> DEFINE L == Insert(lst, l)
           W == Listen(shown, l)
<1>1. l \in Actors /\ pc[l] = "insert" /\ holder = NULL
  BY DEF Locked, Actors
<1>2. /\ Shows(lst, shown) /\ lst.state \in [Listeners -> States] /\ l \notin Notifiers
      /\ ListenerCallOK("insert", call[l]) /\ (lst.state[l] = "free" <=> "insert" \in FreePcs)
  BY <1>1, AtWork
<1>3. lst.state[l] = "free" /\ call[l].op = "listen"
  BY <1>2 DEF FreePcs, ListenerCallOK
<1>4. Shows(L, W) /\ L.state = [lst.state EXCEPT ![l] = "created"]
  BY <1>2, <1>3, InsertShows
<1> HIDE DEF L
<1>5. L.state[l] = "created" /\ \A k \in Listeners \ {l} : L.state[k] = lst.state[k]
  BY <1>2, <1>4
<1>6. DoneBy(l, "idle_x", call[l], shown, W)
  BY <1>3 DEF DoneBy
<1>7. /\ "insert" \notin EarlyPcs /\ "idle_x" \in HeldPcs /\ "idle_x" \in ListenerPcs
      /\ "idle_x" \notin FreePcs
  BY DEF EarlyPcs, HeldPcs, ListenerPcs, FreePcs
<1>8. ListenerCallOK("idle_x", call[l])
  BY <1>2, <1>3 DEF ListenerCallOK
<1>9. Locked(l, "insert", L, "idle_x", {})
  BY DEF L
<1> HIDE DEF W
<1>10. EventInv'
  BY <1>1, <1>2, <1>4, <1>5, <1>6, <1>7, <1>8, <1>9, LockedKeeps
<1> QED BY <1>9, <1>10, LockedUnseen DEF Good

\* A listener leaves: by a poll or a wait that finds it notified, by a timeout
\* or by discard.
LEMMA LeaveGood ==
    ASSUME EventInv, NEW l \in Listeners, NEW in \in {"poll", "wait", "rewait", "expired", "discard"},
           Locked(l, in, Remove(lst, l), "gone_x", {}),
           in \in {"poll", "wait", "rewait"} => lst.state[l] \in Notified
    PROVE  Good
<1> DEFINE L == Remove(lst, l)
           W == Consume(shown, l)
<1>1. l \in Actors /\ pc[l] = in /\ holder = NULL
  BY DEF Locked, Actors
<1>2. /\ Shows(lst, shown) /\ lst.state \in [Listeners -> States] /\ l \notin Notifiers
      /\ ListenerCallOK(in, call[l]) /\ (lst.state[l] = "free" <=> in \in FreePcs)
      /\ (IsNotified(shown, l) <=> lst.state[l] \in Notified)
  BY <1>1, AtWork
<1>3. lst.state[l] # "free"
  BY <1>2 DEF FreePcs
<1>4. Shows(L, W) /\ L.state = [lst.state EXCEPT ![l] = "free"]
  BY <1>2, <1>3, RemoveShows DEF Consume
<1> HIDE DEF L
<1>5. L.state[l] = "free" /\ \A k \in Listeners \ {l} : L.state[k] = lst.state[k]
  BY <1>2, <1>4
<1>6. DoneBy(l, "gone_x", call[l], shown, W) /\ ListenerCallOK("gone_x", call[l])
  BY <1>2 DEF DoneBy, ListenerCallOK
<1>7. /\ in \notin EarlyPcs /\ "gone_x" \in HeldPcs /\ "gone_x" \in ListenerPcs
      /\ "gone_x" \in FreePcs
  BY DEF EarlyPcs, HeldPcs, ListenerPcs, FreePcs
<1>9. Locked(l, in, L, "gone_x", {})
  BY DEF L
<1> HIDE DEF W
<1>10. EventInv'
  BY <1>1, <1>2, <1>4, <1>5, <1>6, <1>7, <1>9, LockedKeeps
<1> QED BY <1>9, <1>10, LockedUnseen DEF Good

\* A listener that is not notified goes to sleep.
LEMMA SleepGood ==
    ASSUME EventInv, NEW l \in Listeners,
           NEW in \in {"poll", "wait", "rewait"}, NEW s \in {"polling", "waiting"}, NEW out,
           out = (IF in = "poll" THEN "idle_x" ELSE "park_x"),
           Locked(l, in, [lst EXCEPT !.state[l] = s], out, {l}), lst.state[l] \notin Notified
    PROVE  Good
<1> DEFINE L == [lst EXCEPT !.state[l] = s]
<1>1. l \in Actors /\ pc[l] = in /\ holder = NULL
  BY DEF Locked, Actors
<1>2. /\ Shows(lst, shown) /\ lst.state \in [Listeners -> States] /\ l \notin Notifiers
      /\ ListenerCallOK(in, call[l]) /\ (lst.state[l] = "free" <=> in \in FreePcs)
      /\ (IsNotified(shown, l) <=> lst.state[l] \in Notified)
  BY <1>1, AtWork
<1>3. lst.state[l] # "free"
  BY <1>2 DEF FreePcs
<1>4. Shows(L, shown) /\ L.state = [lst.state EXCEPT ![l] = s]
  BY <1>2, <1>3, RegisterShows
<1>9. Locked(l, in, L, out, {l})
  OBVIOUS
<1> HIDE DEF L
<1>5. L.state[l] = s /\ \A k \in Listeners \ {l} : L.state[k] = lst.state[k]
  BY <1>2, <1>4
<1>6. DoneBy(l, out, call[l], shown, shown) /\ ListenerCallOK(out, call[l])
  BY <1>2 DEF DoneBy, ListenerCallOK
<1>7. /\ in \notin EarlyPcs /\ out \in HeldPcs /\ out \in ListenerPcs /\ out \notin FreePcs
  BY DEF EarlyPcs, HeldPcs, ListenerPcs, FreePcs
<1>8. L.state[l] # "free" /\ L.state[l] \in {"polling", "waiting"}
  BY <1>5
<1>10. EventInv'
  BY <1>1, <1>2, <1>4, <1>5, <1>6, <1>7, <1>8, <1>9, LockedKeeps
<1> QED BY <1>9, <1>10, LockedUnseen DEF Good

\* A listener is dropped.
LEMMA DropGood ==
    ASSUME EventInv, NEW l \in Listeners, Locked(l, "drop", DropEntry(lst, l), "gone_x", {})
    PROVE  Good
<1> DEFINE L == DropEntry(lst, l)
           W == DropListener(shown, l)
<1>1. l \in Actors /\ pc[l] = "drop" /\ holder = NULL
  BY DEF Locked, Actors
<1>2. /\ Shows(lst, shown) /\ lst.state \in [Listeners -> States] /\ l \notin Notifiers
      /\ ListenerCallOK("drop", call[l]) /\ (lst.state[l] = "free" <=> "drop" \in FreePcs)
  BY <1>1, AtWork
<1>3. lst.state[l] # "free" /\ call[l].op = "drop"
  BY <1>2 DEF FreePcs, ListenerCallOK
<1>4. /\ Shows(L, W) /\ Marked(L, Remove(lst, l))
      /\ Remove(lst, l).state = [lst.state EXCEPT ![l] = "free"]
  BY <1>2, <1>3, DropShows, RemoveShows
<1>9. Locked(l, "drop", L, "gone_x", {})
  OBVIOUS
<1> HIDE DEF L, W
<1>5. /\ L.state[l] = "free"
      /\ \A k \in Listeners \ {l} : /\ L.state[k] = lst.state[k] \/ L.state[k] \in Notified
                                    /\ L.state[k] = "free" <=> lst.state[k] = "free"
  <2> DEFINE R == Remove(lst, l)
  <2>1. R.state[l] = "free" /\ \A k \in Listeners \ {l} : R.state[k] = lst.state[k]
    BY <1>2, <1>4
  <2>2. \A k \in Listeners : /\ L.state[k] = R.state[k] \/ L.state[k] \in Notified
                             /\ L.state[k] = "free" <=> R.state[k] = "free"
    BY <1>4 DEF Marked
  <2> HIDE DEF R
  <2> QED BY <2>1, <2>2
<1>6. DoneBy(l, "gone_x", call[l], shown, W) /\ ListenerCallOK("gone_x", call[l])
  BY <1>2, <1>3 DEF DoneBy, ListenerCallOK, W
<1>7. /\ "drop" \notin EarlyPcs /\ "gone_x" \in HeldPcs /\ "gone_x" \in ListenerPcs
      /\ "gone_x" \in FreePcs
  BY DEF EarlyPcs, HeldPcs, ListenerPcs, FreePcs
<1>10. EventInv'
  BY <1>1, <1>2, <1>4, <1>5, <1>6, <1>7, <1>9, LockedKeeps
<1> QED BY <1>9, <1>10, LockedUnseen DEF Good

\* A notifier that found it worthwhile marks the listeners.
LEMMA NotifyGood ==
    ASSUME EventInv, NEW m \in Notifiers, NEW in, NEW L,
           \/ in = "notify" /\ L = NotifyUpTo(lst, call[m].n)
           \/ in = "additional" /\ L = NotifyMore(lst, call[m].n),
           Locked(m, in, L, "x", {})
    PROVE  Good
<1> DEFINE W == IF in = "notify" THEN Notify(shown, call[m].n)
                ELSE NotifyAdditional(shown, call[m].n)
<1>1. m \in Actors /\ pc[m] = in /\ holder = NULL
  BY DEF Locked, Actors
<1>2. Shows(lst, shown) /\ m \notin Listeners /\ NotifierCallOK(in, call[m])
  BY <1>1, AtWork
<1>3. call[m].op = in /\ call[m].n \in Nat
  BY <1>2 DEF NotifierCallOK
<1>4. Shows(L, W) /\ Marked(L, lst)
  BY <1>2, <1>3, NotifyShows
<1>5. \A k \in Listeners : /\ L.state[k] = lst.state[k] \/ L.state[k] \in Notified
                           /\ L.state[k] = "free" <=> lst.state[k] = "free"
  BY <1>4 DEF Marked
<1>6. DoneBy(m, "x", call[m], shown, W) /\ NotifierCallOK("x", call[m])
  BY <1>3 DEF DoneBy, NotifierCallOK
<1>7. in \notin EarlyPcs /\ "x" \in HeldPcs /\ "x" \in NotifierPcs
  BY DEF EarlyPcs, HeldPcs, NotifierPcs
<1> HIDE DEF W
<1>8. EventInv'
  BY <1>1, <1>2, <1>4, <1>5, <1>6, <1>7, LockedKeeps
<1> QED BY <1>8, LockedUnseen DEF Good

-----------------------------------------------------------------------------
\* A listener releases the Mutex.
LEMMA ListenerUnlockGood ==
    ASSUME EventInv, NEW l \in Listeners, NEW in, NEW next,
           \/ in = "idle_x" /\ next = "idle"
           \/ in = "park_x" /\ next = "park"
           \/ in = "gone_x" /\ next = "none",
           Unlock(l, in, next)
    PROVE  Good
<1>1. /\ l \in Actors /\ l \notin Notifiers /\ DOMAIN call = Actors
      /\ ListenerCallOK(pc[l], call[l])
  BY NullIsNone DEF EventInv, PlacesInv, Actors
<1>2. /\ pc[l] = in
      /\ call' = IF next = "park" THEN call ELSE [call EXCEPT ![l] = NoCall]
  BY DEF Unlock
<1>3. call'[l] = IF next = "park" THEN call[l] ELSE NoCall
  BY <1>1, <1>2
<1>4. /\ in \in HeldPcs /\ next \notin HeldPcs /\ next \in ListenerPcs
      /\ (in \in FreePcs <=> next \in FreePcs)
  BY DEF HeldPcs, ListenerPcs, FreePcs
<1>5. ListenerCallOK(next, call'[l])
  BY <1>1, <1>2, <1>3 DEF ListenerCallOK, NoCall
<1>6. EventInv' /\ \E W : DoneBy(l, in, call[l], shown, W) /\ shown' = W
  BY <1>1, <1>4, <1>5, UnlockKeeps
<1>7. PICK W : DoneBy(l, in, call[l], shown, W) /\ shown' = W
  BY <1>6
<1>8. CASE in = "park_x"
  <2>1. shown' = shown /\ call' = call
    BY <1>2, <1>7, <1>8 DEF DoneBy
  <2> QED BY <2>1, <1>6, Unseen DEF Good
<1>9. CASE in # "park_x"
  <2>1. in \in HeldPcs \ {"park_x"} /\ in # "x" /\ call' = [call EXCEPT ![l] = NoCall]
    BY <1>2, <1>4, <1>9
  <2>2. AbstractStep
    BY <2>1, <1>1, <1>7, WorkTakesEffect
  <2> QED BY <2>2, <1>6 DEF Good
<1> QED BY <1>8, <1>9

\* A notifier releases it.
LEMMA NotifierUnlockGood == ASSUME EventInv, NEW m \in Notifiers, Unlock(m, "x", "none") PROVE Good
<1>1. m \in Actors /\ m \notin Listeners /\ DOMAIN call = Actors
  BY NullIsNone DEF EventInv, PlacesInv, Actors
<1>2. call' = [call EXCEPT ![m] = NoCall]
  BY DEF Unlock
<1>3. "x" \in HeldPcs \ {"park_x"} /\ "none" \notin HeldPcs /\ "none" \in NotifierPcs
  BY DEF HeldPcs, NotifierPcs
<1>4. NotifierCallOK("none", call'[m])
  BY <1>1, <1>2 DEF NotifierCallOK
<1>5. EventInv' /\ \E W : DoneBy(m, "x", call[m], shown, W) /\ shown' = W
  BY <1>1, <1>3, <1>4, UnlockKeeps
<1>6. PICK W : DoneBy(m, "x", call[m], shown, W) /\ shown' = W
  BY <1>5
<1>7. AbstractStep
  BY <1>1, <1>2, <1>3, <1>6, WorkTakesEffect
<1> QED BY <1>5, <1>7 DEF Good

-----------------------------------------------------------------------------
\* notify and notify_additional are called.
LEMMA NotifyCallGood ==
    ASSUME EventInv, NEW m \in Notifiers, NEW o \in {"notify", "additional"}, NotifyCall(m, o)
    PROVE  Good
<1>1. /\ m \in Actors /\ m \notin Listeners /\ DOMAIN call = Actors /\ inner \in BOOLEAN
      /\ NotifierCallOK(pc[m], call[m])
  BY NullIsNone DEF EventInv, PlacesInv, Actors
<1>2. PICK n \in 1..MaxN : call' = [call EXCEPT ![m] = [op |-> o, n |-> n]]
  BY DEF NotifyCall
<1>3. /\ pc[m] = "none" /\ pc' = [pc EXCEPT ![m] = "load"]
      /\ UNCHANGED <<inner, lst, holder, hint, asleep, shown>>
  BY DEF NotifyCall, Goto
<1> DEFINE c == [op |-> o, n |-> n]
<1>4. c = [op |-> c.op, n |-> c.n] /\ n \in Nat
  BY EventAssumption
<1>5. NotifierCallOK("load", c)
  BY <1>4 DEF NotifierCallOK
<1>6. call[m] = NoCall
  BY <1>1, <1>3 DEF NotifierCallOK
<1>7. /\ "load" \in NotifierPcs /\ "load" \in EarlyPcs /\ "load" \notin HeldPcs
      /\ "none" \notin HeldPcs
  BY DEF NotifierPcs, EarlyPcs, HeldPcs
<1>8. call' = [call EXCEPT ![m] = c] /\ UNCHANGED <<lst, holder, hint, shown>> /\ asleep' \subseteq asleep
  BY <1>2, <1>3
<1>9. EventInv'
  <2> HIDE DEF c
  <2> QED BY <1>1, <1>3, <1>4, <1>5, <1>7, <1>8, QuietKeeps
<1>10. Abstract!Call /\ UNCHANGED shown
  BY <1>2, <1>3, <1>6, SameOperators DEF Abstract!Call
<1> QED BY <1>9, <1>10 DEF Good, AbstractStep, Abstract!Next

\* The hint says whether the list needs the notification.
LEMMA NotWorthwhile ==
    ASSUME EventInv, NEW c, c.n \in Nat, c.op \in {"notify", "additional"},
           ~(inner /\ Worthwhile(c))
    PROVE  /\ c.op = "notify" => Notify(shown, c.n) = shown
           /\ c.op = "additional" => NotifyAdditional(shown, c.n) = shown
<1>1. PICK L : Shows(L, shown)
  BY DEF EventInv, ShownInv, Viewed
<1> DEFINE k == NotifiedCount(shown)
<1>2. /\ Len(shown) \in Nat /\ k \in 0..Len(shown) /\ Len(shown) <= Cardinality(Listeners)
      /\ Cardinality(Listeners) \in Nat
  BY <1>1, ShownIs
<1>3. hint = IF k < Len(shown) THEN k ELSE UMAX
  BY DEF EventInv, ShownInv
<1>4. UMAX > Len(shown)
  BY <1>2, EventAssumption DEF UMAX
<1>5. ASSUME k = Len(shown) PROVE \A n \in Nat, tag \in Notified : Mark(shown, n, tag) = shown
  BY <1>1, <1>5, NothingToMark
<1>6. ASSUME k = Len(shown)
      PROVE  Notify(shown, c.n) = shown /\ NotifyAdditional(shown, c.n) = shown
  <2>1. "one" \in Notified /\ "add" \in Notified
    BY DEF Notified
  <2>2. c.n <= k \/ c.n - k \in Nat
    BY <1>2
  <2>3. NotifyAdditional(shown, c.n) = shown
    BY <2>1, <1>5, <1>6 DEF NotifyAdditional
  <2>4. Notify(shown, c.n) = shown
    BY <2>1, <2>2, <1>5, <1>6 DEF Notify
  <2> QED BY <2>3, <2>4
<1>7. CASE ~inner
  <2>1. shown = NoListeners
    BY <1>7 DEF EventInv, ShownInv
  <2>2. Len(shown) = 0
    BY <2>1 DEF NoListeners
  <2> QED BY <2>2, <1>2, <1>6
<1>8. CASE inner /\ k < Len(shown)
  <2>1. ~Worthwhile(c) /\ hint = k
    BY <1>3, <1>8
  <2>2. ASSUME c.op # "notify" PROVE FALSE
    <3>1. ~(k < UMAX)
      BY <2>1, <2>2 DEF Worthwhile
    <3>2. Len(shown) \in Int /\ k \in Int /\ UMAX \in Int
      BY <1>2, EventAssumption DEF UMAX
    <3> HIDE DEF k
    <3> QED BY <3>1, <3>2, <1>4, <1>8
  <2>3. c.n <= k
    <3>1. ~(k < c.n)
      BY <2>1, <2>2 DEF Worthwhile
    <3> HIDE DEF k
    <3> QED BY <3>1, <1>2
  <2> QED BY <2>2, <2>3 DEF Notify
<1>9. CASE inner /\ ~(k < Len(shown))
  BY <1>2, <1>6, <1>9
<1> HIDE DEF k
<1> QED BY <1>7, <1>8, <1>9, <1>2

LEMMA LoadHintGood == ASSUME EventInv, NEW m \in Notifiers, LoadHint(m) PROVE Good
<1>1. /\ m \in Actors /\ m \notin Listeners /\ DOMAIN call = Actors /\ inner \in BOOLEAN
      /\ NotifierCallOK(pc[m], call[m]) /\ call[m] = [op |-> call[m].op, n |-> call[m].n]
      /\ call = [a \in Actors |-> call[a]]
  BY NullIsNone DEF EventInv, PlacesInv, Actors
<1>2. pc[m] = "load" /\ UNCHANGED <<inner, lst, holder, hint, asleep, shown>>
  BY DEF LoadHint
<1>3. call[m].op \in {"notify", "additional"} /\ call[m].n \in Nat
  BY <1>1, <1>2 DEF NotifierCallOK
<1>4. "load" \notin HeldPcs /\ \A to \in {"notify", "additional", "none"} : to \in NotifierPcs \ HeldPcs
  BY DEF HeldPcs, NotifierPcs
<1>5. UNCHANGED <<lst, holder, hint, shown>> /\ asleep' \subseteq asleep /\ (inner => inner')
      /\ inner' \in BOOLEAN
  BY <1>1, <1>2
<1>6. CASE inner /\ Worthwhile(call[m])
  <2> DEFINE to == call[m].op
  <2>1. pc' = [pc EXCEPT ![m] = to] /\ call' = call
    BY <1>6 DEF LoadHint, Goto
  <2>2. call' = [call EXCEPT ![m] = call[m]]
    BY <2>1, <1>1
  <2>3. to \in NotifierPcs /\ to \notin HeldPcs /\ NotifierCallOK(to, call[m])
    BY <1>3, <1>4 DEF NotifierCallOK
  <2>4. inner'
    BY <1>2, <1>6
  <2>5. EventInv'
    <3> HIDE DEF to
    <3> QED BY <2>1, <2>2, <2>3, <2>4, <1>1, <1>2, <1>4, <1>5, QuietKeeps
  <2>6. shown' = shown
    BY <1>2
  <2> QED BY <2>1, <2>5, <2>6, Unseen DEF Good
<1>7. CASE ~(inner /\ Worthwhile(call[m]))
  <2>1. pc' = [pc EXCEPT ![m] = "none"] /\ call' = [call EXCEPT ![m] = NoCall]
    BY <1>7 DEF LoadHint, Goto
  <2>2. NotifierCallOK("none", NoCall) /\ NoCall = [op |-> NoCall.op, n |-> NoCall.n]
    BY DEF NotifierCallOK, NoCall
  <2>3. "none" \in EarlyPcs
    BY DEF EarlyPcs
  <2>4. EventInv'
    BY <2>1, <2>2, <2>3, <1>1, <1>2, <1>4, <1>5, QuietKeeps
  <2>5. Abstract!Returned(m)
    BY <2>1, SameOperators DEF Abstract!Returned
  <2>6. /\ call[m].op = "notify" => shown' = Abstract!Notify(shown, call[m].n)
        /\ call[m].op = "additional" => shown' = Abstract!NotifyAdditional(shown, call[m].n)
    BY <1>2, <1>3, <1>7, NotWorthwhile, SameOperators
  <2>7. Abstract!Effect
    BY <2>5, <2>6, <1>3 DEF Abstract!Effect
  <2> QED BY <2>4, <2>7 DEF Good, AbstractStep, Abstract!Next
<1> QED BY <1>6, <1>7

-----------------------------------------------------------------------------
LEMMA ListenerGood == ASSUME EventInv, NEW l \in Listeners, ListenerStep(l) PROVE Good
<1>1. CASE LoadInner(l) \/ CasInner(l)
  BY <1>1, LoadInnerGood, CasInnerGood
<1>2. CASE Locked(l, "insert", Insert(lst, l), "idle_x", {})
  BY <1>2, InsertGood
<1>3. CASE Poll(l)
  <2>1. CASE lst.state[l] \in Notified
    BY <1>3, <2>1, LeaveGood DEF Poll
  <2>2. CASE lst.state[l] \notin Notified
    BY <1>3, <2>2, SleepGood DEF Poll
  <2> QED BY <2>1, <2>2
<1>4. ASSUME NEW in \in {"wait", "rewait"}, Wait(l, in) PROVE Good
  <2>1. CASE lst.state[l] \in Notified
    BY <1>4, <2>1, LeaveGood DEF Wait
  <2>2. CASE lst.state[l] \notin Notified
    <3>1. in # "poll" /\ in \in {"poll", "wait", "rewait"} /\ "waiting" \in {"polling", "waiting"}
      BY <1>4
    <3>2. Locked(l, in, [lst EXCEPT !.state[l] = "waiting"], "park_x", {l})
      BY <1>4, <2>2 DEF Wait
    <3> QED BY <3>1, <3>2, <2>2, SleepGood
  <2> QED BY <2>1, <2>2
<1>5. CASE \/ Locked(l, "expired", Remove(lst, l), "gone_x", {})
           \/ Locked(l, "discard", Remove(lst, l), "gone_x", {})
  BY <1>5, LeaveGood
<1>6. CASE Locked(l, "drop", DropEntry(lst, l), "gone_x", {})
  BY <1>6, DropGood
<1>7. CASE Unlock(l, "idle_x", "idle") \/ Unlock(l, "park_x", "park") \/ Unlock(l, "gone_x", "none")
  BY <1>7, ListenerUnlockGood
<1> QED BY <1>1, <1>2, <1>3, <1>4, <1>5, <1>6, <1>7 DEF ListenerStep

\* Every step keeps the invariant and is a step of EventSpec or of nothing.
LEMMA EventStep == ASSUME EventInv, [Next]_vars PROVE Good
<1>1. CASE UNCHANGED vars
  <2>1. EventInv'
    BY <1>1 DEF vars, EventInv, PlacesInv, ListInv, ShownInv, Viewed, UMAX
  <2> QED BY <2>1, <1>1, Unseen DEF Good, vars
<1>2. ASSUME NEW l \in Listeners, ListenerCall(l) \/ ListenerStep(l) \/ Unparked(l) \/ DeadlinePassed(l)
      PROVE  Good
  BY <1>2, CallGood, ListenerGood, UnparkedGood, DeadlineGood
<1>3. ASSUME NEW m \in Notifiers,
             NotifyCall(m, "notify") \/ NotifyCall(m, "additional") \/ NotifierStep(m)
      PROVE  Good
  <2>1. CASE NotifyCall(m, "notify") \/ NotifyCall(m, "additional")
    BY <2>1, NotifyCallGood
  <2>2. CASE LoadHint(m)
    BY <2>2, LoadHintGood
  <2>3. CASE \/ Locked(m, "notify", NotifyUpTo(lst, call[m].n), "x", {})
             \/ Locked(m, "additional", NotifyMore(lst, call[m].n), "x", {})
    BY <2>3, NotifyGood
  <2>4. CASE Unlock(m, "x", "none")
    BY <2>4, NotifierUnlockGood
  <2> QED BY <2>1, <2>2, <2>3, <2>4, <1>3 DEF NotifierStep
<1> QED BY <1>1, <1>2, <1>3 DEF Next

\* The invariant holds throughout.
LEMMA EventInvHolds == Spec => []EventInv
<1>1. EventInv /\ [Next]_vars => EventInv'
  BY EventStep DEF Good
<1> QED BY <1>1, EventInvInit, PTL DEF Spec

\* The linked list is sound, whatever the order of its insertions, removals
\* and notifications, and no listener is notified and asleep.
THEOREM EventIsSound == Spec => []EventSound
BY EventInvHolds, EventInvSays, PTL

\* The Event is atomic: an operation takes effect at ListGuard::drop, and a
\* notify that the hint sends away takes its effect, none, when it loads it.
THEOREM EventIsAtomic == Spec => ImplementsEvent
<1>1. Init => Abstract!Init
  BY SameOperators DEF Init, Abstract!Init, NoListeners
<1>2. EventInv /\ [Next]_vars => [Abstract!Next]_<<shown, call>>
  BY EventStep DEF Good, AbstractStep
<1> QED BY <1>1, <1>2, EventInvHolds, PTL DEF Spec, ImplementsEvent, Abstract!Spec, Abstract!avars

-----------------------------------------------------------------------------
(***************************************************************************)
(* AsyncMutex.                                                             *)
(*                                                                         *)
(* Its invariant counts: the state word is the number of owners and of     *)
(* starved lockers.                                                        *)
(***************************************************************************)

\* A step that moves one locker changes the counts by what its old and its new
\* locker_pc bring.
LEMMA CountsMove ==
    ASSUME MutexTypeOK, NEW l \in Lockers, NEW to \in LockerPcs, LockerGoto(l, to)
    PROVE  /\ locker_pc' \in [Lockers -> LockerPcs] /\ locker_pc'[l] = to
           /\ Cardinality(Owners) \in Nat /\ Cardinality(Starved) \in Nat
           /\ Cardinality(Owners') =
                Cardinality(Owners) + In(to, OwnerPcs) - In(locker_pc[l], OwnerPcs)
           /\ Cardinality(Starved') =
                Cardinality(Starved) + In(to, StarvedPcs) - In(locker_pc[l], StarvedPcs)
<1>1. locker_pc \in [Lockers -> LockerPcs] /\ locker_pc' \in [Lockers -> LockerPcs] /\ locker_pc'[l] = to
  BY DEF MutexTypeOK, LockerGoto
<1>c. ChangedAt(locker_pc, locker_pc', l, Lockers)
  BY DEF MutexTypeOK, LockerGoto, ChangedAt
<1>2. IsFiniteSet(Lockers)
  BY LockersAssumption
<1>3. /\ Owners = Where(locker_pc, Lockers, OwnerPcs) /\ Owners' = Where(locker_pc', Lockers, OwnerPcs)
      /\ Starved = Where(locker_pc, Lockers, StarvedPcs) /\ Starved' = Where(locker_pc', Lockers, StarvedPcs)
  BY DEF Owners, Starved, Where
<1>4. /\ Cardinality(Where(locker_pc, Lockers, OwnerPcs)) \in Nat
      /\ Cardinality(Where(locker_pc', Lockers, OwnerPcs)) =
           Cardinality(Where(locker_pc, Lockers, OwnerPcs)) + In(locker_pc'[l], OwnerPcs) - In(locker_pc[l], OwnerPcs)
  BY <1>c, <1>2, CountAfterChange
<1>5. /\ Cardinality(Where(locker_pc, Lockers, StarvedPcs)) \in Nat
      /\ Cardinality(Where(locker_pc', Lockers, StarvedPcs)) =
           Cardinality(Where(locker_pc, Lockers, StarvedPcs)) + In(locker_pc'[l], StarvedPcs) - In(locker_pc[l], StarvedPcs)
  BY <1>c, <1>2, CountAfterChange
<1> QED BY <1>1, <1>3, <1>4, <1>5

\* The counts are numbers, also after a step.
LEMMA CountsAreNumbers ==
    /\ Cardinality(Owners) \in Nat /\ Cardinality(Owners') \in Nat
    /\ Cardinality(Starved) \in Nat /\ Cardinality(Starved') \in Nat
<1>1. /\ Owners \subseteq Lockers /\ Owners' \subseteq Lockers
      /\ Starved \subseteq Lockers /\ Starved' \subseteq Lockers
  BY DEF Owners, Starved
<1> QED BY <1>1, LockersAssumption, FS_Subset, FS_CardinalityType

\* A step that moves a locker between two places that count the same, and
\* leaves the word alone, preserves the invariant.
LEMMA SameCounts ==
    ASSUME MutexInv, NEW l \in Lockers, NEW to \in LockerPcs, LockerGoto(l, to), UNCHANGED state,
           In(locker_pc[l], OwnerPcs) = In(to, OwnerPcs),
           In(locker_pc[l], StarvedPcs) = In(to, StarvedPcs)
    PROVE  MutexInv'
<1>1. MutexTypeOK
  BY DEF MutexInv
<1>2. In(to, OwnerPcs) \in {0, 1}
  BY DEF In
<1>3. In(to, StarvedPcs) \in {0, 1}
  BY DEF In
<1>4. Cardinality(Owners') = Cardinality(Owners) /\ Cardinality(Starved') = Cardinality(Starved)
  BY <1>1, <1>2, <1>3, CountsMove
<1>5. locker_pc' \in [Lockers -> LockerPcs]
  BY <1>1, CountsMove
<1> QED BY <1>4, <1>5 DEF MutexInv, MutexTypeOK, WordExact

\* A step that takes a free word: CAS 0 to 1.
LEMMA CasFreePreserves ==
    ASSUME MutexInv, NEW l \in Lockers, locker_pc[l] \notin OwnerPcs \cup StarvedPcs,
           NEW won \in OwnerPcs \ StarvedPcs,
           NEW locked \in LockerPcs \ (OwnerPcs \cup StarvedPcs),
           NEW starving \in LockerPcs \ (OwnerPcs \cup StarvedPcs),
           CasFree(l, won, locked, starving)
    PROVE  MutexInv'
<1>1. CASE state = 0
  <2>1. state' = 1 /\ LockerGoto(l, won) /\ won \in LockerPcs
    BY <1>1 DEF CasFree, OwnerPcs, LockerPcs
  <2>2. /\ In(won, OwnerPcs) = 1 /\ In(won, StarvedPcs) = 0
        /\ In(locker_pc[l], OwnerPcs) = 0 /\ In(locker_pc[l], StarvedPcs) = 0
    BY DEF In
  <2>3. /\ locker_pc' \in [Lockers -> LockerPcs]
        /\ Cardinality(Owners) \in Nat /\ Cardinality(Starved) \in Nat
        /\ Cardinality(Owners') = Cardinality(Owners) + 1
        /\ Cardinality(Starved') = Cardinality(Starved)
    BY <2>1, <2>2, CountsMove DEF MutexInv
  <2>4. Cardinality(Owners) = 0 /\ Cardinality(Starved) = 0
    BY <1>1, <2>3 DEF MutexInv, WordExact
  <2> QED BY <2>1, <2>3, <2>4 DEF MutexInv, MutexTypeOK, WordExact
<1>2. CASE state # 0
  <2>1. PICK to \in {locked, starving} : LockerGoto(l, to) /\ UNCHANGED state
    BY <1>2 DEF CasFree
  <2>2. /\ In(locker_pc[l], OwnerPcs) = In(to, OwnerPcs)
        /\ In(locker_pc[l], StarvedPcs) = In(to, StarvedPcs)
    BY <2>1 DEF In
  <2> QED BY <2>1, <2>2, SameCounts
<1> QED BY <1>1, <1>2

\* The other ways to take the lock: CAS 2 to 3, by the only starved locker, and
\* fetch_or on a word that shows no owner.
LEMMA SCasPreserves ==
    ASSUME MutexInv, NEW l \in Lockers, SCas(l)
    PROVE  MutexInv'
<1>1. CASE state = 2
  <2>1. state' = 3 /\ LockerGoto(l, "s_drop") /\ "s_drop" \in LockerPcs /\ locker_pc[l] = "s_cas"
    BY <1>1 DEF SCas, LockerPcs
  <2>2. /\ In("s_drop", OwnerPcs) = 1 /\ In("s_drop", StarvedPcs) = 1
        /\ In(locker_pc[l], OwnerPcs) = 0 /\ In(locker_pc[l], StarvedPcs) = 1
    BY <2>1 DEF In, OwnerPcs, StarvedPcs
  <2>3. /\ locker_pc' \in [Lockers -> LockerPcs]
        /\ Cardinality(Owners) \in Nat /\ Cardinality(Starved) \in Nat
        /\ Cardinality(Owners') = Cardinality(Owners) + 1
        /\ Cardinality(Starved') = Cardinality(Starved)
    BY <2>1, <2>2, CountsMove DEF MutexInv
  <2>4. Cardinality(Owners) = 0 /\ Cardinality(Starved) = 1
    BY <1>1, <2>3 DEF MutexInv, WordExact
  <2> QED BY <2>1, <2>3, <2>4 DEF MutexInv, MutexTypeOK, WordExact
<1>2. CASE state # 2
  <2>1. PICK to \in {"s_await", "s_notify"} : LockerGoto(l, to) /\ UNCHANGED state
    BY <1>2 DEF SCas
  <2>2. /\ In(locker_pc[l], OwnerPcs) = In(to, OwnerPcs)
        /\ In(locker_pc[l], StarvedPcs) = In(to, StarvedPcs)
        /\ to \in LockerPcs
    BY <2>1 DEF SCas, In, OwnerPcs, StarvedPcs, LockerPcs
  <2> QED BY <2>1, <2>2, SameCounts
<1> QED BY <1>1, <1>2

\* See SCasPreserves.
LEMMA SOrPreserves ==
    ASSUME MutexInv, NEW l \in Lockers, SOr(l)
    PROVE  MutexInv'
<1>1. CASE state % 2 = 0
  <2>1. state' = state + 1 /\ LockerGoto(l, "s_end") /\ "s_end" \in LockerPcs /\ locker_pc[l] = "s_or"
    BY <1>1 DEF SOr, LockerPcs
  <2>2. /\ In("s_end", OwnerPcs) = 1 /\ In("s_end", StarvedPcs) = 1
        /\ In(locker_pc[l], OwnerPcs) = 0 /\ In(locker_pc[l], StarvedPcs) = 1
    BY <2>1 DEF In, OwnerPcs, StarvedPcs
  <2>3. /\ locker_pc' \in [Lockers -> LockerPcs]
        /\ Cardinality(Owners) \in Nat /\ Cardinality(Starved) \in Nat
        /\ Cardinality(Owners') = Cardinality(Owners) + 1
        /\ Cardinality(Starved') = Cardinality(Starved)
    BY <2>1, <2>2, CountsMove DEF MutexInv
  <2>4. Cardinality(Owners) = 0
    BY <1>1, <2>3 DEF MutexInv, WordExact
  <2> QED BY <2>1, <2>3, <2>4 DEF MutexInv, MutexTypeOK, WordExact
<1>2. CASE state % 2 # 0
  <2>1. LockerGoto(l, "s_listen") /\ UNCHANGED state /\ locker_pc[l] = "s_or" /\ "s_listen" \in LockerPcs
    BY <1>2 DEF SOr, LockerPcs
  <2>2. /\ In(locker_pc[l], OwnerPcs) = In("s_listen", OwnerPcs)
        /\ In(locker_pc[l], StarvedPcs) = In("s_listen", StarvedPcs)
    BY <2>1 DEF In, OwnerPcs, StarvedPcs
  <2> QED BY <2>1, <2>2, SameCounts
<1> QED BY <1>1, <1>2

\* fetch_add(2) and fetch_sub(2) of a starved locker, fetch_sub(1) of an owner.
LEMMA WordPreserves ==
    ASSUME MutexInv, NEW l \in Lockers,
           \/ Starve(l) \/ Release(l)
           \/ EndStarve(l, "s_end", "in") \/ EndStarve(l, "s_cancel", "out")
    PROVE  MutexInv'
<1> USE DEF In, OwnerPcs, StarvedPcs, LockerPcs
<1>t. MutexTypeOK
  BY DEF MutexInv
<1>1. CASE Starve(l)
  <2>1. LockerGoto(l, "s_listen") /\ locker_pc[l] = "starve" /\ state' = state + 2
    BY <1>1 DEF Starve
  <2>2. /\ locker_pc' \in [Lockers -> LockerPcs] /\ Cardinality(Owners) \in Nat /\ Cardinality(Starved) \in Nat
        /\ Cardinality(Owners') = Cardinality(Owners)
        /\ Cardinality(Starved') = Cardinality(Starved) + 1
    BY <1>t, <2>1, CountsMove
  <2> QED BY <2>1, <2>2 DEF MutexInv, MutexTypeOK, WordExact
<1>2. CASE Release(l)
  <2>1. LockerGoto(l, "notify_out") /\ locker_pc[l] = "in" /\ state' = state - 1
    BY <1>2 DEF Release
  <2>2. /\ locker_pc' \in [Lockers -> LockerPcs] /\ Cardinality(Owners) \in Nat /\ Cardinality(Starved) \in Nat
        /\ Cardinality(Owners') = Cardinality(Owners) - 1
        /\ Cardinality(Starved') = Cardinality(Starved)
    BY <1>t, <2>1, CountsMove
  <2>3. Cardinality(Owners') \in Nat
    BY <2>1, <1>t, CountsAreNumbers
  <2> QED BY <2>1, <2>2, <2>3 DEF MutexInv, MutexTypeOK, WordExact
<1>3. CASE EndStarve(l, "s_end", "in")
  <2>1. LockerGoto(l, "in") /\ locker_pc[l] = "s_end" /\ state' = state - 2
    BY <1>3 DEF EndStarve
  <2>2. /\ locker_pc' \in [Lockers -> LockerPcs] /\ Cardinality(Owners) \in Nat /\ Cardinality(Starved) \in Nat
        /\ Cardinality(Owners') = Cardinality(Owners)
        /\ Cardinality(Starved') = Cardinality(Starved) - 1
    BY <1>t, <2>1, CountsMove
  <2>3. Cardinality(Starved') \in Nat
    BY <2>1, <1>t, CountsAreNumbers
  <2> QED BY <2>1, <2>2, <2>3 DEF MutexInv, MutexTypeOK, WordExact
<1>4. CASE EndStarve(l, "s_cancel", "out")
  <2>1. LockerGoto(l, "out") /\ locker_pc[l] = "s_cancel" /\ state' = state - 2
    BY <1>4 DEF EndStarve
  <2>2. /\ locker_pc' \in [Lockers -> LockerPcs] /\ Cardinality(Owners) \in Nat /\ Cardinality(Starved) \in Nat
        /\ Cardinality(Owners') = Cardinality(Owners)
        /\ Cardinality(Starved') = Cardinality(Starved) - 1
    BY <1>t, <2>1, CountsMove
  <2>3. Cardinality(Starved') \in Nat
    BY <2>1, <1>t, CountsAreNumbers
  <2> QED BY <2>1, <2>2, <2>3 DEF MutexInv, MutexTypeOK, WordExact
<1> QED BY <1>1, <1>2, <1>3, <1>4

\* The steps that only use the Event leave the word and the counts alone.
LEMMA EventStepPreserves ==
    ASSUME MutexInv, NEW l \in Lockers,
           \/ ListenForLock(l, "listen", "cas") \/ ListenForLock(l, "s_listen", "s_cas")
           \/ DropFor(l, "drop_in", "in") \/ DropFor(l, "drop_starve", "starve")
           \/ DropFor(l, "s_drop", "s_end") \/ DropFor(l, "await", "out")
           \/ DropFor(l, "s_await", "s_cancel")
           \/ AwaitTurn(l, "await", "cas_again") \/ AwaitTurn(l, "s_await", "s_or")
           \/ NotifyFor(l, "notify_starve", "starve") \/ NotifyFor(l, "s_notify", "s_await")
           \/ NotifyFor(l, "notify_out", "out")
    PROVE  MutexInv'
<1>1. PICK to \in LockerPcs : /\ LockerGoto(l, to) /\ UNCHANGED state
                        /\ In(locker_pc[l], OwnerPcs) = In(to, OwnerPcs)
                        /\ In(locker_pc[l], StarvedPcs) = In(to, StarvedPcs)
  BY DEF ListenForLock, DropFor, AwaitTurn, NotifyFor, In, OwnerPcs, StarvedPcs, LockerPcs
<1> QED BY <1>1, SameCounts

\* Every step preserves the invariant.
LEMMA NextPreserves == MutexInv /\ [MutexNext]_mutexVars => MutexInv'
<1> SUFFICES ASSUME MutexInv, [MutexNext]_mutexVars PROVE MutexInv'
  OBVIOUS
<1>1. CASE UNCHANGED mutexVars
  BY <1>1 DEF mutexVars, MutexInv, MutexTypeOK, WordExact, Owners, Starved
<1>2. ASSUME NEW l \in Lockers, TryLock(l) PROVE MutexInv'
  <2>1. CasFree(l, "in", "listen", "listen") /\ locker_pc[l] = "out"
    BY <1>2 DEF TryLock
  <2> QED BY <2>1, CasFreePreserves DEF OwnerPcs, StarvedPcs, LockerPcs
<1>3. ASSUME NEW l \in Lockers, Cas(l) PROVE MutexInv'
  <2>1. CasFree(l, "drop_in", "await", "drop_starve") /\ locker_pc[l] = "cas"
    BY <1>3 DEF Cas
  <2> QED BY <2>1, CasFreePreserves DEF OwnerPcs, StarvedPcs, LockerPcs
<1>4. ASSUME NEW l \in Lockers, CasAgain(l) PROVE MutexInv'
  <2>1. PICK locked \in {"starve", "listen"} : CasFree(l, "in", locked, "notify_starve")
    BY <1>4 DEF CasAgain
  <2>2. locker_pc[l] = "cas_again"
    BY <1>4 DEF CasAgain
  <2> QED BY <2>1, <2>2, CasFreePreserves DEF OwnerPcs, StarvedPcs, LockerPcs
<1>5. ASSUME NEW l \in Lockers, LockerStep(l) \/ Release(l) \/ CancelLock(l) PROVE MutexInv'
  BY <1>5, <1>3, <1>4, SCasPreserves, SOrPreserves, WordPreserves, EventStepPreserves
     DEF LockerStep, CancelLock
<1> QED BY <1>1, <1>2, <1>5 DEF MutexNext

\* Initially nobody owns the lock or starves.
LEMMA MutexInitHolds == MutexInit => MutexInv
<1> SUFFICES ASSUME MutexInit PROVE MutexInv
  OBVIOUS
<1>1. Owners = {} /\ Starved = {}
  BY DEF MutexInit, Owners, Starved, OwnerPcs, StarvedPcs
<1>2. MutexTypeOK
  BY DEF MutexInit, MutexTypeOK, LockerPcs
<1> QED BY <1>1, <1>2, FS_EmptySet DEF MutexInv, WordExact, MutexInit

\* The inductive invariant of the mutex holds in every reachable state.
THEOREM Invariant == MutexSpec => []MutexInv
BY MutexInitHolds, NextPreserves, PTL DEF MutexSpec

\* The type invariant, for any finite set of lockers.
THEOREM TypeCorrect == MutexSpec => []MutexTypeOK
<1>1. MutexInv => MutexTypeOK
  BY DEF MutexInv
<1> QED BY <1>1, Invariant, PTL

\* The word of mutex.rs counts owners and starved lockers exactly.
THEOREM WordIsExact == MutexSpec => []WordExact
<1>1. MutexInv => WordExact
  BY DEF MutexInv
<1> QED BY <1>1, Invariant, PTL

\* Two guards of one Mutex never exist at the same time.
THEOREM MutexIsExclusive == MutexSpec => []MutualExclusion
<1>1. MutexInv => MutualExclusion
  <2> SUFFICES ASSUME MutexInv PROVE MutualExclusion
    OBVIOUS
  <2>1. IsFiniteSet(Owners)
    <3>1. Owners \subseteq Lockers
      BY DEF Owners
    <3> QED BY <3>1, LockersAssumption, FS_Subset
  <2>2. Cardinality(Owners) \in {0, 1}
    BY DEF MutexInv
  <2> QED BY <2>1, <2>2, AtMostOne DEF MutualExclusion
<1> QED BY <1>1, Invariant, PTL

\* A word of 0 shows that nobody starves.
LEMMA ZeroMeansNoneStarved == ASSUME MutexInv, state = 0 PROVE Starved = {}
<1>1. Starved \subseteq Lockers
  BY DEF Starved
<1>2. IsFiniteSet(Starved)
  BY <1>1, LockersAssumption, FS_Subset
<1>3. Cardinality(Starved) = 0
  BY CountsAreNumbers DEF MutexInv, WordExact
<1> QED BY <1>2, <1>3, FS_EmptySet

\* Who becomes an owner was starved, or found the word 0.
LEMMA NewOwner ==
    ASSUME MutexTypeOK, NEW l \in Lockers, TryLock(l) \/ LockerStep(l) \/ Release(l) \/ CancelLock(l),
           Owners = {}, state # 0
    PROVE  Owners' \subseteq Starved
<1> USE DEF OwnerPcs, StarvedPcs, LockerPcs
<1>1. locker_pc[l] \notin OwnerPcs
  BY DEF Owners
<1>2. PICK to : LockerGoto(l, to) /\ (to \in OwnerPcs => locker_pc[l] \in StarvedPcs)
  <2>1. ASSUME NEW won, NEW locked, NEW starving, CasFree(l, won, locked, starving)
        PROVE  LockerGoto(l, locked) \/ LockerGoto(l, starving)
    BY <2>1 DEF CasFree
  <2>2. CASE TryLock(l)
    BY <2>2, <2>1 DEF TryLock
  <2>3. CASE Cas(l)
    BY <2>3, <2>1 DEF Cas
  <2>4. CASE CasAgain(l)
    BY <2>4, <2>1 DEF CasAgain
  <2>5. CASE SCas(l) \/ SOr(l) \/ Starve(l) \/ Release(l)
    BY <2>5 DEF SCas, SOr, Starve, Release
  <2>6. CASE CancelLock(l)
    BY <2>6 DEF CancelLock, DropFor
  <2>7. CASE /\ LockerStep(l)
             /\ ~Cas(l) /\ ~CasAgain(l) /\ ~SCas(l) /\ ~SOr(l) /\ ~Starve(l)
    BY <2>7, <1>1 DEF LockerStep, ListenForLock, DropFor, AwaitTurn, NotifyFor, EndStarve
  <2> QED BY <2>2, <2>3, <2>4, <2>5, <2>6, <2>7
<1> QED BY <1>2 DEF Owners, Starved, LockerGoto, MutexTypeOK

\* While a locker starves nobody else gets the lock, for any set of lockers.
THEOREM NobodyBarges == MutexSpec => NoBarging
<1>1. MutexInv /\ [MutexNext]_mutexVars => [~Barging]_mutexVars
  <2> SUFFICES ASSUME MutexInv, [MutexNext]_mutexVars, Barging, mutexVars' # mutexVars PROVE FALSE
    OBVIOUS
  <2>1. state # 0
    BY ZeroMeansNoneStarved DEF Barging
  <2>2. PICK l \in Lockers : TryLock(l) \/ LockerStep(l) \/ Release(l) \/ CancelLock(l)
    BY DEF MutexNext
  <2> QED BY <2>1, <2>2, NewOwner DEF Barging, MutexInv
<1> QED BY <1>1, Invariant, PTL DEF MutexSpec, NoBarging

-----------------------------------------------------------------------------
(***************************************************************************)
(* Channel.                                                                *)
(*                                                                         *)
(* Each of the three events has an invariant that says why who waits in it *)
(* is not forgotten.  stream_ops is told of every message, so whoever is   *)
(* in its list was told unless a sender is about to tell all.  send_ops    *)
(* and recv_ops are told of one: while there is room (a message) and       *)
(* somebody waits, one of those who wait was told, or a task is about to   *)
(* tell, or about to try, and will tell the next if it succeeds.           *)
(***************************************************************************)

SenderPcs   == {"push", "notifyrecv", "notifystream"}
ReceiverPcs == {"pop", "unlock", "popped"}
ClosePcs    == {"close", "closesend", "closerecv", "closestream", "closed"}
RestPcs     == {"unborn", "idle", "gone"}
Sends       == {"send", "try_send"}
Recvs       == {"recv", "try_recv", "stream"}

\* Which call a task may be in where it is.
PlaceOK(h, l, o) ==
    \/ l \in RestPcs
    \/ l \in ClosePcs /\ o \in {"close", "drop"}
    \/ l = "end" /\ o \in {"drop"} \cup (IF h \in Senders THEN Sends ELSE Recvs)
    \/ h \in Senders /\ l \in SenderPcs /\ o \in Sends
    \/ h \in Senders /\ l \in {"listen", "await", "notifynext"} /\ o = "send"
    \/ h \in Receivers /\ l \in ReceiverPcs /\ o \in Recvs
    \/ h \in Receivers /\ l \in {"listen", "await"} /\ o \in {"recv", "stream"}
    \/ h \in Receivers /\ l = "notifynext" /\ o = "recv"

ControlInv ==
    /\ len \in Nat /\ (Cap # 0 => len <= Cap) /\ closed \in BOOLEAN
    /\ DOMAIN task_pc = Handles /\ DOMAIN op = Handles
    /\ \A h \in Handles : PlaceOK(h, task_pc[h], op[h])

\* Where a task sees to it that another sender looks for room, or another
\* receiver for a message, or is about to look itself.
TellsRoom(l, o) ==
    \/ l \in {"unlock", "popped"} \/ (l = "push" /\ o = "send")
    \/ Cap # 1 /\ o = "send" /\ l \in {"notifyrecv", "notifystream", "notifynext"}
TellsMessage(l, o) ==
    \/ l = "notifyrecv" \/ (l = "pop" /\ o = "recv")
    \/ Cap # 1 /\ o = "recv" /\ l \in {"popped", "notifynext"}

SomeAt(T)     == \E h \in Handles : task_pc[h] \in T
RoomTeller    == \E h \in Handles : TellsRoom(task_pc[h], op[h])
MessageTeller == \E h \in Handles : TellsMessage(task_pc[h], op[h])

\* Who is in the list of an event, by the call and the place.
SendListens(l, o) == o = "send" /\ l \in {"push", "notifyrecv", "notifystream", "notifynext", "await", "end"}
RecvListens(l, o) == o = "recv" /\ l \in {"pop", "unlock", "popped", "notifynext", "await", "end"}
\* A stream that is about to look, or whose poll returns an item.
Looks(l, o) == o = "stream" /\ l \in {"pop", "unlock", "popped", "end"}

SendInv ==
    /\ IsList(send_ops, Senders)
    /\ \A s \in Ids(send_ops) : SendListens(task_pc[s], op[s])
    /\ \A s \in Senders : task_pc[s] = "await" =>
          /\ s \in Ids(send_ops)
          /\ s \notin Told(send_ops) /\ closed => SomeAt({"closesend"})
          /\ ~closed /\ ~IsFull => Told(send_ops) # {} \/ RoomTeller

RecvInv ==
    /\ IsList(recv_ops, Receivers)
    /\ \A r \in Ids(recv_ops) : RecvListens(task_pc[r], op[r])
    /\ \A r \in Receivers : task_pc[r] = "await" /\ op[r] = "recv" =>
          /\ r \in Ids(recv_ops)
          /\ r \notin Told(recv_ops) /\ closed => SomeAt({"closesend", "closerecv"})
          /\ len > 0 => Told(recv_ops) # {} \/ MessageTeller

StreamInv ==
    /\ IsList(stream_ops, Receivers)
    /\ \A r \in Receivers : op[r] = "stream" =>
          (task_pc[r] = "await" => r \in Ids(stream_ops)) /\ (task_pc[r] = "listen" => r \notin Ids(stream_ops))
    /\ \A r \in Ids(stream_ops) \ Told(stream_ops) : ~Looks(task_pc[r], op[r]) =>
          /\ closed => SomeAt({"closesend", "closerecv", "closestream"})
          /\ len > 0 => SomeAt({"notifyrecv", "notifystream"})

ChannelInv == ControlInv /\ SendInv /\ RecvInv /\ StreamInv

-----------------------------------------------------------------------------
(***************************************************************************)
(* What a step of one task owes to each event.                             *)
(***************************************************************************)
\* Task h goes to `to`, in the call o; the others stay.
Moved(h, to, o) ==
    /\ DOMAIN task_pc' = Handles /\ DOMAIN op' = Handles
    /\ task_pc'[h] = to /\ op'[h] = o
    /\ \A g \in Handles : g # h => task_pc'[g] = task_pc[g] /\ op'[g] = op[g]

\* What is done to the list by h: it joins or leaves, and takes nobody's
\* notification.
Changes(old, new, S, h) ==
    /\ IsList(new, S) /\ Told(new) \subseteq Ids(new)
    /\ Ids(new) \subseteq Ids(old) \cup {h} /\ Ids(old) \ {h} \subseteq Ids(new)
    /\ Told(old) \ {h} \subseteq Told(new)
\* A notification that was there is still there, or nobody listens.
PassedOn(old, new) == Told(old) # {} /\ Ids(new) # {} => Told(new) # {}

SendOwes(h, to, o) ==
    /\ Changes(send_ops, send_ops', Senders, h)
    /\ h \in Ids(send_ops') => SendListens(to, o)
    /\ h \in Senders /\ to = "await" =>
          /\ h \in Ids(send_ops') /\ ~closed'
          /\ IsFull' \/ RoomTeller'
    /\ (closed => closed') /\ (closed' => closed \/ to = "closesend")
    /\ task_pc[h] = "closesend" => Told(send_ops') = Ids(send_ops')
    /\ \/ IsFull' \/ closed' \/ RoomTeller' \/ (Ids(send_ops') # {} => Told(send_ops') # {})
       \/ ~IsFull /\ ~TellsRoom(task_pc[h], op[h]) /\ PassedOn(send_ops, send_ops')

RecvOwes(h, to, o) ==
    /\ Changes(recv_ops, recv_ops', Receivers, h)
    /\ h \in Ids(recv_ops') => RecvListens(to, o)
    /\ h \in Receivers /\ to = "await" /\ o = "recv" => h \in Ids(recv_ops') /\ ~closed' /\ len' = 0
    /\ closed' => closed \/ to = "closesend"
    /\ task_pc[h] = "closesend" => to = "closerecv"
    /\ task_pc[h] = "closerecv" => Told(recv_ops') = Ids(recv_ops')
    /\ \/ len' = 0 \/ MessageTeller' \/ (Ids(recv_ops') # {} => Told(recv_ops') # {})
       \/ len > 0 /\ ~TellsMessage(task_pc[h], op[h]) /\ PassedOn(recv_ops, recv_ops')

StreamOwes(h, to, o) ==
    /\ Changes(stream_ops, stream_ops', Receivers, h)
    /\ h \in Receivers /\ o = "stream" =>
          (to = "await" => h \in Ids(stream_ops')) /\ (to = "listen" => h \notin Ids(stream_ops'))
    /\ h \in Ids(stream_ops') \ Told(stream_ops') /\ ~Looks(to, o) =>
          \/ ~closed' /\ len' = 0
          \/ h \in Ids(stream_ops) \ Told(stream_ops) /\ ~Looks(task_pc[h], op[h])
    /\ closed' => closed \/ to = "closesend"
    /\ task_pc[h] \in {"closesend", "closerecv"} => to \in {"closerecv", "closestream"}
    /\ task_pc[h] \in {"closestream", "notifystream"} => Told(stream_ops') = Ids(stream_ops')
    /\ task_pc[h] = "notifyrecv" => to = "notifystream"
    /\ len' > 0 => len > 0 \/ to = "notifyrecv"

\* Who waits for room is not forgotten by a step that owes nothing.
LEMMA SendHolds ==
    ASSUME ControlInv, SendInv, NEW h \in Handles, NEW to, NEW o, Moved(h, to, o), SendOwes(h, to, o)
    PROVE  SendInv'
<1>1. \A g \in Handles : g # h => task_pc'[g] = task_pc[g] /\ op'[g] = op[g]
  BY DEF Moved
<1>2. task_pc'[h] = to /\ op'[h] = o
  BY DEF Moved
<1>3. Changes(send_ops, send_ops', Senders, h)
  BY DEF SendOwes
<1>4. Senders \subseteq Handles /\ Ids(send_ops) \subseteq Senders /\ Ids(send_ops') \subseteq Senders
  BY <1>3, ListViews DEF Handles, SendInv, Changes
<1>5. \A s \in Ids(send_ops') : SendListens(task_pc'[s], op'[s])
  <2> SUFFICES ASSUME NEW s \in Ids(send_ops') PROVE SendListens(task_pc'[s], op'[s])
    OBVIOUS
  <2>1. CASE s = h
    BY <1>2, <2>1 DEF SendOwes
  <2>2. CASE s # h
    BY <1>1, <1>3, <1>4, <2>2 DEF SendInv, Changes
  <2> QED BY <2>1, <2>2
<1>6. ASSUME NEW s \in Senders, task_pc'[s] = "await"
      PROVE  /\ s \in Ids(send_ops')
             /\ s \notin Told(send_ops') /\ closed' => SomeAt({"closesend"})'
             /\ ~closed' /\ ~IsFull' => Told(send_ops') # {} \/ RoomTeller'
  <2>1. CASE s = h
    BY <1>2, <1>6, <2>1 DEF SendOwes
  <2>2. CASE s # h
    <3>1. task_pc[s] = "await" /\ s \in Ids(send_ops) /\ s \in Ids(send_ops')
      BY <1>1, <1>3, <1>4, <1>6, <2>2 DEF SendInv, Changes
    <3>2. ASSUME s \notin Told(send_ops'), closed' PROVE SomeAt({"closesend"})'
      <4>1. s \notin Told(send_ops)
        BY <1>3, <2>2, <3>2 DEF Changes
      <4>2. CASE ~closed
        BY <1>2, <3>2, <4>2 DEF SendOwes, SomeAt
      <4>3. CASE closed
        <5>1. PICK g \in Handles : task_pc[g] = "closesend"
          BY <3>1, <4>1, <4>3 DEF SendInv, SomeAt
        <5>2. g # h
          BY <3>1, <3>2, <5>1 DEF SendOwes
        <5> QED BY <1>1, <5>1, <5>2 DEF SomeAt
      <4> QED BY <4>2, <4>3
    <3>3. ASSUME ~closed', ~IsFull' PROVE Told(send_ops') # {} \/ RoomTeller'
      <4>1. CASE RoomTeller'
        BY <4>1
      <4>2. CASE ~IsFull /\ ~TellsRoom(task_pc[h], op[h]) /\ PassedOn(send_ops, send_ops')
        <5>1. ~closed
          BY <3>3 DEF SendOwes
        <5>2. Told(send_ops) # {} \/ \E g \in Handles : TellsRoom(task_pc[g], op[g])
          BY <3>1, <4>2, <5>1 DEF SendInv, RoomTeller
        <5>3. CASE Told(send_ops) # {}
          BY <3>1, <4>2, <5>3 DEF PassedOn
        <5>4. ASSUME NEW g \in Handles, TellsRoom(task_pc[g], op[g]) PROVE TellsRoom(task_pc'[g], op'[g])
          BY <1>1, <4>2, <5>4
        <5> QED BY <5>2, <5>3, <5>4 DEF RoomTeller
      <4>3. CASE Ids(send_ops') # {} => Told(send_ops') # {}
        BY <3>1, <4>3
      <4> QED BY <3>3, <4>1, <4>2, <4>3 DEF SendOwes
    <3> QED BY <3>1, <3>2, <3>3
  <2> QED BY <2>1, <2>2
<1> QED BY <1>3, <1>5, <1>6 DEF SendInv, Changes, IsFull

\* Nor who waits for a message.
LEMMA RecvHolds ==
    ASSUME ControlInv, RecvInv, NEW h \in Handles, NEW to, NEW o, Moved(h, to, o), RecvOwes(h, to, o)
    PROVE  RecvInv'
<1>1. \A g \in Handles : g # h => task_pc'[g] = task_pc[g] /\ op'[g] = op[g]
  BY DEF Moved
<1>2. task_pc'[h] = to /\ op'[h] = o
  BY DEF Moved
<1>3. Changes(recv_ops, recv_ops', Receivers, h)
  BY DEF RecvOwes
<1>4. Receivers \subseteq Handles /\ Ids(recv_ops) \subseteq Receivers /\ Ids(recv_ops') \subseteq Receivers
  BY <1>3, ListViews DEF Handles, RecvInv, Changes
<1>5. \A r \in Ids(recv_ops') : RecvListens(task_pc'[r], op'[r])
  <2> SUFFICES ASSUME NEW r \in Ids(recv_ops') PROVE RecvListens(task_pc'[r], op'[r])
    OBVIOUS
  <2>1. CASE r = h
    BY <1>2, <2>1 DEF RecvOwes
  <2>2. CASE r # h
    BY <1>1, <1>3, <1>4, <2>2 DEF RecvInv, Changes
  <2> QED BY <2>1, <2>2
<1>6. ASSUME NEW r \in Receivers, task_pc'[r] = "await", op'[r] = "recv"
      PROVE  /\ r \in Ids(recv_ops')
             /\ r \notin Told(recv_ops') /\ closed' => SomeAt({"closesend", "closerecv"})'
             /\ len' > 0 => Told(recv_ops') # {} \/ MessageTeller'
  <2>1. CASE r = h
    BY <1>2, <1>6, <2>1 DEF RecvOwes
  <2>2. CASE r # h
    <3>1. task_pc[r] = "await" /\ op[r] = "recv" /\ r \in Ids(recv_ops) /\ r \in Ids(recv_ops')
      BY <1>1, <1>3, <1>4, <1>6, <2>2 DEF RecvInv, Changes
    <3>2. ASSUME r \notin Told(recv_ops'), closed' PROVE SomeAt({"closesend", "closerecv"})'
      <4>1. r \notin Told(recv_ops)
        BY <1>3, <2>2, <3>2 DEF Changes
      <4>2. CASE ~closed
        BY <1>2, <3>2, <4>2 DEF RecvOwes, SomeAt
      <4>3. CASE closed
        <5>1. PICK g \in Handles : task_pc[g] \in {"closesend", "closerecv"}
          BY <3>1, <4>1, <4>3 DEF RecvInv, SomeAt
        <5>2. CASE g = h
          BY <1>2, <3>1, <3>2, <5>1, <5>2 DEF RecvOwes, SomeAt
        <5>3. CASE g # h
          BY <1>1, <5>1, <5>3 DEF SomeAt
        <5> QED BY <5>2, <5>3
      <4> QED BY <4>2, <4>3
    <3>3. ASSUME len' > 0 PROVE Told(recv_ops') # {} \/ MessageTeller'
      <4>1. CASE MessageTeller'
        BY <4>1
      <4>2. CASE len > 0 /\ ~TellsMessage(task_pc[h], op[h]) /\ PassedOn(recv_ops, recv_ops')
        <5>2. Told(recv_ops) # {} \/ \E g \in Handles : TellsMessage(task_pc[g], op[g])
          BY <3>1, <4>2 DEF RecvInv, MessageTeller
        <5>3. CASE Told(recv_ops) # {}
          BY <3>1, <4>2, <5>3 DEF PassedOn
        <5>4. ASSUME NEW g \in Handles, TellsMessage(task_pc[g], op[g]) PROVE TellsMessage(task_pc'[g], op'[g])
          BY <1>1, <4>2, <5>4
        <5> QED BY <5>2, <5>3, <5>4 DEF MessageTeller
      <4>3. CASE Ids(recv_ops') # {} => Told(recv_ops') # {}
        BY <3>1, <4>3
      <4> QED BY <3>3, <4>1, <4>2, <4>3 DEF RecvOwes
    <3> QED BY <3>1, <3>2, <3>3
  <2> QED BY <2>1, <2>2
<1> QED BY <1>3, <1>5, <1>6 DEF RecvInv, Changes

\* Nor who has a listener of the stream.
LEMMA StreamHolds ==
    ASSUME ControlInv, StreamInv, NEW h \in Handles, NEW to, NEW o, Moved(h, to, o), StreamOwes(h, to, o)
    PROVE  StreamInv'
<1>1. \A g \in Handles : g # h => task_pc'[g] = task_pc[g] /\ op'[g] = op[g]
  BY DEF Moved
<1>2. task_pc'[h] = to /\ op'[h] = o
  BY DEF Moved
<1>3. Changes(stream_ops, stream_ops', Receivers, h)
  BY DEF StreamOwes
<1>4. Receivers \subseteq Handles /\ Ids(stream_ops) \subseteq Receivers /\ Ids(stream_ops') \subseteq Receivers
  BY <1>3, ListViews DEF Handles, StreamInv, Changes
<1>5. ASSUME NEW r \in Receivers, op'[r] = "stream"
      PROVE  (task_pc'[r] = "await" => r \in Ids(stream_ops')) /\ (task_pc'[r] = "listen" => r \notin Ids(stream_ops'))
  <2>1. CASE r = h
    BY <1>2, <1>5, <2>1 DEF StreamOwes
  <2>2. CASE r # h
    BY <1>1, <1>3, <1>4, <1>5, <2>2 DEF StreamInv, Changes
  <2> QED BY <2>1, <2>2
<1>6. ASSUME NEW r \in Ids(stream_ops') \ Told(stream_ops'), ~Looks(task_pc'[r], op'[r])
      PROVE  /\ closed' => SomeAt({"closesend", "closerecv", "closestream"})'
             /\ len' > 0 => SomeAt({"notifyrecv", "notifystream"})'
  <2>1. CASE ~closed' /\ len' = 0
    BY <2>1
  <2>2. CASE r \in Ids(stream_ops) \ Told(stream_ops) /\ ~Looks(task_pc[r], op[r])
    <3>1. ASSUME closed' PROVE SomeAt({"closesend", "closerecv", "closestream"})'
      <4>1. CASE ~closed
        BY <1>2, <3>1, <4>1 DEF StreamOwes, SomeAt
      <4>2. CASE closed
        <5>1. PICK g \in Handles : task_pc[g] \in {"closesend", "closerecv", "closestream"}
          BY <2>2, <4>2 DEF StreamInv, SomeAt
        <5>2. CASE g = h
          BY <1>2, <1>6, <5>1, <5>2 DEF StreamOwes, SomeAt
        <5>3. CASE g # h
          BY <1>1, <5>1, <5>3 DEF SomeAt
        <5> QED BY <5>2, <5>3
      <4> QED BY <4>1, <4>2
    <3>2. ASSUME len' > 0 PROVE SomeAt({"notifyrecv", "notifystream"})'
      <4>1. CASE ~(len > 0)
        BY <1>2, <3>2, <4>1 DEF StreamOwes, SomeAt
      <4>2. CASE len > 0
        <5>1. PICK g \in Handles : task_pc[g] \in {"notifyrecv", "notifystream"}
          BY <2>2, <4>2 DEF StreamInv, SomeAt
        <5>2. CASE g = h
          BY <1>2, <1>6, <5>1, <5>2 DEF StreamOwes, SomeAt
        <5>3. CASE g # h
          BY <1>1, <5>1, <5>3 DEF SomeAt
        <5> QED BY <5>2, <5>3
      <4> QED BY <4>1, <4>2
    <3> QED BY <3>1, <3>2
  <2>3. CASE r = h
    BY <1>2, <1>6, <2>1, <2>2, <2>3 DEF StreamOwes
  <2>4. CASE r # h
    <3>1. r \in Ids(stream_ops) \ Told(stream_ops) /\ r \in Handles
      BY <1>3, <1>4, <1>6, <2>4 DEF Changes
    <3> QED BY <1>1, <1>6, <2>2, <2>4, <3>1
  <2> QED BY <2>3, <2>4
<1> QED BY <1>3, <1>5, <1>6 DEF StreamInv, Changes

\* The control part.
LEMMA ControlHolds ==
    ASSUME ControlInv, NEW h \in Handles, NEW to, NEW o, Moved(h, to, o), PlaceOK(h, to, o),
           len' \in Nat, Cap # 0 => len' <= Cap, closed' \in BOOLEAN
    PROVE  ControlInv'
<1> SUFFICES ASSUME NEW g \in Handles PROVE PlaceOK(g, task_pc'[g], op'[g])
  BY DEF ControlInv, Moved, Handles
<1> QED BY DEF ControlInv, Moved

\* All parts together.
LEMMA StepHolds ==
    ASSUME ChannelInv, NEW h \in Handles, NEW to, NEW o, Moved(h, to, o), PlaceOK(h, to, o),
           len' \in Nat, Cap # 0 => len' <= Cap, closed' \in BOOLEAN,
           SendOwes(h, to, o), RecvOwes(h, to, o), StreamOwes(h, to, o)
    PROVE  ChannelInv'
BY ControlHolds, SendHolds, RecvHolds, StreamHolds DEF ChannelInv

\* How a step moves its task.
LEMMA Goes ==
    ASSUME ControlInv, NEW h \in Handles, NEW to, TaskGoto(h, to)
    PROVE  /\ op' = op => Moved(h, to, op[h])
           /\ \A o : op' = [op EXCEPT ![h] = o] => Moved(h, to, o)
BY DEF ControlInv, TaskGoto, Moved

\* What each operation on an event changes, and what it passes on: none at all,
LEMMA Keeps ==
    ASSUME NEW S, NEW e, IsList(e, S), NEW h
    PROVE  Changes(e, e, S, h) /\ PassedOn(e, e)
BY ListViews DEF Changes, PassedOn

\* listen,
LEMMA Joins ==
    ASSUME NEW S, NEW e, IsList(e, S), NEW h \in S, h \notin Ids(e)
    PROVE  /\ Changes(e, Listen(e, h), S, h) /\ PassedOn(e, Listen(e, h))
           /\ h \in Ids(Listen(e, h))
BY ListenList, ListViews DEF Changes, PassedOn

\* a listener that completes,
LEMMA Leaves ==
    ASSUME NEW S, NEW e, IsList(e, S), NEW h
    PROVE  Changes(e, Consume(e, h), S, h) /\ h \notin Ids(Consume(e, h))
BY WithoutList, ListViews DEF Changes, Consume

\* one that is dropped,
LEMMA Drops ==
    ASSUME NEW S, NEW e, IsList(e, S), NEW h
    PROVE  /\ Changes(e, DropListener(e, h), S, h) /\ PassedOn(e, DropListener(e, h))
           /\ h \notin Ids(DropListener(e, h))
<1>1. /\ IsList(DropListener(e, h), S) /\ Ids(DropListener(e, h)) = Ids(e) \ {h}
      /\ Told(e) \ {h} \subseteq Told(DropListener(e, h))
      /\ h \in Told(e) /\ Ids(e) # {h} => Told(DropListener(e, h)) # {}
  BY DropList
<1>2. Told(DropListener(e, h)) \subseteq Ids(DropListener(e, h))
  BY <1>1, ListViews
<1> QED BY <1>1, <1>2 DEF Changes, PassedOn

\* and notify.
LEMMA Rings ==
    ASSUME NEW S, NEW e, IsList(e, S), NEW h, NEW n \in Nat, n > 0
    PROVE  /\ Changes(e, Notify(e, n), S, h) /\ PassedOn(e, Notify(e, n))
           /\ Ids(Notify(e, n)) = Ids(e) /\ (Ids(Notify(e, n)) # {} => Told(Notify(e, n)) # {})
           /\ n >= Len(e) => Told(Notify(e, n)) = Ids(Notify(e, n))
<1>1. /\ IsList(Notify(e, n), S) /\ Ids(Notify(e, n)) = Ids(e)
      /\ Told(e) \subseteq Told(Notify(e, n))
      /\ Ids(e) # {} => Told(Notify(e, n)) # {}
      /\ n >= Len(e) => Told(Notify(e, n)) = Ids(e)
  BY NotifyList
<1>2. Told(Notify(e, n)) \subseteq Ids(Notify(e, n))
  BY <1>1, ListViews
<1> QED BY <1>1, <1>2 DEF Changes, PassedOn

\* `All` is enough for everybody.
LEMMA RingsAll ==
    ASSUME NEW S, S \in {Senders, Receivers}, NEW e, IsList(e, S), NEW h, h \in Handles
    PROVE  /\ Changes(e, Notify(e, All), S, h) /\ PassedOn(e, Notify(e, All))
           /\ Ids(Notify(e, All)) = Ids(e) /\ Told(Notify(e, All)) = Ids(Notify(e, All))
<1>1. IsFiniteSet(Handles) /\ S \subseteq Handles
  BY ChannelAssumption, FS_Union DEF Handles
<1>2. /\ IsFiniteSet(S) /\ Cardinality(S) \in Nat /\ All \in Nat /\ Cardinality(S) <= All
  BY <1>1, FS_Subset, FS_CardinalityType DEF All
<1>3. All > 0
  BY <1>1, <1>2, FS_EmptySet DEF All
<1>4. Len(e) \in Nat /\ Len(e) <= Cardinality(S)
  BY <1>2, ListLength, ListEntries
<1>5. All >= Len(e)
  BY <1>2, <1>4
<1> QED BY <1>2, <1>3, <1>5, Rings

\* The lists are lists, and who awaits is in one.
LEMMA Facts ==
    ASSUME ChannelInv
    PROVE  /\ ControlInv /\ IsList(send_ops, Senders) /\ IsList(recv_ops, Receivers) /\ IsList(stream_ops, Receivers)
           /\ Ids(send_ops) \subseteq Senders /\ Ids(recv_ops) \subseteq Receivers /\ Ids(stream_ops) \subseteq Receivers
           /\ Senders \cap Receivers = {} /\ Cap \in Nat
           /\ \A h : /\ Listening(send_ops, h) <=> h \in Ids(send_ops)
                     /\ Listening(recv_ops, h) <=> h \in Ids(recv_ops)
                     /\ Listening(stream_ops, h) <=> h \in Ids(stream_ops)
BY ListViews, ChannelAssumption DEF ChannelInv, SendInv, RecvInv, StreamInv

\* What a step owes that calls no event.
QuietOwes(h, to, o) ==
    /\ h \in Ids(send_ops) => SendListens(to, o)
    /\ h \in Senders /\ to = "await" =>
          /\ h \in Ids(send_ops) /\ ~closed'
          /\ IsFull' \/ RoomTeller'
    /\ (closed => closed') /\ (closed' => closed \/ to = "closesend")
    /\ task_pc[h] \notin {"closesend", "closerecv", "closestream", "notifyrecv", "notifystream"}
    /\ IsFull' \/ closed' \/ TellsRoom(to, o) \/ RoomTeller' \/ (~IsFull /\ ~TellsRoom(task_pc[h], op[h]))
    /\ h \in Ids(recv_ops) => RecvListens(to, o)
    /\ h \in Receivers /\ to = "await" /\ o = "recv" => h \in Ids(recv_ops) /\ ~closed' /\ len' = 0
    /\ len' = 0 \/ TellsMessage(to, o) \/ (len > 0 /\ ~TellsMessage(task_pc[h], op[h]))
    /\ h \in Receivers /\ o = "stream" =>
          (to = "await" => h \in Ids(stream_ops)) /\ (to = "listen" => h \notin Ids(stream_ops))
    /\ h \in Ids(stream_ops) /\ Looks(task_pc[h], op[h]) => Looks(to, o) \/ (~closed' /\ len' = 0)
    /\ len' > 0 => len > 0 \/ to = "notifyrecv"

\* Such a step keeps the invariant.
LEMMA QuietHolds ==
    ASSUME ChannelInv, NEW h \in Handles, NEW to, NEW o, Moved(h, to, o), PlaceOK(h, to, o),
           len' \in Nat, Cap # 0 => len' <= Cap, closed' \in BOOLEAN, UNCHANGED events, QuietOwes(h, to, o)
    PROVE  ChannelInv'
<1>1. /\ send_ops' = send_ops /\ recv_ops' = recv_ops /\ stream_ops' = stream_ops
  BY DEF events
<1>2. /\ Changes(send_ops, send_ops, Senders, h) /\ PassedOn(send_ops, send_ops)
      /\ Changes(recv_ops, recv_ops, Receivers, h) /\ PassedOn(recv_ops, recv_ops)
      /\ Changes(stream_ops, stream_ops, Receivers, h)
  BY Facts, Keeps
<1>3. SendOwes(h, to, o)
  <2>1. TellsRoom(to, o) => RoomTeller'
    BY DEF Moved, RoomTeller
  <2> QED BY <1>1, <1>2, <2>1 DEF QuietOwes, SendOwes
<1>4. RecvOwes(h, to, o)
  <2>1. TellsMessage(to, o) => MessageTeller'
    BY DEF Moved, MessageTeller
  <2> QED BY <1>1, <1>2, <2>1 DEF QuietOwes, RecvOwes
<1>5. StreamOwes(h, to, o)
  BY <1>1, <1>2 DEF QuietOwes, StreamOwes
<1> QED BY <1>3, <1>4, <1>5, StepHolds

-----------------------------------------------------------------------------
(***************************************************************************)
(* The steps that call no event.                                           *)
(***************************************************************************)
\* What is known of a task and of the queue.
LEMMA Known ==
    ASSUME ChannelInv, NEW h \in Handles
    PROVE  /\ ControlInv /\ PlaceOK(h, task_pc[h], op[h]) /\ len \in Nat /\ (Cap # 0 => len <= Cap)
           /\ closed \in BOOLEAN /\ Cap \in Nat
           /\ h \in Senders <=> h \notin Receivers
           /\ Ids(send_ops) \subseteq Senders /\ Ids(recv_ops) \subseteq Receivers /\ Ids(stream_ops) \subseteq Receivers
           /\ h \in Ids(send_ops) => SendListens(task_pc[h], op[h])
           /\ h \in Ids(recv_ops) => RecvListens(task_pc[h], op[h])
           /\ h \in Receivers /\ op[h] = "stream" => (task_pc[h] = "await" => h \in Ids(stream_ops))
                                                     /\ (task_pc[h] = "listen" => h \notin Ids(stream_ops))
BY Facts DEF ChannelInv, ControlInv, SendInv, RecvInv, StreamInv, Handles

\* A call begins, which only changes where its task is.
LEMMA CallHolds ==
    ASSUME ChannelInv, NEW h \in Handles, NEW o, NEW to, Calls(h, o, to), UNCHANGED <<queue, events>>,
           PlaceOK(h, to, o), to \in {"push", "pop", "await", "close", "end"},
           to = "await" => h \in Receivers /\ o = "stream" /\ h \in Ids(stream_ops),
           to = "end" => o = "drop"
    PROVE  ChannelInv'
<1>1. task_pc[h] = "idle" /\ Moved(h, to, o)
  BY Goes, Known DEF Calls
<1>2. len' = len /\ closed' = closed /\ IsFull' = IsFull /\ UNCHANGED events
  BY DEF queue, IsFull
<1>3. QuietOwes(h, to, o)
  BY <1>1, <1>2, Known DEF QuietOwes, SendListens, RecvListens, Looks, TellsRoom, TellsMessage
<1> QED BY <1>1, <1>2, <1>3, Known, QuietHolds

\* The calls there are: send, recv, a poll of the stream, close, and the drop of
\* the handle.
LEMMA StartHolds ==
    ASSUME ChannelInv, NEW h \in Handles,
           (h \in Senders /\ Send(h)) \/ (h \in Receivers /\ Recv(h)) \/ CallClose(h) \/ DropHandle(h)
    PROVE  ChannelInv'
<1>1. CASE h \in Senders /\ Send(h)
  <2>1. PICK o \in {"send", "try_send"} : Calls(h, o, "push") /\ UNCHANGED <<queue, events>>
    BY <1>1 DEF Send
  <2> QED BY <1>1, <2>1, CallHolds DEF PlaceOK, SenderPcs, Sends
<1>2. CASE h \in Receivers /\ Recv(h)
  <2>1. PICK o \in Recvs, to \in {"pop", "await"} :
          Calls(h, o, to) /\ (to = "await" => o = "stream" /\ h \in Ids(stream_ops))
    BY <1>2, Facts DEF Recv, Recvs
  <2>2. UNCHANGED <<queue, events>>
    BY <1>2 DEF Recv
  <2> QED BY <1>2, <2>1, <2>2, CallHolds DEF PlaceOK, ReceiverPcs, Recvs
<1>3. CASE CallClose(h)
  BY <1>3, CallHolds DEF CallClose, PlaceOK, ClosePcs
<1>4. CASE DropHandle(h)
  <2>1. PICK to \in {"close", "end"} : Calls(h, "drop", to) /\ UNCHANGED <<queue, events>>
    BY <1>4 DEF DropHandle
  <2> QED BY <2>1, CallHolds DEF PlaceOK, ClosePcs
<1> QED BY <1>1, <1>2, <1>3, <1>4

\* A handle is cloned.
LEMMA CloneHolds ==
    ASSUME ChannelInv, NEW h \in Handles, NEW g \in Handles, Clone(h, g) PROVE ChannelInv'
<1>1. task_pc[g] = "unborn" /\ Moved(g, "idle", op[g])
  BY Goes, Known DEF Clone
<1>2. len' = len /\ closed' = closed /\ IsFull' = IsFull /\ UNCHANGED events
  BY DEF Clone, queue, IsFull
<1>3. QuietOwes(g, "idle", op[g])
  BY <1>1, <1>2, Known DEF QuietOwes, SendListens, RecvListens, Looks, TellsRoom, TellsMessage
<1> QED BY <1>1, <1>2, <1>3, Known, QuietHolds DEF PlaceOK, RestPcs

\* A try to send: closed, full (or so it seems), or there is room.
LEMMA PushHolds ==
    ASSUME ChannelInv, NEW h \in Handles, Push(h) PROVE ChannelInv'
<1>1. task_pc[h] = "push" /\ h \in Senders /\ op[h] \in Sends /\ UNCHANGED <<closed, events, op>>
  BY Known DEF Push, PlaceOK, RestPcs, ClosePcs, SenderPcs, ReceiverPcs
<1>2. CASE closed /\ TaskGoto(h, "end") /\ len' = len
  <2>1. Moved(h, "end", op[h])
    BY <1>1, <1>2, Goes, Known
  <2>2. QuietOwes(h, "end", op[h])
    BY <1>1, <1>2, Known DEF QuietOwes, SendListens, RecvListens, Looks, TellsRoom, TellsMessage, Sends
  <2> QED BY <1>1, <1>2, <2>1, <2>2, Known, QuietHolds DEF PlaceOK, Sends
<1>3. ASSUME ~closed, IsFull \/ SeemsFull, len' = len,
             NEW to \in {"end", "await", "listen"}, TaskGoto(h, to),
             to = "end" <=> op[h] = "try_send", to = "await" => h \in Ids(send_ops), to = "listen" => h \notin Ids(send_ops)
      PROVE  ChannelInv'
  <2>1. Moved(h, to, op[h])
    BY <1>1, <1>3, Goes, Known
  <2>2. IsFull' = IsFull
    BY <1>3 DEF IsFull
  <2>3. IsFull' \/ RoomTeller'
    <3>1. CASE IsFull
      BY <2>2, <3>1
    <3>2. CASE SeemsFull
      <4>1. PICK g \in Handles : task_pc[g] = "unlock"
        BY <3>2 DEF SeemsFull, Handles
      <4> QED BY <1>1, <2>1, <4>1 DEF Moved, TellsRoom, RoomTeller
    <3> QED BY <1>3, <3>1, <3>2
  <2>4. QuietOwes(h, to, op[h])
    BY <1>1, <1>3, <2>2, <2>3, Known DEF QuietOwes, SendListens, RecvListens, Looks, TellsRoom, TellsMessage, Sends
  <2> QED BY <1>1, <1>3, <2>1, <2>4, Known, QuietHolds DEF PlaceOK, Sends
<1>4. CASE ~closed /\ ~IsFull /\ ~SeemsFull /\ len' = len + 1 /\ TaskGoto(h, "notifyrecv")
  <2>1. Moved(h, "notifyrecv", op[h])
    BY <1>1, <1>4, Goes, Known
  <2>2. len' \in Nat /\ (Cap # 0 => len' <= Cap) /\ (Cap = 1 => IsFull')
    BY <1>4, Known DEF IsFull
  <2>3. QuietOwes(h, "notifyrecv", op[h])
    BY <1>1, <1>4, <2>2, Known DEF QuietOwes, SendListens, RecvListens, Looks, TellsRoom, TellsMessage, Sends
  <2> QED BY <1>1, <1>4, <2>1, <2>2, <2>3, Known, QuietHolds DEF PlaceOK, SenderPcs
<1>5. CASE /\ ~closed /\ (IsFull \/ SeemsFull) /\ len' = len
           /\ TaskGoto(h, IF op[h] = "try_send" THEN "end" ELSE IF Listens(h) THEN "await" ELSE "listen")
  <2>1. Listens(h) <=> h \in Ids(send_ops)
    BY <1>1, Facts DEF Listens
  <2> QED BY <1>3, <1>5, <2>1
<1> QED BY <1>2, <1>4, <1>5 DEF Push

\* A try to receive: a message, the end, or nothing.
LEMMA PopHolds ==
    ASSUME ChannelInv, NEW h \in Handles, Pop(h) PROVE ChannelInv'
<1>1. task_pc[h] = "pop" /\ h \in Receivers /\ op[h] \in Recvs /\ UNCHANGED <<closed, events, op>>
  BY Known DEF Pop, PlaceOK, RestPcs, ClosePcs, SenderPcs, ReceiverPcs
<1>2. CASE len > 0 /\ len' = len - 1 /\ TaskGoto(h, IF Cap = 1 THEN "unlock" ELSE "popped")
  <2>1. PICK to \in {"unlock", "popped"} : Moved(h, to, op[h]) /\ (to = "unlock" <=> Cap = 1)
    BY <1>1, <1>2, Goes, Known
  <2>2. len' \in Nat /\ (Cap # 0 => len' <= Cap) /\ (Cap = 1 => len' = 0)
    BY <1>2, Known
  <2>3. QuietOwes(h, to, op[h])
    BY <1>1, <1>2, <2>1, <2>2, Known DEF QuietOwes, SendListens, RecvListens, Looks, TellsRoom, TellsMessage, Recvs
  <2> QED BY <1>1, <2>1, <2>2, <2>3, Known, QuietHolds DEF PlaceOK, ReceiverPcs
<1>3. CASE len = 0 /\ closed /\ TaskGoto(h, "end") /\ len' = len
  <2>1. Moved(h, "end", op[h])
    BY <1>1, <1>3, Goes, Known
  <2>2. QuietOwes(h, "end", op[h])
    BY <1>1, <1>3, Known DEF QuietOwes, SendListens, RecvListens, Looks, TellsRoom, TellsMessage, Recvs
  <2> QED BY <1>1, <1>3, <2>1, <2>2, Known, QuietHolds DEF PlaceOK
<1>4. ASSUME len = 0, ~closed, len' = len, NEW to \in {"end", "await", "listen"}, TaskGoto(h, to),
             to = "end" <=> op[h] = "try_recv",
             to = "await" <=> op[h] # "try_recv" /\ h \in IF op[h] = "recv" THEN Ids(recv_ops) ELSE Ids(stream_ops)
      PROVE  ChannelInv'
  <2>1. Moved(h, to, op[h])
    BY <1>1, <1>4, Goes, Known
  <2>2. IsFull' = IsFull
    BY <1>4 DEF IsFull
  <2>3. QuietOwes(h, to, op[h])
    BY <1>1, <1>4, <2>2, Known DEF QuietOwes, SendListens, RecvListens, Looks, TellsRoom, TellsMessage, Recvs
  <2> QED BY <1>1, <1>4, <2>1, <2>3, Known, QuietHolds DEF PlaceOK, Recvs
<1>5. CASE /\ len = 0 /\ ~closed /\ len' = len
           /\ TaskGoto(h, IF op[h] = "try_recv" THEN "end" ELSE IF Listens(h) THEN "await" ELSE "listen")
  <2>1. Listens(h) <=> h \in IF op[h] = "recv" THEN Ids(recv_ops) ELSE Ids(stream_ops)
    BY <1>1, Facts DEF Listens
  <2> QED BY <1>4, <1>5, <2>1
<1> QED BY <1>2, <1>3, <1>5 DEF Pop

\* The pop of a queue of one ends.
LEMMA UnlockHolds ==
    ASSUME ChannelInv, NEW h \in Handles, UnlockSlot(h) PROVE ChannelInv'
<1>1. task_pc[h] = "unlock" /\ h \in Receivers /\ op[h] \in Recvs
  BY Known DEF UnlockSlot, PlaceOK, RestPcs, ClosePcs, SenderPcs, ReceiverPcs
<1>2. Moved(h, "popped", op[h]) /\ len' = len /\ closed' = closed /\ IsFull' = IsFull /\ UNCHANGED events
  BY Goes, Known DEF UnlockSlot, queue, IsFull
<1>3. QuietOwes(h, "popped", op[h])
  BY <1>1, <1>2, Known DEF QuietOwes, SendListens, RecvListens, Looks, TellsRoom, TellsMessage, Recvs
<1> QED BY <1>1, <1>2, <1>3, Known, QuietHolds DEF PlaceOK, ReceiverPcs

\* The channel is closed, by the first who comes; and the last step of close.
LEMMA CloseHolds ==
    ASSUME ChannelInv, NEW h \in Handles, Close(h) \/ Closed(h) PROVE ChannelInv'
<1>1. task_pc[h] \in {"close", "closed"} /\ op[h] \in {"close", "drop"}
  BY Known DEF Close, Closed, PlaceOK, RestPcs, ClosePcs, SenderPcs, ReceiverPcs
<1>2. CASE Close(h)
  <2>1. PICK to \in {"closed", "closesend"} : Moved(h, to, op[h]) /\ (to = "closed" <=> closed)
    BY <1>2, Goes, Known DEF Close
  <2>2. len' = len /\ closed' = TRUE /\ UNCHANGED events
    BY <1>2 DEF Close
  <2>3. QuietOwes(h, to, op[h])
    BY <1>1, <1>2, <2>1, <2>2, Known DEF Close, QuietOwes, SendListens, RecvListens, Looks, TellsRoom, TellsMessage
  <2> QED BY <1>1, <2>1, <2>2, <2>3, Known, QuietHolds DEF PlaceOK, ClosePcs
<1>3. CASE Closed(h)
  <2>1. PICK to \in {"end", "idle"}, o \in {"drop", "none"} : Moved(h, to, o) /\ (to = "end" => o = "drop") /\ (to = "idle" => o = "none")
    BY <1>1, <1>3, Goes, Known DEF Closed
  <2>2. task_pc[h] = "closed" /\ len' = len /\ closed' = closed /\ IsFull' = IsFull /\ UNCHANGED events
    BY <1>3 DEF Closed, queue, IsFull
  <2>3. QuietOwes(h, to, o)
    BY <1>1, <2>1, <2>2, Known DEF QuietOwes, SendListens, RecvListens, Looks, TellsRoom, TellsMessage
  <2> QED BY <1>1, <2>1, <2>2, <2>3, Known, QuietHolds DEF PlaceOK, RestPcs
<1> QED BY <1>2, <1>3

-----------------------------------------------------------------------------
(***************************************************************************)
(* The steps that call an event.                                           *)
(***************************************************************************)
\* What is the same for all of them: they leave the queue alone.
LEMMA EventHolds ==
    ASSUME ChannelInv, NEW h \in Handles, NEW to, NEW o, Moved(h, to, o), PlaceOK(h, to, o), UNCHANGED queue,
           IsFull' = IsFull => SendOwes(h, to, o) /\ RecvOwes(h, to, o) /\ StreamOwes(h, to, o)
    PROVE  ChannelInv'
<1>1. len' = len /\ closed' = closed
  BY DEF queue
<1>2. IsFull' = IsFull
  BY <1>1 DEF IsFull
<1> QED BY <1>1, <1>2, Known, StepHolds

\* A sender tells a receiver, then the streams, then the next sender.
LEMMA NotifyRecvHolds ==
    ASSUME ChannelInv, NEW h \in Handles, NotifyRecv(h) PROVE ChannelInv'
<1> DEFINE to == "notifystream"
           o == op[h]
<1>1. task_pc[h] = "notifyrecv" /\ h \in Senders /\ o \in Sends
  BY Known DEF NotifyRecv, PlaceOK, RestPcs, ClosePcs, SenderPcs, ReceiverPcs
<1>2. /\ Moved(h, to, o) /\ UNCHANGED <<queue, send_ops, stream_ops>>
      /\ len' = len /\ closed' = closed /\ recv_ops' = Notify(recv_ops, 1)
  BY Goes, Known DEF NotifyRecv, queue
<1>3. /\ Changes(send_ops, send_ops', Senders, h) /\ PassedOn(send_ops, send_ops')
      /\ Changes(stream_ops, stream_ops', Receivers, h)
  BY <1>2, Facts, Keeps
<1>4. /\ Changes(recv_ops, recv_ops', Receivers, h)
      /\ Ids(recv_ops') = Ids(recv_ops) /\ (Ids(recv_ops') # {} => Told(recv_ops') # {})
  BY <1>2, Facts, Rings
<1>5. ASSUME IsFull' = IsFull PROVE SendOwes(h, to, o)
  <2>1. TellsRoom(to, o) => RoomTeller'
    BY <1>2 DEF Moved, RoomTeller
  <2> QED BY <1>1, <1>2, <1>3, <1>5, <2>1, Known DEF SendOwes, SendListens, TellsRoom
<1>6. RecvOwes(h, to, o)
  BY <1>1, <1>2, <1>4, Known DEF RecvOwes, RecvListens, TellsMessage
<1>7. StreamOwes(h, to, o)
  BY <1>1, <1>2, <1>3, Known DEF StreamOwes, Looks
<1> QED BY <1>1, <1>2, <1>5, <1>6, <1>7, EventHolds DEF PlaceOK, SenderPcs

\* Everybody with a listener of the stream is told.
LEMMA NotifyStreamHolds ==
    ASSUME ChannelInv, NEW h \in Handles, NotifyStream(h) PROVE ChannelInv'
<1> DEFINE o == op[h]
<1>1. task_pc[h] = "notifystream" /\ h \in Senders /\ o \in Sends
  BY Known DEF NotifyStream, PlaceOK, RestPcs, ClosePcs, SenderPcs, ReceiverPcs
<1>2. PICK to \in {"notifynext", "end"} : Moved(h, to, o) /\ (to = "notifynext" <=> o = "send" /\ Cap # 1)
  BY Goes, Known DEF NotifyStream
<1>3. /\ UNCHANGED <<queue, send_ops, recv_ops>> /\ len' = len /\ closed' = closed
      /\ stream_ops' = Notify(stream_ops, All)
  BY DEF NotifyStream, queue
<1>4. /\ Changes(send_ops, send_ops', Senders, h) /\ PassedOn(send_ops, send_ops')
      /\ Changes(recv_ops, recv_ops', Receivers, h) /\ PassedOn(recv_ops, recv_ops')
  BY <1>3, Facts, Keeps
<1>5. /\ Changes(stream_ops, stream_ops', Receivers, h) /\ Told(stream_ops') = Ids(stream_ops')
      /\ Ids(stream_ops') = Ids(stream_ops)
  BY <1>3, Facts, RingsAll
<1>6. ASSUME IsFull' = IsFull PROVE SendOwes(h, to, o)
  <2>1. TellsRoom(to, o) => RoomTeller'
    BY <1>2 DEF Moved, RoomTeller
  <2> QED BY <1>1, <1>2, <1>3, <1>4, <1>6, <2>1, Known DEF SendOwes, SendListens, TellsRoom, Sends
<1>7. RecvOwes(h, to, o)
  BY <1>1, <1>2, <1>3, <1>4, Known DEF RecvOwes, RecvListens, TellsMessage
<1>8. StreamOwes(h, to, o)
  BY <1>1, <1>2, <1>3, <1>5, Known DEF StreamOwes, Looks
<1> QED BY <1>1, <1>2, <1>3, <1>6, <1>7, <1>8, EventHolds DEF PlaceOK

\* The room is told to one sender, by a receiver or by a sender.
LEMMA TellSendHolds ==
    ASSUME ChannelInv, NEW h \in Handles, NotifyNextSend(h) \/ NotifySend(h) PROVE ChannelInv'
<1> DEFINE o == op[h]
<1>1. \/ task_pc[h] = "notifynext" /\ h \in Senders /\ o = "send" /\ NotifyNextSend(h)
      \/ task_pc[h] = "popped" /\ h \in Receivers /\ o \in Recvs /\ NotifySend(h)
  BY Known DEF NotifyNextSend, NotifySend, PlaceOK, RestPcs, ClosePcs, SenderPcs, ReceiverPcs
<1>2. PICK to \in {"notifynext", "end"} :
        Moved(h, to, o) /\ (to = "notifynext" <=> h \in Receivers /\ o = "recv" /\ Cap # 1)
  BY <1>1, Goes, Known DEF NotifyNextSend, NotifySend
<1>3. /\ UNCHANGED <<queue, recv_ops, stream_ops>> /\ len' = len /\ closed' = closed
      /\ send_ops' = Notify(send_ops, 1)
  BY DEF NotifyNextSend, NotifySend, queue
<1>4. /\ Changes(recv_ops, recv_ops', Receivers, h) /\ PassedOn(recv_ops, recv_ops')
      /\ Changes(stream_ops, stream_ops', Receivers, h)
  BY <1>3, Facts, Keeps
<1>5. /\ Changes(send_ops, send_ops', Senders, h)
      /\ Ids(send_ops') = Ids(send_ops) /\ (Ids(send_ops') # {} => Told(send_ops') # {})
  BY <1>3, Facts, Rings
<1>6. SendOwes(h, to, o)
  BY <1>1, <1>2, <1>3, <1>5, Known DEF SendOwes, SendListens
<1>7. RecvOwes(h, to, o)
  <2>1. TellsMessage(to, o) => MessageTeller'
    BY <1>2 DEF Moved, MessageTeller
  <2> QED BY <1>1, <1>2, <1>3, <1>4, <2>1, Known DEF RecvOwes, RecvListens, TellsMessage, Recvs
<1>8. StreamOwes(h, to, o)
  BY <1>1, <1>2, <1>3, <1>4, Known DEF StreamOwes, Looks, Recvs
<1>9. PlaceOK(h, to, o)
  BY <1>1, <1>2, Known DEF PlaceOK, Recvs, Sends
<1> QED BY <1>2, <1>3, <1>6, <1>7, <1>8, <1>9, EventHolds

\* A receiver tells the next one.
LEMMA NextRecvHolds ==
    ASSUME ChannelInv, NEW h \in Handles, NotifyNextRecv(h) PROVE ChannelInv'
<1> DEFINE o == op[h]
           to == "end"
<1>1. task_pc[h] = "notifynext" /\ h \in Receivers /\ o = "recv"
  BY Known DEF NotifyNextRecv, PlaceOK, RestPcs, ClosePcs, SenderPcs, ReceiverPcs
<1>2. Moved(h, to, o)
  BY Goes, Known DEF NotifyNextRecv
<1>3. /\ UNCHANGED <<queue, send_ops, stream_ops>> /\ len' = len /\ closed' = closed
      /\ recv_ops' = Notify(recv_ops, 1)
  BY DEF NotifyNextRecv, queue
<1>4. /\ Changes(send_ops, send_ops', Senders, h) /\ PassedOn(send_ops, send_ops')
      /\ Changes(stream_ops, stream_ops', Receivers, h)
  BY <1>3, Facts, Keeps
<1>5. /\ Changes(recv_ops, recv_ops', Receivers, h)
      /\ Ids(recv_ops') = Ids(recv_ops) /\ (Ids(recv_ops') # {} => Told(recv_ops') # {})
  BY <1>3, Facts, Rings
<1>6. ASSUME IsFull' = IsFull PROVE SendOwes(h, to, o)
  BY <1>1, <1>3, <1>4, <1>6, Known DEF SendOwes, SendListens, TellsRoom
<1>7. RecvOwes(h, to, o)
  BY <1>1, <1>3, <1>5, Known DEF RecvOwes, RecvListens
<1>8. StreamOwes(h, to, o)
  BY <1>1, <1>3, <1>4, Known DEF StreamOwes, Looks
<1>9. PlaceOK(h, to, o)
  BY <1>1, Known DEF PlaceOK, Recvs
<1> HIDE DEF to, o
<1> QED BY <1>2, <1>3, <1>6, <1>7, <1>8, <1>9, EventHolds

\* The end is told to everybody, one event after the other.
LEMMA TellEndHolds ==
    ASSUME ChannelInv, NEW h \in Handles, CloseSend(h) \/ CloseRecv(h) \/ CloseStream(h) PROVE ChannelInv'
<1> DEFINE o == op[h]
<1>1. task_pc[h] \in {"closesend", "closerecv", "closestream"} /\ o \in {"close", "drop"}
  BY Known DEF CloseSend, CloseRecv, CloseStream, PlaceOK, RestPcs, ClosePcs, SenderPcs, ReceiverPcs
<1>2. PICK to \in {"closerecv", "closestream", "closed"} :
        /\ Moved(h, to, o) /\ (task_pc[h] = "closesend" <=> to = "closerecv") /\ (task_pc[h] = "closerecv" <=> to = "closestream")
  BY Goes, Known DEF CloseSend, CloseRecv, CloseStream
<1>3. /\ UNCHANGED queue /\ len' = len /\ closed' = closed
      /\ \/ task_pc[h] = "closesend" /\ send_ops' = Notify(send_ops, All)
         \/ task_pc[h] # "closesend" /\ send_ops' = send_ops
      /\ \/ task_pc[h] = "closerecv" /\ recv_ops' = Notify(recv_ops, All)
         \/ task_pc[h] # "closerecv" /\ recv_ops' = recv_ops
      /\ \/ task_pc[h] = "closestream" /\ stream_ops' = Notify(stream_ops, All)
         \/ task_pc[h] # "closestream" /\ stream_ops' = stream_ops
  BY DEF CloseSend, CloseRecv, CloseStream, queue
<1>4. /\ Changes(send_ops, send_ops', Senders, h) /\ PassedOn(send_ops, send_ops') /\ Ids(send_ops') = Ids(send_ops)
      /\ task_pc[h] = "closesend" => Told(send_ops') = Ids(send_ops')
  BY <1>3, Facts, Keeps, RingsAll
<1>5. /\ Changes(recv_ops, recv_ops', Receivers, h) /\ PassedOn(recv_ops, recv_ops') /\ Ids(recv_ops') = Ids(recv_ops)
      /\ task_pc[h] = "closerecv" => Told(recv_ops') = Ids(recv_ops')
  BY <1>3, Facts, Keeps, RingsAll
<1>6. /\ Changes(stream_ops, stream_ops', Receivers, h) /\ Ids(stream_ops') = Ids(stream_ops)
      /\ task_pc[h] = "closestream" => Told(stream_ops') = Ids(stream_ops')
      /\ Told(stream_ops) \subseteq Told(stream_ops')
  <2>1. CASE task_pc[h] = "closestream"
    BY <1>3, <2>1, Facts, ListViews, RingsAll
  <2>2. CASE task_pc[h] # "closestream"
    BY <1>3, <2>2, Facts, Keeps
  <2> QED BY <2>1, <2>2
<1>7. ASSUME IsFull' = IsFull PROVE SendOwes(h, to, o)
  BY <1>1, <1>2, <1>3, <1>4, <1>7, Known DEF SendOwes, SendListens, TellsRoom
<1>8. RecvOwes(h, to, o)
  BY <1>1, <1>2, <1>3, <1>5, Known DEF RecvOwes, RecvListens, TellsMessage
<1>9. StreamOwes(h, to, o)
  BY <1>1, <1>2, <1>3, <1>6, Known DEF StreamOwes, Looks
<1> QED BY <1>1, <1>2, <1>3, <1>7, <1>8, <1>9, EventHolds DEF PlaceOK, ClosePcs

\* A task begins to listen, or is back from the event, and tries again.
LEMMA TryAgainHolds ==
    ASSUME ChannelInv, NEW h \in Handles, ListenFor(h) \/ Await(h) PROVE ChannelInv'
<1> DEFINE o == op[h]
           to == IF h \in Senders THEN "push" ELSE "pop"
           Now(old, new) == \/ task_pc[h] = "listen" /\ new = Listen(old, h)
                            \/ task_pc[h] = "await" /\ new = Consume(old, h)
<1>1. /\ task_pc[h] \in {"listen", "await"} /\ (h \in Senders => o = "send")
      /\ h \in Receivers => o \in {"recv", "stream"}
  BY Known DEF ListenFor, Await, PlaceOK, RestPcs, ClosePcs, SenderPcs, ReceiverPcs
<1>2. Moved(h, to, o) /\ UNCHANGED queue /\ len' = len /\ closed' = closed
  BY Goes, Known DEF ListenFor, Await, queue
<1>3. \/ h \in Senders /\ Now(send_ops, send_ops') /\ UNCHANGED <<recv_ops, stream_ops>>
      \/ h \in Receivers /\ o = "recv" /\ Now(recv_ops, recv_ops') /\ UNCHANGED <<send_ops, stream_ops>>
      \/ h \in Receivers /\ o = "stream" /\ Now(stream_ops, stream_ops') /\ UNCHANGED <<send_ops, recv_ops>>
  BY <1>1, Known DEF ListenFor, Await, OnMyEvent
<1>4. ASSUME NEW S, h \in S, NEW old, NEW new, IsList(old, S), Now(old, new), task_pc[h] = "listen" => h \notin Ids(old)
      PROVE  Changes(old, new, S, h)
  BY <1>4, Joins, Leaves
<1>5. Changes(send_ops, send_ops', Senders, h) /\ (h \notin Senders => send_ops' = send_ops)
  <2>1. task_pc[h] = "listen" => h \notin Ids(send_ops)
    BY Known DEF SendListens
  <2>2. IsList(send_ops, Senders) /\ (h \in Senders => Now(send_ops, send_ops')) /\ (h \notin Senders => send_ops' = send_ops)
    BY <1>3, Facts, Known
  <2> QED BY <1>4, <2>1, <2>2, Keeps
<1>6. Changes(recv_ops, recv_ops', Receivers, h) /\ (h \in Senders \/ o # "recv" => recv_ops' = recv_ops)
  <2>1. task_pc[h] = "listen" => h \notin Ids(recv_ops)
    BY Known DEF RecvListens
  <2>2. /\ IsList(recv_ops, Receivers) /\ (h \in Receivers /\ o = "recv" => Now(recv_ops, recv_ops'))
        /\ (h \in Senders \/ o # "recv" => recv_ops' = recv_ops)
    BY <1>3, Facts, Known
  <2>3. CASE h \in Receivers /\ o = "recv"
    BY <1>4, <2>1, <2>2, <2>3, Known
  <2>4. CASE h \in Senders \/ o # "recv"
    BY <2>2, <2>4, Keeps
  <2> QED BY <2>2, <2>3, <2>4, Known
<1>7. /\ Changes(stream_ops, stream_ops', Receivers, h) /\ (h \in Senders \/ o # "stream" => stream_ops' = stream_ops)
  <2>1. h \in Receivers /\ o = "stream" /\ task_pc[h] = "listen" => h \notin Ids(stream_ops)
    BY Known
  <2>2. /\ IsList(stream_ops, Receivers) /\ (h \in Receivers /\ o = "stream" => Now(stream_ops, stream_ops'))
        /\ (h \in Senders \/ o # "stream" => stream_ops' = stream_ops)
    BY <1>3, Facts, Known
  <2>3. CASE h \in Receivers /\ o = "stream"
    BY <1>4, <2>1, <2>2, <2>3
  <2>4. CASE h \in Senders \/ o # "stream"
    BY <2>2, <2>4, Keeps
  <2> QED BY <2>3, <2>4, Known
<1> HIDE DEF Now
<1>8. ASSUME IsFull' = IsFull PROVE SendOwes(h, to, o)
  <2>1. CASE h \in Senders
    <3>1. RoomTeller'
      BY <1>1, <1>2, <2>1 DEF Moved, RoomTeller, TellsRoom
    <3> QED BY <1>1, <1>2, <1>5, <1>8, <2>1, <3>1 DEF SendOwes, SendListens
  <2>2. CASE h \notin Senders
    <3>1. PassedOn(send_ops, send_ops')
      BY <1>5, <2>2 DEF PassedOn
    <3> QED BY <1>1, <1>2, <1>5, <1>8, <2>2, <3>1, Known DEF SendOwes, SendListens, TellsRoom
  <2> QED BY <2>1, <2>2
<1>9. RecvOwes(h, to, o)
  <2>1. CASE h \in Receivers /\ o = "recv"
    <3>1. MessageTeller'
      BY <1>2, <2>1, Known DEF Moved, MessageTeller, TellsMessage
    <3> QED BY <1>1, <1>2, <1>6, <2>1, <3>1, Known DEF RecvOwes, RecvListens
  <2>2. CASE h \in Senders \/ o # "recv"
    <3>1. PassedOn(recv_ops, recv_ops') /\ recv_ops' = recv_ops
      BY <1>6, <2>2 DEF PassedOn
    <3> QED BY <1>1, <1>2, <1>6, <2>2, <3>1, Known DEF RecvOwes, RecvListens, TellsMessage
  <2> QED BY <2>1, <2>2, Known
<1>10. StreamOwes(h, to, o)
  BY <1>1, <1>2, <1>7, Known DEF StreamOwes, Looks
<1>11. PlaceOK(h, to, o)
  BY <1>1, Known DEF PlaceOK, SenderPcs, ReceiverPcs, Sends, Recvs
<1> HIDE DEF to, o
<1> QED BY <1>2, <1>8, <1>9, <1>10, <1>11, EventHolds

\* A call returns, or its future is dropped: its listener goes, unless it is
\* that of a stream whose poll is given up.
LEMMA EndHolds ==
    ASSUME ChannelInv, NEW h \in Handles, Cancel(h) \/ End(h) PROVE ChannelInv'
<1> DEFINE o == op[h]
<1>1. /\ task_pc[h] \in {"await", "end"} /\ (h \in Senders => o \in Sends \cup {"drop"})
      /\ h \in Receivers => o \in Recvs \cup {"drop"}
      /\ task_pc[h] = "await" => o \in {"send", "recv", "stream"}
  BY Known DEF Cancel, End, PlaceOK, RestPcs, ClosePcs, SenderPcs, ReceiverPcs, Sends, Recvs
<1>2. PICK to \in {"idle", "gone"} : Moved(h, to, "none")
  BY Goes, Known DEF Cancel, End
<1>3. UNCHANGED queue /\ len' = len /\ closed' = closed
  BY DEF Cancel, End, queue
<1>4. /\ send_ops' = send_ops \/ (h \in Senders /\ send_ops' = DropListener(send_ops, h))
      /\ recv_ops' = recv_ops \/ (h \in Receivers /\ o = "recv" /\ recv_ops' = DropListener(recv_ops, h))
      /\ stream_ops' = stream_ops \/ (h \in Receivers /\ o # "recv" /\ stream_ops' = DropListener(stream_ops, h))
  BY Known DEF Cancel, End, OnMyEvent, events
<1>5. /\ h \in Ids(send_ops) => send_ops' = DropListener(send_ops, h)
      /\ h \in Ids(recv_ops) => recv_ops' = DropListener(recv_ops, h)
      /\ h \in Ids(stream_ops) /\ h \in Receivers /\ task_pc[h] = "end" /\ o \in {"stream", "drop"}
            => stream_ops' = DropListener(stream_ops, h)
  BY <1>1, Known, Facts DEF Cancel, End, OnMyEvent, Listens, SendListens, RecvListens, Recvs
<1>6. Changes(send_ops, send_ops', Senders, h) /\ PassedOn(send_ops, send_ops') /\ h \notin Ids(send_ops')
  BY <1>4, <1>5, Facts, Keeps, Drops
<1>7. Changes(recv_ops, recv_ops', Receivers, h) /\ PassedOn(recv_ops, recv_ops') /\ h \notin Ids(recv_ops')
  BY <1>4, <1>5, Facts, Keeps, Drops
<1>8. /\ Changes(stream_ops, stream_ops', Receivers, h)
      /\ h \in Ids(stream_ops') => stream_ops' = stream_ops /\ ~Looks(task_pc[h], o)
  BY <1>1, <1>4, <1>5, Facts, Known, Keeps, Drops DEF Looks
<1>9. ASSUME IsFull' = IsFull PROVE SendOwes(h, to, "none")
  BY <1>1, <1>2, <1>3, <1>6, <1>9 DEF SendOwes, TellsRoom
<1>10. RecvOwes(h, to, "none")
  BY <1>1, <1>2, <1>3, <1>7, Known DEF RecvOwes, TellsMessage
<1>11. StreamOwes(h, to, "none")
  BY <1>1, <1>2, <1>3, <1>8 DEF StreamOwes
<1>12. PlaceOK(h, to, "none")
  BY DEF PlaceOK, RestPcs
<1> QED BY <1>2, <1>3, <1>9, <1>10, <1>11, <1>12, EventHolds

-----------------------------------------------------------------------------
\* Initially nobody listens.
LEMMA InitHolds == ChannelInit => ChannelInv
<1> SUFFICES ASSUME ChannelInit PROVE ChannelInv
  OBVIOUS
<1>1. \A S : IsList(<<>>, S) /\ Ids(<<>>) = {} /\ Told(<<>>) = {}
  BY DEF IsList, Ids, Told
<1>2. /\ send_ops = <<>> /\ recv_ops = <<>> /\ stream_ops = <<>> /\ len = 0 /\ closed = FALSE
      /\ DOMAIN task_pc = Handles /\ DOMAIN op = Handles /\ \A h \in Handles : task_pc[h] \in {"idle", "unborn"}
  BY DEF ChannelInit, NoListeners
<1>3. ControlInv
  <2>1. \A h \in Handles : PlaceOK(h, task_pc[h], op[h])
    <3> SUFFICES ASSUME NEW h \in Handles PROVE PlaceOK(h, task_pc[h], op[h])
      OBVIOUS
    <3>1. task_pc[h] \in RestPcs
      BY <1>2 DEF RestPcs
    <3> QED BY <3>1 DEF PlaceOK
  <2>2. len = 0 /\ Cap \in Nat
    BY <1>2, ChannelAssumption
  <2>3. len \in Nat /\ (Cap # 0 => len <= Cap)
    BY <2>2
  <2>4. closed \in BOOLEAN
    BY <1>2
  <2> QED BY <1>2, <2>1, <2>3, <2>4 DEF ControlInv
<1>4. SendInv /\ RecvInv /\ StreamInv
  BY <1>1, <1>2 DEF SendInv, RecvInv, StreamInv, Handles
<1> QED BY <1>3, <1>4 DEF ChannelInv

\* Every step keeps the invariant.
LEMMA NextHolds == ASSUME ChannelInv, [ChannelNext]_channelVars PROVE ChannelInv'
<1>1. CASE UNCHANGED channelVars
  BY <1>1 DEF channelVars, ChannelInv, ControlInv, SendInv, RecvInv, StreamInv, SomeAt, RoomTeller, MessageTeller, IsFull
<1>2. ASSUME NEW h \in Handles, Starts(h) PROVE ChannelInv'
  BY <1>2, StartHolds, CloneHolds DEF Starts
<1>3. ASSUME NEW h \in Handles, Cancel(h) \/ Step(h) PROVE ChannelInv'
  BY <1>3, TryAgainHolds, EndHolds, CloseHolds, TellEndHolds, PushHolds, NotifyRecvHolds, NotifyStreamHolds,
     TellSendHolds, PopHolds, UnlockHolds, NextRecvHolds DEF Step
<1> QED BY <1>1, <1>2, <1>3 DEF ChannelNext

\* In a state in which everybody rests nobody is about to tell, and nobody was
\* told.
LEMMA InvSays == ASSUME ChannelInv, \A h \in Handles : Resting(h), NEW h \in Handles, task_pc[h] = "await" PROVE ~Ready(h)
<1>1. \A g \in Handles : task_pc[g] \in {"unborn", "idle", "gone", "await"} /\ (task_pc[g] = "await" => ~IsAwoken(g))
  BY DEF Resting
<1>2. /\ ~RoomTeller /\ ~MessageTeller /\ \A T : T \cap {"unborn", "idle", "gone", "await"} = {} => ~SomeAt(T)
  BY <1>1 DEF RoomTeller, MessageTeller, SomeAt, TellsRoom, TellsMessage
<1>3. /\ \A g : (IsNotified(send_ops, g) <=> g \in Told(send_ops)) /\ (IsNotified(recv_ops, g) <=> g \in Told(recv_ops))
                /\ (IsNotified(stream_ops, g) <=> g \in Told(stream_ops))
      /\ Told(send_ops) \subseteq Ids(send_ops) /\ Told(recv_ops) \subseteq Ids(recv_ops)
  BY Facts, ListViews
<1>4. Told(send_ops) = {}
  <2> SUFFICES ASSUME NEW s \in Told(send_ops) PROVE FALSE
    OBVIOUS
  <2>1. s \in Senders /\ s \in Handles /\ task_pc[s] = "await"
    BY <1>1, <1>3, Facts DEF ChannelInv, SendInv, SendListens, Handles
  <2> QED BY <1>1, <1>3, <2>1 DEF IsAwoken
<1>5. Told(recv_ops) = {}
  <2> SUFFICES ASSUME NEW r \in Told(recv_ops) PROVE FALSE
    OBVIOUS
  <2>1. r \in Receivers /\ r \notin Senders /\ r \in Handles /\ task_pc[r] = "await" /\ op[r] = "recv"
    BY <1>1, <1>3, Facts DEF ChannelInv, RecvInv, RecvListens, Handles
  <2> QED BY <1>1, <1>3, <2>1 DEF IsAwoken
<1>6. CASE h \in Senders
  BY <1>2, <1>4, <1>6 DEF ChannelInv, SendInv, Ready
<1>7. CASE h \notin Senders /\ op[h] = "recv"
  <2>1. h \in Receivers /\ len \in Nat
    BY <1>7, Known
  <2> QED BY <1>2, <1>5, <1>7, <2>1 DEF ChannelInv, RecvInv, Ready
<1>8. CASE h \notin Senders /\ op[h] # "recv"
  <2>1. h \in Receivers /\ op[h] = "stream" /\ h \in Ids(stream_ops)
    BY <1>8, Known DEF PlaceOK, RestPcs, ClosePcs, SenderPcs, ReceiverPcs
  <2>2. h \notin Told(stream_ops) /\ ~Looks(task_pc[h], op[h])
    BY <1>1, <1>3, <1>8 DEF IsAwoken, Looks
  <2> QED BY <1>2, <1>8, <2>1, <2>2 DEF ChannelInv, StreamInv, Ready
<1> QED BY <1>6, <1>7, <1>8

\* No wake-up of the channel is lost, for every capacity, any number of senders
\* and receivers, and every mix of send, recv, the stream, cancellation, clone,
\* drop and close: when every task has returned or sleeps without having been
\* notified, no receiver sleeps beside a message, no sender beside room, and
\* nobody on a closed channel.
THEOREM NobodyIsStuck == ChannelSpec => []NobodyStuck
<1>1. ChannelInv /\ [ChannelNext]_channelVars => ChannelInv'
  BY NextHolds
<1>2. ChannelInv => NobodyStuck
  BY InvSays DEF NobodyStuck
<1> QED BY <1>1, <1>2, InitHolds, PTL DEF ChannelSpec
=============================================================================
