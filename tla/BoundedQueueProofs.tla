------------------------- MODULE BoundedQueueProofs --------------------------
(***************************************************************************)
(* BoundedQueue and SingleQueue implement Fifo, for every capacity, any    *)
(* threads and values.                                                     *)
(*                                                                         *)
(* BoundedQueue: words are read as the positions they stand for: head and  *)
(* tail are those of the first and of the next item, and a slot is taken   *)
(* for one position at a time, which its stamp tells.  SingleQueue, at the *)
(* end: the bit LOCKED makes one thread the owner of the slot, and what    *)
(* the owner is doing decides what the slot holds.                         *)
(***************************************************************************)
EXTENDS BoundedQueue, FiniteSetTheorems, TLAPS

Lemmas == INSTANCE ProofLemmas

-----------------------------------------------------------------------------
(* Arithmetic of words                                                     *)

\* MarkBit exists, and an index is below it.
LEMMA MarkBitFacts == ASSUME Cap \in Nat \ {0} PROVE MarkBit \in Nat /\ MarkBit >= Cap + 1
<1> DEFINE P == {2^i : i \in 0 .. Cap + 1}
           B == {p \in P : p >= Cap + 1}
<1>1. \A i \in Nat : 2^i \in Nat /\ 2^i >= i + 1
  BY Lemmas!PowersOfTwo
<1>2. P \subseteq Nat /\ 2^(Cap + 1) \in B
  BY <1>1
<1>3. \E p \in B : \A q \in B : p <= q
  <2>1. B \in SUBSET Nat /\ B # {}
    BY <1>2
  <2> HIDE DEF B
  <2> QED BY <2>1, Lemmas!LeastNumber
<1>4. \E p \in P : p >= Cap + 1 /\ \A q \in P : q >= Cap + 1 => p <= q
  BY <1>3
<1> HIDE DEF P
<1>5. MarkBit = CHOOSE p \in P : p >= Cap + 1 /\ \A q \in P : q >= Cap + 1 => p <= q
  BY DEF MarkBit, P
<1>6. MarkBit \in P /\ MarkBit >= Cap + 1
  BY <1>4, <1>5
<1> QED BY <1>2, <1>6

\* The slot of a position, and what is known of it.
SlotOf(n) == n % Cap

\* Positions that are closer than Cap have different slots.
LEMMA SlotFacts ==
    ASSUME Cap \in Nat \ {0}
    PROVE  /\ \A n \in Nat : SlotOf(n) \in Slots /\ SlotOf(n + Cap) = SlotOf(n)
           /\ \A m, n \in Nat : m < n /\ n < m + Cap => SlotOf(m) # SlotOf(n)
<1>1. ASSUME NEW n \in Nat
      PROVE  /\ n \div Cap \in Nat /\ (n % Cap) \in Nat /\ (n % Cap) < Cap
             /\ n = (n \div Cap) * Cap + (n % Cap)
  BY Lemmas!Euclid
<1>2. ASSUME NEW n \in Nat PROVE SlotOf(n) \in Slots /\ SlotOf(n + Cap) = SlotOf(n)
  <2> DEFINE q == n \div Cap
             r == n % Cap
  <2>1. q \in Nat /\ r \in Nat /\ r < Cap /\ n = q * Cap + r
    BY <1>1
  <2> HIDE DEF q, r
  <2>2. n + Cap = (q + 1) * Cap + r
    BY <2>1
  <2>3. Lemmas!Split(n + Cap, q + 1, Cap, r)
    BY <2>1, <2>2 DEF Lemmas!Split
  <2>4. (n + Cap) % Cap = r
    BY <2>3, Lemmas!DivMod
  <2> QED BY <2>1, <2>4 DEF SlotOf, Slots, r
<1>3. ASSUME NEW m \in Nat, NEW n \in Nat, m < n, n < m + Cap, SlotOf(m) = SlotOf(n) PROVE FALSE
  <2> DEFINE p == m \div Cap
             q == n \div Cap
             r == n % Cap
  <2>1. p \in Nat /\ q \in Nat /\ r \in Nat /\ m = p * Cap + r /\ n = q * Cap + r
    BY <1>1, <1>3 DEF SlotOf
  <2> HIDE DEF p, q, r
  <2>2. n - m = (q - p) * Cap /\ 0 < n - m /\ n - m < Cap
    BY <2>1, <1>3
  <2>3. q - p >= 1 => (q - p) * Cap >= Cap
    BY <2>1
  <2>4. q - p <= 0 => (q - p) * Cap <= 0
    BY <2>1
  <2> QED BY <2>1, <2>2, <2>3, <2>4
<1> QED BY <1>2, <1>3

\* What a word is made of: WordAt and the marked word, read back.
LEMMA WordFacts ==
    ASSUME Cap \in Nat \ {0}, NEW n \in Nat, NEW b \in {0, 1}
    PROVE  LET w == WordAt(n) + b * MarkBit
           IN  /\ WordAt(n) \in Nat /\ w \in Nat
               /\ Index(w) = SlotOf(n) /\ Position(w) = n
               /\ (Marked(w) <=> b = 1) /\ Unmarked(w) = WordAt(n)
<1> DEFINE M == MarkBit
           q == n \div Cap
           r == n % Cap
           w == WordAt(n) + b * M
<1>1. M \in Nat /\ M >= Cap + 1 /\ OneLap = 2 * M
  BY MarkBitFacts DEF OneLap
<1>2. q \in Nat /\ r \in Nat /\ r < Cap
  BY Lemmas!Euclid
<1>3. WordAt(n) = q * (2 * M) + r
  BY <1>1 DEF WordAt
<1>4. n = q * Cap + r
  BY Lemmas!Euclid
<1> HIDE DEF M, q, r
<1>5. q * (2 * M) \in Nat /\ q * (2 * M) = (2 * q) * M /\ (2 * q + b) * M = (2 * q) * M + b * M
      /\ b * M \in Nat /\ b * M + r < 2 * M /\ b * M + r >= 0
  <2>1. CASE b = 0 
    BY <1>1, <1>2, <2>1
  <2>2. CASE b = 1
    BY <1>1, <1>2, <2>2
  <2> QED BY <2>1, <2>2
<1>6. w = (2 * q + b) * M + r /\ w = q * (2 * M) + (b * M + r) /\ w \in Nat /\ WordAt(n) \in Nat
  BY <1>2, <1>3, <1>5
<1>7. w \div M = 2 * q + b /\ w % M = r
  <2>1. Lemmas!Split(w, 2 * q + b, M, r)
    BY <1>1, <1>2, <1>6 DEF Lemmas!Split
  <2> HIDE DEF w
  <2> QED BY <2>1, Lemmas!DivMod
<1>8. w \div (2 * M) = q
  <2>1. 2 * M \in Nat /\ b * M + r \in Int /\ 0 <= b * M + r /\ b * M + r < 2 * M
    BY <1>1, <1>2, <1>5
  <2>2. Lemmas!Split(w, q, 2 * M, b * M + r)
    BY <1>2, <1>6, <2>1 DEF Lemmas!Split
  <2> HIDE DEF w
  <2> QED BY <2>2, Lemmas!DivMod
<1>9. (2 * q + b) % 2 = b
  BY <1>2
<1> HIDE DEF w
<1>10. Index(w) = r /\ (Marked(w) <=> b = 1)
  BY <1>7, <1>9 DEF Index, Marked, M
<1>11. Unmarked(w) = WordAt(n)
  <2>1. CASE b = 0
    <3>1. w = WordAt(n)
      BY <1>1, <1>6, <2>1 DEF w
    <3> QED BY <1>10, <2>1, <3>1 DEF Unmarked
  <2>2. CASE b = 1
    <3>1. w = WordAt(n) + M
      BY <1>1, <1>6, <2>2 DEF w
    <3> QED BY <1>1, <1>6, <1>10, <2>2, <3>1 DEF Unmarked, M
  <2> QED BY <2>1, <2>2
<1>12. Position(w) = n
  BY <1>1, <1>2, <1>4, <1>8, <1>10 DEF Position
<1> QED BY <1>6, <1>10, <1>11, <1>12 DEF SlotOf, w, M, r

\* The next word, and the word of the slot one lap on.
LEMMA WordSteps ==
    ASSUME Cap \in Nat \ {0}, NEW n \in Nat
    PROVE  NextWord(WordAt(n)) = WordAt(n + 1) /\ WordAt(n) + OneLap = WordAt(n + Cap)
<1> DEFINE M == MarkBit
           q == n \div Cap
           r == n % Cap
           w == WordAt(n)
<1>1. M \in Nat /\ M >= Cap + 1 /\ OneLap = 2 * M
  BY MarkBitFacts DEF OneLap
<1>2. q \in Nat /\ r \in Nat /\ r < Cap /\ n = q * Cap + r
  BY Lemmas!Euclid
<1>3. w = q * (2 * M) + r
  BY <1>1 DEF WordAt
<1>4. Index(w) = r /\ w \div (2 * M) = q
  <2>1. w + 0 * M = w
    BY <1>1, <1>2, <1>3
  <2>2. Index(w) = r
    BY <2>1, WordFacts DEF SlotOf
  <2>3. 2 * M \in Nat /\ r < 2 * M
    BY <1>1, <1>2
  <2>4. Lemmas!Split(w, q, 2 * M, r)
    BY <1>2, <1>3, <2>3 DEF Lemmas!Split
  <2> QED BY <2>2, <2>4, Lemmas!DivMod
<1> HIDE DEF M, q, r, w
<1>5. Lap(w) = q * (2 * M)
  BY <1>1, <1>4 DEF Lap
<1>6. q * (2 * M) + 2 * M = (q + 1) * (2 * M)
  BY <1>1, <1>2
<1>7. WordAt(n + Cap) = (q + 1) * (2 * M) + r
  <2>1. n + Cap = (q + 1) * Cap + r
    BY <1>2
  <2>2. Lemmas!Split(n + Cap, q + 1, Cap, r)
    BY <1>2, <2>1 DEF Lemmas!Split
  <2>3. (n + Cap) \div Cap = q + 1 /\ (n + Cap) % Cap = r
    BY <2>2, Lemmas!DivMod
  <2> QED BY <1>1, <2>3 DEF WordAt
<1>8. NextWord(w) = WordAt(n + 1)
  <2>1. CASE r + 1 < Cap
    <3>1. n + 1 = q * Cap + (r + 1)
      BY <1>2
    <3>0. Lemmas!Split(n + 1, q, Cap, r + 1)
      BY <1>2, <2>1, <3>1 DEF Lemmas!Split
    <3>2. (n + 1) \div Cap = q /\ (n + 1) % Cap = r + 1
      BY <3>0, Lemmas!DivMod
    <3>3. WordAt(n + 1) = q * (2 * M) + (r + 1)
      BY <1>1, <3>2 DEF WordAt
    <3>4. q * (2 * M) \in Nat
      BY <1>1, <1>2
    <3> QED BY <1>2, <1>3, <1>4, <2>1, <3>3, <3>4 DEF NextWord
  <2>2. CASE r + 1 = Cap
    <3>1. n + 1 = (q + 1) * Cap + 0
      BY <1>2, <2>2
    <3>0. Lemmas!Split(n + 1, q + 1, Cap, 0)
      BY <1>2, <3>1 DEF Lemmas!Split
    <3>2. (n + 1) \div Cap = q + 1 /\ (n + 1) % Cap = 0
      BY <3>0, Lemmas!DivMod
    <3>3. WordAt(n + 1) = (q + 1) * (2 * M) + 0
      BY <1>1, <3>2 DEF WordAt
    <3>4. (q + 1) * (2 * M) \in Nat
      BY <1>1, <1>2
    <3> QED BY <1>1, <1>2, <1>4, <1>5, <1>6, <2>2, <3>3, <3>4 DEF NextWord
  <2> QED BY <1>2, <2>1, <2>2
<1> QED BY <1>1, <1>2, <1>3, <1>6, <1>7, <1>8 DEF w

\* A stamp tells the position it is for, and whether the slot is taken.
LEMMA StampsDiffer ==
    ASSUME Cap \in Nat \ {0}
    PROVE  \A m, n \in Nat : /\ WordAt(m) = WordAt(n) => m = n
                             /\ SlotOf(m) = SlotOf(n) => WordAt(m) + 1 # WordAt(n)
<1> SUFFICES ASSUME NEW m \in Nat, NEW n \in Nat
             PROVE  /\ WordAt(m) = WordAt(n) => m = n
                    /\ SlotOf(m) = SlotOf(n) => WordAt(m) + 1 # WordAt(n)
  OBVIOUS
<1>1. \A k \in Nat : WordAt(k) \in Nat /\ Position(WordAt(k)) = k /\ Index(WordAt(k)) = SlotOf(k)
  <2> SUFFICES ASSUME NEW k \in Nat
               PROVE  WordAt(k) \in Nat /\ Position(WordAt(k)) = k /\ Index(WordAt(k)) = SlotOf(k)
    OBVIOUS
  <2>1. WordAt(k) + 0 * MarkBit = WordAt(k)
    BY WordFacts, MarkBitFacts
  <2> QED BY <2>1, WordFacts
<1>2. ASSUME SlotOf(m) = SlotOf(n), WordAt(m) + 1 = WordAt(n) PROVE FALSE
  <2> DEFINE M == MarkBit
             q == m \div Cap
             r == m % Cap
  <2>1. M \in Nat /\ M >= Cap + 1 /\ OneLap = 2 * M
    BY MarkBitFacts DEF OneLap
  <2>2. q \in Nat /\ r \in Nat /\ r < Cap
    BY Lemmas!Euclid
  <2>3. WordAt(m) = q * (2 * M) + r
    BY <2>1 DEF WordAt
  <2> HIDE DEF M, q, r
  <2>4. WordAt(m) + 1 = (2 * q) * M + (r + 1) /\ 0 <= r + 1 /\ r + 1 < M /\ 2 * q \in Int /\ r + 1 \in Int
    BY <2>1, <2>2, <2>3
  <2>a. Lemmas!Split(WordAt(m) + 1, 2 * q, M, r + 1)
    BY <2>1, <2>4 DEF Lemmas!Split
  <2>5. (WordAt(m) + 1) % M = r + 1
    BY <2>a, Lemmas!DivMod
  <2>6. (WordAt(m) + 1) % M = r
    BY <1>1, <1>2 DEF Index, SlotOf, M, r
  <2> QED BY <2>2, <2>5, <2>6
<1> QED BY <1>1, <1>2

\* len's arithmetic on the words of two positions at most a lap apart.
LEMMA LenFacts ==
    ASSUME Cap \in Nat \ {0}, NEW h \in Nat, NEW t \in Nat, h <= t, t <= h + Cap, NEW b \in {0, 1}
    PROVE  LenOf(WordAt(t) + b * MarkBit, WordAt(h)) = t - h
<1> DEFINE w == WordAt(t) + b * MarkBit
           v == WordAt(h)
<1>1. Index(w) = SlotOf(t) /\ Unmarked(w) = WordAt(t)
  BY WordFacts
<1>2. Index(v) = SlotOf(h)
  <2>1. v + 0 * MarkBit = v
    BY WordFacts, MarkBitFacts
  <2> QED BY <2>1, WordFacts
<1>3. WordAt(t) = WordAt(h) => t = h
  BY StampsDiffer
<1> DEFINE p == h \div Cap
           q == t \div Cap
           r == h % Cap
           s == t % Cap
<1>4. /\ p \in Nat /\ q \in Nat /\ r \in Nat /\ s \in Nat /\ r < Cap /\ s < Cap
      /\ h = p * Cap + r /\ t = q * Cap + s
  BY Lemmas!Euclid
<1>5. LenOf(w, v) = IF r < s THEN s - r ELSE IF r > s THEN Cap - r + s
                    ELSE IF WordAt(t) = WordAt(h) THEN 0 ELSE Cap
  BY <1>1, <1>2 DEF LenOf, SlotOf
<1> HIDE DEF p, q, r, s, w, v
<1>6. t - h = (q - p) * Cap + (s - r)
  BY <1>4
<1>7. /\ q - p >= 2 => (q - p) * Cap >= 2 * Cap
      /\ q - p <= -1 => (q - p) * Cap <= -Cap
      /\ q - p = 1 => (q - p) * Cap = Cap
      /\ q - p = 0 => (q - p) * Cap = 0
  BY <1>4
<1>8. q - p \in Int /\ (q - p) * Cap \in Int
  BY <1>4
<1>9. q - p \in {0, 1}
  BY <1>4, <1>6, <1>7, <1>8
<1> DEFINE k == q - p
           x == k * Cap
<1>a. k \in {0, 1} /\ x \in Int /\ (k = 0 => x = 0) /\ (k = 1 => x = Cap) /\ t - h = x + (s - r)
  BY <1>6, <1>7, <1>8, <1>9
<1> HIDE DEF k, x
<1>10. CASE r < s
  <2>1. k = 0
    BY <1>4, <1>a, <1>10
  <2>2. t - h = s - r
    BY <1>4, <1>a, <2>1
  <2>3. LenOf(w, v) = s - r
    BY <1>4, <1>5, <1>10
  <2> QED BY <2>2, <2>3 DEF w, v
<1>11. CASE r > s
  <2>1. k = 1
    BY <1>4, <1>a, <1>11
  <2>2. t - h = Cap - r + s
    BY <1>4, <1>a, <2>1
  <2>3. LenOf(w, v) = Cap - r + s
    BY <1>4, <1>5, <1>11
  <2> QED BY <2>2, <2>3 DEF w, v
<1>12. CASE r = s
  <2>1. t - h \in {0, Cap}
    BY <1>4, <1>a, <1>12
  <2>2. WordAt(t) = WordAt(h) <=> t - h = 0
    BY <1>3
  <2>3. LenOf(w, v) = IF WordAt(t) = WordAt(h) THEN 0 ELSE Cap
    BY <1>4, <1>5, <1>12
  <2>4. LenOf(w, v) = t - h
    BY <2>1, <2>2, <2>3
  <2> QED BY <2>4 DEF w, v
<1> QED BY <1>4, <1>10, <1>11, <1>12 DEF w, v

-----------------------------------------------------------------------------
(* The invariant                                                           *)

\* The positions of the first item, of the next one to be pushed, and of the word
\* a thread works on.
Front   == Position(head)
Back    == Position(tail)
Mine(t) == Position(seen[t])

Filling  == {"write", "publish"}
Emptying == {"read", "release"}

\* What a thread has called, or been answered, follows from where it is.
CallOK(l, c) ==
    \/ l = "idle" /\ c = Q!Idle
    \/ /\ l \in {"push", "stamp", "take", "full"} \cup Filling
       /\ \E v \in Values : c = Q!AskPush(v) \/ c = Q!Said("sawfull", v, 0)
    \/ l \in {"pop", "popstamp", "poptake", "empty", "read"} /\ c = Q!Ask("pop")
    \/ l = "release" /\ \E v \in Values : c = Q!Popped(v)
    \/ l \in {"len", "lenhead"} /\ c = Q!Ask("len")
    \/ l \in {"len", "lenhead", "lenagain"} /\ c.num \in Nat /\ c = Q!Looked(c.num)
    \/ l = "close" /\ c = Q!Ask("close")
    \/ l = "return" /\ c.op \in Q!Answers

TypeOK ==
    /\ buffer \in [Slots -> [stamp : Nat, value : Values \cup {None}]]
    /\ DOMAIN pc = Threads /\ DOMAIN call = Threads
    /\ DOMAIN seen = Threads /\ DOMAIN other = Threads
    /\ \A t \in Threads : CallOK(pc[t], call[t])

\* The queue is never longer than the buffer.
EndsInv ==
    /\ Front \in Nat /\ head = WordAt(Front)
    /\ Back \in Nat /\ \E b \in {0, 1} : tail = WordAt(Back) + b * MarkBit
    /\ Front <= Back /\ Back <= Front + Cap

Cell(n) == buffer[SlotOf(n)]

\* What a thread knows of the position it works on.
PushKnows(l, c, n) ==
    /\ n <= Back /\ (c.op = "push" => n < Front + Cap)
    /\ l = "take" /\ n = Back => Cell(n).stamp = WordAt(n)
FillKnows(l, c, n) ==
    /\ Front <= n /\ n < Back /\ Cell(n).stamp = WordAt(n)
    /\ l = "publish" => Cell(n).value = c.val
PopKnows(l, n) ==
    /\ n <= Front
    /\ l = "poptake" /\ n = Front => Cell(n).stamp = WordAt(n) + 1
EmptyKnows(l, n) ==
    /\ n < Front /\ Back <= n + Cap /\ Cell(n).stamp = WordAt(n) + 1
    /\ l = "read" => Cell(n).value \in Values
LenKnows(l, c, n, o) ==
    /\ n <= Back
    /\ l = "lenagain" =>
          /\ Position(o) \in Nat /\ o = WordAt(Position(o)) /\ c.num \in 0 .. Cap
          /\ n <= Position(o) + c.num /\ Position(o) + c.num <= Back

Knows(l, c, n, o) ==
    /\ l \in {"stamp", "take", "full"} => PushKnows(l, c, n)
    /\ l \in Filling => FillKnows(l, c, n)
    /\ l \in {"popstamp", "poptake", "empty"} => PopKnows(l, n)
    /\ l \in Emptying => EmptyKnows(l, n)
    /\ l \in {"lenhead", "lenagain"} => LenKnows(l, c, n, o)

Looking == {"stamp", "take", "full", "popstamp", "poptake", "empty"} \cup Filling \cup Emptying

SeenOK(l, w) ==
    /\ l \in Looking \cup {"lenhead", "lenagain"} => Position(w) \in Nat
    /\ l \in Looking => w = WordAt(Position(w))
    /\ l \in {"lenhead", "lenagain"} => \E b \in {0, 1} : w = WordAt(Position(w)) + b * MarkBit

ThreadsInv ==
    /\ \A t \in Threads : SeenOK(pc[t], seen[t]) /\ Knows(pc[t], call[t], Mine(t), other[t])
    /\ \A t, u \in Threads : Mine(t) = Mine(u) /\ t # u =>
          /\ ~(pc[t] \in Filling /\ pc[u] \in Filling)
          /\ ~(pc[t] \in Emptying /\ pc[u] \in Emptying)

\* Who fills a slot or empties it.
FilledBy(n)  == \E t \in Threads : pc[t] \in Filling /\ Mine(t) = n
EmptiedBy(n) == \E t \in Threads : pc[t] \in Emptying /\ Mine(t) = n

\* The slots of the positions in the queue hold their items, or somebody is
\* filling them; the others are free for the next lap, or being emptied.
SlotsInv ==
    /\ \A n \in Front .. Back - 1 :
          (Cell(n).stamp = WordAt(n) + 1 /\ Cell(n).value \in Values) \/ FilledBy(n)
    /\ \A n \in Back .. Front + Cap - 1 : Cell(n).stamp = WordAt(n) \/ EmptiedBy(n - Cap)

DropInv == dropped # <<None>> => \A t \in Threads : pc[t] = "idle"

Inv == TypeOK /\ EndsInv /\ ThreadsInv /\ SlotsInv /\ DropInv

-----------------------------------------------------------------------------
(* The invariant is inductive                                              *)

CapOK == Cap \in Nat \ {0} /\ None \notin Values

\* What the proofs below need of words.
LEMMA Words ==
    ASSUME CapOK
    PROVE  /\ Cap \in Nat /\ Cap > 0 /\ MarkBit \in Nat
           /\ \A n \in Nat : /\ WordAt(n) \in Nat /\ Position(WordAt(n)) = n
                             /\ Index(WordAt(n)) = SlotOf(n) /\ ~Marked(WordAt(n))
                             /\ NextWord(WordAt(n)) = WordAt(n + 1)
                             /\ WordAt(n) + OneLap = WordAt(n + Cap)
                             /\ SlotOf(n) \in Slots /\ SlotOf(n + Cap) = SlotOf(n)
           /\ \A n \in Nat, b \in {0, 1} :
                 LET w == WordAt(n) + b * MarkBit
                 IN  /\ w \in Nat /\ Position(w) = n /\ (Marked(w) <=> b = 1)
                     /\ Unmarked(w) = WordAt(n)
<1>1. Cap \in Nat \ {0} /\ MarkBit \in Nat
  BY MarkBitFacts DEF CapOK
<1>2. ASSUME NEW n \in Nat
      PROVE  /\ WordAt(n) \in Nat /\ Position(WordAt(n)) = n
             /\ Index(WordAt(n)) = SlotOf(n) /\ ~Marked(WordAt(n))
  <2>1. /\ WordAt(n) \in Nat /\ Position(WordAt(n) + 0 * MarkBit) = n
        /\ Index(WordAt(n) + 0 * MarkBit) = SlotOf(n) /\ ~Marked(WordAt(n) + 0 * MarkBit)
    BY <1>1, WordFacts
  <2>2. WordAt(n) + 0 * MarkBit = WordAt(n)
    BY <1>1, <2>1
  <2> QED BY <2>1, <2>2
<1>3. \A n \in Nat : /\ NextWord(WordAt(n)) = WordAt(n + 1)
                     /\ WordAt(n) + OneLap = WordAt(n + Cap)
                     /\ SlotOf(n) \in Slots /\ SlotOf(n + Cap) = SlotOf(n)
  BY <1>1, WordSteps, SlotFacts
<1>4. \A n \in Nat, b \in {0, 1} :
                 LET w == WordAt(n) + b * MarkBit
                 IN  /\ w \in Nat /\ Position(w) = n /\ (Marked(w) <=> b = 1)
                     /\ Unmarked(w) = WordAt(n)
  BY <1>1, WordFacts
<1> QED BY <1>1, <1>2, <1>3, <1>4

\* What one thread does is seen in its own locals.
Moves(t, l, c, w, o) ==
    /\ DOMAIN pc' = Threads /\ DOMAIN call' = Threads /\ DOMAIN seen' = Threads
    /\ DOMAIN other' = Threads
    /\ pc'[t] = l /\ call'[t] = c /\ seen'[t] = w /\ other'[t] = o
    /\ \A u \in Threads : u # t =>
          pc'[u] = pc[u] /\ call'[u] = call[u] /\ seen'[u] = seen[u] /\ other'[u] = other[u]

\* A thread that goes where its call allows, and a buffer of slots, keep the types.
LEMMA MovesTypes ==
    ASSUME TypeOK, NEW t \in Threads, NEW l, NEW c, NEW w, NEW o, Moves(t, l, c, w, o), CallOK(l, c),
           buffer' \in [Slots -> [stamp : Nat, value : Values \cup {None}]]
    PROVE  TypeOK'
BY DEF TypeOK, Moves

\* A step that leaves the ends of the queue and the buffer alone, by a thread that
\* neither fills a slot nor empties one.
LEMMA LocalStep ==
    ASSUME Inv, NEW t \in Threads, NEW l, NEW c, NEW w, NEW o, Moves(t, l, c, w, o),
           EndsInv', Front' = Front, Back' = Back, UNCHANGED <<buffer, dropped>>, dropped = <<None>>,
           pc[t] \notin Filling \cup Emptying, l \notin Filling \cup Emptying,
           CallOK(l, c), SeenOK(l, w), Knows(l, c, Position(w), o)
    PROVE  Inv'
<1>0. TypeOK /\ EndsInv /\ ThreadsInv /\ SlotsInv
  BY DEF Inv
<1>1. TypeOK'
  BY <1>0, MovesTypes DEF TypeOK
<1>3. Front' = Front /\ Back' = Back /\ \A n : Cell(n)' = Cell(n)
  BY DEF Cell
<1>5. \A u \in Threads : u # t => Mine(u)' = Mine(u) /\ pc'[u] = pc[u]
  BY DEF Moves, Mine
<1>6. Mine(t)' = Position(w) /\ pc'[t] = l
  BY DEF Moves, Mine
<1>7. ThreadsInv'
  <2>1. ASSUME NEW u \in Threads
        PROVE  (SeenOK(pc[u], seen[u]) /\ Knows(pc[u], call[u], Mine(u), other[u]))'
    <3>1. CASE u = t
      <4>1. pc'[t] = l /\ call'[t] = c /\ seen'[t] = w /\ other'[t] = o /\ Mine(t)' = Position(w)
        BY <1>6 DEF Moves
      <4>2. SeenOK(pc[t], seen[t])'
        BY <4>1 DEF SeenOK
      <4>3. Knows(pc[t], call[t], Mine(t), other[t])'
        BY <1>3, <4>1 DEF Knows, PushKnows, FillKnows, PopKnows, EmptyKnows, LenKnows
      <4> QED BY <3>1, <4>2, <4>3
    <3>2. CASE u # t
      <4>1. SeenOK(pc[u], seen[u]) /\ Knows(pc[u], call[u], Mine(u), other[u])
        BY <1>0 DEF ThreadsInv
      <4> QED BY <1>3, <1>5, <3>2, <4>1 DEF Moves, SeenOK, Knows, PushKnows, FillKnows, PopKnows, EmptyKnows, LenKnows
    <3> QED BY <3>1, <3>2
  <2>2. \A u, v \in Threads : (Mine(u) = Mine(v))' /\ u # v =>
          /\ ~(pc'[u] \in Filling /\ pc'[v] \in Filling)
          /\ ~(pc'[u] \in Emptying /\ pc'[v] \in Emptying)
    BY <1>0, <1>5, <1>6 DEF ThreadsInv
  <2> QED BY <2>1, <2>2 DEF ThreadsInv
<1>8. \A n : (FilledBy(n) => FilledBy(n)') /\ (EmptiedBy(n) => EmptiedBy(n)')
  BY <1>5 DEF FilledBy, EmptiedBy
<1>9. SlotsInv'
  BY <1>0, <1>3, <1>8 DEF SlotsInv
<1>10. DropInv'
  BY DEF DropInv
<1> QED BY <1>1, <1>7, <1>9, <1>10 DEF Inv

-----------------------------------------------------------------------------
\* What the threads know after a step of one of them: the step has to leave what
\* the others know true, and no two of them fill or empty the same slot.
LEMMA ThreadsAfter ==
    ASSUME Inv, NEW t \in Threads, NEW l, NEW c, NEW w, NEW o, Moves(t, l, c, w, o),
           SeenOK(l, w), Knows(l, c, Position(w), o)',
           \A u \in Threads : u # t => \A ll, cc, n, oo :
               /\ ll = pc[u] /\ n = Mine(u)
               /\ Knows(ll, cc, n, oo)
               => Knows(ll, cc, n, oo)',
           \A u \in Threads : u # t /\ Mine(u) = Position(w) =>
               ~(l \in Filling /\ pc[u] \in Filling) /\ ~(l \in Emptying /\ pc[u] \in Emptying)
    PROVE  ThreadsInv'
<1>1. ThreadsInv
  BY DEF Inv
<1>2. pc'[t] = l /\ call'[t] = c /\ seen'[t] = w /\ other'[t] = o /\ Mine(t)' = Position(w)
  BY DEF Moves, Mine
<1>3. ASSUME NEW u \in Threads, u # t
      PROVE  pc'[u] = pc[u] /\ call'[u] = call[u] /\ seen'[u] = seen[u] /\ other'[u] = other[u]
             /\ Mine(u)' = Mine(u)
  BY <1>3 DEF Moves, Mine
<1>4. ASSUME NEW u \in Threads
      PROVE  (SeenOK(pc[u], seen[u]) /\ Knows(pc[u], call[u], Mine(u), other[u]))'
  <2>1. CASE u = t
    <3>2. SeenOK(pc[t], seen[t])'
      BY <1>2 DEF SeenOK
    <3>3. Knows(pc[t], call[t], Mine(t), other[t])'
      BY <1>2 DEF Knows, PushKnows, FillKnows, PopKnows, EmptyKnows, LenKnows
    <3> QED BY <2>1, <3>2, <3>3
  <2>2. CASE u # t
    <3>1. SeenOK(pc[u], seen[u]) /\ Knows(pc[u], call[u], Mine(u), other[u])
      BY <1>1 DEF ThreadsInv
    <3>2. SeenOK(pc[u], seen[u])'
      BY <1>3, <2>2, <3>1 DEF SeenOK
    <3>3. ASSUME NEW ll, NEW cc, NEW n, NEW oo, ll = pc[u], cc = call[u], n = Mine(u), oo = other[u]
          PROVE  Knows(ll, cc, n, oo)'
      <4>1. Knows(ll, cc, n, oo)
        BY <3>1, <3>3
      <4> QED BY <2>2, <3>3, <4>1
    <3>4. Knows(pc[u], call[u], Mine(u), other[u])'
      BY <1>3, <2>2, <3>3 DEF Knows, PushKnows, FillKnows, PopKnows, EmptyKnows, LenKnows
    <3> QED BY <3>2, <3>4
  <2> QED BY <2>1, <2>2
<1>5. \A u, v \in Threads : (Mine(u) = Mine(v))' /\ u # v =>
          /\ ~(pc'[u] \in Filling /\ pc'[v] \in Filling)
          /\ ~(pc'[u] \in Emptying /\ pc'[v] \in Emptying)
  BY <1>1, <1>2, <1>3 DEF ThreadsInv
<1> QED BY <1>4, <1>5 DEF ThreadsInv

\* What a thread at a slot knows.
LEMMA ThreadFacts ==
    ASSUME CapOK, Inv, NEW u \in Threads
    PROVE  /\ pc[u] \in Looking => Mine(u) \in Nat /\ seen[u] = WordAt(Mine(u))
                                   /\ Index(seen[u]) = SlotOf(Mine(u)) /\ Stamp(u) = Cell(Mine(u)).stamp
           /\ Knows(pc[u], call[u], Mine(u), other[u])
BY Words DEF Inv, ThreadsInv, SeenOK, Mine, Looking, Filling, Emptying, Stamp, Cell

\* The words head and tail, as the positions and the mark they hold.
LEMMA EndsFacts ==
    ASSUME CapOK, Inv
    PROVE  /\ Front \in Nat /\ head = WordAt(Front) /\ Back \in Nat /\ Front <= Back /\ Back <= Front + Cap
           /\ Unmarked(tail) = WordAt(Back)
           /\ ~Marked(tail) => tail = WordAt(Back)
           /\ Marked(tail) => tail = WordAt(Back) + MarkBit
<1>1. PICK b \in {0, 1} : tail = WordAt(Back) + b * MarkBit
  BY DEF Inv, EndsInv
<1>2. Back \in Nat /\ WordAt(Back) \in Nat /\ MarkBit \in Nat
  BY Words DEF Inv, EndsInv
<1>3. (Marked(tail) <=> b = 1) /\ Unmarked(tail) = WordAt(Back)
  BY <1>1, <1>2, Words
<1>4. (b = 0 => tail = WordAt(Back)) /\ (b = 1 => tail = WordAt(Back) + MarkBit)
  BY <1>1, <1>2
<1> QED BY <1>2, <1>3, <1>4 DEF Inv, EndsInv

\* A push takes the position behind the last, which is free.
LEMMA PushTakes ==
    ASSUME CapOK, Inv, NEW t \in Threads, pc[t] = "take", tail = seen[t], tail' = NextWord(tail),
           Goto(t, "write"), UNCHANGED <<head, buffer, call, seen, other, dropped>>
    PROVE  Inv' /\ Back' = Back + 1 /\ Back < Front + Cap /\ Mine(t) = Back /\ ~Marked(tail) /\ ~Marked(tail')
<1>0. /\ TypeOK /\ EndsInv /\ ThreadsInv /\ SlotsInv /\ DropInv
      /\ Cap \in Nat /\ Cap > 0 /\ Front \in Nat /\ Back \in Nat /\ Front <= Back /\ Back <= Front + Cap
  BY EndsFacts, Words DEF Inv
<1>1. Moves(t, "write", call[t], seen[t], other[t])
  BY <1>0 DEF Goto, Moves, TypeOK
<1>2. Mine(t) = Back /\ tail = WordAt(Back) /\ ~Marked(tail) /\ Cell(Back).stamp = WordAt(Back)
  <2>1. Mine(t) = Back
    BY DEF Mine, Back
  <2>2. tail = WordAt(Back)
    BY <2>1, ThreadFacts DEF Looking
  <2>3. PushKnows("take", call[t], Back)
    BY <2>1, ThreadFacts DEF Knows
  <2> QED BY <1>0, <2>1, <2>2, <2>3, Words DEF PushKnows
<1>3. tail' = WordAt(Back + 1) /\ Back' = Back + 1 /\ Front' = Front /\ \A n : Cell(n)' = Cell(n)
  BY SMTT(60), <1>0, <1>2, Words DEF Back, Front, Cell
<1>4. ASSUME NEW m \in Nat, m + Cap = Back PROVE Cell(m) = Cell(Back) /\ Cell(m).stamp # WordAt(m) /\ Cell(m).stamp # WordAt(m) + 1
  <2>1. Cell(m) = Cell(Back) /\ SlotOf(m) = SlotOf(Back) /\ m # Back
    BY <1>0, <1>4, Words DEF Cell
  <2>2. WordAt(Back) # WordAt(m) /\ WordAt(m) + 1 # WordAt(Back)
    BY <1>0, <2>1, StampsDiffer DEF CapOK
  <2> QED BY <1>2, <2>1, <2>2
<1>5. Back < Front + Cap
  <2>1. SUFFICES ASSUME Back = Front + Cap PROVE FALSE
    BY <1>0
  <2>2. Front \in Front .. Back - 1
    BY <1>0, <2>1
  <2>3. Cell(Front).stamp = WordAt(Front) + 1 \/ FilledBy(Front)
    BY <1>0, <2>2 DEF SlotsInv
  <2>4. FilledBy(Front) => Cell(Front).stamp = WordAt(Front)
    BY ThreadFacts DEF FilledBy, Knows, FillKnows
  <2> QED BY <1>0, <1>4, <2>1, <2>3, <2>4
<1>6. ASSUME NEW u \in Threads, pc[u] \in Emptying PROVE Back + 1 <= Mine(u) + Cap
  <2>1. Mine(u) \in Nat /\ EmptyKnows(pc[u], Mine(u))
    BY <1>6, ThreadFacts DEF Looking, Knows
  <2>2. Mine(u) + Cap # Back
    BY <1>4, <2>1 DEF EmptyKnows
  <2> QED BY <1>0, <2>1, <2>2 DEF EmptyKnows
<1>7. TypeOK'
  <2>1. CallOK("write", call[t])
    BY <1>0 DEF TypeOK, CallOK, Filling
  <2> QED BY <1>0, <1>1, <2>1, MovesTypes DEF TypeOK
<1>8. EndsInv'
  <2>1. WordAt(Back + 1) = WordAt(Back + 1) + 0 * MarkBit
    BY <1>0, Words
  <2> QED BY <1>0, <1>3, <1>5, <2>1 DEF EndsInv
<1>9. ThreadsInv'
  <2>1. SeenOK("write", seen[t])
    BY <1>0 DEF ThreadsInv, SeenOK, Looking, Filling
  <2>2. Position(seen[t]) = Back
    BY <1>2 DEF Mine
  <2>3. ASSUME NEW c, NEW n, NEW o, n = Back PROVE Knows("write", c, n, o)'
    BY <1>0, <1>2, <1>3, <2>3 DEF Knows, FillKnows, Filling, Emptying
  <2>4. ASSUME NEW u \in Threads, u # t, NEW ll, NEW cc, NEW n, NEW oo, ll = pc[u], n = Mine(u), Knows(ll, cc, n, oo)
        PROVE  Knows(ll, cc, n, oo)'
    <3>1. ll \in Emptying => Back + 1 <= n + Cap
      BY <1>6, <2>4
    <3>2. ll \in Looking \cup {"lenhead", "lenagain"} => n \in Nat
      BY <1>0, <2>4 DEF ThreadsInv, SeenOK, Mine
    <3> QED BY <1>0, <1>3, <2>4, <3>1, <3>2 DEF Knows, PushKnows, FillKnows, PopKnows, EmptyKnows, LenKnows, Looking, Filling, Emptying
  <2>5. \A u \in Threads : u # t /\ Mine(u) = Back => pc[u] \notin Filling
    BY <1>0, ThreadFacts DEF Knows, FillKnows
  <2> QED BY <1>1, <2>1, <2>2, <2>3, <2>4, <2>5, ThreadsAfter DEF Filling, Emptying
<1>10. SlotsInv'
  <2>1. \A n : (FilledBy(n) => FilledBy(n)') /\ (EmptiedBy(n) => EmptiedBy(n)')
    BY <1>1 DEF FilledBy, EmptiedBy, Moves, Mine, Filling, Emptying
  <2>2. \A n : n = Back => FilledBy(n)'
    BY <1>1, <1>2 DEF FilledBy, Moves, Mine, Filling
  <2>3. ASSUME NEW n \in Front .. Back
        PROVE  (Cell(n).stamp = WordAt(n) + 1 /\ Cell(n).value \in Values)' \/ FilledBy(n)'
    <3>1. n < Back => (Cell(n).stamp = WordAt(n) + 1 /\ Cell(n).value \in Values) \/ FilledBy(n)
      BY <1>0, <2>3 DEF SlotsInv
    <3>2. CASE n < Back /\ ~FilledBy(n)
      BY <1>3, <3>1, <3>2
    <3>3. CASE n < Back /\ FilledBy(n)
      BY <2>1, <3>3
    <3>4. CASE n = Back
      BY <2>2, <3>4
    <3> QED BY <1>0, <2>3, <3>2, <3>3, <3>4
  <2>4. ASSUME NEW n \in Back + 1 .. Front + Cap - 1
        PROVE  (Cell(n).stamp = WordAt(n))' \/ EmptiedBy(n - Cap)'
    <3>1. Cell(n).stamp = WordAt(n) \/ EmptiedBy(n - Cap)
      BY <1>0, <2>4 DEF SlotsInv
    <3>2. CASE Cell(n).stamp = WordAt(n)
      BY <1>3, <3>2
    <3>3. EmptiedBy(n - Cap) => EmptiedBy(n - Cap)'
      BY <1>1 DEF EmptiedBy, Moves, Mine, Emptying
    <3> QED BY <3>1, <3>2, <3>3
  <2>5. \A n \in Front' .. Back' - 1 :
          (Cell(n).stamp = WordAt(n) + 1 /\ Cell(n).value \in Values)' \/ FilledBy(n)'
    BY <1>0, <1>3, <2>3
  <2>6. \A n \in Back' .. Front' + Cap - 1 : (Cell(n).stamp = WordAt(n))' \/ EmptiedBy(n - Cap)'
    BY <1>3, <2>4
  <2> QED BY <2>5, <2>6 DEF SlotsInv
<1>11. DropInv'
  BY <1>0 DEF DropInv
<1>12. ~Marked(tail')
  BY <1>0, <1>3, Words
<1> QED BY <1>2, <1>3, <1>5, <1>7, <1>8, <1>9, <1>10, <1>11, <1>12 DEF Inv

\* Two positions closer than Cap have slots of their own.
LEMMA Apart ==
    ASSUME CapOK, NEW m \in Nat, NEW n \in Nat, m # n, m < n + Cap, n < m + Cap
    PROVE  SlotOf(m) # SlotOf(n)
BY SlotFacts, Words DEF CapOK

\* What the slots hold after the value of one is written.
LEMMA ValueAfter ==
    ASSUME CapOK, TypeOK, NEW i \in Slots, NEW v \in Values \cup {None},
           buffer' = [buffer EXCEPT ![i].value = v]
    PROVE  /\ buffer' \in [Slots -> [stamp : Nat, value : Values \cup {None}]]
           /\ \A m \in Nat : /\ Cell(m)'.stamp = Cell(m).stamp
                             /\ Cell(m)'.value = IF SlotOf(m) = i THEN v ELSE Cell(m).value
<1>1. \A m \in Nat : SlotOf(m) \in Slots
  BY Words
<1> QED BY <1>1 DEF TypeOK, Cell

\* What the slots hold after the stamp of one is written.
LEMMA StampAfter ==
    ASSUME CapOK, TypeOK, NEW i \in Slots, NEW s \in Nat,
           buffer' = [buffer EXCEPT ![i].stamp = s]
    PROVE  /\ buffer' \in [Slots -> [stamp : Nat, value : Values \cup {None}]]
           /\ \A m \in Nat : /\ Cell(m)'.value = Cell(m).value
                             /\ Cell(m)'.stamp = IF SlotOf(m) = i THEN s ELSE Cell(m).stamp
<1>1. \A m \in Nat : SlotOf(m) \in Slots
  BY Words
<1> QED BY <1>1 DEF TypeOK, Cell

\* A slot keeps who fills it or empties it, when the step does not end that.
LEMMA OwnersAfter ==
    ASSUME NEW t \in Threads, NEW l, NEW c, NEW w, NEW o, Moves(t, l, c, w, o), NEW n
    PROVE  /\ FilledBy(n) /\ (pc[t] \in Filling /\ Mine(t) = n => l \in Filling /\ Position(w) = n) => FilledBy(n)'
           /\ EmptiedBy(n) /\ (pc[t] \in Emptying /\ Mine(t) = n => l \in Emptying /\ Position(w) = n) => EmptiedBy(n)'
           /\ l \in Filling /\ Position(w) = n => FilledBy(n)'
           /\ l \in Emptying /\ Position(w) = n => EmptiedBy(n)'
BY DEF FilledBy, EmptiedBy, Moves, Mine

\* A push writes its value into the slot it took.
LEMMA PushWrites ==
    ASSUME CapOK, Inv, NEW t \in Threads, PushWrite(t)
    PROVE  Inv'
<1> DEFINE k == Mine(t)
<1>0. /\ TypeOK /\ EndsInv /\ ThreadsInv /\ SlotsInv /\ DropInv
      /\ Cap \in Nat /\ Cap > 0 /\ Front \in Nat /\ Back \in Nat /\ Front <= Back /\ Back <= Front + Cap
  BY EndsFacts, Words DEF Inv
<1>1. Moves(t, "publish", call[t], seen[t], other[t]) /\ pc[t] = "write" /\ dropped' = dropped
  BY <1>0 DEF PushWrite, Goto, Moves, TypeOK
<1>2. k \in Nat /\ Index(seen[t]) = SlotOf(k) /\ Front <= k /\ k < Back /\ Cell(k).stamp = WordAt(k)
      /\ SlotOf(k) \in Slots
  BY <1>1, ThreadFacts, Words DEF Knows, FillKnows, Looking, Filling
<1>3. call[t].val \in Values /\ CallOK("publish", call[t])
  BY <1>0, <1>1 DEF TypeOK, CallOK, Filling, Q!AskPush, Q!Said
<1>4. /\ buffer' \in [Slots -> [stamp : Nat, value : Values \cup {None}]]
      /\ \A m \in Nat : /\ Cell(m)'.stamp = Cell(m).stamp
                        /\ Cell(m)'.value = IF SlotOf(m) = SlotOf(k) THEN call[t].val ELSE Cell(m).value
  BY <1>0, <1>2, <1>3, ValueAfter DEF PushWrite
<1>5. Front' = Front /\ Back' = Back
  BY DEF PushWrite, Front, Back
<1>6. \A m \in Nat : m # k /\ m < k + Cap /\ k < m + Cap => SlotOf(m) # SlotOf(k)
  BY <1>2, Apart
<1>7. TypeOK'
  BY <1>0, <1>1, <1>3, <1>4, MovesTypes
<1>8. EndsInv'
  BY <1>0 DEF PushWrite, EndsInv, Front, Back
<1> HIDE DEF k
<1>9. ThreadsInv'
  <2>1. SeenOK("publish", seen[t])
    BY <1>0, <1>1 DEF ThreadsInv, SeenOK, Looking, Filling
  <2>3. ASSUME NEW c, NEW n, NEW o, n = k, c = call[t] PROVE Knows("publish", c, n, o)'
    BY <1>0, <1>2, <1>4, <1>5, <2>3 DEF Knows, FillKnows, Filling, Emptying
  <2>4. ASSUME NEW u \in Threads, u # t, NEW ll, NEW cc, NEW n, NEW oo, ll = pc[u], n = Mine(u), Knows(ll, cc, n, oo)
        PROVE  Knows(ll, cc, n, oo)'
    <3>1. ll \in Filling => n # k
      BY <1>0, <1>1, <2>4 DEF ThreadsInv, Filling, k
    <3>2. ll \in Looking \cup {"lenhead", "lenagain"} => n \in Nat
      BY <1>0, <2>4 DEF ThreadsInv, SeenOK, Mine
    <3> QED BY <1>0, <1>2, <1>4, <1>5, <1>6, <2>4, <3>1, <3>2 DEF Knows, PushKnows, FillKnows, PopKnows, EmptyKnows, LenKnows, Looking, Filling, Emptying
  <2>5. \A u \in Threads : u # t /\ Mine(u) = k => pc[u] \notin Filling
    BY <1>0, <1>1 DEF ThreadsInv, Filling, k
  <2> QED BY <1>1, <2>1, <2>3, <2>4, <2>5, ThreadsAfter DEF Filling, Emptying, k, Mine
<1>10. SlotsInv'
  <2>1. ASSUME NEW n \in Front .. Back - 1
        PROVE  (Cell(n).stamp = WordAt(n) + 1 /\ Cell(n).value \in Values)' \/ FilledBy(n)'
    <3>1. CASE n = k
      BY <1>1, <3>1, OwnersAfter DEF k, Mine, Filling
    <3>2. CASE FilledBy(n)
      BY <1>1, <3>2, OwnersAfter DEF k, Mine, Filling
    <3>3. CASE n # k /\ ~FilledBy(n)
      <4>1. Cell(n).stamp = WordAt(n) + 1 /\ Cell(n).value \in Values
        BY <1>0, <3>3 DEF SlotsInv
      <4>2. SlotOf(n) # SlotOf(k) /\ n \in Nat
        BY <1>0, <1>2, <1>6, <3>3
      <4> QED BY <1>4, <4>1, <4>2
    <3> QED BY <3>1, <3>2, <3>3
  <2>2. ASSUME NEW n \in Back .. Front + Cap - 1
        PROVE  (Cell(n).stamp = WordAt(n))' \/ EmptiedBy(n - Cap)'
    <3>1. CASE EmptiedBy(n - Cap)
      BY <1>1, <3>1, OwnersAfter DEF Emptying
    <3>2. CASE Cell(n).stamp = WordAt(n)
      BY <1>0, <1>4, <3>2
    <3> QED BY <1>0, <3>1, <3>2 DEF SlotsInv
  <2> QED BY <1>5, <2>1, <2>2 DEF SlotsInv
<1>11. DropInv'
  BY <1>0, <1>1 DEF DropInv
<1> QED BY <1>7, <1>8, <1>9, <1>10, <1>11 DEF Inv

\* A push stamps its slot as filled.
LEMMA PushPublishes ==
    ASSUME CapOK, Inv, NEW t \in Threads, PushPublish(t)
    PROVE  Inv'
<1> DEFINE k == Mine(t)
           a == Q!Ask("ok")
<1>0. /\ TypeOK /\ EndsInv /\ ThreadsInv /\ SlotsInv /\ DropInv
      /\ Cap \in Nat /\ Cap > 0 /\ Front \in Nat /\ Back \in Nat /\ Front <= Back /\ Back <= Front + Cap
  BY EndsFacts, Words DEF Inv
<1>1. Moves(t, "return", a, seen[t], other[t]) /\ pc[t] = "publish" /\ dropped' = dropped
  BY <1>0 DEF PushPublish, Answer, Goto, Moves, TypeOK
<1>2. k \in Nat /\ Index(seen[t]) = SlotOf(k) /\ Front <= k /\ k < Back /\ Cell(k).stamp = WordAt(k)
      /\ SlotOf(k) \in Slots /\ seen[t] = WordAt(k) /\ Cell(k).value = call[t].val /\ WordAt(k) + 1 \in Nat
  BY <1>1, ThreadFacts, Words DEF Knows, FillKnows, Looking, Filling
<1>3. call[t].val \in Values /\ CallOK("return", a)
  BY <1>0, <1>1 DEF TypeOK, CallOK, Filling, Q!AskPush, Q!Said, Q!Ask, Q!Answers
<1>4. /\ buffer' \in [Slots -> [stamp : Nat, value : Values \cup {None}]]
      /\ \A m \in Nat : /\ Cell(m)'.value = Cell(m).value
                        /\ Cell(m)'.stamp = IF SlotOf(m) = SlotOf(k) THEN WordAt(k) + 1 ELSE Cell(m).stamp
  BY <1>0, <1>2, <1>3, StampAfter DEF PushPublish
<1>5. Front' = Front /\ Back' = Back
  BY DEF PushPublish, Front, Back
<1>6. \A m \in Nat : m # k /\ m < k + Cap /\ k < m + Cap => SlotOf(m) # SlotOf(k)
  BY <1>2, Apart
<1>7. TypeOK'
  BY <1>0, <1>1, <1>3, <1>4, MovesTypes
<1>8. EndsInv'
  BY <1>0 DEF PushPublish, EndsInv, Front, Back
<1>a. \A m \in Nat : SlotOf(m) = SlotOf(k) /\ Cell(m).stamp = WordAt(m) => m = k
  BY <1>0, <1>2, StampsDiffer DEF Cell, CapOK
<1> HIDE DEF k, a
<1>9. ThreadsInv'
  <2>1. SeenOK("return", seen[t])
    BY DEF SeenOK, Looking, Filling, Emptying
  <2>3. ASSUME NEW c, NEW n, NEW o PROVE Knows("return", c, n, o)'
    BY DEF Knows, Filling, Emptying
  <2>4. ASSUME NEW u \in Threads, u # t, NEW ll, NEW cc, NEW n, NEW oo, ll = pc[u], n = Mine(u), Knows(ll, cc, n, oo)
        PROVE  Knows(ll, cc, n, oo)'
    <3>1. ll \in Filling => n # k
      BY <1>0, <1>1, <2>4 DEF ThreadsInv, Filling, k
    <3>2. ll \in Looking \cup {"lenhead", "lenagain"} => n \in Nat
      BY <1>0, <2>4 DEF ThreadsInv, SeenOK, Mine
    <3>3. ll \in {"stamp", "take", "full"} => PushKnows(ll, cc, n)'
      BY <1>0, <1>2, <1>4, <1>5, <1>a, <2>4, <3>2 DEF Knows, PushKnows, Looking
    <3>4. ll \in {"popstamp", "poptake", "empty"} => PopKnows(ll, n)'
      BY <1>0, <1>2, <1>4, <1>5, <1>6, <2>4, <3>2 DEF Knows, PopKnows, Looking
    <3>5. ll \in Filling => FillKnows(ll, cc, n)'
      BY <1>0, <1>2, <1>4, <1>5, <1>6, <2>4, <3>1, <3>2 DEF Knows, FillKnows, Looking, Filling
    <3>6. ll \in Emptying => EmptyKnows(ll, n)'
      BY <1>0, <1>2, <1>4, <1>5, <1>6, <2>4, <3>2 DEF Knows, EmptyKnows, Looking, Emptying
    <3>7. ll \in {"lenhead", "lenagain"} => LenKnows(ll, cc, n, oo)'
      BY <1>5, <2>4 DEF Knows, LenKnows
    <3> QED BY <3>3, <3>4, <3>5, <3>6, <3>7 DEF Knows
  <2> QED BY <1>1, <2>1, <2>3, <2>4, ThreadsAfter DEF Filling, Emptying
<1>10. SlotsInv'
  <2>1. ASSUME NEW n \in Front .. Back - 1
        PROVE  (Cell(n).stamp = WordAt(n) + 1 /\ Cell(n).value \in Values)' \/ FilledBy(n)'
    <3>1. CASE n = k
      BY <1>2, <1>3, <1>4, <3>1
    <3>2. CASE n # k /\ FilledBy(n)
      BY <1>1, <3>2, OwnersAfter DEF k
    <3>3. CASE n # k /\ ~FilledBy(n)
      <4>1. Cell(n).stamp = WordAt(n) + 1 /\ Cell(n).value \in Values
        BY <1>0, <3>3 DEF SlotsInv
      <4>2. SlotOf(n) # SlotOf(k) /\ n \in Nat
        BY <1>0, <1>2, <1>6, <3>3
      <4> QED BY <1>4, <4>1, <4>2
    <3> QED BY <3>1, <3>2, <3>3
  <2>2. ASSUME NEW n \in Back .. Front + Cap - 1
        PROVE  (Cell(n).stamp = WordAt(n))' \/ EmptiedBy(n - Cap)'
    <3>1. CASE EmptiedBy(n - Cap)
      BY <1>1, <3>1, OwnersAfter DEF Emptying
    <3>2. CASE Cell(n).stamp = WordAt(n)
      BY <1>0, <1>2, <1>4, <1>6, <3>2
    <3> QED BY <1>0, <3>1, <3>2 DEF SlotsInv
  <2> QED BY <1>5, <2>1, <2>2 DEF SlotsInv
<1>11. DropInv'
  BY <1>0, <1>1 DEF DropInv
<1> QED BY <1>7, <1>8, <1>9, <1>10, <1>11 DEF Inv

\* A pop takes the first position, which holds an item.
LEMMA PopTakes ==
    ASSUME CapOK, Inv, NEW t \in Threads, pc[t] = "poptake", head = seen[t], head' = NextWord(head),
           Goto(t, "read"), UNCHANGED <<tail, buffer, call, seen, other, dropped>>
    PROVE  Inv' /\ Front' = Front + 1 /\ Front < Back /\ Mine(t) = Front /\ ~FilledBy(Front)
<1>0. /\ TypeOK /\ EndsInv /\ ThreadsInv /\ SlotsInv /\ DropInv
      /\ Cap \in Nat /\ Cap > 0 /\ Front \in Nat /\ Back \in Nat /\ Front <= Back /\ Back <= Front + Cap
      /\ head = WordAt(Front)
  BY EndsFacts, Words DEF Inv
<1>1. Moves(t, "read", call[t], seen[t], other[t])
  BY <1>0 DEF Goto, Moves, TypeOK
<1>2. Mine(t) = Front /\ Cell(Front).stamp = WordAt(Front) + 1
  <2>1. Mine(t) = Front
    BY DEF Mine, Front
  <2>3. PopKnows("poptake", Front)
    BY <2>1, ThreadFacts DEF Knows
  <2> QED BY <1>0, <2>1, <2>3 DEF PopKnows
<1>3. head' = WordAt(Front + 1) /\ Front' = Front + 1 /\ Back' = Back /\ \A n : Cell(n)' = Cell(n)
  BY <1>0, Words DEF Back, Front, Cell
<1>4. ~FilledBy(Front)
  BY SMTT(60), <1>0, <1>2, ThreadFacts, Words DEF FilledBy, Knows, FillKnows
<1>5. Front < Back /\ Cell(Front).value \in Values
  <2>1. ASSUME Front = Back PROVE FALSE
    <3>1. Cell(Front).stamp = WordAt(Front) \/ EmptiedBy(Front - Cap)
      BY <1>0, <2>1 DEF SlotsInv
    <3>2. PICK u \in Threads : pc[u] \in Emptying /\ Mine(u) = Front - Cap
      BY SMTT(60), <1>0, <1>2, <3>1, Words DEF EmptiedBy
    <3>3. Mine(u) \in Nat /\ Cell(Mine(u)).stamp = WordAt(Mine(u)) + 1
      BY <3>2, ThreadFacts DEF Knows, EmptyKnows, Looking
    <3>4. Mine(u) + Cap = Front
      BY <1>0, <3>2
    <3>5. Cell(Mine(u)) = Cell(Front) /\ WordAt(Mine(u)) \in Nat /\ WordAt(Front) \in Nat
      BY <1>0, <3>3, <3>4, Words DEF Cell
    <3>6. WordAt(Mine(u)) = WordAt(Front)
      BY <1>2, <3>3, <3>5
    <3> QED BY <1>0, <3>3, <3>4, <3>6, StampsDiffer DEF CapOK
  <2>2. Front < Back
    BY <1>0, <2>1
  <2> QED BY <1>0, <1>4, <2>2 DEF SlotsInv
<1>7. TypeOK'
  <2>1. CallOK("read", call[t])
    BY <1>0 DEF TypeOK, CallOK, Filling
  <2> QED BY <1>0, <1>1, <2>1, MovesTypes DEF TypeOK
<1>8. EndsInv'
  BY <1>0, <1>3, <1>5 DEF EndsInv
<1>9. ThreadsInv'
  <2>1. SeenOK("read", seen[t])
    BY <1>0 DEF ThreadsInv, SeenOK, Looking, Emptying
  <2>2. Position(seen[t]) = Front
    BY <1>2 DEF Mine
  <2>3. ASSUME NEW c, NEW n, NEW o, n = Front PROVE Knows("read", c, n, o)'
    BY <1>0, <1>2, <1>3, <1>5, <2>3 DEF Knows, EmptyKnows, Filling, Emptying
  <2>4. ASSUME NEW u \in Threads, u # t, NEW ll, NEW cc, NEW n, NEW oo, ll = pc[u], n = Mine(u), Knows(ll, cc, n, oo)
        PROVE  Knows(ll, cc, n, oo)'
    <3>1. ll \in Filling => n # Front
      BY <1>4, <2>4 DEF FilledBy
    <3>2. ll \in Looking \cup {"lenhead", "lenagain"} => n \in Nat
      BY <1>0, <2>4 DEF ThreadsInv, SeenOK, Mine
    <3> QED BY <1>0, <1>3, <2>4, <3>1, <3>2 DEF Knows, PushKnows, FillKnows, PopKnows, EmptyKnows, LenKnows, Looking, Filling, Emptying
  <2>5. \A u \in Threads : u # t /\ Mine(u) = Front => pc[u] \notin Emptying
    BY <1>0, ThreadFacts DEF Knows, EmptyKnows
  <2> QED BY <1>1, <2>1, <2>2, <2>3, <2>4, <2>5, ThreadsAfter DEF Filling, Emptying
<1>10. SlotsInv'
  <2>1. ASSUME NEW n \in Front + 1 .. Back - 1
        PROVE  (Cell(n).stamp = WordAt(n) + 1 /\ Cell(n).value \in Values)' \/ FilledBy(n)'
    <3>1. CASE FilledBy(n)
      BY <1>1, <3>1, OwnersAfter DEF Filling
    <3>2. CASE ~FilledBy(n)
      BY <1>0, <1>3, <3>2 DEF SlotsInv
    <3> QED BY <3>1, <3>2
  <2>2. ASSUME NEW n \in Back .. Front + Cap
        PROVE  (Cell(n).stamp = WordAt(n))' \/ EmptiedBy(n - Cap)'
    <3>1. CASE n = Front + Cap
      <4>1. n - Cap = Front
        BY <1>0, <3>1
      <4>2. \A m : m = Front => EmptiedBy(m)'
        BY <1>1, <1>2, OwnersAfter DEF Mine, Emptying
      <4> QED BY <4>1, <4>2
    <3>2. CASE n # Front + Cap /\ EmptiedBy(n - Cap)
      BY <1>1, <3>2, OwnersAfter DEF Emptying
    <3>3. CASE n # Front + Cap /\ ~EmptiedBy(n - Cap)
      BY <1>0, <1>3, <3>3 DEF SlotsInv
    <3> QED BY <3>1, <3>2, <3>3
  <2>5. \A n \in Front' .. Back' - 1 :
          (Cell(n).stamp = WordAt(n) + 1 /\ Cell(n).value \in Values)' \/ FilledBy(n)'
    BY <1>0, <1>3, <2>1
  <2>6. \A n \in Back' .. Front' + Cap - 1 : (Cell(n).stamp = WordAt(n))' \/ EmptiedBy(n - Cap)'
    BY <1>0, <1>3, <2>2
  <2> QED BY <2>5, <2>6 DEF SlotsInv
<1>11. DropInv'
  BY <1>0 DEF DropInv
<1> QED BY <1>2, <1>3, <1>4, <1>5, <1>7, <1>8, <1>9, <1>10, <1>11 DEF Inv

\* A pop takes the value out of its slot.
LEMMA PopReads ==
    ASSUME CapOK, Inv, NEW t \in Threads, PopRead(t)
    PROVE  Inv'
<1> DEFINE k == Mine(t)
           a == Q!Popped(buffer[Index(seen[t])].value)
<1>0. /\ TypeOK /\ EndsInv /\ ThreadsInv /\ SlotsInv /\ DropInv
      /\ Cap \in Nat /\ Cap > 0 /\ Front \in Nat /\ Back \in Nat /\ Front <= Back /\ Back <= Front + Cap
  BY EndsFacts, Words DEF Inv
<1>1. Moves(t, "release", a, seen[t], other[t]) /\ pc[t] = "read" /\ dropped' = dropped
  BY <1>0 DEF PopRead, Goto, Moves, TypeOK
<1>2. k \in Nat /\ Index(seen[t]) = SlotOf(k) /\ k < Front /\ Back <= k + Cap /\ Cell(k).stamp = WordAt(k) + 1
      /\ SlotOf(k) \in Slots /\ Cell(k).value \in Values
  BY <1>1, ThreadFacts, Words DEF Knows, EmptyKnows, Looking, Emptying
<1>3. CallOK("release", a)
  BY <1>2 DEF CallOK, Cell, Q!Popped, Q!Said
<1>4. /\ buffer' \in [Slots -> [stamp : Nat, value : Values \cup {None}]]
      /\ \A m \in Nat : /\ Cell(m)'.stamp = Cell(m).stamp
                        /\ Cell(m)'.value = IF SlotOf(m) = SlotOf(k) THEN None ELSE Cell(m).value
  BY <1>0, <1>2, ValueAfter DEF PopRead
<1>5. Front' = Front /\ Back' = Back
  BY DEF PopRead, Front, Back
<1>6. \A m \in Nat : m # k /\ m < k + Cap /\ k < m + Cap => SlotOf(m) # SlotOf(k)
  BY <1>2, Apart
<1>7. TypeOK'
  BY <1>0, <1>1, <1>3, <1>4, MovesTypes
<1>8. EndsInv'
  BY <1>0 DEF PopRead, EndsInv, Front, Back
<1> HIDE DEF k, a
<1>9. ThreadsInv'
  <2>1. SeenOK("release", seen[t])
    BY <1>0, <1>1 DEF ThreadsInv, SeenOK, Looking, Emptying
  <2>3. ASSUME NEW c, NEW n, NEW o, n = k PROVE Knows("release", c, n, o)'
    BY <1>0, <1>2, <1>4, <1>5, <2>3 DEF Knows, EmptyKnows, Filling, Emptying
  <2>4. ASSUME NEW u \in Threads, u # t, NEW ll, NEW cc, NEW n, NEW oo, ll = pc[u], n = Mine(u), Knows(ll, cc, n, oo)
        PROVE  Knows(ll, cc, n, oo)'
    <3>1. ll \in Emptying => n # k
      BY <1>0, <1>1, <2>4 DEF ThreadsInv, Emptying, k
    <3>2. ll \in Looking \cup {"lenhead", "lenagain"} => n \in Nat
      BY <1>0, <2>4 DEF ThreadsInv, SeenOK, Mine
    <3> QED BY <1>0, <1>2, <1>4, <1>5, <1>6, <2>4, <3>1, <3>2 DEF Knows, PushKnows, FillKnows, PopKnows, EmptyKnows, LenKnows, Looking, Filling, Emptying
  <2>5. \A u \in Threads : u # t /\ Mine(u) = k => pc[u] \notin Emptying
    BY <1>0, <1>1 DEF ThreadsInv, Emptying, k
  <2> QED BY <1>1, <2>1, <2>3, <2>4, <2>5, ThreadsAfter DEF Filling, Emptying, k, Mine
<1>10. SlotsInv'
  <2>1. ASSUME NEW n \in Front .. Back - 1
        PROVE  (Cell(n).stamp = WordAt(n) + 1 /\ Cell(n).value \in Values)' \/ FilledBy(n)'
    <3>2. CASE FilledBy(n)
      BY <1>1, <3>2, OwnersAfter DEF Filling
    <3>3. CASE ~FilledBy(n)
      <4>1. Cell(n).stamp = WordAt(n) + 1 /\ Cell(n).value \in Values
        BY <1>0, <3>3 DEF SlotsInv
      <4>2. SlotOf(n) # SlotOf(k) /\ n \in Nat
        BY <1>0, <1>2, <1>6
      <4> QED BY <1>4, <4>1, <4>2
    <3> QED BY <3>2, <3>3
  <2>2. ASSUME NEW n \in Back .. Front + Cap - 1
        PROVE  (Cell(n).stamp = WordAt(n))' \/ EmptiedBy(n - Cap)'
    <3>1. CASE EmptiedBy(n - Cap)
      BY <1>1, <3>1, OwnersAfter DEF Mine, k, Emptying
    <3>2. CASE Cell(n).stamp = WordAt(n)
      BY <1>0, <1>4, <3>2
    <3> QED BY <1>0, <3>1, <3>2 DEF SlotsInv
  <2> QED BY <1>5, <2>1, <2>2 DEF SlotsInv
<1>11. DropInv'
  BY <1>0, <1>1 DEF DropInv
<1> QED BY <1>7, <1>8, <1>9, <1>10, <1>11 DEF Inv

\* A pop leaves its slot to the next lap.
LEMMA PopReleases ==
    ASSUME CapOK, Inv, NEW t \in Threads, PopRelease(t)
    PROVE  Inv'
<1> DEFINE k == Mine(t)
<1>0. /\ TypeOK /\ EndsInv /\ ThreadsInv /\ SlotsInv /\ DropInv
      /\ Cap \in Nat /\ Cap > 0 /\ Front \in Nat /\ Back \in Nat /\ Front <= Back /\ Back <= Front + Cap
  BY EndsFacts, Words DEF Inv
<1>1. Moves(t, "return", call[t], seen[t], other[t]) /\ pc[t] = "release" /\ dropped' = dropped
  BY <1>0 DEF PopRelease, Goto, Moves, TypeOK
<1>2. k \in Nat /\ Index(seen[t]) = SlotOf(k) /\ k < Front /\ Back <= k + Cap /\ Cell(k).stamp = WordAt(k) + 1
      /\ SlotOf(k) \in Slots /\ seen[t] = WordAt(k) /\ WordAt(k) + OneLap = WordAt(k + Cap) /\ WordAt(k + Cap) \in Nat
      /\ WordAt(k) \in Nat
  <2>1. k \in Nat /\ Index(seen[t]) = SlotOf(k) /\ k < Front /\ Back <= k + Cap /\ Cell(k).stamp = WordAt(k) + 1
        /\ seen[t] = WordAt(k)
    BY <1>1, ThreadFacts DEF Knows, EmptyKnows, Looking, Emptying
  <2>2. k + Cap \in Nat
    BY <1>0, <2>1
  <2> QED BY <2>1, <2>2, Words
<1>3. CallOK("return", call[t])
  BY <1>0, <1>1 DEF TypeOK, CallOK, Filling, Q!Popped, Q!Said, Q!Answers
<1>4. /\ buffer' \in [Slots -> [stamp : Nat, value : Values \cup {None}]]
      /\ \A m \in Nat : /\ Cell(m)'.value = Cell(m).value
                        /\ Cell(m)'.stamp = IF SlotOf(m) = SlotOf(k) THEN WordAt(k + Cap) ELSE Cell(m).stamp
  BY ZenonT(60), <1>0, <1>2, StampAfter DEF PopRelease
<1>5. Front' = Front /\ Back' = Back
  BY DEF PopRelease, Front, Back
<1>6. \A m \in Nat : m # k /\ m < k + Cap /\ k < m + Cap => SlotOf(m) # SlotOf(k)
  BY <1>2, Apart
<1>b. \A m \in Nat : k + Cap < m /\ m < k + Cap + Cap => SlotOf(m) # SlotOf(k)
  <2> HIDE DEF k
  <2>0. SlotOf(k + Cap) = SlotOf(k)
    BY <1>2, Words
  <2>1. k + Cap \in Nat /\ SlotOf(k + Cap) = SlotOf(k)
    BY <1>0, <1>2, <2>0
  <2>2. ASSUME NEW m \in Nat, k + Cap < m, m < k + Cap + Cap PROVE SlotOf(m) # SlotOf(k + Cap)
    BY <1>0, <1>2, <2>1, <2>2, Apart
  <2> QED BY <2>1, <2>2
<1>7. TypeOK'
  BY <1>0, <1>1, <1>3, <1>4, MovesTypes
<1>8. EndsInv'
  BY <1>0 DEF PopRelease, EndsInv, Front, Back
<1>a. \A m \in Nat : SlotOf(m) = SlotOf(k) /\ Cell(m).stamp = WordAt(m) + 1 => m = k
  <2> SUFFICES ASSUME NEW m \in Nat, SlotOf(m) = SlotOf(k), Cell(m).stamp = WordAt(m) + 1 PROVE m = k
    OBVIOUS
  <2>1. Cell(m) = Cell(k) /\ WordAt(m) \in Nat
    BY Words DEF Cell
  <2>2. WordAt(m) = WordAt(k)
    BY <1>2, <2>1
  <2> QED BY <1>2, <2>2, StampsDiffer DEF CapOK
<1> HIDE DEF k
<1>9. ThreadsInv'
  <2>1. SeenOK("return", seen[t])
    BY DEF SeenOK, Looking, Filling, Emptying
  <2>3. ASSUME NEW c, NEW n, NEW o PROVE Knows("return", c, n, o)'
    BY DEF Knows, Filling, Emptying
  <2>4. ASSUME NEW u \in Threads, u # t, NEW ll, NEW cc, NEW n, NEW oo, ll = pc[u], n = Mine(u), Knows(ll, cc, n, oo)
        PROVE  Knows(ll, cc, n, oo)'
    <3>1. ll \in Emptying => n # k
      BY <1>0, <1>1, <2>4 DEF ThreadsInv, Emptying, k
    <3>2. ll \in Looking \cup {"lenhead", "lenagain"} => n \in Nat
      BY <1>0, <2>4 DEF ThreadsInv, SeenOK, Mine
    <3>3. ll \in {"stamp", "take", "full"} => PushKnows(ll, cc, n)'
      <4>1. n = Back /\ SlotOf(n) = SlotOf(k) => n = k + Cap
        BY <1>0, <1>2, <1>6
      <4> QED BY <1>0, <1>4, <1>5, <2>4, <3>2, <4>1 DEF Knows, PushKnows, Looking
    <3>4. ll \in {"popstamp", "poptake", "empty"} => PopKnows(ll, n)'
      BY <1>0, <1>2, <1>4, <1>5, <1>a, <2>4, <3>2 DEF Knows, PopKnows, Looking
    <3>5. ll \in Filling => FillKnows(ll, cc, n)'
      BY <1>0, <1>2, <1>4, <1>5, <1>6, <2>4, <3>1, <3>2 DEF Knows, FillKnows, Looking, Filling
    <3>6. ll \in Emptying => EmptyKnows(ll, n)'
      BY <1>0, <1>2, <1>4, <1>5, <1>6, <2>4, <3>1, <3>2 DEF Knows, EmptyKnows, Looking, Emptying
    <3>7. ll \in {"lenhead", "lenagain"} => LenKnows(ll, cc, n, oo)'
      BY <1>5, <2>4 DEF Knows, LenKnows
    <3> QED BY <3>3, <3>4, <3>5, <3>6, <3>7 DEF Knows
  <2> QED BY <1>1, <2>1, <2>3, <2>4, ThreadsAfter DEF Filling, Emptying
<1>10. SlotsInv'
  <2>1. ASSUME NEW n \in Front .. Back - 1
        PROVE  (Cell(n).stamp = WordAt(n) + 1 /\ Cell(n).value \in Values)' \/ FilledBy(n)'
    <3>2. CASE FilledBy(n)
      BY <1>1, <3>2, OwnersAfter DEF Filling
    <3>3. CASE ~FilledBy(n)
      <4>1. Cell(n).stamp = WordAt(n) + 1 /\ Cell(n).value \in Values
        BY <1>0, <3>3 DEF SlotsInv
      <4>2. SlotOf(n) # SlotOf(k) /\ n \in Nat
        BY <1>0, <1>2, <1>6
      <4> QED BY <1>4, <4>1, <4>2
    <3> QED BY <3>2, <3>3
  <2>2. ASSUME NEW n \in Back .. Front + Cap - 1
        PROVE  (Cell(n).stamp = WordAt(n))' \/ EmptiedBy(n - Cap)'
    <3>0. n \in Nat /\ (n # k + Cap => SlotOf(n) # SlotOf(k))
      BY <1>0, <1>2, <1>6, <1>b
    <3>1. CASE n = k + Cap
      <4>1. SlotOf(n) = SlotOf(k)
        BY <1>2, <3>1, Words
      <4> QED BY <1>4, <3>0, <3>1, <4>1
    <3>2. CASE n # k + Cap /\ EmptiedBy(n - Cap)
      <4>1. n - Cap # k
        BY <1>0, <1>2, <3>0, <3>2
      <4> QED BY <1>1, <3>2, <4>1, OwnersAfter DEF k
    <3>3. CASE n # k + Cap /\ ~EmptiedBy(n - Cap)
      <4>1. Cell(n).stamp = WordAt(n)
        BY <1>0, <3>3 DEF SlotsInv
      <4> QED BY <1>4, <3>0, <3>3, <4>1
    <3> QED BY <3>1, <3>2, <3>3
  <2> QED BY <1>5, <2>1, <2>2 DEF SlotsInv
<1>11. DropInv'
  BY <1>0, <1>1 DEF DropInv
<1> QED BY <1>7, <1>8, <1>9, <1>10, <1>11 DEF Inv

\* How long the queue is, and when it is full.
LEMMA ItemsLength ==
    ASSUME CapOK, Inv
    PROVE  /\ Len(Items) = Back - Front /\ Back - Front \in 0 .. Cap
           /\ dropped = <<None>> => (Q!IsFull <=> Back = Front + Cap)
<1>1. /\ Cap \in Nat /\ Cap > 0 /\ Front \in Nat /\ Back \in Nat /\ Front <= Back /\ Back <= Front + Cap
  BY EndsFacts, Words
<1>2. Len(Items) = Back - Front
  BY <1>1 DEF Items, Front, Back
<1> QED BY <1>1, <1>2 DEF Q!IsFull

\* A step that moves one thread's locals only keeps the ends.
LEMMA SameEnds ==
    ASSUME EndsInv, UNCHANGED <<head, tail>>
    PROVE  EndsInv' /\ Front' = Front /\ Back' = Back
BY DEF EndsInv, Front, Back

\* push reads tail again, and starts over or finds the queue closed: the invariant holds.
LEMMA SeesTail ==
    ASSUME CapOK, Inv, NEW t \in Threads, pc[t] \in {"push", "take"}, SeeTail(t)
    PROVE  Inv'
<1>0. /\ TypeOK /\ EndsInv /\ ThreadsInv /\ DropInv
      /\ Front \in Nat /\ Back \in Nat /\ Front <= Back /\ Back <= Front + Cap
  BY EndsFacts, Words DEF Inv
<1>1. dropped = <<None>> /\ UNCHANGED <<buffer, dropped, head, tail>>
  BY <1>0 DEF DropInv, SeeTail
<1>2. EndsInv' /\ Front' = Front /\ Back' = Back
  BY <1>0, <1>1, SameEnds
<1>3. CASE Marked(tail)
  <2>1. Moves(t, "return", Q!Ask("closed"), tail, other[t])
    BY <1>0, <1>3 DEF SeeTail, See, Answer, Goto, Moves, TypeOK
  <2>2. /\ CallOK("return", Q!Ask("closed")) /\ SeenOK("return", tail)
        /\ Knows("return", Q!Ask("closed"), Position(tail), other[t])
    BY DEF CallOK, SeenOK, Looking, Knows, Filling, Emptying, Q!Ask, Q!Said, Q!Answers
  <2> QED BY <1>1, <1>2, <2>1, <2>2, LocalStep DEF Filling, Emptying
<1>4. CASE ~Marked(tail)
  <2> DEFINE c == IF Q!IsFull THEN [call[t] EXCEPT !.op = "sawfull"] ELSE call[t]
  <2>1. Moves(t, "stamp", c, tail, other[t])
    BY <1>0, <1>4 DEF SeeTail, See, Goto, Moves, TypeOK
  <2>2. PICK v \in Values : call[t] = Q!AskPush(v) \/ call[t] = Q!Said("sawfull", v, 0)
    BY <1>0 DEF TypeOK, CallOK, Filling
  <2>3. /\ c = Q!AskPush(v) \/ c = Q!Said("sawfull", v, 0)
        /\ Q!IsFull => c.op # "push"
    BY <2>2 DEF Q!AskPush, Q!Said
  <2> HIDE DEF c
  <2>4. CallOK("stamp", c)
    BY <2>3 DEF CallOK
  <2>5. tail = WordAt(Back)
    BY <1>4, EndsFacts
  <2>6. SeenOK("stamp", tail)
    BY <1>0, <2>5 DEF SeenOK, Looking, Back
  <2>7. ASSUME NEW n, n = Back, NEW o PROVE Knows("stamp", c, n, o)
    <3>1. c.op = "push" => Back < Front + Cap
      <4>1. c.op = "push" => Back # Front + Cap
        BY <1>1, <2>3, ItemsLength
      <4>2. Cap \in Nat
        BY DEF CapOK
      <4> QED BY <1>0, <4>1, <4>2
    <3> QED BY <1>0, <2>7, <3>1 DEF Knows, PushKnows, Filling, Emptying
  <2> QED BY <1>1, <1>2, <2>1, <2>4, <2>6, <2>7, LocalStep DEF Filling, Emptying, Back
<1> QED BY <1>3, <1>4

\* pop reads head again: the invariant holds.
LEMMA SeesHead ==
    ASSUME CapOK, Inv, NEW t \in Threads, pc[t] \in {"pop", "poptake"}, SeeHead(t)
    PROVE  Inv'
<1>0. /\ TypeOK /\ EndsInv /\ ThreadsInv /\ DropInv
      /\ Front \in Nat /\ Back \in Nat /\ Front <= Back /\ head = WordAt(Front)
  BY EndsFacts, Words DEF Inv
<1>1. dropped = <<None>> /\ UNCHANGED <<buffer, dropped, head, tail>>
  BY <1>0 DEF DropInv, SeeHead
<1>2. EndsInv' /\ Front' = Front /\ Back' = Back
  BY <1>0, <1>1, SameEnds
<1>3. Moves(t, "popstamp", call[t], head, other[t])
  BY <1>0 DEF SeeHead, See, Goto, Moves, TypeOK
<1>4. CallOK("popstamp", call[t])
  BY <1>0 DEF TypeOK, CallOK, Filling
<1>5. SeenOK("popstamp", head)
  BY <1>0 DEF SeenOK, Looking, Front
<1>6. ASSUME NEW n, n = Front, NEW c, NEW o PROVE Knows("popstamp", c, n, o)
  BY <1>0, <1>6 DEF Knows, PopKnows, Filling, Emptying
<1> QED BY <1>1, <1>2, <1>3, <1>4, <1>5, <1>6, LocalStep DEF Filling, Emptying, Front

\* A thread that has its answer, or starts over, knows nothing.
LEMMA Ends ==
    ASSUME Inv, NEW t \in Threads, NEW l \in {"idle", "push", "pop", "len", "close", "return"}, NEW c, NEW w, NEW o,
           Moves(t, l, c, w, o), CallOK(l, c), EndsInv', Front' = Front, Back' = Back, UNCHANGED <<buffer, dropped>>,
           dropped = <<None>>, pc[t] \notin Filling \cup Emptying
    PROVE  Inv'
<1>1. SeenOK(l, w) /\ Knows(l, c, Position(w), o) /\ l \notin Filling \cup Emptying
  BY DEF SeenOK, Looking, Knows, Filling, Emptying
<1> QED BY <1>1, LocalStep

\* push and pop compare a stamp with the word they hold: the invariant holds.
LEMMA Looks ==
    ASSUME CapOK, Inv, NEW t \in Threads, PushStamp(t) \/ PopStamp(t)
    PROVE  Inv'
<1>0. TypeOK /\ EndsInv /\ ThreadsInv /\ DropInv
  BY DEF Inv
<1>1. dropped = <<None>> /\ UNCHANGED <<buffer, dropped, head, tail>>
  BY <1>0 DEF DropInv, PushStamp, PopStamp
<1>2. EndsInv' /\ Front' = Front /\ Back' = Back
  BY <1>0, <1>1, SameEnds
<1>3. /\ SeenOK(pc[t], seen[t]) /\ Knows(pc[t], call[t], Mine(t), other[t])
      /\ Stamp(t) = Cell(Mine(t)).stamp /\ seen[t] = WordAt(Mine(t))
  BY <1>0, ThreadFacts DEF ThreadsInv, PushStamp, PopStamp, Looking
<1>4. CASE PushStamp(t)
  <2>1. PICK l \in {"take", "full", "push"} : Moves(t, l, call[t], seen[t], other[t]) /\ (l = "take" => Stamp(t) = seen[t])
    BY <1>0, <1>4 DEF PushStamp, Goto, Moves, TypeOK
  <2>2. CallOK(l, call[t])
    BY <1>0, <1>4, <2>1 DEF PushStamp, TypeOK, CallOK, Filling
  <2>3. SeenOK(l, seen[t]) /\ Knows(l, call[t], Mine(t), other[t])
    BY <1>3, <1>4, <2>1 DEF PushStamp, SeenOK, Looking, Knows, PushKnows, Filling, Emptying
  <2> QED BY <1>1, <1>2, <1>4, <2>1, <2>2, <2>3, LocalStep DEF PushStamp, Filling, Emptying, Mine
<1>5. CASE PopStamp(t)
  <2>1. PICK l \in {"poptake", "empty", "pop"} : Moves(t, l, call[t], seen[t], other[t]) /\ (l = "poptake" => seen[t] + 1 = Stamp(t))
    BY <1>0, <1>5 DEF PopStamp, Goto, Moves, TypeOK
  <2>2. CallOK(l, call[t])
    BY <1>0, <1>5, <2>1 DEF PopStamp, TypeOK, CallOK, Filling
  <2>3. SeenOK(l, seen[t]) /\ Knows(l, call[t], Mine(t), other[t])
    BY <1>3, <1>5, <2>1 DEF PopStamp, SeenOK, Looking, Knows, PopKnows, Filling, Emptying
  <2> QED BY <1>1, <1>2, <1>5, <2>1, <2>2, <2>3, LocalStep DEF PopStamp, Filling, Emptying, Mine
<1> QED BY <1>4, <1>5

\* The three reads of len keep the invariant: tail, head, and tail once more.
LEMMA Lens ==
    ASSUME CapOK, Inv, NEW t \in Threads, LenTail(t) \/ LenHead(t) \/ LenAgain(t)
    PROVE  Inv'
<1>0. /\ TypeOK /\ EndsInv /\ ThreadsInv /\ DropInv
      /\ Front \in Nat /\ Back \in Nat /\ Front <= Back /\ head = WordAt(Front)
  BY EndsFacts, Words DEF Inv
<1>1. dropped = <<None>> /\ UNCHANGED <<buffer, dropped, head, tail>>
  BY <1>0 DEF DropInv, LenTail, LenHead, LenAgain
<1>2. EndsInv' /\ Front' = Front /\ Back' = Back
  BY <1>0, <1>1, SameEnds
<1>3. CASE LenTail(t)
  <2>1. Moves(t, "lenhead", call[t], tail, other[t])
    BY <1>0, <1>3 DEF LenTail, See, Goto, Moves, TypeOK
  <2>2. CallOK("lenhead", call[t])
    BY <1>0, <1>3 DEF LenTail, TypeOK, CallOK, Filling
  <2>3. SeenOK("lenhead", tail)
    BY <1>0 DEF SeenOK, Looking, EndsInv, Filling, Emptying, Back
  <2>4. ASSUME NEW n, n = Back, NEW c, NEW o PROVE Knows("lenhead", c, n, o)
    BY <1>0, <2>4 DEF Knows, LenKnows, Filling, Emptying
  <2> QED BY <1>1, <1>2, <1>3, <2>1, <2>2, <2>3, <2>4, LocalStep DEF LenTail, Filling, Emptying, Back
<1>4. CASE LenHead(t)
  <2> DEFINE m == Len(Items)
  <2>1. Moves(t, "lenagain", Q!Looked(m), seen[t], head)
    BY <1>0, <1>4 DEF LenHead, Goto, Moves, TypeOK
  <2>2. m = Back - Front /\ m \in 0 .. Cap /\ Cap \in Nat
    BY ItemsLength, Words
  <2> HIDE DEF m
  <2>3. CallOK("lenagain", Q!Looked(m))
    BY <2>2 DEF CallOK, Q!Looked, Q!Said
  <2>4. SeenOK("lenagain", seen[t]) /\ Knows("lenhead", call[t], Mine(t), other[t]) /\ Mine(t) \in Nat
    BY <1>0, <1>4 DEF LenHead, ThreadsInv, SeenOK, Looking, Filling, Emptying, Mine
  <2>5. ASSUME NEW n \in Nat, n <= Back, NEW c, c = Q!Looked(m) PROVE Knows("lenagain", c, n, head)
    BY <1>0, <2>2, <2>5 DEF Knows, LenKnows, Filling, Emptying, Q!Looked, Q!Said, Front
  <2>6. Knows("lenagain", Q!Looked(m), Position(seen[t]), head)
    BY <2>4, <2>5 DEF Knows, LenKnows, Mine
  <2> QED BY <1>1, <1>2, <1>4, <2>1, <2>3, <2>4, <2>6, LocalStep DEF LenHead, Filling, Emptying
<1>5. CASE LenAgain(t)
  <2>1. CASE tail = seen[t]
    <3>1. Moves(t, "return", Q!Length(LenOf(seen[t], other[t])), seen[t], other[t])
      BY <1>0, <1>5, <2>1 DEF LenAgain, Answer, Goto, Moves, TypeOK
    <3>2. CallOK("return", Q!Length(LenOf(seen[t], other[t])))
      BY DEF CallOK, Q!Length, Q!Said, Q!Answers
    <3> QED BY <1>1, <1>2, <1>5, <3>1, <3>2, Ends DEF LenAgain, Filling, Emptying
  <2>2. CASE tail # seen[t]
    <3>1. Moves(t, "len", call[t], seen[t], other[t])
      BY <1>0, <1>5, <2>2 DEF LenAgain, Goto, Moves, TypeOK
    <3>2. CallOK("len", call[t])
      BY <1>0, <1>5 DEF LenAgain, TypeOK, CallOK, Filling
    <3> QED BY <1>1, <1>2, <1>5, <3>1, <3>2, Ends DEF LenAgain, Filling, Emptying
  <2> QED BY <2>1, <2>2
<1> QED BY <1>3, <1>4, <1>5

\* Steps that only answer, call or return, and close, keep the invariant.
LEMMA Answers ==
    ASSUME CapOK, Inv, NEW t \in Threads, PushFull(t) \/ PopEmpty(t) \/ Close(t) \/ Call(t) \/ Return(t)
    PROVE  Inv'
<1>0. TypeOK /\ EndsInv /\ ThreadsInv /\ DropInv
  BY DEF Inv
<1>1. \A o : CallOK("return", Q!Ask(o)) <=> o \in Q!Answers
  BY DEF CallOK, Q!Ask, Q!Said, Filling
<1>2. ASSUME PushFull(t) \/ PopEmpty(t) \/ Call(t) \/ Return(t)
      PROVE  EndsInv' /\ Front' = Front /\ Back' = Back /\ UNCHANGED <<buffer, dropped, head, tail>>
  <2>1. UNCHANGED <<buffer, dropped, head, tail>>
    BY <1>2 DEF PushFull, PopEmpty, Call, Return
  <2> QED BY <1>0, <2>1, SameEnds
<1>3. pc[t] # "idle" => dropped = <<None>>
  BY <1>0 DEF DropInv
<1>4. CASE PushFull(t)
  <2>1. CASE head + OneLap = seen[t]
    <3>1. Moves(t, "return", Q!Ask("full"), seen[t], other[t])
      BY <1>0, <1>4, <2>1 DEF PushFull, Answer, Goto, Moves, TypeOK
    <3> QED BY <1>1, <1>2, <1>3, <1>4, <3>1, Ends DEF PushFull, Q!Answers, Filling, Emptying
  <2>2. CASE head + OneLap # seen[t]
    <3>1. Moves(t, "push", call[t], seen[t], other[t])
      BY <1>0, <1>4, <2>2 DEF PushFull, Goto, Moves, TypeOK
    <3>2. CallOK("push", call[t])
      BY <1>0, <1>4 DEF PushFull, TypeOK, CallOK, Filling
    <3> QED BY <1>2, <1>3, <1>4, <3>1, <3>2, Ends DEF PushFull, Filling, Emptying
  <2> QED BY <2>1, <2>2
<1>5. CASE PopEmpty(t)
  <2>1. CASE Unmarked(tail) = seen[t]
    <3> DEFINE a == IF Marked(tail) THEN "closed" ELSE "empty"
    <3>1. Moves(t, "return", Q!Ask(a), seen[t], other[t])
      BY <1>0, <1>5, <2>1 DEF PopEmpty, Answer, Goto, Moves, TypeOK
    <3>2. a \in Q!Answers
      BY DEF Q!Answers
    <3> HIDE DEF a
    <3> QED BY <1>1, <1>2, <1>3, <1>5, <3>1, <3>2, Ends DEF PopEmpty, Filling, Emptying
  <2>2. CASE Unmarked(tail) # seen[t]
    <3>1. Moves(t, "pop", call[t], seen[t], other[t])
      BY <1>0, <1>5, <2>2 DEF PopEmpty, Goto, Moves, TypeOK
    <3>2. CallOK("pop", call[t])
      BY <1>0, <1>5 DEF PopEmpty, TypeOK, CallOK, Filling
    <3> QED BY <1>2, <1>3, <1>5, <3>1, <3>2, Ends DEF PopEmpty, Filling, Emptying
  <2> QED BY <2>1, <2>2
<1>6. CASE Close(t)
  <2> DEFINE a == IF Marked(tail) THEN "again" ELSE "first"
  <2>1. Moves(t, "return", Q!Ask(a), seen[t], other[t])
    BY <1>0, <1>6 DEF Close, Answer, Goto, Moves, TypeOK
  <2>2. a \in Q!Answers
    BY DEF Q!Answers
  <2>3. tail' = WordAt(Back) + MarkBit /\ Back \in Nat /\ Front' = Front /\ Front \in Nat /\ MarkBit \in Nat
    BY <1>6, EndsFacts, Words DEF Close, Front
  <2>4. tail' = WordAt(Back) + 1 * MarkBit
    BY <2>3
  <2>5. Back' = Back
    BY <2>3, <2>4, Words DEF Back
  <2>6. EndsInv'
    BY <1>0, <1>6, <2>3, <2>4, <2>5 DEF EndsInv, Close
  <2> HIDE DEF a
  <2> QED BY <1>1, <1>3, <1>6, <2>1, <2>2, <2>3, <2>5, <2>6, Ends DEF Close, Filling, Emptying
<1>7. CASE Call(t)
  <2>1. PICK q \in Q!Questions : Moves(t, q.op, q, seen[t], other[t])
    BY <1>0, <1>7 DEF Call, Goto, Moves, TypeOK
  <2>2. q.op \in {"push", "pop", "len", "close"} /\ CallOK(q.op, q)
    BY DEF Q!Questions, Q!AskPush, Q!Ask, Q!Said, CallOK
  <2>3. pc[t] \notin Filling \cup Emptying /\ dropped = <<None>>
    BY <1>7 DEF Call, Q!Alive, Filling, Emptying
  <2>4. PICK l \in {"push", "pop", "len", "close"} : l = q.op
    BY <2>2
  <2>5. Moves(t, l, q, seen[t], other[t]) /\ CallOK(l, q)
    BY <2>1, <2>2, <2>4
  <2> QED BY <1>2, <1>7, <2>3, <2>5, Ends
<1>8. CASE Return(t)
  <2>1. Moves(t, "idle", Q!Idle, 0, 0)
    BY <1>0, <1>8 DEF Return, See, Goto, Moves, TypeOK
  <2>2. CallOK("idle", Q!Idle)
    BY DEF CallOK
  <2> QED BY <1>2, <1>3, <1>8, <2>1, <2>2, Ends DEF Return, Filling, Emptying
<1> QED BY <1>4, <1>5, <1>6, <1>7, <1>8

\* The queue is empty at first, and every slot is free for the first lap.
LEMMA InitInv == ASSUME CapOK, Init PROVE Inv
<1>1. /\ Cap \in Nat /\ Cap > 0 /\ MarkBit \in Nat
      /\ \A n \in 0 .. Cap - 1 : n \div Cap = 0 /\ n % Cap = n
  <2>1. \A n \in 0 .. Cap - 1 : Lemmas!Split(n, 0, Cap, n)
    BY Words DEF Lemmas!Split
  <2> QED BY <2>1, Words, Lemmas!DivMod
<1>2. \A n \in 0 .. Cap - 1 : WordAt(n) = n /\ SlotOf(n) = n
  BY <1>1 DEF WordAt, SlotOf, OneLap
<1>3. WordAt(0) = 0 /\ Position(0) = 0 /\ Front = 0 /\ Back = 0
  <2>1. WordAt(0) = 0 /\ Position(WordAt(0)) = 0
    BY <1>1, <1>2, Words
  <2> QED BY <2>1 DEF Init, Front, Back
<1>4. TypeOK
  BY <1>1, <1>2 DEF Init, TypeOK, CallOK, Slots
<1>5. EndsInv
  BY <1>1, <1>3 DEF EndsInv, Init
<1>6. ThreadsInv
  BY DEF Init, ThreadsInv, SeenOK, Looking, Filling, Emptying, Knows
<1>7. SlotsInv
  BY <1>1, <1>2, <1>3 DEF SlotsInv, Init, Cell, Slots
<1>8. DropInv
  BY DEF DropInv, Init
<1> QED BY <1>4, <1>5, <1>6, <1>7, <1>8 DEF Inv

\* The invariant is inductive.
LEMMA InvStep == ASSUME CapOK, Inv, [Next]_vars PROVE Inv'
<1>0. TypeOK /\ EndsInv /\ ThreadsInv /\ SlotsInv /\ DropInv
  BY DEF Inv
<1>1. ASSUME NEW t \in Threads, PushTake(t) PROVE Inv'
  BY <1>1, PushTakes, SeesTail DEF PushTake
<1>2. ASSUME NEW t \in Threads, PopTake(t) PROVE Inv'
  BY <1>2, PopTakes, SeesHead DEF PopTake
<1>3. ASSUME NEW t \in Threads, PushLoad(t) \/ PopLoad(t) PROVE Inv'
  BY <1>3, SeesTail, SeesHead DEF PushLoad, PopLoad
<1>4. ASSUME Drop \/ UNCHANGED vars PROVE Inv'
  <2>1. /\ UNCHANGED <<head, tail, buffer, pc, call, seen, other>>
        /\ dropped' = dropped \/ \A t \in Threads : pc[t] = "idle"
    BY <1>4 DEF Drop, vars
  <2>2. EndsInv' /\ Front' = Front /\ Back' = Back /\ \A n : Cell(n)' = Cell(n)
    BY <1>0, <2>1, SameEnds DEF Cell
  <2>3. TypeOK' /\ DropInv'
    BY <1>0, <2>1 DEF TypeOK, DropInv
  <2>4. ThreadsInv' /\ SlotsInv'
    BY <1>0, <2>1, <2>2 DEF ThreadsInv, SlotsInv, Mine, SeenOK, Knows, PushKnows, FillKnows, PopKnows, EmptyKnows, LenKnows, FilledBy, EmptiedBy
  <2> QED BY <2>2, <2>3, <2>4 DEF Inv
<1> QED BY <1>1, <1>2, <1>3, <1>4, PushWrites, PushPublishes, PopReads, PopReleases, Looks, Lens, Answers DEF Next, Step

-----------------------------------------------------------------------------
(***************************************************************************)
(* The refinement: what the queue holds and what each thread was answered. *)
(***************************************************************************)
Holds == IF dropped = <<None>> THEN Items ELSE <<>>

\* The item of a position in the queue: what its writer brings, or the slot's value.
ItemAt(n) == ValueAt(WordAt(n))

\* What a thread was answered, with v the value of its slot.
Seen(l, c, v) == CASE l \in Filling -> Q!Ask("ok")
                   [] l = "read" -> Q!Popped(v)
                   [] OTHER -> c

Read(t) == buffer[Index(seen[t])].value

ItemsKnown ==
    /\ Items = [i \in 1 .. Back - Front |-> ItemAt(Front + i - 1)]
    /\ \A n \in Nat :
          /\ \A t \in Threads : pc[t] = "write" /\ Mine(t) = n => ItemAt(n) = call[t].val
          /\ (\A t \in Threads : pc[t] = "write" => Mine(t) # n) => ItemAt(n) = Cell(n).value

\* The items are what is found from Front to Back: in the slot, or still in the call of
\* the push that has taken it.
LEMMA ItemFacts == CapOK /\ Inv => ItemsKnown
<1> SUFFICES ASSUME CapOK, Inv PROVE ItemsKnown
  OBVIOUS
<1>1. Items = [i \in 1 .. Back - Front |-> ItemAt(Front + i - 1)]
  BY DEF Items, ItemAt, Back, Front
<1>2. ASSUME NEW n \in Nat
      PROVE  /\ \A t \in Threads : pc[t] = "write" /\ Mine(t) = n => ItemAt(n) = call[t].val
             /\ (\A t \in Threads : pc[t] = "write" => Mine(t) # n) => ItemAt(n) = Cell(n).value
  <2> DEFINE W == {t \in Threads : pc[t] = "write" /\ seen[t] = WordAt(n)}
  <2>1. ItemAt(n) = IF W = {} THEN Cell(n).value ELSE call[CHOOSE t \in W : TRUE].val
    BY Words DEF ItemAt, ValueAt, Cell
  <2>2. \A t \in Threads : pc[t] = "write" => (t \in W <=> Mine(t) = n)
    BY ThreadFacts, StampsDiffer DEF Looking, Filling, CapOK
  <2> HIDE DEF W
  <2>3. ASSUME NEW t \in Threads, pc[t] = "write", Mine(t) = n PROVE W = {t}
    BY <2>2, <2>3 DEF Inv, ThreadsInv, Filling, W
  <2>4. (\A t \in Threads : pc[t] = "write" => Mine(t) # n) => W = {}
    BY <2>2 DEF W
  <2> QED BY <2>1, <2>3, <2>4
<1> QED BY <1>1, <1>2 DEF ItemsKnown

\* What the queue holds is kept when the ends are, and each position in between
\* keeps its value and its writer, or gets the value its writer brings.
LEMMA ItemsKept ==
    ASSUME CapOK, Inv, Inv', NEW t \in Threads, NEW l, NEW c, NEW w, NEW o, Moves(t, l, c, w, o),
           Front' = Front, Back' = Back, l # "write",
           \A n \in Front .. Back - 1 :
              Cell(n)'.value = IF pc[t] = "write" /\ Mine(t) = n THEN call[t].val ELSE Cell(n).value
    PROVE  Items' = Items
<1>0. Front \in Nat /\ Back \in Nat
  BY EndsFacts
<1>a. ItemsKnown /\ ItemsKnown'
  <2>1. CapOK' /\ (CapOK /\ Inv => ItemsKnown)'
    BY ItemFacts, PTL DEF CapOK
  <2> QED BY <2>1, ItemFacts
<1>b. \A u \in Threads : /\ pc'[u] = "write" <=> u # t /\ pc[u] = "write"
                         /\ u # t => Mine(u)' = Mine(u) /\ call'[u] = call[u]
  BY DEF Moves, Mine
<1>1. ASSUME NEW n \in Front .. Back - 1 PROVE ItemAt(n)' = ItemAt(n)
  <2>0. n \in Nat
    BY <1>0
  <2>1. CASE \E u \in Threads : u # t /\ pc[u] = "write" /\ Mine(u) = n
    BY <1>a, <1>b, <2>0, <2>1 DEF ItemsKnown
  <2>2. CASE \A u \in Threads : u # t /\ pc[u] = "write" => Mine(u) # n
    <3>1. ItemAt(n) = IF pc[t] = "write" /\ Mine(t) = n THEN call[t].val ELSE Cell(n).value
      BY <1>a, <2>0, <2>2 DEF ItemsKnown
    <3>2. (ItemAt(n) = Cell(n).value)'
      BY <1>a, <1>b, <2>0, <2>2 DEF ItemsKnown
    <3> QED BY <3>1, <3>2
  <2> QED BY <2>1, <2>2
<1>2. \A i \in 1 .. Back - Front : ItemAt(Front + i - 1)' = ItemAt(Front + i - 1)
  <2> SUFFICES ASSUME NEW i \in 1 .. Back - Front PROVE ItemAt(Front + i - 1)' = ItemAt(Front + i - 1)
    OBVIOUS
  <2>1. PICK n \in Front .. Back - 1 : n = Front + i - 1
    BY <1>0
  <2> QED BY <1>1, <2>1
<1> QED BY <1>0, <1>a, <1>2 DEF ItemsKnown

\* A step of one thread changes what is seen of that thread only.
LEMMA CallsAfter ==
    ASSUME NEW t \in Threads, NEW l, NEW c, NEW w, NEW o, Moves(t, l, c, w, o),
           \A u \in Threads : u # t /\ pc[u] = "read" => buffer'[Index(seen[u])].value = Read(u),
           NEW v, l = "read" => v = buffer'[Index(w)].value
    PROVE  Calls' = [Calls EXCEPT ![t] = Seen(l, c, v)]
<1>1. \A u \in Threads : /\ Calls[u] = Seen(pc[u], call[u], Read(u))
                         /\ Calls'[u] = Seen(pc'[u], call'[u], buffer'[Index(seen'[u])].value)
  BY DEF Calls, Seen, Read, Filling, Q!Ask, Q!Popped, Q!Said
<1>2. \A u \in Threads : u # t => Calls'[u] = Calls[u]
  BY <1>1 DEF Moves, Seen
<1>3. Calls'[t] = Seen(l, c, v)
  BY <1>1 DEF Moves, Seen
<1> QED BY <1>2, <1>3 DEF Calls

\* What is seen of a thread.
LEMMA CallsNow ==
    ASSUME Inv
    PROVE  /\ Calls = [t \in Threads |-> Calls[t]]
           /\ \A t \in Threads : Calls[t] = Seen(pc[t], call[t], Read(t))
           /\ \A t \in Threads : pc[t] # "idle" => dropped = <<None>>
BY DEF Calls, Seen, Read, Filling, Q!Ask, Q!Popped, Q!Said, Inv, DropInv

\* A step that leaves the ends and the buffer alone, and neither writes nor reads
\* a slot, is seen in the call of its thread only.
LEMMA Quiet ==
    ASSUME CapOK, Inv, Inv', NEW t \in Threads, NEW l, NEW c, NEW w, NEW o, Moves(t, l, c, w, o),
           Front' = Front, Back' = Back, buffer' = buffer,
           pc[t] # "write", l \notin {"write", "publish", "read"}
    PROVE  Items' = Items /\ Calls' = [Calls EXCEPT ![t] = c]
<1>1. Items' = Items
  BY ItemsKept DEF Cell
<1>2. Calls' = [Calls EXCEPT ![t] = Seen(l, c, None)]
  BY CallsAfter DEF Read
<1> QED BY <1>1, <1>2 DEF Seen, Filling

\* What a step of Fifo is, in these terms.
LEMMA FifoSteps ==
    ASSUME NEW t \in Threads
    PROVE  /\ UNCHANGED Q!fvars <=> Holds' = Holds /\ Marked(tail') = Marked(tail) /\ Calls' = Calls /\ dropped' = dropped
           /\ \/ Q!Call(t) \/ Q!Return(t) \/ Q!Push(t) \/ Q!Pop(t) \/ Q!Close(t) \/ Q!LookFull(t)
              \/ Q!LookLen(t) \/ Q!AnswerLen(t)
              => Q!Next
BY DEF Q!fvars, Q!Next, Holds

\* Looking at tail notes that the queue is full, or answers that it is closed.
LEMMA SeesTailRefines ==
    ASSUME CapOK, Inv, Inv', NEW t \in Threads, pc[t] \in {"push", "take"}, SeeTail(t)
    PROVE  Q!Next \/ UNCHANGED Q!fvars
<1> USE DEF Q!Ask, Q!AskPush, Q!Said
<1>0. TypeOK /\ EndsInv
  BY DEF Inv
<1>1. dropped = <<None>> /\ UNCHANGED <<buffer, dropped, head, tail>> /\ Front' = Front /\ Back' = Back
  BY <1>0, CallsNow, SameEnds DEF SeeTail
<1>2. PICK v \in Values : call[t] = Q!AskPush(v) \/ call[t] = Q!Said("sawfull", v, 0)
  BY <1>0 DEF TypeOK, CallOK, Filling
<1>3. Calls[t] = call[t] /\ Holds = Items /\ Holds' = Items'
  BY <1>1, CallsNow DEF Seen, Filling, Holds
<1>4. CASE Marked(tail)
  <2>1. Moves(t, "return", Q!Ask("closed"), tail, other[t])
    BY <1>0, <1>4 DEF SeeTail, See, Answer, Goto, Moves, TypeOK
  <2>2. Items' = Items /\ Calls' = [Calls EXCEPT ![t] = Q!Ask("closed")]
    BY <1>1, <2>1, Quiet
  <2>3. Q!Push(t)
    BY <1>1, <1>2, <1>3, <1>4, <2>2 DEF Q!Push, Q!Answer, Holds
  <2> QED BY <2>3, FifoSteps
<1>5. CASE ~Marked(tail)
  <2> DEFINE c == IF Q!IsFull THEN [call[t] EXCEPT !.op = "sawfull"] ELSE call[t]
  <2>1. Moves(t, "stamp", c, tail, other[t])
    BY <1>0, <1>5 DEF SeeTail, See, Goto, Moves, TypeOK
  <2>2. Items' = Items /\ Calls' = [Calls EXCEPT ![t] = c]
    <3> HIDE DEF c
    <3> QED BY <1>1, <2>1, Quiet
  <2>3. CASE Q!IsFull /\ call[t].op = "push"
    <3>1. Q!LookFull(t)
      BY <1>1, <1>3, <1>5, <2>2, <2>3 DEF Q!LookFull, Q!Answer, Holds
    <3> QED BY <3>1, FifoSteps
  <2>4. CASE ~Q!IsFull \/ call[t].op # "push"
    <3>1. c = call[t]
      BY <1>2, <2>4
    <3>2. Calls' = Calls
      BY <1>3, <2>2, <3>1, CallsNow
    <3> QED BY <1>1, <1>3, <2>2, <3>2, FifoSteps
  <2> QED BY <1>2, <2>3, <2>4
<1> QED BY <1>4, <1>5

\* Looking at head, or at a stamp, is not seen.
LEMMA LooksRefine ==
    ASSUME CapOK, Inv, Inv', NEW t \in Threads, NEW l, NEW w, NEW o, Moves(t, l, call[t], w, o),
           UNCHANGED <<buffer, dropped, head, tail>>,
           pc[t] \notin {"idle", "write", "publish", "read"}, l \notin {"write", "publish", "read"}
    PROVE  UNCHANGED Q!fvars
<1>1. Front' = Front /\ Back' = Back /\ dropped = <<None>>
  BY CallsNow, SameEnds DEF Inv
<1>2. Items' = Items /\ Calls' = [Calls EXCEPT ![t] = call[t]]
  BY <1>1, Quiet
<1>3. Calls[t] = call[t]
  BY CallsNow DEF Seen, Filling
<1>4. Calls' = Calls
  BY <1>2, <1>3, CallsNow
<1> QED BY <1>1, <1>2, <1>4, FifoSteps DEF Holds

\* The push that moves tail on appends its value to the items: Push of Fifo.
LEMMA PushTakesRefines ==
    ASSUME CapOK, Inv, Inv', NEW t \in Threads, pc[t] = "take", tail = seen[t], tail' = NextWord(tail),
           Goto(t, "write"), UNCHANGED <<head, buffer, call, seen, other, dropped>>
    PROVE  Q!Next
<1>1. /\ Back' = Back + 1 /\ Back < Front + Cap /\ Mine(t) = Back /\ ~Marked(tail) /\ ~Marked(tail')
      /\ Front' = Front /\ Front \in Nat /\ Back \in Nat /\ Front <= Back /\ dropped = <<None>>
      /\ Moves(t, "write", call[t], seen[t], other[t])
  BY PushTakes, EndsFacts, CallsNow DEF Front, Inv, TypeOK, Goto, Moves
<1>2. ItemsKnown /\ ItemsKnown'
  <2>1. CapOK' /\ (CapOK /\ Inv => ItemsKnown)'
    BY ItemFacts, PTL DEF CapOK
  <2> QED BY <2>1, ItemFacts
<1>3. \A u \in Threads : /\ pc'[u] = "write" <=> u = t \/ pc[u] = "write"
                         /\ Mine(u)' = Mine(u) /\ call'[u] = call[u]
  BY <1>1 DEF Moves, Mine
<1>4. ASSUME NEW n \in Nat, n # Back PROVE ItemAt(n)' = ItemAt(n)
  <2>1. CASE \E u \in Threads : pc[u] = "write" /\ Mine(u) = n
    BY <1>2, <1>3, <1>4, <2>1 DEF ItemsKnown
  <2>2. CASE \A u \in Threads : pc[u] = "write" => Mine(u) # n
    <3>1. ItemAt(n) = Cell(n).value
      BY <1>2, <2>2 DEF ItemsKnown
    <3>2. (ItemAt(n) = Cell(n).value)'
      BY <1>1, <1>2, <1>3, <1>4, <2>2 DEF ItemsKnown
    <3> QED BY <3>1, <3>2 DEF Cell
  <2> QED BY <2>1, <2>2
<1>5. \A n \in Nat : n = Back => ItemAt(n)' = call[t].val
  BY <1>1, <1>2, <1>3 DEF ItemsKnown
<1>6. Items' = Append(Items, call[t].val)
  <2>1. \A i \in 1 .. Back - Front + 1 :
            ItemAt(Front + i - 1)' = IF i = Back - Front + 1 THEN call[t].val ELSE ItemAt(Front + i - 1)
    <3> SUFFICES ASSUME NEW i \in 1 .. Back - Front + 1
                 PROVE  ItemAt(Front + i - 1)' = IF i = Back - Front + 1 THEN call[t].val ELSE ItemAt(Front + i - 1)
      OBVIOUS
    <3>1. PICK n \in Nat : n = Front + i - 1
      BY <1>1
    <3> QED BY <1>1, <1>4, <1>5, <3>1
  <2>2. Items' = [i \in 1 .. Back - Front + 1 |->
                    IF i = Back - Front + 1 THEN call[t].val ELSE ItemAt(Front + i - 1)]
    BY <1>1, <1>2, <2>1 DEF ItemsKnown
  <2>3. Items = [i \in 1 .. Back - Front |-> ItemAt(Front + i - 1)]
    BY <1>2 DEF ItemsKnown
  <2> QED BY <1>1, <2>2, <2>3
<1>7. Calls' = [Calls EXCEPT ![t] = Q!Ask("ok")]
  BY <1>1, CallsAfter DEF Seen, Filling, Read
<1>8. Calls[t] = call[t] /\ call[t].op \in {"push", "sawfull"}
  BY CallsNow DEF Seen, Filling, Inv, TypeOK, CallOK, Q!AskPush, Q!Said
<1>9. ~Q!IsFull
  BY <1>1, ItemsLength
<1>a. Marked(tail') = Marked(tail) /\ dropped' = dropped
  BY <1>1 DEF Marked
<1>10. Q!Push(t)
  BY <1>1, <1>6, <1>7, <1>8, <1>9, <1>a DEF Q!Push, Q!Answer
<1> QED BY <1>10, FifoSteps

\* The pop that moves head on takes the first item: Pop of Fifo.
LEMMA PopTakesRefines ==
    ASSUME CapOK, Inv, Inv', NEW t \in Threads, pc[t] = "poptake", head = seen[t], head' = NextWord(head),
           Goto(t, "read"), UNCHANGED <<tail, buffer, call, seen, other, dropped>>
    PROVE  Q!Next
<1>1. /\ Front' = Front + 1 /\ Front < Back /\ Mine(t) = Front /\ ~FilledBy(Front)
      /\ Back' = Back /\ Front \in Nat /\ Back \in Nat /\ dropped = <<None>> /\ dropped' = dropped
      /\ tail' = tail /\ Moves(t, "read", call[t], seen[t], other[t])
  BY PopTakes, EndsFacts, CallsNow DEF Back, Inv, TypeOK, Goto, Moves
<1>2. ItemsKnown /\ ItemsKnown'
  <2>1. CapOK' /\ (CapOK /\ Inv => ItemsKnown)'
    BY ItemFacts, PTL DEF CapOK
  <2> QED BY <2>1, ItemFacts
<1>3. \A n \in Nat : ItemAt(n)' = ItemAt(n)
  <2>1. \A u \in Threads : /\ pc'[u] = "write" <=> pc[u] = "write"
                           /\ Mine(u)' = Mine(u) /\ call'[u] = call[u]
    BY <1>1 DEF Moves, Mine
  <2>2. ASSUME NEW n \in Nat PROVE ItemAt(n)' = ItemAt(n)
    <3>1. CASE \E u \in Threads : pc[u] = "write" /\ Mine(u) = n
      BY <1>2, <2>1, <3>1 DEF ItemsKnown
    <3>2. CASE \A u \in Threads : pc[u] = "write" => Mine(u) # n
      <4>1. ItemAt(n) = Cell(n).value
        BY <1>2, <3>2 DEF ItemsKnown
      <4>2. (ItemAt(n) = Cell(n).value)'
        BY <1>2, <2>1, <3>2 DEF ItemsKnown
      <4> QED BY <4>1, <4>2 DEF Cell
    <3> QED BY <3>1, <3>2
  <2> QED BY <2>2
<1>4. Items' = Tail(Items) /\ Items # <<>> /\ Head(Items) = ItemAt(Front)
  <2>1. \A i \in 1 .. Back - Front - 1 : ItemAt(Front + i - 1)' = ItemAt(Front + (i + 1) - 1)
    <3> SUFFICES ASSUME NEW i \in 1 .. Back - Front - 1
                 PROVE  ItemAt(Front + i - 1)' = ItemAt(Front + (i + 1) - 1)
      OBVIOUS
    <3>1. PICK n \in Nat : n = Front + (i + 1) - 1
      BY <1>1
    <3>2. Front' + i - 1 = n
      BY <1>1, <3>1
    <3> QED BY <1>3, <3>1, <3>2
  <2>0. Back' - Front' = Back - Front - 1
    BY <1>1
  <2>2. Items' = [i \in 1 .. Back - Front - 1 |-> ItemAt(Front + (i + 1) - 1)]
    BY <1>2, <2>0, <2>1 DEF ItemsKnown
  <2>3. Items = [i \in 1 .. Back - Front |-> ItemAt(Front + i - 1)]
    BY <1>2 DEF ItemsKnown
  <2>4. Len(Items) = Back - Front /\ Items[1] = ItemAt(Front)
    BY <1>1, <2>3
  <2> QED BY SMTT(60), <1>1, <2>2, <2>3, <2>4
<1>5. ItemAt(Front) = Cell(Front).value /\ Cell(Front).value = Read(t)
  <2>1. \A u \in Threads : pc[u] = "write" => Mine(u) # Front
    BY <1>1 DEF FilledBy, Filling
  <2>2. Index(seen[t]) = SlotOf(Front)
    BY <1>1, ThreadFacts DEF Looking
  <2>3. ItemAt(Front) = Cell(Front).value
    BY <1>1, <1>2, <2>1 DEF ItemsKnown
  <2> QED BY <2>2, <2>3 DEF Cell, Read
<1>6. Calls' = [Calls EXCEPT ![t] = Q!Popped(Read(t))]
  <2>1. ASSUME NEW v, v = Read(t) PROVE Calls' = [Calls EXCEPT ![t] = Seen("read", call[t], v)]
    BY <1>1, <2>1, CallsAfter DEF Read
  <2>2. \A v : Seen("read", call[t], v) = Q!Popped(v)
    BY DEF Seen, Filling
  <2> QED BY <2>1, <2>2
<1>7. Calls[t] = call[t] /\ call[t].op = "pop"
  BY CallsNow DEF Seen, Filling, Inv, TypeOK, CallOK, Q!Ask, Q!Said
<1>8. Q!Pop(t)
  BY <1>1, <1>4, <1>5, <1>6, <1>7 DEF Q!Pop, Q!Answer
<1> QED BY <1>8, FifoSteps

\* Writing a slot, emptying it and their stamps are not seen.
LEMMA SlotStepsRefine ==
    ASSUME CapOK, Inv, Inv', NEW t \in Threads, PushWrite(t) \/ PushPublish(t) \/ PopRead(t) \/ PopRelease(t)
    PROVE  UNCHANGED Q!fvars
<1> DEFINE k == Mine(t)
<1>0. /\ TypeOK /\ ThreadsInv /\ Cap \in Nat /\ Cap > 0 /\ Front \in Nat /\ Back \in Nat /\ Front <= Back /\ Back <= Front + Cap
  BY EndsFacts, Words DEF Inv
<1>1. /\ UNCHANGED <<head, tail, dropped>> /\ dropped = <<None>> /\ Front' = Front /\ Back' = Back
      /\ pc[t] \in Filling \cup Emptying
  BY CallsNow, SameEnds DEF PushWrite, PushPublish, PopRead, PopRelease, Filling, Emptying, Inv
<1>2. /\ k \in Nat /\ Index(seen[t]) = SlotOf(k) /\ SlotOf(k) \in Slots
      /\ pc[t] \in Filling => Front <= k /\ k < Back
      /\ pc[t] \in Emptying => k < Front /\ Back <= k + Cap
      /\ pc[t] = "read" => Read(t) \in Values
      /\ WordAt(k) \in Nat /\ seen[t] = WordAt(k) /\ seen[t] + OneLap \in Nat
  <2>1. /\ k \in Nat /\ Index(seen[t]) = SlotOf(k) /\ seen[t] = WordAt(k)
        /\ pc[t] \in Filling => Front <= k /\ k < Back
        /\ pc[t] \in Emptying => k < Front /\ Back <= k + Cap
        /\ pc[t] = "read" => Read(t) \in Values
    BY <1>1, ThreadFacts DEF Knows, FillKnows, EmptyKnows, Looking, Cell, Read, Emptying
  <2>2. k + Cap \in Nat
    BY <1>0, <2>1
  <2> HIDE DEF k
  <2>3. WordAt(k + Cap) \in Nat /\ WordAt(k) + OneLap = WordAt(k + Cap)
    BY <2>1, <2>2, Words
  <2> QED BY <2>1, <2>3, Words
<1>3. \A m \in Nat : m # k /\ m < k + Cap /\ k < m + Cap => SlotOf(m) # SlotOf(k)
  BY <1>2, Apart
<1>4. \A u \in Threads : u # t /\ pc[u] = "read" =>
          Mine(u) \in Nat /\ Index(seen[u]) = SlotOf(Mine(u)) /\ Mine(u) < Front /\ Back <= Mine(u) + Cap
          /\ (pc[t] \in Emptying => Mine(u) # k)
  BY <1>0, ThreadFacts DEF Looking, Emptying, Knows, EmptyKnows, ThreadsInv
<1>5. call[t].val \in Values \/ pc[t] \notin Filling
  BY <1>0 DEF TypeOK, CallOK, Filling, Q!AskPush, Q!Said
<1> HIDE DEF k
\* every value but that of the slot is kept
<1>6. ASSUME NEW v, \A m \in Nat : Cell(m)'.value = IF SlotOf(m) = SlotOf(k) THEN v ELSE Cell(m).value
      PROVE  /\ \A n \in Front .. Back - 1 : Cell(n)'.value = IF n = k THEN v ELSE Cell(n).value
             /\ \A u \in Threads : u # t /\ pc[u] = "read" => buffer'[Index(seen[u])].value = Read(u)
  <2>1. \A n \in Front .. Back - 1 : n \in Nat /\ (n # k => SlotOf(n) # SlotOf(k))
    BY <1>0, <1>1, <1>2, <1>3
  <2>2. \A u \in Threads : u # t /\ pc[u] = "read" => SlotOf(Mine(u)) # SlotOf(k)
    BY <1>0, <1>1, <1>2, <1>3, <1>4
  <2>3. ASSUME NEW u \in Threads, u # t, pc[u] = "read" PROVE buffer'[Index(seen[u])].value = Read(u)
    <3>1. PICK m \in Nat : m = Mine(u)
      BY <1>4, <2>3
    <3>2. Cell(m)'.value = Cell(m).value
      BY <1>6, <2>2, <2>3, <3>1
    <3> QED BY <1>4, <2>3, <3>1, <3>2 DEF Cell, Read
  <2> QED BY <1>6, <2>1, <2>3
<1>7. ASSUME NEW l \in {"publish", "return", "release"}, NEW c, NEW a, Moves(t, l, c, seen[t], other[t]),
             \A n \in Front .. Back - 1 :
                Cell(n)'.value = IF pc[t] = "write" /\ k = n THEN call[t].val ELSE Cell(n).value,
             \A u \in Threads : u # t /\ pc[u] = "read" => buffer'[Index(seen[u])].value = Read(u),
             Calls[t] = a, a = Seen(l, c, None)
      PROVE  UNCHANGED Q!fvars
  <2>1. Items' = Items
    BY <1>1, <1>7, ItemsKept DEF k
  <2>2. Calls' = [Calls EXCEPT ![t] = a]
    BY <1>7, CallsAfter
  <2>3. Calls' = Calls
    BY <1>7, <2>2, CallsNow
  <2> QED BY <1>1, <2>1, <2>3, FifoSteps DEF Holds
<1>8. CASE PushWrite(t)
  <2>1. Moves(t, "publish", call[t], seen[t], other[t]) /\ pc[t] = "write"
    BY <1>0, <1>8 DEF PushWrite, Goto, Moves, TypeOK
  <2>2. \A m \in Nat : Cell(m)'.value = IF SlotOf(m) = SlotOf(k) THEN call[t].val ELSE Cell(m).value
    BY <1>0, <1>2, <1>5, <1>8, <2>1, ValueAfter DEF PushWrite, Filling
  <2>3. Calls[t] = Q!Ask("ok") /\ Seen("publish", call[t], None) = Q!Ask("ok")
    BY <2>1, CallsNow DEF Seen, Filling
  <2> QED BY <1>6, <1>7, <2>1, <2>2, <2>3
<1>9. CASE PushPublish(t)
  <2>1. Moves(t, "return", Q!Ask("ok"), seen[t], other[t]) /\ pc[t] = "publish"
    BY <1>0, <1>9 DEF PushPublish, Answer, Goto, Moves, TypeOK
  <2>2. \A m \in Nat : Cell(m)'.value = Cell(m).value
    <3>1. seen[t] + 1 \in Nat
      BY <1>2
    <3> QED BY <1>0, <1>2, <1>9, <3>1, StampAfter DEF PushPublish
  <2>3. Calls[t] = Q!Ask("ok") /\ Seen("return", Q!Ask("ok"), None) = Q!Ask("ok")
    BY <2>1, CallsNow DEF Seen, Filling
  <2>4. /\ \A n \in Front .. Back - 1 : Cell(n)'.value = Cell(n).value
        /\ \A u \in Threads : u # t /\ pc[u] = "read" => buffer'[Index(seen[u])].value = Read(u)
    BY <1>0, <1>1, <1>4, <2>2 DEF Cell, Read
  <2> QED BY <1>7, <2>1, <2>3, <2>4
<1>10. CASE PopRead(t)
  <2>1. Moves(t, "release", Q!Popped(Read(t)), seen[t], other[t]) /\ pc[t] = "read"
    BY <1>0, <1>10 DEF PopRead, Goto, Moves, TypeOK, Read
  <2>2. \A m \in Nat : Cell(m)'.value = IF SlotOf(m) = SlotOf(k) THEN None ELSE Cell(m).value
    BY <1>0, <1>2, <1>10, ValueAfter DEF PopRead
  <2>3. Calls[t] = Q!Popped(Read(t)) /\ Seen("release", Q!Popped(Read(t)), None) = Q!Popped(Read(t))
    BY <2>1, CallsNow DEF Seen, Filling
  <2>4. \A n \in Front .. Back - 1 : n # k
    BY <1>0, <1>2, <2>1 DEF Emptying
  <2> QED BY <1>6, <1>7, <2>1, <2>2, <2>3, <2>4
<1>11. CASE PopRelease(t)
  <2>1. Moves(t, "return", call[t], seen[t], other[t]) /\ pc[t] = "release"
    BY <1>0, <1>11 DEF PopRelease, Goto, Moves, TypeOK
  <2>2. \A m \in Nat : Cell(m)'.value = Cell(m).value
    BY <1>0, <1>2, <1>11, StampAfter DEF PopRelease
  <2>3. Calls[t] = call[t] /\ Seen("return", call[t], None) = call[t]
    BY <2>1, CallsNow DEF Seen, Filling
  <2>4. /\ \A n \in Front .. Back - 1 : Cell(n)'.value = Cell(n).value
        /\ \A u \in Threads : u # t /\ pc[u] = "read" => buffer'[Index(seen[u])].value = Read(u)
    BY <1>0, <1>1, <1>4, <2>2 DEF Cell, Read
  <2> QED BY <1>7, <2>1, <2>3, <2>4
<1> QED BY <1>8, <1>9, <1>10, <1>11

\* len looks when it reads head, and answers when tail is still the same.
LEMMA LensRefine ==
    ASSUME CapOK, Inv, Inv', NEW t \in Threads, LenTail(t) \/ LenHead(t) \/ LenAgain(t)
    PROVE  Q!Next \/ UNCHANGED Q!fvars
<1>0. /\ TypeOK /\ EndsInv /\ ThreadsInv
      /\ Front \in Nat /\ Back \in Nat /\ Front <= Back /\ Back <= Front + Cap /\ head = WordAt(Front)
  BY EndsFacts, Words DEF Inv
<1>1. dropped = <<None>> /\ UNCHANGED <<buffer, dropped, head, tail>> /\ Front' = Front /\ Back' = Back
  BY <1>0, CallsNow, SameEnds DEF LenTail, LenHead, LenAgain
<1>2. CASE LenTail(t)
  <2>1. Moves(t, "lenhead", call[t], tail, other[t])
    BY <1>0, <1>2 DEF LenTail, See, Goto, Moves, TypeOK
  <2> QED BY <1>1, <1>2, <2>1, LooksRefine DEF LenTail
<1>3. CASE LenHead(t)
  <2>1. Moves(t, "lenagain", Q!Looked(Len(Items)), seen[t], head)
    BY <1>0, <1>3 DEF LenHead, Goto, Moves, TypeOK
  <2>2. Items' = Items /\ Calls' = [Calls EXCEPT ![t] = Q!Looked(Len(Items))]
    BY <1>1, <1>3, <2>1, Quiet DEF LenHead
  <2>3. Calls[t].op \in {"len", "looked"}
    BY <1>0, <1>3, CallsNow DEF LenHead, Seen, Filling, TypeOK, CallOK, Q!Ask, Q!Looked, Q!Said
  <2>4. Q!LookLen(t)
    BY <1>1, <2>2, <2>3 DEF Q!LookLen, Q!Answer
  <2> QED BY <2>4, FifoSteps
<1>4. CASE LenAgain(t)
  <2>1. CASE tail # seen[t]
    <3>1. Moves(t, "len", call[t], seen[t], other[t])
      BY <1>0, <1>4, <2>1 DEF LenAgain, Goto, Moves, TypeOK
    <3> QED BY SMTT(60), <1>1, <1>4, <3>1, LooksRefine DEF LenAgain
  <2>2. CASE tail = seen[t]
    <3> DEFINE n == LenOf(seen[t], other[t])
               h == Position(other[t])
    <3>1. Moves(t, "return", Q!Length(n), seen[t], other[t])
      BY <1>0, <1>4, <2>2 DEF LenAgain, Answer, Goto, Moves, TypeOK
    <3>2. Items' = Items /\ Calls' = [Calls EXCEPT ![t] = Q!Length(n)]
      BY <1>1, <1>4, <3>1, Quiet DEF LenAgain
    <3>3. Mine(t) = Back
      BY <2>2 DEF Mine, Back
    <3>4. /\ h \in Nat /\ other[t] = WordAt(h) /\ call[t].num \in 0 .. Cap
          /\ Back <= h + call[t].num /\ h + call[t].num <= Back
      BY <1>0, <1>4, <3>3 DEF LenAgain, ThreadsInv, Knows, LenKnows
    <3>5. Calls[t] = call[t] /\ call[t].op = "looked"
      BY <1>0, <1>4, CallsNow DEF LenAgain, Seen, Filling, TypeOK, CallOK, Q!Ask, Q!Looked, Q!Said
    <3>6. n = call[t].num
      <4>1. PICK b \in {0, 1} : tail = WordAt(Back) + b * MarkBit
        BY <1>0 DEF EndsInv
      <4> HIDE DEF h
      <4>2. h <= Back /\ Back <= h + Cap /\ Back - h = call[t].num
        <5>1. PICK m \in 0 .. Cap : m = call[t].num
          BY <3>4
        <5>2. Cap \in Nat /\ h \in Nat /\ Back <= h + m /\ h + m <= Back
          BY <3>4, <5>1, Words
        <5> QED BY <1>0, <5>1, <5>2
      <4>3. LenOf(WordAt(Back) + b * MarkBit, WordAt(h)) = Back - h
        BY <1>0, <3>4, <4>2, LenFacts DEF CapOK
      <4> QED BY <2>2, <3>4, <4>1, <4>2, <4>3
    <3>7. Q!AnswerLen(t)
      BY <1>1, <3>2, <3>5, <3>6 DEF Q!AnswerLen, Q!Answer
    <3> QED BY <3>7, FifoSteps
  <2> QED BY <2>1, <2>2
<1> QED BY <1>2, <1>3, <1>4

\* A push is told that the queue is full, a pop that it is empty, close closes: each is
\* the step of Fifo of that name, and so are a call and a return.
LEMMA AnswersRefine ==
    ASSUME CapOK, Inv, Inv', NEW t \in Threads, PushFull(t) \/ PopEmpty(t) \/ Close(t) \/ Call(t) \/ Return(t)
    PROVE  Q!Next \/ UNCHANGED Q!fvars
<1> USE DEF Q!Ask, Q!Said
<1>0. /\ TypeOK /\ EndsInv /\ ThreadsInv
      /\ Front \in Nat /\ Back \in Nat /\ Front <= Back /\ Back <= Front + Cap /\ head = WordAt(Front)
  BY EndsFacts, Words DEF Inv
<1>1. ASSUME PushFull(t) \/ PopEmpty(t) \/ Call(t) \/ Return(t)
      PROVE  Front' = Front /\ Back' = Back /\ UNCHANGED <<buffer, dropped, head, tail>>
  <2>1. UNCHANGED <<buffer, dropped, head, tail>>
    BY <1>1 DEF PushFull, PopEmpty, Call, Return
  <2> QED BY <1>0, <2>1, SameEnds
<1>2. pc[t] # "idle" => dropped = <<None>>
  BY CallsNow
<1>3. pc[t] \notin {"write", "publish", "read"} => Calls[t] = call[t]
  BY CallsNow DEF Seen, Filling
<1>4. CASE PushFull(t)
  <2>1. CASE head + OneLap = seen[t]
    <3>1. Moves(t, "return", Q!Ask("full"), seen[t], other[t])
      BY <1>0, <1>4, <2>1 DEF PushFull, Answer, Goto, Moves, TypeOK
    <3>2. Items' = Items /\ Calls' = [Calls EXCEPT ![t] = Q!Ask("full")]
      BY <1>1, <1>4, <3>1, Quiet DEF PushFull
    <3>3. Mine(t) = Front + Cap
      <4>1. Front + Cap \in Nat
        BY <1>0 DEF CapOK
      <4>2. WordAt(Front + Cap) = seen[t]
        BY <1>0, <2>1, Words
      <4> QED BY <4>1, <4>2, Words DEF Mine
    <3>4. call[t].op = "sawfull"
      <4>1. call[t].op = "push" => Mine(t) < Front + Cap
        BY <1>0, <1>4 DEF PushFull, ThreadsInv, Knows, PushKnows
      <4>2. call[t].op \in {"push", "sawfull"}
        BY <1>0, <1>4 DEF PushFull, TypeOK, CallOK, Filling, Q!AskPush
      <4> QED BY <1>0, <3>3, <4>1, <4>2 DEF CapOK
    <3>5. Q!Push(t)
      BY <1>1, <1>2, <1>3, <1>4, <3>2, <3>4 DEF PushFull, Q!Push, Q!Answer
    <3> QED BY <3>5, FifoSteps
  <2>2. CASE head + OneLap # seen[t]
    <3>1. Moves(t, "push", call[t], seen[t], other[t])
      BY <1>0, <1>4, <2>2 DEF PushFull, Goto, Moves, TypeOK
    <3>2. pc[t] = "full" /\ UNCHANGED <<buffer, dropped, head, tail>>
      BY <1>1, <1>4 DEF PushFull
    <3> QED BY <3>1, <3>2, LooksRefine
  <2> QED BY <2>1, <2>2
<1>5. CASE PopEmpty(t)
  <2>1. CASE Unmarked(tail) = seen[t]
    <3> DEFINE a == Q!Ask(IF Marked(tail) THEN "closed" ELSE "empty")
    <3>1. Moves(t, "return", a, seen[t], other[t])
      BY <1>0, <1>5, <2>1 DEF PopEmpty, Answer, Goto, Moves, TypeOK
    <3>2. Items' = Items /\ Calls' = [Calls EXCEPT ![t] = a]
      <4> HIDE DEF a
      <4> QED BY <1>1, <1>5, <3>1, Quiet DEF PopEmpty
    <3>3. Back <= Front
      <4>1. WordAt(Back) = seen[t]
        BY <2>1, EndsFacts
      <4>2. Mine(t) = Back
        BY <1>0, <4>1, Words DEF Mine
      <4> QED BY <1>0, <1>5, <4>2 DEF PopEmpty, ThreadsInv, Knows, PopKnows
    <3>4. Items = <<>>
      BY <1>0, <3>3 DEF Items, Front, Back
    <3>5. call[t].op = "pop"
      BY <1>0, <1>5 DEF PopEmpty, TypeOK, CallOK, Filling
    <3>6. Q!Pop(t)
      BY <1>1, <1>2, <1>3, <1>5, <3>2, <3>4, <3>5 DEF PopEmpty, Q!Pop, Q!Answer
    <3> QED BY <3>6, FifoSteps
  <2>2. CASE Unmarked(tail) # seen[t]
    <3>1. Moves(t, "pop", call[t], seen[t], other[t])
      BY <1>0, <1>5, <2>2 DEF PopEmpty, Goto, Moves, TypeOK
    <3> QED BY <1>1, <1>5, <3>1, LooksRefine DEF PopEmpty
  <2> QED BY <2>1, <2>2
<1>6. CASE Close(t)
  <2> DEFINE a == Q!Ask(IF Marked(tail) THEN "again" ELSE "first")
  <2>1. Moves(t, "return", a, seen[t], other[t])
    BY <1>0, <1>6 DEF Close, Answer, Goto, Moves, TypeOK
  <2>2. tail' = WordAt(Back) + MarkBit /\ Front' = Front /\ MarkBit \in Nat
    BY <1>6, EndsFacts, Words DEF Close, Front
  <2>3. tail' = WordAt(Back) + 1 * MarkBit
    BY <2>2
  <2>4. Back' = Back /\ Marked(tail')
    BY <1>0, <2>3, Words DEF Back
  <2>5. Items' = Items /\ Calls' = [Calls EXCEPT ![t] = a]
    <3> HIDE DEF a
    <3> QED BY <1>6, <2>1, <2>2, <2>4, Quiet DEF Close
  <2>6. call[t].op = "close"
    BY <1>0, <1>6 DEF Close, TypeOK, CallOK, Filling
  <2>7. Marked(tail') = TRUE
    BY <2>4 DEF Marked
  <2>8. Q!Close(t)
    BY <1>2, <1>3, <1>6, <2>5, <2>6, <2>7 DEF Close, Q!Close, Q!Answer
  <2> QED BY <2>8, FifoSteps
<1>7. CASE Call(t)
  <2>1. PICK q \in Q!Questions : Moves(t, q.op, q, seen[t], other[t])
    BY <1>0, <1>7 DEF Call, Goto, Moves, TypeOK
  <2>2. q.op \in {"push", "pop", "len", "close"}
    BY DEF Q!Questions, Q!AskPush
  <2>3. Items' = Items /\ Calls' = [Calls EXCEPT ![t] = q]
    <3>1. PICK l : l = q.op /\ l \notin {"write", "publish", "read"}
      BY <2>2
    <3> QED BY <1>1, <1>7, <2>1, <3>1, Quiet DEF Call
  <2>4. call[t] = Q!Idle /\ dropped = <<None>>
    BY <1>0, <1>7 DEF Call, TypeOK, CallOK, Filling, Q!Alive
  <2>5. Q!Call(t)
    BY <1>1, <1>3, <1>7, <2>3, <2>4 DEF Call, Q!Call, Q!Alive
  <2> QED BY <2>5, FifoSteps
<1>8. CASE Return(t)
  <2>1. Moves(t, "idle", Q!Idle, 0, 0)
    BY <1>0, <1>8 DEF Return, See, Goto, Moves, TypeOK
  <2>2. Items' = Items /\ Calls' = [Calls EXCEPT ![t] = Q!Idle]
    BY <1>1, <1>8, <2>1, Quiet DEF Return
  <2>3. call[t].op \in Q!Answers
    BY <1>0, <1>8 DEF Return, TypeOK, CallOK, Filling
  <2>4. Q!Return(t)
    BY <1>1, <1>2, <1>3, <1>8, <2>2, <2>3 DEF Return, Q!Return
  <2> QED BY <2>4, FifoSteps
<1> QED BY <1>4, <1>5, <1>6, <1>7, <1>8

\* Looking at stamps shows nothing of Fifo.
LEMMA StampsRefine ==
    ASSUME CapOK, Inv, Inv', NEW t \in Threads, PushStamp(t) \/ PopStamp(t) \/ (pc[t] \in {"pop", "poptake"} /\ SeeHead(t))
    PROVE  UNCHANGED Q!fvars
<1>0. TypeOK
  BY DEF Inv
<1>1. CASE PushStamp(t)
  <2>1. PICK l \in {"take", "full", "push"} : Moves(t, l, call[t], seen[t], other[t])
    BY <1>0, <1>1 DEF PushStamp, Goto, Moves, TypeOK
  <2> QED BY <1>1, <2>1, LooksRefine DEF PushStamp
<1>2. CASE PopStamp(t)
  <2>1. PICK l \in {"poptake", "empty", "pop"} : Moves(t, l, call[t], seen[t], other[t])
    BY <1>0, <1>2 DEF PopStamp, Goto, Moves, TypeOK
  <2> QED BY <1>2, <2>1, LooksRefine DEF PopStamp
<1>3. CASE pc[t] \in {"pop", "poptake"} /\ SeeHead(t)
  <2>1. Moves(t, "popstamp", call[t], head, other[t])
    BY <1>0, <1>3 DEF SeeHead, See, Goto, Moves, TypeOK
  <2> QED BY <1>3, <2>1, LooksRefine DEF SeeHead
<1> QED BY <1>1, <1>2, <1>3

\* The indexes drop walks through are those of the positions in the queue.
LEMMA DropIndexes ==
    ASSUME CapOK, NEW h \in Nat, NEW j \in Nat PROVE (SlotOf(h) + j) % Cap = SlotOf(h + j)
<1> DEFINE q == h \div Cap
           r == h % Cap
           p == (r + j) \div Cap
           s == (r + j) % Cap
<1>1. Cap \in Nat /\ q \in Nat /\ r \in Nat /\ r < Cap /\ h = q * Cap + r
  BY Lemmas!Euclid DEF CapOK
<1>2. p \in Nat /\ s \in Nat /\ s < Cap /\ r + j = p * Cap + s
  <2>1. r + j \in Nat
    BY <1>1
  <2> HIDE DEF r
  <2> QED BY <2>1, Lemmas!Euclid DEF CapOK
<1> HIDE DEF q, r, p, s
<1>3. h + j = (q + p) * Cap + s
  BY <1>1, <1>2
<1>4. Lemmas!Split(h + j, q + p, Cap, s)
  BY <1>1, <1>2, <1>3 DEF Lemmas!Split
<1>5. (h + j) % Cap = s
  BY <1>4, Lemmas!DivMod
<1> QED BY <1>5 DEF SlotOf, r, s

\* Drop finds in the slots what the queue holds.
LEMMA DropRefines == ASSUME CapOK, Inv, Drop PROVE Q!Next
<1>0. /\ TypeOK /\ EndsInv /\ SlotsInv /\ Cap \in Nat /\ MarkBit \in Nat
      /\ Front \in Nat /\ Back \in Nat /\ Front <= Back /\ Back <= Front + Cap /\ head = WordAt(Front)
  BY EndsFacts, Words DEF Inv
<1>1. dropped = <<None>> /\ \A t \in Threads : pc[t] = "idle"
  BY DEF Drop, Q!Alive
<1>2. \A t \in Threads : Calls[t] = Q!Idle
  BY <1>0, <1>1 DEF Calls, TypeOK, CallOK, Filling
<1>3. Calls' = Calls /\ tail' = tail
  BY DEF Drop, Calls
<1>4. LenOf(tail, head) = Back - Front
  <2>1. PICK b \in {0, 1} : tail = WordAt(Back) + b * MarkBit
    BY <1>0 DEF EndsInv
  <2>2. LenOf(WordAt(Back) + b * MarkBit, WordAt(Front)) = Back - Front
    BY <1>0, LenFacts DEF CapOK
  <2> QED BY <1>0, <2>1, <2>2
<1>5. ASSUME NEW n \in Front .. Back - 1 PROVE ItemAt(n) = Cell(n).value /\ Cell(n).value \in Values
  <2>1. n \in Nat
    BY <1>0
  <2>2. ItemAt(n) = Cell(n).value
    BY <1>1, <2>1, ItemFacts DEF ItemsKnown
  <2> QED BY <1>0, <1>1, <1>5, <2>2 DEF SlotsInv, FilledBy, Filling
<1>6. ASSUME NEW i \in 1 .. Back - Front
      PROVE  /\ buffer[(Index(head) + i - 1) % Cap].value = ItemAt(Front + i - 1)
             /\ ItemAt(Front + i - 1) \in Values
  <2>1. PICK j \in Nat : j = i - 1 /\ Front + j \in Front .. Back - 1
    BY <1>0
  <2>2. (SlotOf(Front) + j) % Cap = SlotOf(Front + j)
    BY <1>0, DropIndexes
  <2>3. SlotOf(Front) \in Int /\ Index(head) = SlotOf(Front)
    BY <1>0, Words DEF Slots
  <2>4. Index(head) + i - 1 = SlotOf(Front) + j /\ Front + i - 1 = Front + j
    BY <1>0, <2>1, <2>3
  <2> QED BY <1>5, <2>1, <2>2, <2>4 DEF Cell
<1>7. Items = [i \in 1 .. Back - Front |-> ItemAt(Front + i - 1)]
  BY ItemFacts DEF ItemsKnown
<1>8. dropped' = Items
  BY <1>4, <1>6, <1>7 DEF Drop
<1>9. dropped' # <<None>>
  <2>1. CASE Back = Front
    <3>1. Len(dropped') = 0
      BY <1>0, <1>7, <1>8, <2>1
    <3> QED BY <3>1
  <2>2. CASE Back # Front
    <3>1. dropped'[1] \in Values
      BY SMTT(60), <1>0, <1>6, <1>7, <1>8, <2>2
    <3> QED BY <3>1 DEF CapOK
  <2> QED BY <2>1, <2>2
<1>10. Q!Drop
  BY <1>1, <1>2, <1>3, <1>8, <1>9 DEF Q!Drop, Q!Alive
<1> QED BY <1>10 DEF Q!Next

\* The array queue (bounded.rs) implements the closable FIFO, for every capacity,
\* any threads and values, and however often head and tail have gone round: pushes,
\* pops, len, close and the drop take effect in one step each, no slot is read
\* before it is written or written before it is read, no value is lost or
\* duplicated, and a push is told "full" only if the queue was full in its time.
THEOREM BoundedQueueIsFifo ==
    ASSUME Cap \in Nat \ {0}, None \notin Values PROVE Spec => ImplementsFifo
<1>0. CapOK
  BY DEF CapOK
<1>1. Init => Q!Init
  <2> SUFFICES ASSUME Init PROVE Q!Init
    OBVIOUS
  <2>1. Inv
    BY <1>0, InitInv
  <2>2. Front = Back /\ Front \in Nat /\ ~Marked(tail)
    <3>1. EndsInv /\ Front = Back
      BY <2>1 DEF Init, Front, Back, Inv
    <3>2. tail = WordAt(Front) /\ Front \in Nat
      BY <3>1 DEF Init, EndsInv
    <3> QED BY <1>0, <3>1, <3>2, Words
  <2>3. Items = <<>> /\ Marked(tail) = FALSE
    BY <2>2 DEF Items, Front, Back, Marked
  <2> QED BY <2>3 DEF Init, Q!Init, Calls, Q!Idle, Q!Ask, Q!Said, Filling
<1>2. Inv /\ Inv' /\ [Next]_vars => [Q!Next]_Q!fvars
  <2> SUFFICES ASSUME Inv, Inv', [Next]_vars PROVE Q!Next \/ UNCHANGED Q!fvars
    OBVIOUS
  <2>1. CASE UNCHANGED vars
    BY <2>1 DEF vars, Q!fvars, Items, Calls, ValueAt
  <2>2. ASSUME NEW t \in Threads, PushLoad(t) \/ PushTake(t) PROVE Q!Next \/ UNCHANGED Q!fvars
    BY <1>0, <2>2, SeesTailRefines, PushTakesRefines DEF PushLoad, PushTake
  <2>3. ASSUME NEW t \in Threads, PopLoad(t) \/ PopTake(t) PROVE Q!Next \/ UNCHANGED Q!fvars
    BY <1>0, <2>3, StampsRefine, PopTakesRefines DEF PopLoad, PopTake
  <2> QED BY <1>0, <2>1, <2>2, <2>3, StampsRefine, SlotStepsRefine, LensRefine, AnswersRefine, DropRefines DEF Next, Step
<1>3. Inv /\ [Next]_vars => Inv'
  BY <1>0, InvStep
<1>4. Init => Inv
  BY <1>0, InitInv
<1> QED BY <1>1, <1>2, <1>3, <1>4, PTL DEF Spec, ImplementsFifo, Q!Spec

-----------------------------------------------------------------------------
(* The queue of capacity one                                               *)

VARIABLES word, slot, expect

Single == INSTANCE SingleQueue

SingleWords == [locked : BOOLEAN, pushed : BOOLEAN, closed : BOOLEAN]

\* What a thread has called, or been answered, follows from where it is.
SingleCallOK(l, c) ==
    \/ l = "idle" /\ c = Single!Q!Idle
    \/ l \in {"push", "write", "written"} /\ \E v \in Values : c = Single!Q!AskPush(v)
    \/ l \in {"pop", "read"} /\ c = Single!Q!Ask("pop")
    \/ l \in {"len", "close"} /\ c = Single!Q!Ask(l)
    \/ l = "unlock" /\ \E v \in Values : c = Single!Q!Popped(v)
    \/ l = "looked" /\ \E n \in {0, 1} : c = Single!Q!Looked(n)
    \/ l = "return" /\ c.op \in Single!Q!Answers

SingleOwns(t) == pc[t] \in {"write", "written", "read", "unlock"}

SingleTypeOK == /\ word \in SingleWords /\ DOMAIN pc = Threads /\ DOMAIN call = Threads
                /\ \A t \in Threads : SingleCallOK(pc[t], call[t])
SingleOwnerInv == /\ word.locked <=> \E t \in Threads : SingleOwns(t)
                  /\ \A t, u \in Threads : SingleOwns(t) /\ SingleOwns(u) => t = u
SingleSlotInv == /\ \A t \in Threads : /\ pc[t] \in {"write", "written"} => word.pushed
                                       /\ pc[t] \in {"read", "unlock"} => ~word.pushed
                                       /\ pc[t] = "written" => slot = call[t].val
                                       /\ pc[t] = "read" => slot \in Values
                 /\ word.pushed => slot \in Values \/ \E t \in Threads : pc[t] = "write"
SingleDropInv == dropped # <<None>> => \A t \in Threads : pc[t] = "idle"
SingleInv == SingleTypeOK /\ SingleOwnerInv /\ SingleSlotInv /\ SingleDropInv

\* The words push and pop leave.
LEMMA SingleWordChanges ==
    ASSUME NEW w \in SingleWords
    PROVE  /\ LET n == [w EXCEPT !.locked = FALSE] IN n \in SingleWords /\ ~n.locked /\ n.pushed = w.pushed /\ n.closed = w.closed
           /\ LET n == [w EXCEPT !.closed = TRUE] IN n \in SingleWords /\ n.closed /\ n.pushed = w.pushed /\ n.locked = w.locked
           /\ LET n == [w EXCEPT !.locked = TRUE, !.pushed = TRUE] IN n \in SingleWords /\ n.locked /\ n.pushed /\ n.closed = w.closed
           /\ LET n == [w EXCEPT !.locked = TRUE, !.pushed = FALSE] IN n \in SingleWords /\ n.locked /\ ~n.pushed /\ n.closed = w.closed
           /\ w.locked \in BOOLEAN /\ w.pushed \in BOOLEAN /\ w.closed \in BOOLEAN
BY DEF SingleWords

\* What one thread does is seen in its own pc and call.
SingleMoves(t, l, c) ==
    /\ pc'[t] = l /\ call'[t] = c /\ DOMAIN pc' = Threads /\ DOMAIN call' = Threads
    /\ \A u \in Threads : u # t => pc'[u] = pc[u] /\ call'[u] = call[u]

\* Calls stay what the place of the thread says.
LEMMA SingleMovesTypes ==
    ASSUME SingleTypeOK, NEW t \in Threads, NEW l, NEW c, SingleMoves(t, l, c), SingleCallOK(l, c), word' \in SingleWords PROVE SingleTypeOK'
BY DEF SingleTypeOK, SingleMoves

\* What each step moves.
LEMMA SingleStepMoves ==
    ASSUME SingleTypeOK, NEW t \in Threads
    PROVE  /\ Single!Call(t) => \E q \in Single!Q!Questions : SingleMoves(t, q.op, q)
           /\ Single!Return(t) => SingleMoves(t, "idle", Single!Q!Idle)
           /\ \A a : Single!Answer(t, a) => SingleMoves(t, "return", a)
           /\ \A l : Single!Goto(t, l) /\ call' = call => SingleMoves(t, l, call[t])
           /\ Single!Read(t) => SingleMoves(t, "unlock", Single!Q!Popped(slot))
           /\ Single!LenLoad(t) => SingleMoves(t, "looked", Single!Q!Looked(IF word.pushed THEN 1 ELSE 0))
BY DEF SingleTypeOK, SingleMoves, Single!Call, Single!Return, Single!Answer, Single!Goto, Single!Read, Single!LenLoad

\* At first the queue is empty and nobody owns the slot.
LEMMA SingleInitInv == Single!Init => SingleInv
BY DEF Single!Init, SingleInv, SingleTypeOK, SingleOwnerInv, SingleSlotInv, SingleDropInv, SingleCallOK, SingleOwns, SingleWords

\* The invariant is inductive: LOCKED gives the slot to one thread at a time.
LEMMA SingleInvStep ==
    ASSUME SingleInv, [Single!Next]_(Single!vars) PROVE SingleInv'
<1> USE DEF Single!Q!Idle, Single!Q!Ask, Single!Q!AskPush, Single!Q!Popped, Single!Q!Looked, Single!Q!Length, Single!Q!Said
<1>0. SingleTypeOK /\ SingleOwnerInv /\ SingleSlotInv /\ SingleDropInv /\ word \in SingleWords
  BY DEF SingleInv, SingleTypeOK
<1>1. ASSUME NEW t \in Threads, Single!Call(t) PROVE SingleInv'
  <2>1. PICK q \in Single!Q!Questions : SingleMoves(t, q.op, q)
    BY <1>0, <1>1, SingleStepMoves
  <2>2. /\ pc[t] = "idle" /\ q.op \in {"push", "pop", "close", "len"} /\ SingleCallOK(q.op, q)
        /\ UNCHANGED <<word, slot, dropped>> /\ dropped = <<None>>
    BY <1>1 DEF Single!Call, Single!Q!Questions, SingleCallOK, Single!Q!Alive
  <2>3. SingleTypeOK'
    BY <1>0, <2>1, <2>2, SingleMovesTypes
  <2>4. SingleOwnerInv'
    BY <1>0, <2>1, <2>2 DEF SingleOwnerInv, SingleOwns, SingleMoves
  <2>5. SingleSlotInv' /\ SingleDropInv'
    BY <1>0, <2>1, <2>2 DEF SingleSlotInv, SingleDropInv, SingleMoves
  <2> QED BY <2>3, <2>4, <2>5 DEF SingleInv
<1>2. ASSUME NEW t \in Threads, Single!Return(t) PROVE SingleInv'
  <2>1. SingleMoves(t, "idle", Single!Q!Idle)
    BY <1>0, <1>2, SingleStepMoves DEF Single!Return, SingleTypeOK, SingleMoves, Single!Goto
  <2>2. /\ pc[t] = "return" /\ word' = word /\ slot' = slot
        /\ word' \in SingleWords /\ dropped' = dropped
    BY <1>0, <1>2, SingleWordChanges DEF Single!Return
  <2>3. SingleCallOK("idle", Single!Q!Idle)
    BY <1>0, <2>2 DEF SingleTypeOK, SingleCallOK, SingleSlotInv, Single!Q!Answers
  <2>4. SingleTypeOK'
    BY <1>0, <2>1, <2>2, <2>3, SingleMovesTypes
  <2>5. SingleOwnerInv'
    BY <1>0, <2>1, <2>2 DEF SingleOwnerInv, SingleOwns, SingleMoves
  <2>6. SingleSlotInv' /\ SingleDropInv'
    BY <1>0, <2>1, <2>2 DEF SingleTypeOK, SingleCallOK, SingleOwnerInv, SingleOwns, SingleSlotInv, SingleDropInv, SingleMoves
  <2> QED BY <2>4, <2>5, <2>6 DEF SingleInv
<1>3. ASSUME NEW t \in Threads, Single!Push(t) PROVE SingleInv'
  <2>1. CASE word = [locked |-> FALSE, pushed |-> FALSE, closed |-> FALSE] /\ word' = [word EXCEPT !.locked = TRUE, !.pushed = TRUE] /\ Single!Goto(t, "write") /\ UNCHANGED call
    <3>1. SingleMoves(t, "write", call[t])
      BY <1>0, <1>3, <2>1, SingleStepMoves DEF Single!Push, SingleTypeOK, SingleMoves, Single!Goto
    <3>2. /\ pc[t] = "push" /\ ~word.locked /\ ~word.pushed /\ word'.locked /\ word'.pushed /\ slot' = slot
          /\ word' \in SingleWords /\ dropped' = dropped
      BY <1>0, <1>3, <2>1, SingleWordChanges DEF Single!Push
    <3>3. SingleCallOK("write", call[t])
      BY <1>0, <3>2 DEF SingleTypeOK, SingleCallOK, SingleSlotInv, Single!Q!Answers
    <3>4. SingleTypeOK'
      BY <1>0, <3>1, <3>2, <3>3, SingleMovesTypes
    <3>5. SingleOwnerInv'
      BY <1>0, <3>1, <3>2 DEF SingleOwnerInv, SingleOwns, SingleMoves
    <3>6. SingleSlotInv' /\ SingleDropInv'
      BY <1>0, <3>1, <3>2 DEF SingleTypeOK, SingleCallOK, SingleOwnerInv, SingleOwns, SingleSlotInv, SingleDropInv, SingleMoves
    <3> QED BY <3>4, <3>5, <3>6 DEF SingleInv
  <2>2. CASE word.closed /\ Single!Answer(t, Single!Q!Ask("closed")) /\ UNCHANGED word
    <3>1. SingleMoves(t, "return", Single!Q!Ask("closed"))
      BY <1>0, <1>3, <2>2, SingleStepMoves DEF Single!Push, SingleTypeOK, SingleMoves, Single!Goto
    <3>2. /\ pc[t] = "push" /\ word' = word /\ slot' = slot
          /\ word' \in SingleWords /\ dropped' = dropped
      BY <1>0, <1>3, <2>2, SingleWordChanges DEF Single!Push
    <3>3. SingleCallOK("return", Single!Q!Ask("closed"))
      BY <1>0, <3>2 DEF SingleTypeOK, SingleCallOK, SingleSlotInv, Single!Q!Answers
    <3>4. SingleTypeOK'
      BY <1>0, <3>1, <3>2, <3>3, SingleMovesTypes
    <3>5. SingleOwnerInv'
      BY <1>0, <3>1, <3>2 DEF SingleOwnerInv, SingleOwns, SingleMoves
    <3>6. SingleSlotInv' /\ SingleDropInv'
      BY <1>0, <3>1, <3>2 DEF SingleTypeOK, SingleCallOK, SingleOwnerInv, SingleOwns, SingleSlotInv, SingleDropInv, SingleMoves
    <3> QED BY <3>4, <3>5, <3>6 DEF SingleInv
  <2>3. CASE ~word.closed /\ (word.locked \/ word.pushed) /\ Single!Answer(t, Single!Q!Ask("full")) /\ UNCHANGED word
    <3>1. SingleMoves(t, "return", Single!Q!Ask("full"))
      BY <1>0, <1>3, <2>3, SingleStepMoves DEF Single!Push, SingleTypeOK, SingleMoves, Single!Goto
    <3>2. /\ pc[t] = "push" /\ word' = word /\ slot' = slot
          /\ word' \in SingleWords /\ dropped' = dropped
      BY <1>0, <1>3, <2>3, SingleWordChanges DEF Single!Push
    <3>3. SingleCallOK("return", Single!Q!Ask("full"))
      BY <1>0, <3>2 DEF SingleTypeOK, SingleCallOK, SingleSlotInv, Single!Q!Answers
    <3>4. SingleTypeOK'
      BY <1>0, <3>1, <3>2, <3>3, SingleMovesTypes
    <3>5. SingleOwnerInv'
      BY <1>0, <3>1, <3>2 DEF SingleOwnerInv, SingleOwns, SingleMoves
    <3>6. SingleSlotInv' /\ SingleDropInv'
      BY <1>0, <3>1, <3>2 DEF SingleTypeOK, SingleCallOK, SingleOwnerInv, SingleOwns, SingleSlotInv, SingleDropInv, SingleMoves
    <3> QED BY <3>4, <3>5, <3>6 DEF SingleInv
  <2> QED BY <1>3, <2>1, <2>2, <2>3 DEF Single!Push
<1>4. ASSUME NEW t \in Threads, Single!Write(t) PROVE SingleInv'
  <2>1. SingleMoves(t, "written", call[t])
    BY <1>0, <1>4, SingleStepMoves DEF Single!Write, SingleTypeOK, SingleMoves, Single!Goto
  <2>2. /\ pc[t] = "write" /\ word' = word /\ slot' = call[t].val
        /\ word' \in SingleWords /\ dropped' = dropped
    BY <1>0, <1>4, SingleWordChanges DEF Single!Write
  <2>3. SingleCallOK("written", call[t])
    BY <1>0, <2>2 DEF SingleTypeOK, SingleCallOK, SingleSlotInv, Single!Q!Answers
  <2>4. SingleTypeOK'
    BY <1>0, <2>1, <2>2, <2>3, SingleMovesTypes
  <2>5. SingleOwnerInv'
    BY <1>0, <2>1, <2>2 DEF SingleOwnerInv, SingleOwns, SingleMoves
  <2>6. SingleSlotInv' /\ SingleDropInv'
    BY <1>0, <2>1, <2>2 DEF SingleTypeOK, SingleCallOK, SingleOwnerInv, SingleOwns, SingleSlotInv, SingleDropInv, SingleMoves
  <2> QED BY <2>4, <2>5, <2>6 DEF SingleInv
<1>5. ASSUME NEW t \in Threads, Single!Written(t) PROVE SingleInv'
  <2>1. SingleMoves(t, "return", Single!Q!Ask("ok"))
    BY <1>0, <1>5, SingleStepMoves DEF Single!Written, SingleTypeOK, SingleMoves, Single!Goto
  <2>2. /\ pc[t] = "written" /\ ~word'.locked /\ word'.pushed = word.pushed /\ slot' = slot
        /\ word' \in SingleWords /\ dropped' = dropped
    BY <1>0, <1>5, SingleWordChanges DEF Single!Written
  <2>3. SingleCallOK("return", Single!Q!Ask("ok"))
    BY <1>0, <2>2 DEF SingleTypeOK, SingleCallOK, SingleSlotInv, Single!Q!Answers
  <2>4. SingleTypeOK'
    BY <1>0, <2>1, <2>2, <2>3, SingleMovesTypes
  <2>5. SingleOwnerInv'
    BY <1>0, <2>1, <2>2 DEF SingleOwnerInv, SingleOwns, SingleMoves
  <2>6. SingleSlotInv' /\ SingleDropInv'
    BY <1>0, <2>1, <2>2 DEF SingleTypeOK, SingleCallOK, SingleOwnerInv, SingleOwns, SingleSlotInv, SingleDropInv, SingleMoves
  <2> QED BY <2>4, <2>5, <2>6 DEF SingleInv
<1>6. ASSUME NEW t \in Threads, Single!Pop(t) PROVE SingleInv'
  <2>1. CASE word = [locked |-> FALSE, pushed |-> TRUE, closed |-> expect[t]] /\ word' = [word EXCEPT !.locked = TRUE, !.pushed = FALSE] /\ Single!Goto(t, "read") /\ UNCHANGED <<call, expect>>
    <3>1. SingleMoves(t, "read", call[t])
      BY <1>0, <1>6, <2>1, SingleStepMoves DEF Single!Pop, SingleTypeOK, SingleMoves, Single!Goto
    <3>2. /\ pc[t] = "pop" /\ ~word.locked /\ word.pushed /\ word'.locked /\ ~word'.pushed /\ slot' = slot
          /\ word' \in SingleWords /\ dropped' = dropped
      BY <1>0, <1>6, <2>1, SingleWordChanges DEF Single!Pop
    <3>3. SingleCallOK("read", call[t])
      BY <1>0, <3>2 DEF SingleTypeOK, SingleCallOK, SingleSlotInv, Single!Q!Answers
    <3>4. SingleTypeOK'
      BY <1>0, <3>1, <3>2, <3>3, SingleMovesTypes
    <3>5. SingleOwnerInv'
      BY <1>0, <3>1, <3>2 DEF SingleOwnerInv, SingleOwns, SingleMoves
    <3>6. SingleSlotInv' /\ SingleDropInv'
      BY <1>0, <3>1, <3>2 DEF SingleTypeOK, SingleCallOK, SingleOwnerInv, SingleOwns, SingleSlotInv, SingleDropInv, SingleMoves
    <3> QED BY <3>4, <3>5, <3>6 DEF SingleInv
  <2>2. CASE ~word.pushed /\ Single!Answer(t, Single!Q!Ask(IF word.closed THEN "closed" ELSE "empty")) /\ UNCHANGED <<word, expect>>
    <3>1. SingleMoves(t, "return", Single!Q!Ask(IF word.closed THEN "closed" ELSE "empty"))
      BY <1>0, <1>6, <2>2, SingleStepMoves DEF Single!Pop, SingleTypeOK, SingleMoves, Single!Goto
    <3>2. /\ pc[t] = "pop" /\ word' = word /\ slot' = slot
          /\ word' \in SingleWords /\ dropped' = dropped
      BY <1>0, <1>6, <2>2, SingleWordChanges DEF Single!Pop
    <3>3. SingleCallOK("return", Single!Q!Ask(IF word.closed THEN "closed" ELSE "empty"))
      BY <1>0, <3>2 DEF SingleTypeOK, SingleCallOK, SingleSlotInv, Single!Q!Answers
    <3>4. SingleTypeOK'
      BY <1>0, <3>1, <3>2, <3>3, SingleMovesTypes
    <3>5. SingleOwnerInv'
      BY <1>0, <3>1, <3>2 DEF SingleOwnerInv, SingleOwns, SingleMoves
    <3>6. SingleSlotInv' /\ SingleDropInv'
      BY <1>0, <3>1, <3>2 DEF SingleTypeOK, SingleCallOK, SingleOwnerInv, SingleOwns, SingleSlotInv, SingleDropInv, SingleMoves
    <3> QED BY <3>4, <3>5, <3>6 DEF SingleInv
  <2>3. CASE word.pushed /\ UNCHANGED <<word, pc, call>>
    <3>1. SingleMoves(t, "pop", call[t])
      BY <1>0, <1>6, <2>3, SingleStepMoves DEF Single!Pop, SingleTypeOK, SingleMoves, Single!Goto
    <3>2. /\ pc[t] = "pop" /\ word' = word /\ slot' = slot
          /\ word' \in SingleWords /\ dropped' = dropped
      BY <1>0, <1>6, <2>3, SingleWordChanges DEF Single!Pop
    <3>3. SingleCallOK("pop", call[t])
      BY <1>0, <3>2 DEF SingleTypeOK, SingleCallOK, SingleSlotInv, Single!Q!Answers
    <3>4. SingleTypeOK'
      BY <1>0, <3>1, <3>2, <3>3, SingleMovesTypes
    <3>5. SingleOwnerInv'
      BY <1>0, <3>1, <3>2 DEF SingleOwnerInv, SingleOwns, SingleMoves
    <3>6. SingleSlotInv' /\ SingleDropInv'
      BY <1>0, <3>1, <3>2 DEF SingleTypeOK, SingleCallOK, SingleOwnerInv, SingleOwns, SingleSlotInv, SingleDropInv, SingleMoves
    <3> QED BY <3>4, <3>5, <3>6 DEF SingleInv
  <2> QED BY <1>6, <2>1, <2>2, <2>3 DEF Single!Pop
<1>7. ASSUME NEW t \in Threads, Single!Read(t) PROVE SingleInv'
  <2>1. SingleMoves(t, "unlock", Single!Q!Popped(slot))
    BY <1>0, <1>7, SingleStepMoves DEF Single!Read, SingleTypeOK, SingleMoves, Single!Goto
  <2>2. /\ pc[t] = "read" /\ word' = word
        /\ word' \in SingleWords /\ dropped' = dropped
    BY <1>0, <1>7, SingleWordChanges DEF Single!Read
  <2>3. SingleCallOK("unlock", Single!Q!Popped(slot))
    BY <1>0, <2>2 DEF SingleTypeOK, SingleCallOK, SingleSlotInv, Single!Q!Answers
  <2>4. SingleTypeOK'
    BY <1>0, <2>1, <2>2, <2>3, SingleMovesTypes
  <2>5. SingleOwnerInv'
    BY <1>0, <2>1, <2>2 DEF SingleOwnerInv, SingleOwns, SingleMoves
  <2>6. SingleSlotInv' /\ SingleDropInv'
    BY <1>0, <2>1, <2>2 DEF SingleTypeOK, SingleCallOK, SingleOwnerInv, SingleOwns, SingleSlotInv, SingleDropInv, SingleMoves
  <2> QED BY <2>4, <2>5, <2>6 DEF SingleInv
<1>8. ASSUME NEW t \in Threads, Single!Unlock(t) PROVE SingleInv'
  <2>1. SingleMoves(t, "return", call[t])
    BY <1>0, <1>8, SingleStepMoves DEF Single!Unlock, SingleTypeOK, SingleMoves, Single!Goto
  <2>2. /\ pc[t] = "unlock" /\ ~word'.locked /\ word'.pushed = word.pushed /\ slot' = slot
        /\ word' \in SingleWords /\ dropped' = dropped
    BY <1>0, <1>8, SingleWordChanges DEF Single!Unlock
  <2>3. SingleCallOK("return", call[t])
    BY <1>0, <2>2 DEF SingleTypeOK, SingleCallOK, SingleSlotInv, Single!Q!Answers
  <2>4. SingleTypeOK'
    BY <1>0, <2>1, <2>2, <2>3, SingleMovesTypes
  <2>5. SingleOwnerInv'
    BY <1>0, <2>1, <2>2 DEF SingleOwnerInv, SingleOwns, SingleMoves
  <2>6. SingleSlotInv' /\ SingleDropInv'
    BY <1>0, <2>1, <2>2 DEF SingleTypeOK, SingleCallOK, SingleOwnerInv, SingleOwns, SingleSlotInv, SingleDropInv, SingleMoves
  <2> QED BY <2>4, <2>5, <2>6 DEF SingleInv
<1>9. ASSUME NEW t \in Threads, Single!LenLoad(t) PROVE SingleInv'
  <2>1. SingleMoves(t, "looked", Single!Q!Looked(IF word.pushed THEN 1 ELSE 0))
    BY <1>0, <1>9, SingleStepMoves DEF Single!LenLoad, SingleTypeOK, SingleMoves, Single!Goto
  <2>2. /\ pc[t] = "len" /\ word' = word /\ slot' = slot
        /\ word' \in SingleWords /\ dropped' = dropped
    BY <1>0, <1>9, SingleWordChanges DEF Single!LenLoad
  <2>3. SingleCallOK("looked", Single!Q!Looked(IF word.pushed THEN 1 ELSE 0))
    BY <1>0, <2>2 DEF SingleTypeOK, SingleCallOK, SingleSlotInv, Single!Q!Answers
  <2>4. SingleTypeOK'
    BY <1>0, <2>1, <2>2, <2>3, SingleMovesTypes
  <2>5. SingleOwnerInv'
    BY <1>0, <2>1, <2>2 DEF SingleOwnerInv, SingleOwns, SingleMoves
  <2>6. SingleSlotInv' /\ SingleDropInv'
    BY <1>0, <2>1, <2>2 DEF SingleTypeOK, SingleCallOK, SingleOwnerInv, SingleOwns, SingleSlotInv, SingleDropInv, SingleMoves
  <2> QED BY <2>4, <2>5, <2>6 DEF SingleInv
<1>10. ASSUME NEW t \in Threads, Single!LenReturn(t) PROVE SingleInv'
  <2>1. SingleMoves(t, "return", Single!Q!Length(call[t].num))
    BY <1>0, <1>10, SingleStepMoves DEF Single!LenReturn, SingleTypeOK, SingleMoves, Single!Goto
  <2>2. /\ pc[t] = "looked" /\ word' = word /\ slot' = slot
        /\ word' \in SingleWords /\ dropped' = dropped
    BY <1>0, <1>10, SingleWordChanges DEF Single!LenReturn
  <2>3. SingleCallOK("return", Single!Q!Length(call[t].num))
    BY <1>0, <2>2 DEF SingleTypeOK, SingleCallOK, SingleSlotInv, Single!Q!Answers
  <2>4. SingleTypeOK'
    BY <1>0, <2>1, <2>2, <2>3, SingleMovesTypes
  <2>5. SingleOwnerInv'
    BY <1>0, <2>1, <2>2 DEF SingleOwnerInv, SingleOwns, SingleMoves
  <2>6. SingleSlotInv' /\ SingleDropInv'
    BY <1>0, <2>1, <2>2 DEF SingleTypeOK, SingleCallOK, SingleOwnerInv, SingleOwns, SingleSlotInv, SingleDropInv, SingleMoves
  <2> QED BY <2>4, <2>5, <2>6 DEF SingleInv
<1>11. ASSUME NEW t \in Threads, Single!Close(t) PROVE SingleInv'
  <2>1. SingleMoves(t, "return", Single!Q!Ask(IF word.closed THEN "again" ELSE "first"))
    BY <1>0, <1>11, SingleStepMoves DEF Single!Close, SingleTypeOK, SingleMoves, Single!Goto
  <2>2. /\ pc[t] = "close" /\ word'.locked = word.locked /\ word'.pushed = word.pushed /\ slot' = slot
        /\ word' \in SingleWords /\ dropped' = dropped
    BY <1>0, <1>11, SingleWordChanges DEF Single!Close
  <2>3. SingleCallOK("return", Single!Q!Ask(IF word.closed THEN "again" ELSE "first"))
    BY <1>0, <2>2 DEF SingleTypeOK, SingleCallOK, SingleSlotInv, Single!Q!Answers
  <2>4. SingleTypeOK'
    BY <1>0, <2>1, <2>2, <2>3, SingleMovesTypes
  <2>5. SingleOwnerInv'
    BY <1>0, <2>1, <2>2 DEF SingleOwnerInv, SingleOwns, SingleMoves
  <2>6. SingleSlotInv' /\ SingleDropInv'
    BY <1>0, <2>1, <2>2 DEF SingleTypeOK, SingleCallOK, SingleOwnerInv, SingleOwns, SingleSlotInv, SingleDropInv, SingleMoves
  <2> QED BY <2>4, <2>5, <2>6 DEF SingleInv
<1>12. CASE Single!Drop
  BY <1>0, <1>12 DEF Single!Drop, SingleInv, SingleTypeOK, SingleOwnerInv, SingleOwns, SingleSlotInv, SingleDropInv
<1>13. CASE UNCHANGED Single!vars
  BY <1>0, <1>13 DEF Single!vars, SingleInv, SingleTypeOK, SingleOwnerInv, SingleOwns, SingleSlotInv, SingleDropInv
<1> QED BY <1>1, <1>2, <1>3, <1>4, <1>5, <1>6, <1>7, <1>8, <1>9, <1>10, <1>11, <1>12, <1>13 DEF Single!Next, Single!Step

-----------------------------------------------------------------------------
(***************************************************************************)
(* The refinement: what the queue holds and what each thread was answered. *)
(***************************************************************************)
SingleHolds == IF dropped = <<None>> THEN Single!Items ELSE <<>>
SingleSeen(l, c, x) == CASE l \in {"write", "written"} -> Single!Q!Ask("ok")
                   [] l = "read" -> Single!Q!Popped(x)
                   [] OTHER -> c

\* What the queue holds: what is being written, or what is in the slot.
SingleItemsKnown ==
    /\ ~word.pushed => Single!Items = <<>>
    /\ \A t \in Threads : pc[t] = "write" => Single!Items = <<call[t].val>>
    /\ word.pushed /\ (\A t \in Threads : pc[t] # "write") => Single!Items = <<slot>>

\* The invariant says what the queue holds.
LEMMA SingleItemsFacts == SingleInv => SingleItemsKnown
<1> SUFFICES ASSUME SingleInv PROVE /\ \A t \in Threads : pc[t] = "write" => Single!Items = <<call[t].val>>
                                    /\ word.pushed /\ (\A t \in Threads : pc[t] # "write") => Single!Items = <<slot>>
  BY DEF Single!Items, SingleItemsKnown
<1>1. ASSUME NEW t \in Threads, pc[t] = "write" PROVE Single!Items = <<call[t].val>>
  <2>1. Single!Writers = {t} /\ word.pushed
    BY <1>1 DEF Single!Writers, SingleInv, SingleOwnerInv, SingleOwns, SingleSlotInv
  <2> QED BY <2>1 DEF Single!Items
<1>2. ASSUME word.pushed, \A t \in Threads : pc[t] # "write" PROVE Single!Items = <<slot>>
  <2>1. Single!Writers = {}
    BY <1>2 DEF Single!Writers
  <2> QED BY <1>2, <2>1 DEF Single!Items
<1> QED BY <1>1, <1>2

\* A step of one thread changes what is seen of that thread only.
LEMMA SingleCallsAfter ==
    ASSUME NEW t \in Threads, NEW l, NEW c, SingleMoves(t, l, c),
           \A u \in Threads : u # t /\ pc[u] = "read" => slot' = slot
    PROVE  Single!Calls' = [Single!Calls EXCEPT ![t] = SingleSeen(l, c, slot')]
<1>1. \A u \in Threads : Single!Calls[u] = SingleSeen(pc[u], call[u], slot) /\ Single!Calls'[u] = SingleSeen(pc'[u], call'[u], slot')
  BY DEF Single!Calls, SingleSeen, Single!Q!Ask, Single!Q!Popped, Single!Q!Said
<1>2. \A u \in Threads : u # t => Single!Calls'[u] = Single!Calls[u]
  BY <1>1 DEF SingleMoves, SingleSeen
<1>3. Single!Calls'[t] = SingleSeen(l, c, slot')
  BY <1>1 DEF SingleMoves
<1> QED BY <1>2, <1>3 DEF Single!Calls

\* Every step of a thread is a step of Fifo, or leaves all it sees unchanged.
LEMMA SingleStepRefines ==
    ASSUME SingleInv, SingleInv', NEW t \in Threads, Single!Call(t) \/ Single!Step(t)
    PROVE  Single!Q!Next \/ UNCHANGED Single!Q!fvars
<1> DEFINE Says(a) == Single!Calls' = [Single!Calls EXCEPT ![t] = a]
<1> USE DEF Single!Q!Idle, Single!Q!Ask, Single!Q!AskPush, Single!Q!Popped, Single!Q!Looked, Single!Q!Length, Single!Q!Said, Single!Q!Answers
<1>0. SingleTypeOK /\ SingleOwnerInv /\ SingleSlotInv /\ SingleDropInv /\ word \in SingleWords
  BY DEF SingleInv, SingleTypeOK
<1>a. /\ ~word.pushed => Single!Items = <<>>
      /\ \A u \in Threads : pc[u] = "write" => Single!Items = <<call[u].val>>
      /\ word.pushed /\ (\A u \in Threads : pc[u] # "write") => Single!Items = <<slot>>
  BY SingleItemsFacts DEF SingleItemsKnown
<1>b. /\ ~word'.pushed => Single!Items' = <<>>
      /\ \A u \in Threads : pc'[u] = "write" => Single!Items' = <<call'[u].val>>
      /\ word'.pushed /\ (\A u \in Threads : pc'[u] # "write") => Single!Items' = <<slot'>>
  <2>1. (SingleInv => SingleItemsKnown)'
    BY SingleItemsFacts, PTL
  <2> QED BY <2>1 DEF SingleItemsKnown
<1>c. /\ Single!Calls[t] = SingleSeen(pc[t], call[t], slot) /\ Single!Calls = [u \in Threads |-> Single!Calls[u]]
      /\ \A u \in Threads : pc[u] \in {"read", "unlock"} => Single!Calls[u].op = "popped"
  BY <1>0 DEF Single!Calls, SingleSeen, SingleTypeOK, SingleCallOK
<1>d. pc[t] # "idle" => dropped = <<None>>
  BY <1>0 DEF SingleDropInv
<1>e. /\ UNCHANGED Single!Q!fvars <=> SingleHolds' = SingleHolds /\ word'.closed = word.closed /\ Single!Calls' = Single!Calls /\ dropped' = dropped
      /\ Single!Q!Call(t) \/ Single!Q!Return(t) \/ Single!Q!Push(t) \/ Single!Q!Pop(t) \/ Single!Q!Close(t) \/ Single!Q!LookLen(t) \/ Single!Q!AnswerLen(t) => Single!Q!Next
  BY DEF Single!Q!fvars, Single!Q!Next, SingleHolds
<1>1. CASE Single!Call(t)
  <2>1. PICK q \in Single!Q!Questions : SingleMoves(t, q.op, q)
    BY <1>0, <1>1, SingleStepMoves
  <2>2. pc[t] = "idle" /\ q.op \in {"push", "pop", "close", "len"} /\ UNCHANGED <<word, slot, dropped>> /\ dropped = <<None>>
    BY <1>1 DEF Single!Call, Single!Q!Questions, Single!Q!Alive
  <2>3. Says(q)
    BY <2>1, <2>2, SingleCallsAfter DEF SingleSeen
  <2>4. Single!Calls[t] = Single!Q!Idle
    BY <1>0, <1>c, <2>2 DEF SingleTypeOK, SingleCallOK, SingleSeen
  <2>5. SingleHolds' = SingleHolds
    BY <1>0, <1>a, <1>b, <2>1, <2>2 DEF SingleHolds, SingleMoves, SingleSlotInv, SingleOwnerInv
  <2> QED BY <1>e, <2>2, <2>3, <2>4, <2>5 DEF Single!Q!Call, Single!Q!Alive, SingleHolds
<1>2. CASE Single!Return(t)
  <2>1. SingleMoves(t, "idle", Single!Q!Idle) /\ pc[t] = "return" /\ UNCHANGED <<word, slot, dropped>>
    BY <1>0, <1>2, SingleStepMoves DEF Single!Return
  <2>2. Says(Single!Q!Idle)
    BY <2>1, SingleCallsAfter DEF SingleSeen
  <2>3. Single!Calls[t].op \in Single!Q!Answers
    BY <1>0, <1>c, <2>1 DEF SingleTypeOK, SingleCallOK, SingleSeen
  <2>4. SingleHolds' = SingleHolds
    BY <1>0, <1>a, <1>b, <2>1 DEF SingleHolds, SingleMoves, SingleSlotInv, SingleOwnerInv
  <2> QED BY <1>e, <2>1, <2>2, <2>3, <2>4 DEF Single!Q!Return, SingleHolds
<1>3. CASE Single!Push(t)
  <2>0. pc[t] = "push" /\ slot' = slot /\ dropped' = dropped /\ dropped = <<None>>
    BY <1>3, <1>d DEF Single!Push
  <2>1. Single!Calls[t] = call[t] /\ call[t].op = "push"
    BY <1>0, <1>c, <2>0 DEF SingleTypeOK, SingleCallOK, SingleSeen
  <2>2. CASE word = [locked |-> FALSE, pushed |-> FALSE, closed |-> FALSE] /\ word' = [word EXCEPT !.locked = TRUE, !.pushed = TRUE] /\ Single!Goto(t, "write") /\ UNCHANGED call
    <3>1. SingleMoves(t, "write", call[t])
      BY <1>0, <2>2, SingleStepMoves
    <3>2. Says(Single!Q!Ask("ok"))
      BY <2>0, <3>1, SingleCallsAfter DEF SingleSeen
    <3>3. SingleHolds = <<>> /\ SingleHolds' = <<call[t].val>> /\ ~word.closed /\ word'.closed = word.closed
      BY <1>0, <1>a, <1>b, <2>0, <2>2, <3>1, SingleWordChanges DEF SingleHolds, SingleMoves
    <3>4. Append(SingleHolds, call[t].val) = <<call[t].val>> /\ Len(SingleHolds) # 1
      BY <3>3
    <3> QED BY <1>e, <2>0, <2>1, <3>2, <3>3, <3>4 DEF Single!Q!Push, Single!Q!Answer, Single!Q!IsFull, SingleHolds
  <2>3. CASE word.closed /\ Single!Answer(t, Single!Q!Ask("closed")) /\ UNCHANGED word
    <3>1. SingleMoves(t, "return", Single!Q!Ask("closed"))
      BY <1>0, <2>3, SingleStepMoves
    <3>2. Says(Single!Q!Ask("closed"))
      BY <2>0, <3>1, SingleCallsAfter DEF SingleSeen
    <3>3. SingleHolds' = SingleHolds
      BY <1>0, <1>a, <1>b, <2>0, <2>3, <3>1 DEF SingleHolds, SingleMoves, SingleSlotInv, SingleOwnerInv
    <3> QED BY <1>e, <2>0, <2>1, <2>3, <3>2, <3>3 DEF Single!Q!Push, Single!Q!Answer, SingleHolds
  <2>4. CASE ~word.closed /\ (word.locked \/ word.pushed) /\ Single!Answer(t, Single!Q!Ask("full")) /\ UNCHANGED word
    <3>1. SingleMoves(t, "return", Single!Q!Ask("full"))
      BY <1>0, <2>4, SingleStepMoves
    <3>2. Says(Single!Q!Ask("full"))
      BY <2>0, <3>1, SingleCallsAfter DEF SingleSeen
    <3>3. SingleHolds' = SingleHolds
      BY <1>0, <1>a, <1>b, <2>0, <2>4, <3>1 DEF SingleHolds, SingleMoves, SingleSlotInv, SingleOwnerInv
    <3>4. word.pushed => Len(SingleHolds) = 1
      BY <1>a, <2>0 DEF SingleHolds
    <3>5. word.locked /\ ~word.pushed => \E u \in Threads : Single!Calls[u].op = "popped"
      BY <1>0, <1>c DEF SingleOwnerInv, SingleOwns, SingleSlotInv
    <3> QED BY <1>e, <2>0, <2>1, <2>4, <3>2, <3>3, <3>4, <3>5 DEF Single!Q!Push, Single!Q!Answer, Single!Q!IsFull, SingleHolds
  <2> QED BY <1>3, <2>2, <2>3, <2>4 DEF Single!Push
<1>4. CASE Single!Write(t)
  <2>1. SingleMoves(t, "written", call[t]) /\ pc[t] = "write" /\ slot' = call[t].val /\ UNCHANGED <<word, dropped>> /\ dropped = <<None>>
    BY <1>0, <1>4, <1>d, SingleStepMoves DEF Single!Write
  <2>2. \A u \in Threads : pc[u] \in {"write", "read"} => u = t
    BY <1>0, <2>1 DEF SingleOwnerInv, SingleOwns
  <2>3. Says(Single!Q!Ask("ok"))
    BY <2>1, <2>2, SingleCallsAfter DEF SingleSeen
  <2>4. Single!Calls[t] = Single!Q!Ask("ok")
    BY <1>c, <2>1 DEF SingleSeen
  <2>5. Single!Calls' = Single!Calls
    BY <1>c, <2>3, <2>4
  <2>6. SingleHolds' = SingleHolds
    BY <1>0, <1>a, <1>b, <2>1, <2>2 DEF SingleHolds, SingleMoves, SingleSlotInv
  <2> QED BY <1>e, <2>1, <2>5, <2>6
<1>5. CASE Single!Written(t)
  <2>1. SingleMoves(t, "return", Single!Q!Ask("ok")) /\ pc[t] = "written" /\ slot' = slot /\ dropped' = dropped
        /\ word'.pushed = word.pushed /\ word'.closed = word.closed
    BY <1>0, <1>5, SingleStepMoves, SingleWordChanges DEF Single!Written
  <2>2. Says(Single!Q!Ask("ok"))
    BY <2>1, SingleCallsAfter DEF SingleSeen
  <2>3. Single!Calls[t] = Single!Q!Ask("ok")
    BY <1>c, <2>1 DEF SingleSeen
  <2>4. Single!Calls' = Single!Calls
    BY <1>c, <2>2, <2>3
  <2>5. SingleHolds' = SingleHolds
    BY <1>0, <1>a, <1>b, <2>1 DEF SingleHolds, SingleMoves, SingleSlotInv, SingleOwnerInv
  <2> QED BY <1>e, <2>1, <2>4, <2>5
<1>6. CASE Single!Pop(t)
  <2>0. pc[t] = "pop" /\ slot' = slot /\ dropped' = dropped /\ dropped = <<None>>
    BY <1>6, <1>d DEF Single!Pop
  <2>1. Single!Calls[t] = call[t] /\ call[t].op = "pop"
    BY <1>0, <1>c, <2>0 DEF SingleTypeOK, SingleCallOK, SingleSeen
  <2>2. CASE word = [locked |-> FALSE, pushed |-> TRUE, closed |-> expect[t]] /\ word' = [word EXCEPT !.locked = TRUE, !.pushed = FALSE] /\ Single!Goto(t, "read") /\ UNCHANGED <<call, expect>>
    <3>1. SingleMoves(t, "read", call[t])
      BY <1>0, <2>2, SingleStepMoves
    <3>2. Says(Single!Q!Popped(slot))
      BY <2>0, <3>1, SingleCallsAfter DEF SingleSeen
    <3>3. word.pushed /\ ~word.locked /\ ~word'.pushed /\ word'.closed = word.closed
      BY <1>0, <2>2, SingleWordChanges
    <3>4. SingleHolds = <<slot>> /\ SingleHolds' = <<>>
      BY <1>0, <1>a, <1>b, <2>0, <3>3 DEF SingleHolds, SingleOwnerInv, SingleOwns
    <3>5. Tail(SingleHolds) = <<>> /\ Head(SingleHolds) = slot /\ SingleHolds # <<>>
      BY <3>4
    <3> QED BY <1>e, <2>0, <2>1, <3>2, <3>3, <3>4, <3>5 DEF Single!Q!Pop, Single!Q!Answer, SingleHolds
  <2>3. CASE ~word.pushed /\ Single!Answer(t, Single!Q!Ask(IF word.closed THEN "closed" ELSE "empty")) /\ UNCHANGED <<word, expect>>
    <3>1. SingleMoves(t, "return", Single!Q!Ask(IF word.closed THEN "closed" ELSE "empty"))
      BY <1>0, <2>3, SingleStepMoves
    <3>2. Says(Single!Q!Ask(IF word.closed THEN "closed" ELSE "empty"))
      BY <2>0, <3>1, SingleCallsAfter DEF SingleSeen
    <3>3. SingleHolds = <<>> /\ SingleHolds' = <<>>
      BY <1>a, <1>b, <2>0, <2>3 DEF SingleHolds
    <3> QED BY <1>e, <2>0, <2>1, <2>3, <3>2, <3>3 DEF Single!Q!Pop, Single!Q!Answer, SingleHolds
  <2>4. CASE word.pushed /\ UNCHANGED <<word, pc, call>>
    <3>1. Single!Calls' = Single!Calls /\ Single!Items' = Single!Items
      BY <2>0, <2>4 DEF Single!Calls, Single!Items, Single!Writers
    <3> QED BY <1>e, <2>0, <2>4, <3>1 DEF SingleHolds
  <2> QED BY <1>6, <2>2, <2>3, <2>4 DEF Single!Pop
<1>7. CASE Single!Read(t)
  <2>1. SingleMoves(t, "unlock", Single!Q!Popped(slot)) /\ pc[t] = "read" /\ UNCHANGED <<word, dropped>> /\ ~word.pushed
    BY <1>0, <1>7, SingleStepMoves DEF Single!Read, SingleSlotInv
  <2>2. \A u \in Threads : pc[u] = "read" => u = t
    BY <1>0, <2>1 DEF SingleOwnerInv, SingleOwns
  <2>3. Says(Single!Q!Popped(slot)) /\ Single!Calls[t] = Single!Q!Popped(slot)
    BY <1>c, <2>1, <2>2, SingleCallsAfter DEF SingleSeen
  <2>4. Single!Calls' = Single!Calls
    BY <1>c, <2>3
  <2>5. SingleHolds' = SingleHolds
    BY <1>a, <1>b, <2>1 DEF SingleHolds
  <2> QED BY <1>e, <2>1, <2>4, <2>5
<1>8. CASE Single!Unlock(t)
  <2>1. SingleMoves(t, "return", call[t]) /\ pc[t] = "unlock" /\ slot' = slot /\ dropped' = dropped /\ ~word.pushed
        /\ word'.pushed = word.pushed /\ word'.closed = word.closed
    BY <1>0, <1>8, SingleStepMoves, SingleWordChanges DEF Single!Unlock, SingleSlotInv
  <2>2. Says(call[t]) /\ Single!Calls[t] = call[t]
    BY <1>c, <2>1, SingleCallsAfter DEF SingleSeen
  <2>3. Single!Calls' = Single!Calls
    BY <1>c, <2>2
  <2>4. SingleHolds' = SingleHolds
    BY <1>a, <1>b, <2>1 DEF SingleHolds
  <2> QED BY <1>e, <2>1, <2>3, <2>4
<1>9. CASE Single!LenLoad(t)
  <2> DEFINE n == IF word.pushed THEN 1 ELSE 0
  <2>1. SingleMoves(t, "looked", Single!Q!Looked(n)) /\ pc[t] = "len" /\ UNCHANGED <<word, slot, dropped>> /\ dropped = <<None>>
    BY <1>0, <1>9, <1>d, SingleStepMoves DEF Single!LenLoad
  <2>2. Says(Single!Q!Looked(n)) /\ Single!Calls[t].op = "len"
    BY <1>0, <1>c, <2>1, SingleCallsAfter DEF SingleSeen, SingleTypeOK, SingleCallOK
  <2>3. SingleHolds' = SingleHolds
    BY <1>0, <1>a, <1>b, <2>1 DEF SingleHolds, SingleMoves, SingleSlotInv, SingleOwnerInv
  <2>4. Len(SingleHolds) = n
    BY <1>0, <1>a, <2>1 DEF SingleHolds
  <2> QED BY <1>e, <2>1, <2>2, <2>3, <2>4 DEF Single!Q!LookLen, Single!Q!Answer, SingleHolds
<1>10. CASE Single!LenReturn(t)
  <2>1. SingleMoves(t, "return", Single!Q!Length(call[t].num)) /\ pc[t] = "looked" /\ UNCHANGED <<word, slot, dropped>>
    BY <1>0, <1>10, SingleStepMoves DEF Single!LenReturn
  <2>2. Says(Single!Q!Length(call[t].num)) /\ Single!Calls[t].op = "looked" /\ Single!Calls[t] = call[t]
    BY <1>0, <1>c, <2>1, SingleCallsAfter DEF SingleSeen, SingleTypeOK, SingleCallOK
  <2>3. SingleHolds' = SingleHolds
    BY <1>0, <1>a, <1>b, <2>1 DEF SingleHolds, SingleMoves, SingleSlotInv, SingleOwnerInv
  <2> QED BY <1>e, <2>1, <2>2, <2>3 DEF Single!Q!AnswerLen, Single!Q!Answer, SingleHolds
<1>11. CASE Single!Close(t)
  <2>1. SingleMoves(t, "return", Single!Q!Ask(IF word.closed THEN "again" ELSE "first")) /\ pc[t] = "close" /\ UNCHANGED <<slot, dropped>>
        /\ word'.pushed = word.pushed /\ word'.closed = TRUE
    BY <1>0, <1>11, SingleStepMoves, SingleWordChanges DEF Single!Close
  <2>2. Says(Single!Q!Ask(IF word.closed THEN "again" ELSE "first")) /\ Single!Calls[t].op = "close"
    BY <1>0, <1>c, <2>1, SingleCallsAfter DEF SingleSeen, SingleTypeOK, SingleCallOK
  <2>3. SingleHolds' = SingleHolds
    BY <1>0, <1>a, <1>b, <2>1 DEF SingleHolds, SingleMoves, SingleSlotInv, SingleOwnerInv
  <2> QED BY <1>e, <2>1, <2>2, <2>3 DEF Single!Q!Close, Single!Q!Answer, SingleHolds
<1> QED BY <1>1, <1>2, <1>3, <1>4, <1>5, <1>6, <1>7, <1>8, <1>9, <1>10, <1>11 DEF Single!Step

\* Drop for the queue finds its value, if it has one, and nothing being written.
LEMMA SingleDropRefines ==
    ASSUME None \notin Values, SingleInv, Single!Drop PROVE Single!Q!Next
<1>0. SingleTypeOK /\ SingleSlotInv /\ word \in SingleWords
  BY DEF SingleInv, SingleTypeOK
<1>1. dropped = <<None>> /\ \A t \in Threads : pc[t] = "idle"
  BY DEF Single!Drop, Single!Q!Alive
<1>2. \A t \in Threads : Single!Calls[t] = Single!Q!Idle
  BY <1>0, <1>1 DEF Single!Calls, SingleTypeOK, SingleCallOK
<1>3. Single!Calls' = Single!Calls /\ word' = word
  BY DEF Single!Drop, Single!Calls
<1>4. dropped' = Single!Items
  BY <1>0, <1>1, SingleItemsFacts DEF Single!Drop, SingleItemsKnown
<1>5. dropped' # <<None>>
  <2>1. CASE word.pushed
    BY <1>0, <1>1, <2>1 DEF Single!Drop, SingleSlotInv
  <2>2. CASE ~word.pushed
    BY <2>2 DEF Single!Drop
  <2> QED BY <2>1, <2>2
<1>6. Single!Q!Drop
  BY <1>1, <1>2, <1>3, <1>4, <1>5 DEF Single!Q!Drop, Single!Q!Alive
<1> QED BY <1>6 DEF Single!Q!Next

\* The queue of capacity one (single.rs) implements the closable FIFO, for any
\* threads and values: push, pop, len, close and the drop take effect in one
\* step each, no value is lost, duplicated or read before it is written, and a
\* push is told "full" only if the queue is, or while a pop is finishing.
THEOREM SingleQueueIsFifo == ASSUME None \notin Values PROVE Single!Spec => Single!ImplementsFifo
<1>1. Single!Init => Single!Q!Init
  BY DEF Single!Init, Single!Q!Init, Single!Items, Single!Calls, Single!Q!Idle, Single!Q!Ask, Single!Q!Said
<1>2. SingleInv /\ SingleInv' /\ [Single!Next]_(Single!vars) => [Single!Q!Next]_(Single!Q!fvars)
  <2> SUFFICES ASSUME SingleInv, SingleInv', [Single!Next]_(Single!vars) PROVE Single!Q!Next \/ UNCHANGED Single!Q!fvars
    OBVIOUS
  <2>1. CASE UNCHANGED Single!vars
    BY <2>1 DEF Single!vars, Single!Q!fvars, Single!Items, Single!Calls, Single!Writers
  <2> QED BY <2>1, SingleStepRefines, SingleDropRefines DEF Single!Next
<1>3. SingleInv /\ [Single!Next]_(Single!vars) => SingleInv'
  BY SingleInvStep
<1> QED BY <1>1, <1>2, <1>3, SingleInitInv, PTL DEF Single!Spec, Single!ImplementsFifo, Single!Q!Spec
=============================================================================
