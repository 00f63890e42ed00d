------------------------ MODULE UnboundedQueueProofs -------------------------
(***************************************************************************)
(* UnboundedQueue frees every block once and implements Fifo, for blocks   *)
(* of any size, any threads and values.  Words are read as the positions   *)
(* they stand for.  A block belongs to those who fill or empty its slots   *)
(* until pops have left it; from then on somebody, or a slot nobody has    *)
(* read yet, carries the duty to free it, one at a time.                   *)
(***************************************************************************)
EXTENDS UnboundedQueue, TLAPS

Lemmas == INSTANCE ProofLemmas

\* What is assumed of the constants: a block has a slot.
LapsOK == Laps \subseteq Nat \ {0, 1} /\ None \notin Values

-----------------------------------------------------------------------------
(* The invariant                                                           *)

\* The positions of the first item, of the next one to be pushed, and of the word
\* a thread works on; the block of a position and its place there.
Front   == At(head.index)
Back    == At(tail.index)
Mine(t) == At(seen[t])
BlockOf(n) == (n \div lap) + 1
Off(n)     == n % lap
HasSlot(n) == Off(n) < BlockCap
LastSlot(n) == Off(n) + 1 = BlockCap
Cell(n)    == blocks[BlockOf(n)].slots[Off(n)]

\* A push links the next block while tail waits; a pop moves head on to it.
Linking   == {"setblock", "setindex"}
Advancing == {"waitnext", "nextnext", "headblock", "headindex"}
Filling   == Pushing \cup {"publish"}
Emptying  == Popping \cup {"setread"}
Freeing   == {"destroy", "handover"}
SomeAt(l) == \E t \in Threads : pc[t] = l

Slot  == [value : Values \cup {None}, written : BOOLEAN, read : BOOLEAN, destroy : BOOLEAN]
Block == [next : Nat, frees : Nat, slots : [Offsets -> Slot]]

\* What a thread has called, or been answered, follows from where it is.
CallOK(l, c) ==
    \/ l = "idle" /\ c = Q!Idle
    \/ /\ l \in {"push", "pushblock", "first", "firsthead", "take"} \cup Filling
       /\ \E v \in Values : c = Q!AskPush(v)
    \/ l \in {"pop", "popblock", "poptail", "poptake"} \cup Popping /\ c = Q!Ask("pop")
    \/ l \in {"setread"} \cup Freeing /\ \E v \in Values : c = Q!Popped(v)
    \/ l \in {"len", "lenhead"} /\ c = Q!Ask("len")
    \/ l \in {"len", "lenhead", "lenagain"} /\ c.num \in Nat /\ c = Q!Looked(c.num)
    \/ l = "close" /\ c = Q!Ask("close")
    \/ l = "return" /\ c.op \in Q!Answers

TypeOK ==
    /\ lap \in Nat /\ lap >= 2
    /\ head \in [index : Nat, block : Nat] /\ tail \in [index : Nat, block : Nat]
    /\ blocks \in Seq(Block)
    /\ DOMAIN pc = Threads /\ DOMAIN call = Threads
    /\ seen \in [Threads -> Nat] /\ block \in [Threads -> Nat] /\ aux \in [Threads -> Nat]
    /\ \A t \in Threads : CallOK(pc[t], call[t])

\* The last block is that of tail, or the one being linked.
TailInv ==
    /\ Front <= Back /\ tail.block = Len(blocks)
    /\ Len(blocks) = 0 => Back = 0
    /\ Len(blocks) # 0 => Len(blocks) = BlockOf(Back) + (IF SomeAt("setindex") THEN 1 ELSE 0)
    /\ ~HasSlot(Back) => \E t \in Threads : pc[t] \in Linking

\* The block of head is that of its index, once there is one, or the next.
HeadInv ==
    /\ Marked(head.index) => BlockOf(Front) < BlockOf(Back)
    /\ SomeAt("firsthead") => Front = 0 /\ Len(blocks) # 0
    /\ head.block = IF Len(blocks) = 0 \/ SomeAt("firsthead") THEN 0
                    ELSE BlockOf(Front) + (IF SomeAt("headindex") THEN 1 ELSE 0)
    /\ ~HasSlot(Front) => \E t \in Threads : pc[t] \in Advancing

\* Every block links to the next, but the last and those being linked.
LinksInv ==
    \A b \in DOMAIN blocks :
       /\ blocks[b].next \in {0, b + 1}
       /\ b = Len(blocks) => blocks[b].next = 0
       /\ b < Len(blocks) /\ blocks[b].next = 0 =>
             \E t \in Threads : pc[t] \in {"setindex", "setnext"} /\ block[t] = b

\* Nobody is at the last slot of a block any more.
LastLeft(b) == ~\E u \in Threads : /\ pc[u] \in Filling \cup Emptying
                                   /\ block[u] = b /\ LastSlot(Mine(u))

\* The destruction of a block got to a slot: those before it are read, and none
\* behind it is asked to destroy the block.
GotTo(b, lo, hi) ==
    /\ b < BlockOf(Front) /\ LastLeft(b)
    /\ \A j \in 0 .. lo - 1 : blocks[b].slots[j].read
    /\ \A j \in hi .. BlockCap - 2 : ~blocks[b].slots[j].destroy

\* What a thread knows of the position n and the block b it works on.
PushKnows(l, w, n, b) ==
    /\ n <= Back
    /\ l \in {"first", "firsthead", "take"} => ~Marked(w) /\ HasSlot(n)
    /\ l = "firsthead" => n = 0 /\ b = 1
    /\ l = "take" => Len(blocks) # 0 /\ (n = Back => b = BlockOf(n))
FillKnows(l, c, n, b) ==
    /\ n < Back /\ HasSlot(n) /\ b = BlockOf(n)
    /\ ~Cell(n).written /\ ~Cell(n).read
    /\ l \in Linking \cup {"setnext"} => LastSlot(n)
    /\ l \in Linking => Back = n + 1
    /\ l \in {"setindex", "setnext"} => blocks[b].next = 0
    /\ l = "setnext" => b < BlockOf(Back)
    /\ l = "publish" => Cell(n).value = c.val
PopKnows(l, w, n, b, a) ==
    /\ n <= Front
    /\ l = "popblock" /\ Marked(w) => BlockOf(n) < BlockOf(Back)
    /\ l = "poptail" => a = w + 2 /\ ~Marked(w)
    /\ l \in {"poptail", "poptake"} =>
          HasSlot(n) /\ (b # 0 => head.block # 0 /\ (n = Front => b = BlockOf(n)))
    /\ l = "poptake" => /\ b # 0 /\ n < Back /\ At(a) = n + 1
                        /\ Marked(a) => BlockOf(n) < BlockOf(Back)
EmptyKnows(l, n, b, a) ==
    /\ n < Front /\ HasSlot(n) /\ b = BlockOf(n) /\ ~Cell(n).read
    /\ l \in Advancing => LastSlot(n) /\ Front = n + 1
    /\ l = "waitnext" => At(a) = n + 1
    /\ l = "nextnext" => a = 2 * (n + 2)
    /\ l \in {"nextnext", "headblock", "headindex"} => blocks[b].next = b + 1 /\ b < BlockOf(Back)
    /\ l \in {"headblock", "headindex"} => At(a) = n + 2 /\ (Marked(a) => b + 1 < BlockOf(Back))
    /\ l = "read" /\ LastSlot(n) => b < BlockOf(Front)
    /\ l = "setread" => Cell(n).written /\ ~LastSlot(n)
FreeKnows(l, b, a) ==
    /\ b \in DOMAIN blocks /\ a < BlockCap /\ GotTo(b, a, a)
    /\ l = "handover" => a + 1 < BlockCap
LenKnows(l, c, n, a) ==
    /\ n <= Back
    /\ l = "lenagain" /\ n = Back => At(a) <= n /\ c.num = Rank(n) - Rank(At(a))

Knows(l, c, w, b, a) ==
    /\ l \in {"pushblock", "first", "firsthead", "take"} => PushKnows(l, w, At(w), b)
    /\ l \in Filling => FillKnows(l, c, At(w), b)
    /\ l \in {"popblock", "poptail", "poptake"} => PopKnows(l, w, At(w), b, a)
    /\ l \in Emptying => EmptyKnows(l, At(w), b, a)
    /\ l \in Freeing => FreeKnows(l, b, a)
    /\ l \in {"lenhead", "lenagain"} => LenKnows(l, c, At(w), a)

ThreadsInv == \A t \in Threads : Knows(pc[t], call[t], seen[t], block[t], aux[t])

\* Two threads do not fill, empty or free the same slot or block.
Apart(l, n, b, m, k, d) ==
    /\ n = k => ~(l \in Filling /\ m \in Filling) /\ ~(l \in Emptying /\ m \in Emptying)
    /\ b = d => ~(l \in Freeing /\ m \in Freeing)
    /\ ~(l = "firsthead" /\ m = "firsthead")
OwnersInv == \A t, u \in Threads : t # u => Apart(pc[t], Mine(t), block[t], pc[u], Mine(u), block[u])

FilledBy(n)  == \E t \in Threads : pc[t] \in Filling /\ Mine(t) = n
PoppedBy(n)  == \E t \in Threads : pc[t] \in Popping /\ Mine(t) = n
EmptiedBy(n) == \E t \in Threads : pc[t] \in Emptying /\ Mine(t) = n

\* The positions of the blocks there are.
Positions == 0 .. lap * Len(blocks) - 1

\* Slots are fresh before their push, hold a value until their pop reads it, and
\* are then marked as read, but the last.
SlotOK(n) ==
    /\ n >= Back => ~Cell(n).written
    /\ n >= Front => ~Cell(n).read
    /\ n < Back /\ (n >= Front \/ PoppedBy(n)) =>
          (Cell(n).written /\ Cell(n).value \in Values) \/ FilledBy(n)
    /\ n < Front /\ ~LastSlot(n) /\ blocks[BlockOf(n)].frees = 0 => Cell(n).read \/ EmptiedBy(n)
SlotsInv == \A n \in Positions : HasSlot(n) => SlotOK(n)

\* A slot asked to destroy its block, and not read yet.
Asked(b, j) == blocks[b].slots[j].destroy /\ ~blocks[b].slots[j].read
AskedInv ==
    \A b \in DOMAIN blocks : \A j \in 0 .. BlockCap - 2 :
       /\ blocks[b].slots[j].destroy => b < BlockOf(Front) /\ LastLeft(b)
       /\ Asked(b, j) => GotTo(b, j, j + 1)

\* Who is still to free a block that pops have left: the pop of its last slot,
\* whoever goes through its slots, or the pop of a slot that was asked to.
Freer(b) ==
    \/ \E t \in Threads : pc[t] \in Emptying /\ block[t] = b /\ LastSlot(Mine(t))
    \/ \E t \in Threads : pc[t] \in Freeing /\ block[t] = b
    \/ \E j \in 0 .. BlockCap - 2 : Asked(b, j)

Working(b) == \E t \in Threads : pc[t] \in Filling \cup Emptying \cup Freeing /\ block[t] = b

FreedInv ==
    \A b \in DOMAIN blocks :
       /\ blocks[b].frees \in {0, 1}
       /\ blocks[b].frees = 1 => b < BlockOf(Front) /\ ~Working(b)
       /\ blocks[b].frees = 0 /\ b < BlockOf(Front) => Freer(b)

Gone == /\ \A t \in Threads : pc[t] = "idle"
        /\ \A b \in DOMAIN blocks : blocks[b].frees = 1

Live == TailInv /\ HeadInv /\ LinksInv /\ ThreadsInv /\ OwnersInv /\ SlotsInv /\ AskedInv /\ FreedInv
Inv  == TypeOK /\ (IF Q!Alive THEN Live ELSE Gone)

-----------------------------------------------------------------------------
(* Arithmetic of words and positions                                       *)

\* A word is twice its position, and one more if it is marked.
LEMMA WordFacts ==
    ASSUME NEW w \in Nat
    PROVE  /\ At(w) \in Nat /\ (Marked(w) => w = 2 * At(w) + 1) /\ (~Marked(w) => w = 2 * At(w))
           /\ At(w + 2) = At(w) + 1 /\ (Marked(w + 2) <=> Marked(w))
           /\ Mark(w) \in Nat /\ At(Mark(w)) = At(w) /\ Marked(Mark(w))
           /\ Unmark(w) = 2 * At(w) /\ Unmark(w) \in Nat
  BY DEF At, Marked, Mark, Unmark

\* The word of a position.
LEMMA WordOf == ASSUME NEW n \in Nat PROVE At(2 * n) = n /\ ~Marked(2 * n) /\ At(2 * n + 1) = n /\ Marked(2 * n + 1)
  BY DEF At, Marked

\* A position is a place in a block.
LEMMA PlaceFacts ==
    ASSUME lap \in Nat, lap >= 2, NEW n \in Nat
    PROVE  /\ BlockOf(n) \in Nat /\ BlockOf(n) >= 1 /\ Off(n) \in Nat /\ Off(n) <= BlockCap
           /\ n = (BlockOf(n) - 1) * lap + Off(n)
           /\ HasSlot(n) <=> Off(n) \in Offsets
           /\ HasSlot(n) <=> Off(n) # BlockCap
           /\ LastSlot(n) => HasSlot(n)
           /\ BlockCap \in Nat /\ BlockCap >= 1 /\ lap = BlockCap + 1
<1>1. n \div lap \in Nat /\ (n % lap) \in Nat /\ (n % lap) < lap /\ n = (n \div lap) * lap + (n % lap)
  BY Lemmas!Euclid
<1> DEFINE q == n \div lap
           r == n % lap
<1>2. q \in Nat /\ r \in Nat /\ r < lap /\ n = q * lap + r /\ BlockOf(n) = q + 1 /\ Off(n) = r
  BY <1>1 DEF BlockOf, Off
<1> HIDE DEF q, r
<1>3. BlockOf(n) - 1 = q
  BY <1>2
<1> QED BY <1>2, <1>3 DEF HasSlot, LastSlot, Offsets, BlockCap

\* and every place in a block is a position.
LEMMA PlaceOf ==
    ASSUME lap \in Nat, lap >= 2, NEW n \in Nat, NEW b \in Nat, b >= 1, NEW j \in Nat, j < lap, n = (b - 1) * lap + j
    PROVE  BlockOf(n) = b /\ Off(n) = j
<1>1. Lemmas!Split(n, b - 1, lap, j)
  BY DEF Lemmas!Split
<1>2. n \div lap = b - 1 /\ n % lap = j
  BY <1>1, Lemmas!DivMod
<1> QED BY <1>2 DEF BlockOf, Off

\* The place b, j as a position.
Pos(b, j) == (b - 1) * lap + j
\* The position of a place lies at that place.
LEMMA PosFacts ==
    ASSUME lap \in Nat, lap >= 2, NEW b \in Nat, b >= 1, NEW j \in Nat, j < lap
    PROVE  Pos(b, j) \in Nat /\ BlockOf(Pos(b, j)) = b /\ Off(Pos(b, j)) = j
<1>1. (b - 1) * lap \in Nat
  <2>1. b - 1 \in Nat
    OBVIOUS
  <2> QED BY <2>1
<1>2. Pos(b, j) \in Nat /\ Pos(b, j) = (b - 1) * lap + j
  BY <1>1 DEF Pos
<1> QED BY <1>2, PlaceOf

\* Different positions have different places.
LEMMA SamePlace ==
    ASSUME lap \in Nat, lap >= 2, NEW n \in Nat, NEW m \in Nat, BlockOf(n) = BlockOf(m), Off(n) = Off(m)
    PROVE  n = m
<1> DEFINE p == (BlockOf(n) - 1) * lap
<1>1. n = p + Off(n) /\ m = p + Off(m)
  BY PlaceFacts
<1> QED BY <1>1

\* The next position is in the same block, or the first of the next one.
LEMMA NextPlace ==
    ASSUME lap \in Nat, lap >= 2, NEW n \in Nat
    PROVE  /\ HasSlot(n) => BlockOf(n + 1) = BlockOf(n) /\ Off(n + 1) = Off(n) + 1
           /\ ~HasSlot(n) => BlockOf(n + 1) = BlockOf(n) + 1 /\ Off(n + 1) = 0 /\ HasSlot(n + 1)
           /\ LastSlot(n) <=> ~HasSlot(n + 1)
<1> DEFINE b == BlockOf(n)
           j == Off(n)
<1>1. b \in Nat /\ b >= 1 /\ j \in Nat /\ j <= BlockCap /\ BlockCap \in Nat /\ lap = BlockCap + 1 /\ BlockCap >= 1
  BY PlaceFacts
<1>2. n = (b - 1) * lap + j
  BY PlaceFacts
<1>3. (b - 1) * lap + lap = b * lap
  <2>1. b \in Int /\ lap \in Int
    BY <1>1
  <2> HIDE DEF b
  <2> QED BY <2>1
<1>4. (HasSlot(n) <=> j < BlockCap) /\ (LastSlot(n) <=> j + 1 = BlockCap)
  BY DEF HasSlot, LastSlot
<1> HIDE DEF b, j
<1>5. CASE j < BlockCap
  <2>1. n + 1 = (b - 1) * lap + (j + 1) /\ j + 1 \in Nat /\ j + 1 < lap /\ n + 1 \in Nat
    BY <1>1, <1>2, <1>5
  <2>2. BlockOf(n + 1) = b /\ Off(n + 1) = j + 1
    BY <1>1, <2>1, PlaceOf
  <2>3. HasSlot(n + 1) <=> Off(n + 1) < BlockCap
    BY DEF HasSlot
  <2> QED BY <1>1, <1>4, <1>5, <2>2, <2>3 DEF b, j
<1>6. CASE j = BlockCap
  <2>1. n + 1 = ((b + 1) - 1) * lap + 0 /\ n + 1 \in Nat
    <3>1. (b + 1) - 1 = b
      BY <1>1
    <3>2. n + 1 = b * lap
      BY <1>1, <1>2, <1>3, <1>6
    <3> QED BY <3>1, <3>2
  <2>2. b + 1 \in Nat /\ b + 1 >= 1 /\ 0 \in Nat /\ 0 < lap
    BY <1>1
  <2>3. BlockOf(n + 1) = b + 1 /\ Off(n + 1) = 0
    BY <2>1, <2>2, PlaceOf
  <2>4. HasSlot(n + 1) <=> Off(n + 1) < BlockCap
    BY DEF HasSlot
  <2> QED BY <1>1, <1>4, <1>6, <2>3, <2>4 DEF b, j
<1> QED BY <1>1, <1>5, <1>6

\* Places are in the order of positions.
LEMMA PlaceOrder ==
    ASSUME lap \in Nat, lap >= 2, NEW n \in Nat, NEW m \in Nat, n <= m
    PROVE  BlockOf(n) <= BlockOf(m) /\ (BlockOf(n) = BlockOf(m) => Off(n) <= Off(m))
<1> DEFINE b == BlockOf(n)
           c == BlockOf(m)
<1>1. /\ b \in Nat /\ b >= 1 /\ Off(n) \in Nat /\ Off(n) <= BlockCap /\ n = (b - 1) * lap + Off(n)
      /\ c \in Nat /\ c >= 1 /\ Off(m) \in Nat /\ Off(m) <= BlockCap /\ m = (c - 1) * lap + Off(m)
      /\ BlockCap \in Nat /\ lap = BlockCap + 1
  BY PlaceFacts
<1> HIDE DEF b, c
<1>2. ~(c < b)
  <2> SUFFICES ASSUME c < b PROVE FALSE
    OBVIOUS
  <2>1. b - c >= 1 /\ b - c \in Int
    BY <1>1
  <2>2. (b - c) * lap >= lap
    BY <1>1, <2>1
  <2>3. (b - c) * lap = (b - 1) * lap - (c - 1) * lap
    BY <1>1
  <2> QED BY <1>1, <2>2, <2>3
<1>3. b = c => Off(n) <= Off(m)
  BY <1>1
<1> QED BY <1>1, <1>2, <1>3 DEF b, c

\* The positions of the blocks there are.
LEMMA PositionsFacts ==
    ASSUME lap \in Nat, lap >= 2, NEW k \in Nat, NEW n \in Nat
    PROVE  n \in 0 .. lap * k - 1 <=> BlockOf(n) <= k
<1> DEFINE b == BlockOf(n)
<1>1. b \in Nat /\ b >= 1 /\ Off(n) \in Nat /\ Off(n) <= BlockCap /\ n = (b - 1) * lap + Off(n) /\ lap = BlockCap + 1
  BY PlaceFacts
<1> HIDE DEF b
<1>2. lap * k \in Int /\ BlockCap \in Int
  BY DEF BlockCap
<1>3. b <= k => lap * k >= n + 1
  <2> SUFFICES ASSUME b <= k PROVE lap * k >= n + 1
    OBVIOUS
  <2>1. (k - b) * lap >= 0
    BY <1>1
  <2>2. (k - b) * lap = lap * k - (b - 1) * lap - lap
    BY <1>1
  <2> QED BY <1>1, <1>2, <2>1, <2>2
<1>4. b >= k + 1 => lap * k <= n
  <2> SUFFICES ASSUME b >= k + 1 PROVE lap * k <= n
    OBVIOUS
  <2>1. (b - 1 - k) * lap >= 0
    BY <1>1
  <2>2. (b - 1 - k) * lap = (b - 1) * lap - lap * k
    BY <1>1
  <2> QED BY <1>1, <1>2, <2>1, <2>2
<1> QED BY <1>1, <1>2, <1>3, <1>4 DEF b
\* The rank of a position is the number of slots before it.
LEMMA RankFacts ==
    ASSUME lap \in Nat, lap >= 2, NEW n \in Nat
    PROVE  Rank(n) \in Nat /\ Rank(n) = n - (BlockOf(n) - 1) /\ Rank(n) = (BlockOf(n) - 1) * BlockCap + Off(n)
<1> DEFINE b == BlockOf(n)
<1>1. b \in Nat /\ b >= 1 /\ Off(n) \in Nat /\ Off(n) <= BlockCap /\ n = (b - 1) * lap + Off(n) /\ lap = BlockCap + 1 /\ BlockCap \in Nat
  BY PlaceFacts
<1>2. Rank(n) = n - (b - 1)
  <2>1. BlockOf(n) = (n \div lap) + 1 /\ n \div lap \in Nat
    BY Lemmas!Euclid DEF BlockOf
  <2> QED BY <2>1 DEF Rank
<1> HIDE DEF b
<1>3. (b - 1) * lap - (b - 1) = (b - 1) * BlockCap /\ (b - 1) * BlockCap \in Nat
  <2>1. b - 1 \in Nat
    BY <1>1
  <2> QED BY <1>1, <2>1
<1> QED BY <1>1, <1>2, <1>3 DEF b

\* One more with each position that has a slot.
LEMMA RankNext ==
    ASSUME lap \in Nat, lap >= 2, NEW n \in Nat
    PROVE  Rank(n + 1) = IF HasSlot(n) THEN Rank(n) + 1 ELSE Rank(n)
<1>1. n + 1 \in Nat
  OBVIOUS
<1>2. Rank(n) = n - (BlockOf(n) - 1) /\ Rank(n + 1) = (n + 1) - (BlockOf(n + 1) - 1)
  BY <1>1, RankFacts
<1>3. BlockOf(n) \in Nat /\ BlockOf(n + 1) \in Nat
  BY <1>1, PlaceFacts
<1> QED BY <1>2, <1>3, NextPlace

\* Ranks grow with positions, and past a slot strictly.
LEMMA RankOrder ==
    ASSUME lap \in Nat, lap >= 2, NEW n \in Nat, NEW m \in Nat, n <= m
    PROVE  Rank(n) <= Rank(m) /\ (n < m /\ HasSlot(n) => Rank(n) < Rank(m))
<1> DEFINE b == BlockOf(n)
           c == BlockOf(m)
           i == Off(n)
           j == Off(m)
<1>1. /\ b \in Nat /\ b >= 1 /\ i \in Nat /\ i <= BlockCap /\ n = (b - 1) * lap + i
      /\ c \in Nat /\ c >= 1 /\ j \in Nat /\ j <= BlockCap /\ m = (c - 1) * lap + j
      /\ BlockCap \in Nat /\ lap = BlockCap + 1 /\ (HasSlot(n) <=> i < BlockCap)
  BY PlaceFacts DEF HasSlot
<1>2. Rank(n) = (b - 1) * BlockCap + i /\ Rank(m) = (c - 1) * BlockCap + j
  BY RankFacts
<1>3. b <= c /\ (b = c => i <= j)
  BY PlaceOrder
<1> HIDE DEF b, c, i, j
<1>4. CASE b = c
  BY <1>1, <1>2, <1>3, <1>4
<1>5. CASE b < c
  <2>1. c - b >= 1 /\ c - b \in Int
    BY <1>1, <1>5
  <2>2. (c - b) * BlockCap >= BlockCap
    BY <1>1, <2>1
  <2>3. (c - b) * BlockCap = (c - 1) * BlockCap - (b - 1) * BlockCap
    BY <1>1
  <2> QED BY <1>1, <1>2, <2>2, <2>3
<1> QED BY <1>1, <1>3, <1>4, <1>5

\* SlotAt is the inverse of Rank, on positions that have a slot.
LEMMA SlotAtFacts ==
    ASSUME lap \in Nat, lap >= 2, NEW k \in Nat
    PROVE  SlotAt(k) \in Nat /\ HasSlot(SlotAt(k)) /\ Rank(SlotAt(k)) = k
<1>1. BlockCap \in Nat /\ BlockCap > 0 /\ lap = BlockCap + 1
  BY DEF BlockCap
<1> DEFINE q == k \div BlockCap
           r == k % BlockCap
<1>2. q \in Nat /\ r \in Nat /\ r < BlockCap /\ k = q * BlockCap + r
  BY <1>1, Lemmas!Euclid
<1>3. SlotAt(k) = q * lap + r
  BY DEF SlotAt
<1> HIDE DEF q, r
<1>4. q * lap \in Nat /\ q * BlockCap \in Nat
  BY <1>1, <1>2
<1>5. SlotAt(k) \in Nat /\ SlotAt(k) = ((q + 1) - 1) * lap + r
  <2>1. (q + 1) - 1 = q
    BY <1>2
  <2> QED BY <1>2, <1>3, <1>4, <2>1
<1>6. q + 1 \in Nat /\ q + 1 >= 1 /\ r < lap
  BY <1>1, <1>2
<1>7. BlockOf(SlotAt(k)) = q + 1 /\ Off(SlotAt(k)) = r
  BY <1>2, <1>5, <1>6, PlaceOf
<1>8. Rank(SlotAt(k)) = q * BlockCap + r
  <2>1. Rank(SlotAt(k)) = (BlockOf(SlotAt(k)) - 1) * BlockCap + Off(SlotAt(k))
    BY <1>5, RankFacts
  <2>2. BlockOf(SlotAt(k)) - 1 = q
    BY <1>2, <1>7
  <2> QED BY <1>7, <2>1, <2>2
<1> QED BY <1>2, <1>5, <1>7, <1>8 DEF HasSlot

\* The slot of the rank of a slot is that slot.
LEMMA SlotAtRank ==
    ASSUME lap \in Nat, lap >= 2, NEW n \in Nat, HasSlot(n)
    PROVE  SlotAt(Rank(n)) = n
<1> DEFINE m == SlotAt(Rank(n))
<1>1. m \in Nat /\ HasSlot(m) /\ Rank(m) = Rank(n) /\ Rank(n) \in Nat
  BY RankFacts, SlotAtFacts
<1> HIDE DEF m
<1>2. ~(m < n) /\ ~(n < m)
  BY <1>1, RankOrder
<1> QED BY <1>1, <1>2 DEF m

\* The first position at or behind n that len counts from has the same rank, and
\* what len computes is the difference of the ranks.
LEMMA LenIsDifference ==
    ASSUME lap \in Nat, lap >= 2, NEW t \in Nat, NEW h \in Nat
    PROVE  LenOf(t, h) = Rank(At(t)) - Rank(At(h))
<1> DEFINE Up(n) == IF n % lap = lap - 1 THEN n + 1 ELSE n
           laps == Up(At(h)) \div lap
           tl == Up(At(t)) - laps * lap
           hd == Up(At(h)) - laps * lap
<1>1. LenOf(t, h) = tl - hd - (tl \div lap)
  BY DEF LenOf
<1>2. \A n \in Nat : Up(n) \in Nat /\ Rank(Up(n)) = Rank(n)
  <2> TAKE n \in Nat
  <2>1. HasSlot(n) <=> n % lap # lap - 1
    BY PlaceFacts DEF Off, BlockCap
  <2> QED BY <2>1, RankNext
<1>3. At(t) \in Nat /\ At(h) \in Nat
  BY WordFacts
<1> DEFINE m == Up(At(t))
           n == Up(At(h))
<1>4. m \in Nat /\ n \in Nat /\ Rank(m) = Rank(At(t)) /\ Rank(n) = Rank(At(h))
  BY <1>2, <1>3
<1>5. laps = n \div lap /\ tl = m - laps * lap /\ hd = n - laps * lap
  OBVIOUS
<1> HIDE DEF Up, laps, tl, hd, m, n
<1>6. laps \in Nat /\ laps = BlockOf(n) - 1
  <2>1. n \div lap \in Nat
    BY <1>4, Lemmas!Euclid
  <2> QED BY <1>5, <2>1 DEF BlockOf
<1>7. tl \div lap = BlockOf(m) - 1 - laps
  <2> DEFINE c == BlockOf(m)
             j == Off(m)
  <2>1. c \in Nat /\ j \in Nat /\ j < lap /\ m = (c - 1) * lap + j
    BY <1>4, PlaceFacts
  <2> HIDE DEF c, j
  <2>2. tl = (c - 1 - laps) * lap + j
    BY <1>5, <1>6, <2>1
  <2>3. c - 1 - laps \in Int
    BY <1>6, <2>1
  <2>4. Lemmas!Split(tl, c - 1 - laps, lap, j)
    BY <2>1, <2>2, <2>3 DEF Lemmas!Split
  <2>5. tl \div lap = c - 1 - laps
    BY <2>4, Lemmas!DivMod
  <2> QED BY <2>5 DEF c
<1>8. Rank(m) = m - (BlockOf(m) - 1) /\ Rank(n) = n - (BlockOf(n) - 1) /\ BlockOf(m) \in Nat /\ BlockOf(n) \in Nat
  BY <1>4, RankFacts, PlaceFacts
<1>9. laps * lap \in Int
  BY <1>6
<1> QED BY <1>1, <1>4, <1>5, <1>6, <1>7, <1>8, <1>9

-----------------------------------------------------------------------------
(* The invariant is inductive                                              *)

\* What one thread does is seen in its own locals.
Moves(t, l, c, w, b, a) ==
    /\ DOMAIN pc' = Threads /\ DOMAIN call' = Threads
    /\ pc'[t] = l /\ call'[t] = c /\ \A u \in Threads : u # t => pc'[u] = pc[u] /\ call'[u] = call[u]
    /\ seen' = [seen EXCEPT ![t] = w] /\ block' = [block EXCEPT ![t] = b] /\ aux' = [aux EXCEPT ![t] = a]

\* as seen by the others and by the thread
LEMMA MovesFacts ==
    ASSUME TypeOK, NEW t \in Threads, NEW l, NEW c, NEW w, NEW b, NEW a, Moves(t, l, c, w, b, a)
    PROVE  /\ pc'[t] = l /\ call'[t] = c /\ seen'[t] = w /\ block'[t] = b /\ aux'[t] = a
           /\ \A u \in Threads : u # t =>
                 pc'[u] = pc[u] /\ call'[u] = call[u] /\ seen'[u] = seen[u] /\ block'[u] = block[u] /\ aux'[u] = aux[u]
           /\ Mine(t)' = At(w) /\ \A u \in Threads : u # t => Mine(u)' = Mine(u)
BY DEF TypeOK, Moves, Mine

\* A thread that goes where its call allows keeps the types.
LEMMA MovesTypes ==
    ASSUME TypeOK, NEW t \in Threads, NEW l, NEW c, NEW w \in Nat, NEW b \in Nat, NEW a \in Nat,
           Moves(t, l, c, w, b, a), CallOK(l, c), lap' = lap, blocks' \in Seq(Block),
           head' \in [index : Nat, block : Nat], tail' \in [index : Nat, block : Nat]
    PROVE  TypeOK'
<1>1. Block' = Block
  BY DEF Block, Slot, Offsets, BlockCap
<1>2. seen' \in [Threads -> Nat] /\ block' \in [Threads -> Nat] /\ aux' \in [Threads -> Nat]
  BY DEF TypeOK, Moves
<1>3. \A u \in Threads : CallOK(pc'[u], call'[u])
  <2>1. pc'[t] = l /\ call'[t] = c /\ \A u \in Threads : u # t => pc'[u] = pc[u] /\ call'[u] = call[u]
    BY MovesFacts
  <2>2. \A u \in Threads : CallOK(pc[u], call[u])
    BY DEF TypeOK
  <2> HIDE DEF CallOK
  <2> QED BY <2>1, <2>2
<1>4. \A u \in Threads : CallOK(pc[u], call[u])'
  BY <1>3 DEF CallOK
<1> QED BY <1>1, <1>2, <1>4 DEF TypeOK, Moves

\* Places do not move, for LAP is a constant of the build.
LEMMA SamePlaces ==
    ASSUME lap' = lap
    PROVE  /\ Offsets' = Offsets /\ BlockCap' = BlockCap
           /\ \A n : BlockOf(n)' = BlockOf(n) /\ Off(n)' = Off(n) /\ (HasSlot(n)' <=> HasSlot(n))
                     /\ (LastSlot(n)' <=> LastSlot(n)) /\ Rank(n)' = Rank(n)
BY DEF Offsets, BlockCap, BlockOf, Off, HasSlot, LastSlot, Rank

\* The thread keeps the role it has for its slot or block.
SameRole(t, l, w, b) ==
    /\ l = "setindex" <=> pc[t] = "setindex"
    /\ l \in Linking <=> pc[t] \in Linking
    /\ l \in {"setindex", "setnext"} <=> pc[t] \in {"setindex", "setnext"}
    /\ l = "firsthead" <=> pc[t] = "firsthead"
    /\ l = "headindex" <=> pc[t] = "headindex"
    /\ l \in Advancing <=> pc[t] \in Advancing
    /\ l \in Filling <=> pc[t] \in Filling
    /\ l \in Popping <=> pc[t] \in Popping
    /\ l \in Emptying <=> pc[t] \in Emptying
    /\ l \in Freeing <=> pc[t] \in Freeing
    /\ l \in Filling \cup Emptying \cup Freeing => At(w) = Mine(t) /\ b = block[t]

\* Then everything said of the roles stays true.
LEMMA RolesStay ==
    ASSUME TypeOK, NEW t \in Threads, NEW l, NEW c, NEW w, NEW b, NEW a, Moves(t, l, c, w, b, a),
           SameRole(t, l, w, b), lap' = lap
    PROVE  /\ SomeAt("setindex")' <=> SomeAt("setindex")
           /\ SomeAt("firsthead")' <=> SomeAt("firsthead")
           /\ SomeAt("headindex")' <=> SomeAt("headindex")
           /\ (\E u \in Threads : pc'[u] \in Linking) <=> \E u \in Threads : pc[u] \in Linking
           /\ (\E u \in Threads : pc'[u] \in Advancing) <=> \E u \in Threads : pc[u] \in Advancing
           /\ \A d : (\E u \in Threads : pc'[u] \in {"setindex", "setnext"} /\ block'[u] = d)
                      <=> \E u \in Threads : pc[u] \in {"setindex", "setnext"} /\ block[u] = d
           /\ \A n : (FilledBy(n)' <=> FilledBy(n)) /\ (PoppedBy(n)' <=> PoppedBy(n)) /\ (EmptiedBy(n)' <=> EmptiedBy(n))
           /\ \A d : (LastLeft(d)' <=> LastLeft(d)) /\ (Working(d)' <=> Working(d))
           /\ \A d : (\E u \in Threads : pc'[u] \in Emptying /\ block'[u] = d /\ LastSlot(Mine(u))')
                      <=> \E u \in Threads : pc[u] \in Emptying /\ block[u] = d /\ LastSlot(Mine(u))
           /\ \A d : (\E u \in Threads : pc'[u] \in Freeing /\ block'[u] = d)
                      <=> \E u \in Threads : pc[u] \in Freeing /\ block[u] = d
<1>1. /\ pc'[t] = l /\ block'[t] = b /\ Mine(t)' = At(w)
      /\ \A u \in Threads : u # t => pc'[u] = pc[u] /\ block'[u] = block[u] /\ Mine(u)' = Mine(u)
  BY MovesFacts
<1>2. ASSUME NEW u \in Threads
      PROVE  /\ pc'[u] = "setindex" <=> pc[u] = "setindex"
             /\ pc'[u] = "firsthead" <=> pc[u] = "firsthead"
             /\ pc'[u] = "headindex" <=> pc[u] = "headindex"
             /\ pc'[u] \in Linking <=> pc[u] \in Linking
             /\ pc'[u] \in Advancing <=> pc[u] \in Advancing
             /\ pc'[u] \in {"setindex", "setnext"} <=> pc[u] \in {"setindex", "setnext"}
             /\ pc'[u] \in Filling <=> pc[u] \in Filling
             /\ pc'[u] \in Popping <=> pc[u] \in Popping
             /\ pc'[u] \in Emptying <=> pc[u] \in Emptying
             /\ pc'[u] \in Freeing <=> pc[u] \in Freeing
             /\ pc[u] \in Filling \cup Emptying \cup Freeing =>
                   block'[u] = block[u] /\ Mine(u)' = Mine(u) /\ (LastSlot(Mine(u))' <=> LastSlot(Mine(u)))
  <2>1. \A n : LastSlot(n)' <=> LastSlot(n)
    BY SamePlaces
  <2>2. CASE u = t
    BY <1>1, <2>1, <2>2 DEF SameRole, LastSlot, Off, BlockCap
  <2>3. CASE u # t
    BY <1>1, <2>1, <2>3 DEF LastSlot, Off, BlockCap
  <2> QED BY <2>2, <2>3
<1>3. {"setindex", "setnext"} \subseteq Filling /\ Linking \subseteq Filling /\ Popping \subseteq Emptying
  BY DEF Filling, Pushing, Linking, Emptying
<1>4. \A d : (LastLeft(d)' <=> LastLeft(d)) /\ (Working(d)' <=> Working(d))
  BY <1>2 DEF LastLeft, Working
<1>5. \A n : (FilledBy(n)' <=> FilledBy(n)) /\ (PoppedBy(n)' <=> PoppedBy(n)) /\ (EmptiedBy(n)' <=> EmptiedBy(n))
  BY <1>2, <1>3 DEF FilledBy, PoppedBy, EmptiedBy
<1>6. /\ SomeAt("setindex")' <=> SomeAt("setindex")
      /\ SomeAt("firsthead")' <=> SomeAt("firsthead")
      /\ SomeAt("headindex")' <=> SomeAt("headindex")
  BY <1>2 DEF SomeAt
<1>7. \A d : (\E u \in Threads : pc'[u] \in {"setindex", "setnext"} /\ block'[u] = d)
                      <=> \E u \in Threads : pc[u] \in {"setindex", "setnext"} /\ block[u] = d
  BY <1>2, <1>3
<1> HIDE DEF FilledBy, LastLeft, Working
<1> QED BY <1>2, <1>4, <1>5, <1>6, <1>7

\* What the threads know after a step of one of them: what the thread has learnt,
\* and what the others knew if the step left it alone.
SameCell(n) ==
    Cell(n)'.value = Cell(n).value /\ Cell(n)'.written = Cell(n).written /\ Cell(n)'.read = Cell(n).read
LeavesAlone(u) ==
    /\ pc[u] \in Linking => Back' = Back
    /\ pc[u] \in Advancing => Front' = Front
    /\ \A n : n = Mine(u) =>
          /\ pc[u] \in Filling => SameCell(n)
          /\ pc[u] \in Emptying => (Cell(n).written => Cell(n)'.written) /\ Cell(n)'.read = Cell(n).read
    /\ pc[u] \in {"setindex", "setnext", "nextnext", "headblock", "headindex"} =>
          blocks'[block[u]].next = blocks[block[u]].next
    /\ pc[u] \in Freeing => \A d, i : d = block[u] /\ i = aux[u] /\ GotTo(d, i, i) => GotTo(d, i, i)'

\* what a thread knows stays true
LEMMA StillKnows ==
    ASSUME TypeOK, NEW u \in Threads, Knows(pc[u], call[u], seen[u], block[u], aux[u]), lap' = lap, Front' \in Nat, Back' \in Nat,
           blocks' \in Seq(Block),
           Front <= Front', Back <= Back', Len(blocks) <= Len(blocks'), head.block # 0 => head'.block # 0,
           LeavesAlone(u), NEW l, NEW c, NEW w, NEW b, NEW a,
           l = pc[u], c = call[u], w = seen[u], b = block[u], a = aux[u]
    PROVE  Knows(l, c, w, b, a)'
<1>0. /\ lap \in Nat /\ lap >= 2 /\ w \in Nat /\ a \in Nat /\ At(w) \in Nat /\ At(a) \in Nat
      /\ Front \in Nat /\ Back \in Nat /\ Len(blocks) \in Nat /\ Len(blocks') \in Nat /\ At(w) = Mine(u)
  <2>1. /\ lap \in Nat /\ lap >= 2 /\ w \in Nat /\ a \in Nat /\ head.index \in Nat /\ tail.index \in Nat
        /\ Len(blocks) \in Nat /\ Len(blocks') \in Nat
    BY DEF TypeOK
  <2>2. At(w) \in Nat /\ At(a) \in Nat /\ At(head.index) \in Nat /\ At(tail.index) \in Nat
    BY <2>1, WordFacts
  <2> QED BY <2>1, <2>2 DEF Front, Back, Mine
<1>1. \A m \in Nat, n \in Nat : m <= n => BlockOf(m) <= BlockOf(n) /\ BlockOf(m) \in Nat /\ BlockOf(n) \in Nat
  BY <1>0, PlaceOrder, PlaceFacts
<1>2. /\ BlockOf(Back) <= BlockOf(Back') /\ BlockOf(Front) <= BlockOf(Front')
      /\ BlockOf(Back) \in Nat /\ BlockOf(Back') \in Nat /\ BlockOf(Front) \in Nat /\ BlockOf(Front') \in Nat
      /\ BlockOf(Front)' = BlockOf(Front') /\ BlockOf(Back)' = BlockOf(Back') /\ BlockOf(At(w)) \in Nat
  BY <1>0, <1>1 DEF BlockOf
<1>3. \A n : BlockOf(n)' = BlockOf(n) /\ (HasSlot(n)' <=> HasSlot(n)) /\ (LastSlot(n)' <=> LastSlot(n)) /\ Rank(n)' = Rank(n)
  BY SamePlaces
<1>4. Knows(l, c, w, b, a)
  OBVIOUS
<1>5. BlockCap' = BlockCap
  BY SamePlaces
<1> DEFINE n == At(w)
<1>6. n \in Nat /\ Mine(u) = n /\ BlockOf(n) \in Nat
  BY <1>0, <1>2
<1> HIDE DEF n
<1>7. l \in {"pushblock", "first", "firsthead", "take"} => PushKnows(l, w, n, b)'
  <2> SUFFICES ASSUME PushKnows(l, w, n, b) PROVE PushKnows(l, w, n, b)'
    BY <1>4 DEF Knows, n
  <2>1. Back' = n => Back = n
    BY <1>0, <1>6 DEF PushKnows
  <2> QED BY <1>0, <1>3, <1>6, <2>1 DEF PushKnows
<1>8. l \in Filling => FillKnows(l, c, n, b)'
  <2> SUFFICES ASSUME l \in Filling, FillKnows(l, c, n, b) PROVE FillKnows(l, c, n, b)'
    BY <1>4 DEF Knows, n
  <2>1. SameCell(n) /\ (l \in Linking => Back' = Back) /\ (l \in {"setindex", "setnext"} => blocks'[b].next = blocks[b].next)
    BY <1>6 DEF LeavesAlone
  <2>2. b = BlockOf(n) /\ (l = "setnext" => b < BlockOf(Back)')
    BY <1>2, <1>6 DEF FillKnows
  <2> QED BY <1>0, <1>3, <1>6, <2>1, <2>2 DEF FillKnows, SameCell
<1>9. l \in {"popblock", "poptail", "poptake"} => PopKnows(l, w, n, b, a)'
  <2> SUFFICES ASSUME PopKnows(l, w, n, b, a) PROVE PopKnows(l, w, n, b, a)'
    BY <1>4 DEF Knows, n
  <2>1. Front' = n => Front = n
    BY <1>0, <1>6 DEF PopKnows
  <2>2. BlockOf(n) < BlockOf(Back) => BlockOf(n) < BlockOf(Back)'
    BY <1>2, <1>6
  <2> QED BY <1>0, <1>3, <1>6, <2>1, <2>2 DEF PopKnows
<1>10. l \in Emptying => EmptyKnows(l, n, b, a)'
  <2> SUFFICES ASSUME l \in Emptying, EmptyKnows(l, n, b, a) PROVE EmptyKnows(l, n, b, a)'
    BY <1>4 DEF Knows, n
  <2>1. /\ Cell(n).written => Cell(n)'.written
        /\ Cell(n)'.read = Cell(n).read
        /\ l \in Advancing => Front' = Front
        /\ l \in {"nextnext", "headblock", "headindex"} => blocks'[b].next = blocks[b].next
    BY <1>6 DEF LeavesAlone
  <2>2. /\ b = BlockOf(n) /\ b \in Nat /\ (b < BlockOf(Back) => b < BlockOf(Back)') /\ (b < BlockOf(Front) => b < BlockOf(Front)')
        /\ b + 1 < BlockOf(Back) => b + 1 < BlockOf(Back)'
    BY <1>2, <1>6 DEF EmptyKnows
  <2> QED BY <1>0, <1>3, <1>6, <2>1, <2>2 DEF EmptyKnows
<1>11. l \in Freeing => FreeKnows(l, b, a)'
  <2> SUFFICES ASSUME l \in Freeing, FreeKnows(l, b, a) PROVE FreeKnows(l, b, a)'
    BY <1>4 DEF Knows
  <2>1. GotTo(b, a, a)'
    BY DEF LeavesAlone, FreeKnows
  <2>2. b \in DOMAIN blocks'
    BY SMTT(60), <1>0 DEF FreeKnows, TypeOK
  <2> QED BY <1>5, <2>1, <2>2 DEF FreeKnows
<1>12. l \in {"lenhead", "lenagain"} => LenKnows(l, c, n, a)'
  <2> SUFFICES ASSUME LenKnows(l, c, n, a) PROVE LenKnows(l, c, n, a)'
    BY <1>4 DEF Knows, n
  <2>1. Back' = n => Back = n
    BY <1>0, <1>6 DEF LenKnows
  <2> QED BY <1>0, <1>3, <1>6, <2>1 DEF LenKnows
<1> QED BY <1>7, <1>8, <1>9, <1>10, <1>11, <1>12 DEF Knows, n

\* Together: after a step of t.
LEMMA ThreadsAfter ==
    ASSUME TypeOK, ThreadsInv, NEW t \in Threads, NEW l, NEW c, NEW w, NEW b, NEW a, Moves(t, l, c, w, b, a),
           lap' = lap, Front' \in Nat, Back' \in Nat, blocks' \in Seq(Block),
           Front <= Front', Back <= Back', Len(blocks) <= Len(blocks'), head.block # 0 => head'.block # 0,
           \A u \in Threads : u # t => LeavesAlone(u), Knows(l, c, w, b, a)'
    PROVE  ThreadsInv'
<1> SUFFICES ASSUME NEW u \in Threads PROVE Knows(pc[u], call[u], seen[u], block[u], aux[u])'
  BY DEF ThreadsInv
<1>1. CASE u = t
  <2>1. pc'[u] = l /\ call'[u] = c /\ seen'[u] = w /\ block'[u] = b /\ aux'[u] = a
    BY <1>1, MovesFacts
  <2> QED BY <2>1 DEF Knows, PushKnows, FillKnows, PopKnows, EmptyKnows, FreeKnows, LenKnows
<1>2. CASE u # t
  <2>1. ASSUME NEW m, NEW d, NEW x, NEW e, NEW i, m = pc[u], d = call[u], x = seen[u], e = block[u], i = aux[u]
        PROVE  Knows(m, d, x, e, i)'
    <3>1. Knows(pc[u], call[u], seen[u], block[u], aux[u]) /\ LeavesAlone(u)
      BY <1>2 DEF ThreadsInv
    <3> QED BY <2>1, <3>1, StillKnows
  <2>2. pc'[u] = pc[u] /\ call'[u] = call[u] /\ seen'[u] = seen[u] /\ block'[u] = block[u] /\ aux'[u] = aux[u]
    BY <1>2, MovesFacts
  <2> QED BY <2>1, <2>2 DEF Knows, PushKnows, FillKnows, PopKnows, EmptyKnows, FreeKnows, LenKnows
<1> QED BY <1>1, <1>2

\* Nobody else fills, empties or frees the same after a step of t.
LEMMA OwnersAfter ==
    ASSUME TypeOK, OwnersInv, NEW t \in Threads, NEW l, NEW c, NEW w, NEW b, NEW a, Moves(t, l, c, w, b, a),
           \A u \in Threads : u # t => Apart(l, At(w), b, pc[u], Mine(u), block[u])
    PROVE  OwnersInv'
<1>1. /\ pc'[t] = l /\ block'[t] = b /\ Mine(t)' = At(w)
      /\ \A u \in Threads : u # t => pc'[u] = pc[u] /\ block'[u] = block[u] /\ Mine(u)' = Mine(u)
  BY MovesFacts
<1>2. \A k, n, d, m, i, e : Apart(k, n, d, m, i, e) <=> Apart(m, i, e, k, n, d)
  BY DEF Apart
<1>3. ASSUME NEW u \in Threads, NEW v \in Threads, u # v
      PROVE  Apart(pc'[u], Mine(u)', block'[u], pc'[v], Mine(v)', block'[v])
  <2>1. CASE u = t
    BY <1>1, <1>3, <2>1
  <2>2. CASE v = t
    BY <1>1, <1>2, <1>3, <2>2
  <2>3. CASE u # t /\ v # t
    BY <1>1, <1>3, <2>3 DEF OwnersInv
  <2> QED BY <2>1, <2>2, <2>3
<1> QED BY <1>3 DEF OwnersInv, Apart

\* so if it keeps its role
LEMMA OwnersStay ==
    ASSUME TypeOK, OwnersInv, NEW t \in Threads, NEW l, NEW c, NEW w, NEW b, NEW a, Moves(t, l, c, w, b, a),
           SameRole(t, l, w, b)
    PROVE  OwnersInv'
<1>1. \A u \in Threads : u # t => Apart(pc[t], Mine(t), block[t], pc[u], Mine(u), block[u])
  BY DEF OwnersInv
<1>2. \A u \in Threads : u # t => Apart(l, At(w), b, pc[u], Mine(u), block[u])
  BY <1>1 DEF Apart, SameRole
<1> QED BY <1>2, OwnersAfter

\* The ends of the queue and the links stay as they are.
LEMMA EndsStay ==
    ASSUME TypeOK, TailInv, HeadInv, LinksInv, NEW t \in Threads, NEW l, NEW c, NEW w, NEW b, NEW a, Moves(t, l, c, w, b, a),
           SameRole(t, l, w, b), lap' = lap, head' = head, Back' = Back, tail'.block = tail.block, blocks' \in Seq(Block), Len(blocks') = Len(blocks),
           \A d \in DOMAIN blocks : blocks'[d].next = blocks[d].next
    PROVE  TailInv' /\ HeadInv' /\ LinksInv' /\ Front' = Front /\ Back' = Back
<1>1. /\ SomeAt("setindex")' <=> SomeAt("setindex")
      /\ SomeAt("firsthead")' <=> SomeAt("firsthead")
      /\ SomeAt("headindex")' <=> SomeAt("headindex")
      /\ (\E u \in Threads : pc'[u] \in Linking) <=> \E u \in Threads : pc[u] \in Linking
      /\ (\E u \in Threads : pc'[u] \in Advancing) <=> \E u \in Threads : pc[u] \in Advancing
      /\ \A d : (\E u \in Threads : pc'[u] \in {"setindex", "setnext"} /\ block'[u] = d)
                      <=> \E u \in Threads : pc[u] \in {"setindex", "setnext"} /\ block[u] = d
  BY RolesStay
<1>2. Front' = Front /\ Back' = Back
  BY DEF Front
<1>3. BlockOf(Front)' = BlockOf(Front) /\ BlockOf(Back)' = BlockOf(Back) /\ (HasSlot(Front)' <=> HasSlot(Front)) /\ (HasSlot(Back)' <=> HasSlot(Back))
  BY <1>2 DEF BlockOf, HasSlot, Off, BlockCap
<1>4. DOMAIN blocks' = DOMAIN blocks
  BY DEF TypeOK
<1> HIDE DEF SomeAt
<1>5. TailInv'
  BY <1>1, <1>2, <1>3 DEF TailInv
<1>6. HeadInv'
  BY <1>1, <1>2, <1>3 DEF HeadInv
<1>7. LinksInv'
  BY <1>1, <1>4 DEF LinksInv
<1> QED BY <1>2, <1>5, <1>6, <1>7

\* A step that changes no more than what a thread knows, and no role; it may mark
\* tail.
LEMMA LocalOrMark ==
    ASSUME TypeOK, Live, NEW t \in Threads, NEW l, NEW c, NEW w \in Nat, NEW b \in Nat, NEW a \in Nat,
           Moves(t, l, c, w, b, a), UNCHANGED <<lap, head, blocks>>, Back' = Back, tail'.block = tail.block,
           tail' \in [index : Nat, block : Nat], SameRole(t, l, w, b), CallOK(l, c), Knows(l, c, w, b, a)
    PROVE  TypeOK' /\ Live'
<1>0. /\ TailInv /\ HeadInv /\ LinksInv /\ ThreadsInv /\ OwnersInv /\ SlotsInv /\ AskedInv /\ FreedInv
      /\ lap' = lap /\ head' = head /\ blocks' = blocks
  BY DEF Live
<1>1. blocks' \in Seq(Block) /\ blocks \in Seq(Block)
  BY <1>0 DEF TypeOK
<1>2. TypeOK'
  BY <1>0, <1>1, MovesTypes DEF TypeOK
<1>3. TailInv' /\ HeadInv' /\ LinksInv' /\ Front' = Front /\ Back' = Back
  BY <1>0, <1>1, EndsStay
<1>4. OwnersInv'
  BY <1>0, OwnersStay
<1>5. /\ \A n : Cell(n)' = Cell(n)
      /\ \A n : BlockOf(n)' = BlockOf(n) /\ Off(n)' = Off(n) /\ (HasSlot(n)' <=> HasSlot(n)) /\ (LastSlot(n)' <=> LastSlot(n)) /\ Rank(n)' = Rank(n)
      /\ BlockCap' = BlockCap
  BY <1>0, SamePlaces DEF Cell
<1>6. /\ \A n : (FilledBy(n)' <=> FilledBy(n)) /\ (PoppedBy(n)' <=> PoppedBy(n)) /\ (EmptiedBy(n)' <=> EmptiedBy(n))
      /\ \A d : (LastLeft(d)' <=> LastLeft(d)) /\ (Working(d)' <=> Working(d))
      /\ \A d : (\E u \in Threads : pc'[u] \in Emptying /\ block'[u] = d /\ LastSlot(Mine(u))')
                      <=> \E u \in Threads : pc[u] \in Emptying /\ block[u] = d /\ LastSlot(Mine(u))
      /\ \A d : (\E u \in Threads : pc'[u] \in Freeing /\ block'[u] = d)
                      <=> \E u \in Threads : pc[u] \in Freeing /\ block[u] = d
  BY <1>0, RolesStay
<1>7. BlockOf(Front)' = BlockOf(Front) /\ BlockOf(Back)' = BlockOf(Back)
  BY <1>0, <1>3 DEF BlockOf
<1>8. \A d, i, j : GotTo(d, i, j)' <=> GotTo(d, i, j)
  BY <1>0, <1>5, <1>6, <1>7 DEF GotTo
<1>9. Front \in Nat /\ Back \in Nat
  BY WordFacts DEF TypeOK, Front, Back
<1>10. Knows(l, c, w, b, a)'
  <2> HIDE DEF GotTo, Cell, Front, Back, BlockOf, HasSlot, LastSlot
  <2>1. \A n : BlockOf(n)' = BlockOf(n) /\ (HasSlot(n)' <=> HasSlot(n)) /\ (LastSlot(n)' <=> LastSlot(n)) /\ Rank(n)' = Rank(n)
    BY <1>5
  <2> QED BY <1>0, <1>3, <1>5, <1>7, <1>8, <2>1 DEF Knows, PushKnows, FillKnows, PopKnows, EmptyKnows, FreeKnows, LenKnows
<1>11. \A u \in Threads : u # t => LeavesAlone(u)
  BY <1>0, <1>3, <1>5, <1>8 DEF LeavesAlone, SameCell
<1>12. ThreadsInv'
  BY <1>0, <1>1, <1>3, <1>9, <1>10, <1>11, ThreadsAfter
<1>13. SlotsInv'
  <2>1. Positions' = Positions
    BY <1>0 DEF Positions
  <2>2. \A n : blocks'[BlockOf(n)'] = blocks[BlockOf(n)]
    BY <1>0, <1>5
  <2> QED BY <1>0, <1>3, <1>5, <1>6, <2>1, <2>2 DEF SlotsInv, SlotOK
<1>14. AskedInv'
  BY <1>0, <1>5, <1>6, <1>7, <1>8 DEF AskedInv, Asked
<1>15. FreedInv'
  <2>1. \A d : Freer(d)' <=> Freer(d)
    BY <1>0, <1>5, <1>6 DEF Freer, Asked
  <2> QED BY <1>0, <1>6, <1>7, <2>1 DEF FreedInv
<1> QED BY <1>2, <1>3, <1>4, <1>12, <1>13, <1>14, <1>15 DEF Live

\* A step of one thread that writes nothing shared keeps the invariant, if what
\* the thread knows is still true.
LEMMA LocalStep ==
    ASSUME TypeOK, Live, NEW t \in Threads, NEW l, NEW c, NEW w \in Nat, NEW b \in Nat, NEW a \in Nat,
           Moves(t, l, c, w, b, a), UNCHANGED <<lap, shared>>, SameRole(t, l, w, b), CallOK(l, c), Knows(l, c, w, b, a)
    PROVE  TypeOK' /\ Live'
<1>1. Back' = Back /\ tail'.block = tail.block /\ tail' \in [index : Nat, block : Nat] /\ UNCHANGED <<lap, head, blocks>>
  BY DEF TypeOK, Back, shared
<1> QED BY <1>1, LocalOrMark

\* A thread without a role keeps to that.
LEMMA Roleless ==
    ASSUME NEW t, NEW l, NEW w, NEW b, pc[t] \notin Filling \cup Emptying \cup Freeing \cup {"firsthead"},
           l \notin Filling \cup Emptying \cup Freeing \cup {"firsthead"}
    PROVE  SameRole(t, l, w, b)
BY DEF SameRole, Filling, Pushing, Emptying, Popping, Linking, Advancing, Freeing

\* Numbers of the state.
LEMMA Numbers ==
    ASSUME TypeOK, TailInv
    PROVE  /\ lap \in Nat /\ lap >= 2 /\ Front \in Nat /\ Back \in Nat /\ Front <= Back
           /\ head.index \in Nat /\ tail.index \in Nat /\ head.block \in Nat /\ tail.block \in Nat
           /\ Len(blocks) \in Nat /\ DOMAIN blocks = 1 .. Len(blocks)
           /\ BlockOf(Front) \in Nat /\ BlockOf(Back) \in Nat /\ BlockOf(Front) <= BlockOf(Back) /\ BlockOf(Front) >= 1
           /\ \A u \in Threads : seen[u] \in Nat /\ block[u] \in Nat /\ aux[u] \in Nat /\ Mine(u) \in Nat /\ At(aux[u]) \in Nat
<1>1. /\ lap \in Nat /\ lap >= 2 /\ head.index \in Nat /\ tail.index \in Nat /\ head.block \in Nat /\ tail.block \in Nat
      /\ Len(blocks) \in Nat /\ DOMAIN blocks = 1 .. Len(blocks)
      /\ \A u \in Threads : seen[u] \in Nat /\ block[u] \in Nat /\ aux[u] \in Nat
  BY DEF TypeOK
<1>2. Front \in Nat /\ Back \in Nat /\ Front <= Back
  BY <1>1, WordFacts DEF Front, Back, TailInv
<1>3. BlockOf(Front) \in Nat /\ BlockOf(Back) \in Nat /\ BlockOf(Front) <= BlockOf(Back) /\ BlockOf(Front) >= 1
  BY <1>1, <1>2, PlaceFacts, PlaceOrder
<1>4. \A u \in Threads : Mine(u) \in Nat /\ At(aux[u]) \in Nat
  BY <1>1, WordFacts DEF Mine
<1> QED BY <1>1, <1>2, <1>3, <1>4

\* The blocks of the positions up to tail exist.
LEMMA BlocksExist ==
    ASSUME TypeOK, TailInv, NEW n \in Nat
    PROVE  /\ BlockOf(n) \in Nat /\ BlockOf(n) >= 1
           /\ n < Back => BlockOf(n) \in DOMAIN blocks /\ BlockOf(n) <= BlockOf(Back) /\ Len(blocks) # 0
           /\ n = Back /\ Len(blocks) # 0 => BlockOf(n) \in DOMAIN blocks
<1>1. BlockOf(n) \in Nat /\ BlockOf(n) >= 1 /\ (n <= Back => BlockOf(n) <= BlockOf(Back))
  BY Numbers, PlaceFacts, PlaceOrder
<1>2. Len(blocks) # 0 => Len(blocks) >= BlockOf(Back)
  BY Numbers DEF TailInv
<1>3. n < Back => Len(blocks) # 0
  BY Numbers DEF TailInv
<1> QED BY <1>1, <1>2, <1>3, Numbers

\* While a block is being linked, tail rests behind its last slot; so does head
\* while a pop moves it on.
LEMMA RestingEnds ==
    ASSUME TypeOK, TailInv, ThreadsInv, NEW u \in Threads
    PROVE  /\ pc[u] \in Linking => ~HasSlot(Back) /\ Back = Mine(u) + 1 /\ BlockOf(Back) = block[u] /\ block[u] = BlockOf(Mine(u))
           /\ pc[u] \in Advancing => ~HasSlot(Front) /\ Front = Mine(u) + 1 /\ BlockOf(Front) = block[u] /\ block[u] = BlockOf(Mine(u))
<1>1. Knows(pc[u], call[u], seen[u], block[u], aux[u]) /\ Mine(u) = At(seen[u])
  BY DEF ThreadsInv, Mine
<1>2. lap \in Nat /\ lap >= 2 /\ Mine(u) \in Nat
  BY Numbers
<1>3. ASSUME pc[u] \in Linking PROVE ~HasSlot(Back) /\ Back = Mine(u) + 1 /\ BlockOf(Back) = block[u] /\ block[u] = BlockOf(Mine(u))
  <2>1. FillKnows(pc[u], call[u], Mine(u), block[u])
    BY <1>1, <1>3 DEF Knows, Filling, Pushing, Linking
  <2>2. LastSlot(Mine(u)) /\ HasSlot(Mine(u)) /\ Back = Mine(u) + 1 /\ block[u] = BlockOf(Mine(u))
    BY <1>3, <2>1 DEF FillKnows
  <2> QED BY <1>2, <2>2, NextPlace
<1>4. ASSUME pc[u] \in Advancing PROVE ~HasSlot(Front) /\ Front = Mine(u) + 1 /\ BlockOf(Front) = block[u] /\ block[u] = BlockOf(Mine(u))
  <2>1. EmptyKnows(pc[u], Mine(u), block[u], aux[u])
    BY <1>1, <1>4 DEF Knows, Emptying, Popping, Advancing
  <2>2. LastSlot(Mine(u)) /\ HasSlot(Mine(u)) /\ Front = Mine(u) + 1 /\ block[u] = BlockOf(Mine(u))
    BY <1>4, <2>1 DEF EmptyKnows
  <2> QED BY <1>2, <2>2, NextPlace
<1> QED BY <1>3, <1>4

\* The pointers at the ends, while the ends are at a slot.
LEMMA EndBlocks ==
    ASSUME TypeOK, TailInv, HeadInv, ThreadsInv
    PROVE  /\ HasSlot(Back) /\ tail.block # 0 => tail.block = BlockOf(Back)
           /\ HasSlot(Front) /\ head.block # 0 => head.block = BlockOf(Front)
<1>1. HasSlot(Back) => ~SomeAt("setindex")
  BY RestingEnds DEF SomeAt, Linking
<1>2. HasSlot(Front) => ~SomeAt("headindex")
  BY RestingEnds DEF SomeAt, Advancing
<1> QED BY <1>1, <1>2, Numbers DEF TailInv, HeadInv

\* A block that has a link has it to the next one, and tail has gone there.
LEMMA LinkedBlocks ==
    ASSUME TypeOK, TailInv, LinksInv, ThreadsInv, NEW d \in DOMAIN blocks, blocks[d].next # 0
    PROVE  blocks[d].next = d + 1 /\ d + 1 \in DOMAIN blocks /\ d < BlockOf(Back)
<1>1. blocks[d].next = d + 1 /\ d < Len(blocks) /\ d \in Nat /\ d >= 1 /\ Len(blocks) # 0
  BY Numbers DEF LinksInv
<1>2. CASE ~SomeAt("setindex")
  BY <1>1, <1>2, Numbers DEF TailInv
<1>3. CASE SomeAt("setindex")
  <2>1. PICK u \in Threads : pc[u] = "setindex"
    BY <1>3 DEF SomeAt
  <2>2. BlockOf(Back) = block[u] /\ Len(blocks) = BlockOf(Back) + 1
    BY <1>1, <1>3, <2>1, RestingEnds, Numbers DEF Linking, TailInv
  <2>3. blocks[block[u]].next = 0
    <3>1. Knows(pc[u], call[u], seen[u], block[u], aux[u])
      BY DEF ThreadsInv
    <3> QED BY <2>1, <3>1 DEF Knows, FillKnows, Filling, Pushing
  <2> QED BY SMTT(60), <1>1, <2>2, <2>3, Numbers
<1> QED BY <1>1, <1>2, <1>3, Numbers

\* What a thread has called while it is at a place.
LEMMA CallsNow ==
    ASSUME TypeOK, NEW t \in Threads
    PROVE  /\ pc[t] \in {"push", "pushblock", "first", "firsthead", "take"} \cup Filling =>
                 \E v \in Values : call[t] = Q!AskPush(v) /\ call[t].val = v
           /\ pc[t] \in {"pop", "popblock", "poptail", "poptake"} \cup Popping => call[t] = Q!Ask("pop")
           /\ pc[t] \in {"setread"} \cup Freeing => \E v \in Values : call[t] = Q!Popped(v)
           /\ pc[t] \in {"len", "lenhead"} => call[t] = Q!Ask("len") \/ (call[t].num \in Nat /\ call[t] = Q!Looked(call[t].num))
           /\ pc[t] = "lenagain" => call[t].num \in Nat /\ call[t] = Q!Looked(call[t].num)
           /\ pc[t] = "close" => call[t] = Q!Ask("close")
<1>1. CallOK(pc[t], call[t])
  BY DEF TypeOK
<1>2. \A v : Q!AskPush(v).val = v
  BY DEF Q!AskPush, Q!Said
<1> QED BY <1>1, <1>2 DEF CallOK, Filling, Pushing, Popping, Freeing

\* The loads of push and its failed exchanges.
LEMMA PushLooks ==
    ASSUME TypeOK, Live, lap' = lap, NEW t \in Threads,
           \/ PushIndex(t) \/ PushBlock(t)
           \/ pc[t] = "first" /\ tail.block # 0 /\ Goto(t, "push") /\ UNCHANGED <<shared, block, call, seen, aux>>
           \/ pc[t] = "take" /\ See(t, tail.index) /\ Goto(t, "pushblock") /\ UNCHANGED <<shared, call, block, aux>>
    PROVE  TypeOK' /\ Live'
<1> USE DEF Live, Goto, Answer, See, Load, SetAux
<1>1. /\ Knows(pc[t], call[t], seen[t], block[t], aux[t]) /\ Mine(t) = At(seen[t])
      /\ CallOK(pc[t], call[t]) /\ DOMAIN pc = Threads /\ DOMAIN call = Threads
      /\ seen \in [Threads -> Nat] /\ block \in [Threads -> Nat] /\ aux \in [Threads -> Nat]
      /\ seen[t] \in Nat /\ block[t] \in Nat /\ aux[t] \in Nat /\ tail.index \in Nat /\ tail.block \in Nat
      /\ Back = At(tail.index) /\ Back \in Nat
  BY Numbers DEF ThreadsInv, Mine, TypeOK, Back
<1>2. CASE PushIndex(t) \/ (pc[t] = "take" /\ See(t, tail.index) /\ Goto(t, "pushblock") /\ UNCHANGED <<shared, call, block, aux>>)
  <2>1. pc[t] \in {"push", "take"} /\ Moves(t, "pushblock", call[t], tail.index, block[t], aux[t]) /\ UNCHANGED shared
    BY <1>1, <1>2 DEF PushIndex, Moves
  <2>2. CallOK("pushblock", call[t])
    BY <1>1, <2>1 DEF CallOK, Filling, Pushing, Popping, Freeing
  <2>3. Knows("pushblock", call[t], tail.index, block[t], aux[t])
    BY <1>1 DEF Knows, PushKnows, Filling, Pushing, Emptying, Popping, Freeing
  <2>4. SameRole(t, "pushblock", tail.index, block[t])
    BY <2>1, Roleless DEF Filling, Pushing, Emptying, Popping, Freeing
  <2> QED BY <1>1, <2>1, <2>2, <2>3, <2>4, LocalStep
<1>3. CASE pc[t] = "first" /\ tail.block # 0 /\ Goto(t, "push") /\ UNCHANGED <<shared, block, call, seen, aux>>
  <2>1. Moves(t, "push", call[t], seen[t], block[t], aux[t]) /\ UNCHANGED shared
    BY <1>1, <1>3 DEF Moves
  <2>2. CallOK("push", call[t])
    BY <1>1, <1>3 DEF CallOK, Filling, Pushing, Popping, Freeing
  <2>3. Knows("push", call[t], seen[t], block[t], aux[t])
    BY DEF Knows, Filling, Pushing, Emptying, Popping, Freeing
  <2>4. SameRole(t, "push", seen[t], block[t])
    BY <1>3, Roleless DEF Filling, Pushing, Emptying, Popping, Freeing
  <2> QED BY <1>1, <2>1, <2>2, <2>3, <2>4, LocalStep
<1>4. CASE PushBlock(t)
  <2>1. PICK l, c :
          /\ Moves(t, l, c, seen[t], tail.block, aux[t]) /\ UNCHANGED shared /\ pc[t] = "pushblock"
          /\ \/ l = "return" /\ c = Q!Ask("closed")
             \/ l = "push" /\ c = call[t]
             \/ l \in {"first", "take"} /\ c = call[t] /\ ~Marked(seen[t]) /\ Offset(seen[t]) # BlockCap
                /\ (l = "take" => tail.block # 0)
    BY <1>1, <1>4 DEF PushBlock, Moves
  <2>2. CallOK(l, c)
    BY <1>1, <2>1 DEF CallOK, Filling, Pushing, Popping, Freeing, Q!Answers, Q!Ask, Q!Said
  <2>3. SameRole(t, l, seen[t], tail.block)
    BY <2>1, Roleless DEF Filling, Pushing, Emptying, Popping, Freeing
  <2>4. ASSUME l \in {"first", "take"} PROVE PushKnows(l, seen[t], Mine(t), tail.block)
    <3>1. Mine(t) <= Back
      BY <1>1, <2>1 DEF Knows, PushKnows
    <3>2. HasSlot(Mine(t))
      BY <1>1, <2>1, <2>4, Numbers, PlaceFacts DEF Offset, Off
    <3>3. l = "take" => Len(blocks) # 0 /\ (Mine(t) = Back => tail.block = BlockOf(Mine(t)))
      BY <2>1, <3>2, EndBlocks DEF TailInv
    <3> QED BY <2>1, <2>4, <3>1, <3>2, <3>3 DEF PushKnows
  <2>5. Knows(l, c, seen[t], tail.block, aux[t])
    BY <1>1, <2>1, <2>4 DEF Knows, Filling, Pushing, Emptying, Popping, Freeing
  <2> QED BY <1>1, <2>1, <2>2, <2>3, <2>5, LocalStep
<1> QED BY <1>2, <1>3, <1>4

\* The loads of pop and its failed exchanges.
LEMMA PopLooks ==
    ASSUME TypeOK, Live, lap' = lap, NEW t \in Threads,
           \/ PopIndex(t) \/ PopBlock(t) \/ PopTail(t) \/ PopWaitNext(t) \/ PopNextNext(t)
           \/ pc[t] = "poptake" /\ See(t, head.index) /\ Goto(t, "popblock") /\ UNCHANGED <<shared, call, block, aux>>
    PROVE  TypeOK' /\ Live'
<1> USE DEF Live, Goto, Answer, See, Load, SetAux
<1>1. /\ Knows(pc[t], call[t], seen[t], block[t], aux[t]) /\ Mine(t) = At(seen[t])
      /\ CallOK(pc[t], call[t]) /\ DOMAIN pc = Threads /\ DOMAIN call = Threads
      /\ seen \in [Threads -> Nat] /\ block \in [Threads -> Nat] /\ aux \in [Threads -> Nat]
      /\ seen[t] \in Nat /\ block[t] \in Nat /\ aux[t] \in Nat /\ head.index \in Nat /\ head.block \in Nat
      /\ Back = At(tail.index) /\ Back \in Nat /\ Front = At(head.index) /\ Front \in Nat /\ Front <= Back
      /\ Mine(t) \in Nat /\ At(aux[t]) \in Nat
  BY Numbers DEF ThreadsInv, Mine, TypeOK, Back, Front
<1>2. CASE PopIndex(t) \/ (pc[t] = "poptake" /\ See(t, head.index) /\ Goto(t, "popblock") /\ UNCHANGED <<shared, call, block, aux>>)
  <2>1. pc[t] \in {"pop", "poptake"} /\ Moves(t, "popblock", call[t], head.index, block[t], aux[t]) /\ UNCHANGED shared
    BY <1>1, <1>2 DEF PopIndex, Moves
  <2>2. CallOK("popblock", call[t])
    BY <1>1, <2>1 DEF CallOK, Filling, Pushing, Popping, Freeing
  <2>3. Knows("popblock", call[t], head.index, block[t], aux[t])
    BY <1>1 DEF Knows, PopKnows, Filling, Pushing, Emptying, Popping, Freeing, HeadInv
  <2>4. SameRole(t, "popblock", head.index, block[t])
    BY <2>1, Roleless DEF Filling, Pushing, Emptying, Popping, Freeing
  <2> QED BY <1>1, <2>1, <2>2, <2>3, <2>4, LocalStep
<1>3. CASE PopBlock(t)
  <2>1. PICK l \in {"pop", "poptail", "poptake"} :
          /\ Moves(t, l, call[t], seen[t], head.block, seen[t] + 2) /\ UNCHANGED shared /\ pc[t] = "popblock"
          /\ l \in {"poptail", "poptake"} => Offset(seen[t]) # BlockCap
          /\ l = "poptail" => ~Marked(seen[t])
          /\ l = "poptake" => Marked(seen[t]) /\ head.block # 0
    BY <1>1, <1>3 DEF PopBlock, Moves
  <2>2. CallOK(l, call[t])
    BY <1>1, <2>1 DEF CallOK, Filling, Pushing, Popping, Freeing
  <2>3. SameRole(t, l, seen[t], head.block)
    BY <2>1, Roleless DEF Filling, Pushing, Emptying, Popping, Freeing
  <2>4. ASSUME l \in {"poptail", "poptake"} PROVE PopKnows(l, seen[t], Mine(t), head.block, seen[t] + 2)
    <3>1. Mine(t) <= Front /\ (Marked(seen[t]) => BlockOf(Mine(t)) < BlockOf(Back))
      BY <1>1, <2>1 DEF Knows, PopKnows
    <3>2. HasSlot(Mine(t))
      BY <1>1, <2>1, <2>4, Numbers, PlaceFacts DEF Offset, Off
    <3>3. head.block # 0 => (Mine(t) = Front => head.block = BlockOf(Mine(t)))
      BY <3>2, EndBlocks
    <3>4. At(seen[t] + 2) = Mine(t) + 1
      BY <1>1, WordFacts
    <3>5. l = "poptake" => Mine(t) < Back
      <4>1. BlockOf(Mine(t)) \in Nat /\ BlockOf(Back) \in Nat /\ (Mine(t) = Back => BlockOf(Mine(t)) = BlockOf(Back))
        BY <1>1, Numbers, BlocksExist
      <4> QED BY <1>1, <2>1, <3>1, <4>1
    <3> QED BY <2>1, <2>4, <3>1, <3>2, <3>3, <3>4, <3>5 DEF PopKnows
  <2>5. Knows(l, call[t], seen[t], head.block, seen[t] + 2)
    BY <1>1, <2>1, <2>4 DEF Knows, Filling, Pushing, Emptying, Popping, Freeing
  <2>6. seen[t] + 2 \in Nat
    BY <1>1
  <2> QED BY <1>1, <2>1, <2>2, <2>3, <2>5, <2>6, LocalStep
<1>4. CASE PopTail(t)
  <2>1. PICK l, c, a :
          /\ Moves(t, l, c, seen[t], block[t], a) /\ UNCHANGED shared /\ pc[t] = "poptail"
          /\ \/ l = "return" /\ c \in {Q!Ask("closed"), Q!Ask("empty")} /\ a = aux[t]
             \/ /\ l \in {"pop", "poptake"} /\ c = call[t] /\ (l = "poptake" => block[t] # 0)
                /\ At(seen[t]) # At(tail.index)
                /\ a = IF LapOf(seen[t]) # LapOf(tail.index) THEN Mark(aux[t]) ELSE aux[t]
    <3>1. CASE At(seen[t]) = At(tail.index) /\ PopTail(t)
      <4>1. Moves(t, "return", Q!Ask(IF Marked(tail.index) THEN "closed" ELSE "empty"), seen[t], block[t], aux[t]) /\ UNCHANGED shared /\ pc[t] = "poptail"
        BY <1>1, <3>1 DEF PopTail, Moves
      <4> QED BY <4>1
    <3>2. CASE At(seen[t]) # At(tail.index) /\ PopTail(t)
      <4>1. Moves(t, IF block[t] = 0 THEN "pop" ELSE "poptake", call[t], seen[t], block[t],
                  IF LapOf(seen[t]) # LapOf(tail.index) THEN Mark(aux[t]) ELSE aux[t]) /\ UNCHANGED shared /\ pc[t] = "poptail"
        BY <1>1, <3>2 DEF PopTail, Moves
      <4> QED BY <3>2, <4>1
    <3> QED BY <1>4, <3>1, <3>2
  <2>2. CallOK(l, c)
    BY <1>1, <2>1 DEF CallOK, Filling, Pushing, Popping, Freeing, Q!Answers, Q!Ask, Q!Said
  <2>3. SameRole(t, l, seen[t], block[t])
    BY <2>1, Roleless DEF Filling, Pushing, Emptying, Popping, Freeing
  <2>4. a \in Nat /\ At(a) = At(aux[t])
    BY <1>1, <2>1, WordFacts
  <2>5. ASSUME l = "poptake" PROVE PopKnows(l, seen[t], Mine(t), block[t], a)
    <3>1. PopKnows("poptail", seen[t], Mine(t), block[t], aux[t])
      BY <1>1, <2>1 DEF Knows
    <3>2. Mine(t) < Back /\ At(a) = Mine(t) + 1 /\ ~Marked(aux[t])
      <4>1. Mine(t) <= Front /\ HasSlot(Mine(t)) /\ aux[t] = seen[t] + 2 /\ ~Marked(seen[t]) /\ Mine(t) # Back
        BY <1>1, <2>1, <2>5, <3>1 DEF PopKnows
      <4>2. At(aux[t]) = Mine(t) + 1 /\ ~Marked(aux[t])
        BY <1>1, <4>1, WordFacts
      <4> QED BY <1>1, <2>4, <4>1, <4>2
    <3>3. Marked(a) => BlockOf(Mine(t)) < BlockOf(Back)
      <4>1. BlockOf(Mine(t)) <= BlockOf(Back) /\ BlockOf(Mine(t)) \in Nat /\ BlockOf(Back) \in Nat
        BY <1>1, <3>2, BlocksExist, Numbers
      <4>2. Marked(a) => BlockOf(Mine(t)) # BlockOf(Back)
        <5>1. LapOf(seen[t]) + 1 = BlockOf(Mine(t)) /\ LapOf(tail.index) + 1 = BlockOf(Back)
          BY <1>1 DEF LapOf, BlockOf
        <5>2. LapOf(seen[t]) \in Nat /\ LapOf(tail.index) \in Nat
          <6>1. lap \in Nat /\ lap > 0 /\ At(seen[t]) \in Nat /\ At(tail.index) \in Nat
            BY <1>1, Numbers
          <6> QED BY <6>1, Lemmas!Euclid DEF LapOf
        <5> QED BY <2>1, <2>5, <3>2, <5>1, <5>2
      <4> QED BY <4>1, <4>2
    <3> QED BY <2>1, <2>5, <3>1, <3>2, <3>3 DEF PopKnows
  <2>6. Knows(l, c, seen[t], block[t], a)
    BY <1>1, <2>1, <2>5 DEF Knows, Filling, Pushing, Emptying, Popping, Freeing
  <2> QED BY <1>1, <2>1, <2>2, <2>3, <2>4, <2>6, LocalStep
<1>5. ASSUME pc[t] \in {"waitnext", "nextnext"}
      PROVE  /\ EmptyKnows(pc[t], Mine(t), block[t], aux[t]) /\ block[t] \in DOMAIN blocks
             /\ \A l \in {"nextnext", "headblock"} : SameRole(t, l, seen[t], block[t]) /\ CallOK(l, call[t])
  <2>1. EmptyKnows(pc[t], Mine(t), block[t], aux[t])
    BY <1>1, <1>5 DEF Knows, Emptying, Popping
  <2>2. block[t] \in DOMAIN blocks
    BY <1>1, <2>1, BlocksExist DEF EmptyKnows
  <2>3. \A l \in {"nextnext", "headblock"} : SameRole(t, l, seen[t], block[t])
    BY <1>1, <1>5 DEF SameRole, Linking, Filling, Pushing, Emptying, Popping, Freeing, Advancing
  <2>4. \A l \in {"nextnext", "headblock"} : CallOK(l, call[t])
    BY <1>1, <1>5 DEF CallOK, Filling, Pushing, Popping, Freeing
  <2> QED BY <2>1, <2>2, <2>3, <2>4
<1>6. CASE PopWaitNext(t)
  <2>1. Moves(t, "nextnext", call[t], seen[t], block[t], Unmark(aux[t]) + 2) /\ UNCHANGED shared /\ pc[t] = "waitnext" /\ NextOf(t) # 0
    BY <1>1, <1>6 DEF PopWaitNext, Moves
  <2>2. EmptyKnows("waitnext", Mine(t), block[t], aux[t]) /\ block[t] \in DOMAIN blocks
    BY <1>5, <2>1
  <2>3. Unmark(aux[t]) + 2 = 2 * (Mine(t) + 2)
    BY <1>1, <2>2, WordFacts DEF EmptyKnows, Advancing
  <2>4. blocks[block[t]].next = block[t] + 1 /\ block[t] < BlockOf(Back)
    BY <2>1, <2>2, LinkedBlocks DEF NextOf
  <2>5. EmptyKnows("nextnext", Mine(t), block[t], Unmark(aux[t]) + 2)
    BY <2>2, <2>3, <2>4 DEF EmptyKnows, Advancing
  <2>6. Knows("nextnext", call[t], seen[t], block[t], Unmark(aux[t]) + 2)
    BY <1>1, <2>5 DEF Knows, Filling, Pushing, Freeing
  <2>7. Unmark(aux[t]) + 2 \in Nat
    BY <1>1, <2>3
  <2> QED BY <1>1, <1>5, <2>1, <2>6, <2>7, LocalStep
<1>7. CASE PopNextNext(t)
  <2>1. PICK a : /\ Moves(t, "headblock", call[t], seen[t], block[t], a) /\ UNCHANGED shared /\ pc[t] = "nextnext"
                 /\ a = IF blocks[NextOf(t)].next # 0 THEN Mark(aux[t]) ELSE aux[t]
    <3>1. Moves(t, "headblock", call[t], seen[t], block[t], IF blocks[NextOf(t)].next # 0 THEN Mark(aux[t]) ELSE aux[t])
          /\ UNCHANGED shared /\ pc[t] = "nextnext"
      BY <1>1, <1>7 DEF PopNextNext, Moves
    <3> QED BY <3>1
  <2>2. EmptyKnows("nextnext", Mine(t), block[t], aux[t]) /\ block[t] \in DOMAIN blocks
    BY <1>5, <2>1
  <2>3. blocks[block[t]].next = block[t] + 1 /\ block[t] + 1 \in DOMAIN blocks
    <3>1. blocks[block[t]].next = block[t] + 1 /\ blocks[block[t]].next # 0
      BY <1>1, <2>2 DEF EmptyKnows
    <3> QED BY <2>2, <3>1, LinkedBlocks
  <2>4. a \in Nat /\ At(a) = Mine(t) + 2 /\ (Marked(a) => blocks[block[t] + 1].next # 0)
    <3>1. aux[t] = 2 * (Mine(t) + 2)
      BY <2>2 DEF EmptyKnows
    <3>2. At(aux[t]) = Mine(t) + 2 /\ ~Marked(aux[t])
      <4>1. Mine(t) + 2 \in Nat
        BY <1>1
      <4> QED BY <3>1, <4>1, WordOf
    <3> QED BY <1>1, <2>1, <2>3, <3>2, WordFacts DEF NextOf
  <2>5. Marked(a) => block[t] + 1 < BlockOf(Back)
    BY <2>3, <2>4, LinkedBlocks
  <2>6. EmptyKnows("headblock", Mine(t), block[t], a)
    BY <2>2, <2>4, <2>5 DEF EmptyKnows, Advancing
  <2>7. Knows("headblock", call[t], seen[t], block[t], a)
    BY <1>1, <2>6 DEF Knows, Filling, Pushing, Freeing
  <2> QED BY <1>1, <1>5, <2>1, <2>4, <2>7, LocalStep
<1> QED BY <1>2, <1>3, <1>4, <1>6, <1>7

\* len, a call and a return change nothing shared either.
LEMMA CallsAndLens ==
    ASSUME TypeOK, Live, lap' = lap, NEW t \in Threads,
           Call(t) \/ Return(t) \/ LenTail(t) \/ LenHead(t) \/ LenAgain(t)
    PROVE  TypeOK' /\ Live'
<1> USE DEF Live, Goto, Answer, See, Load, SetAux
<1>1. /\ Knows(pc[t], call[t], seen[t], block[t], aux[t]) /\ Mine(t) = At(seen[t])
      /\ CallOK(pc[t], call[t]) /\ DOMAIN pc = Threads /\ DOMAIN call = Threads
      /\ seen \in [Threads -> Nat] /\ block \in [Threads -> Nat] /\ aux \in [Threads -> Nat]
      /\ seen[t] \in Nat /\ block[t] \in Nat /\ aux[t] \in Nat /\ head.index \in Nat /\ tail.index \in Nat
      /\ Back = At(tail.index) /\ Back \in Nat /\ Front = At(head.index) /\ Front \in Nat /\ Front <= Back
  BY Numbers DEF ThreadsInv, Mine, TypeOK, Back, Front
<1>2. CASE Call(t)
  <2>1. PICK q \in Q!Questions : Moves(t, q.op, q, seen[t], block[t], aux[t]) /\ UNCHANGED shared /\ pc[t] = "idle"
    BY <1>1, <1>2 DEF Call, Moves, locals
  <2>2. q.op \in {"push", "pop", "close", "len"} /\ CallOK(q.op, q)
    BY <2>1 DEF CallOK, Q!Questions, Q!Ask, Q!AskPush, Q!Said, Filling, Pushing, Popping, Freeing
  <2>3. Knows(q.op, q, seen[t], block[t], aux[t]) /\ SameRole(t, q.op, seen[t], block[t])
    BY <2>1, <2>2, Roleless DEF Knows, Filling, Pushing, Emptying, Popping, Freeing
  <2> QED BY <1>1, <2>1, <2>2, <2>3, LocalStep
<1>3. CASE Return(t)
  <2>1. Moves(t, "idle", Q!Idle, 0, 0, 0) /\ UNCHANGED shared /\ pc[t] = "return"
    BY <1>1, <1>3 DEF Return, Moves
  <2>2. Knows("idle", Q!Idle, 0, 0, 0) /\ SameRole(t, "idle", 0, 0) /\ CallOK("idle", Q!Idle)
    BY <2>1, Roleless DEF Knows, CallOK, Filling, Pushing, Emptying, Popping, Freeing
  <2>3. 0 \in Nat
    OBVIOUS
  <2> QED BY <1>1, <2>1, <2>2, <2>3, LocalStep
<1>4. CASE LenTail(t)
  <2>1. Moves(t, "lenhead", call[t], tail.index, block[t], aux[t]) /\ UNCHANGED shared /\ pc[t] = "len"
    BY <1>1, <1>4 DEF LenTail, Moves
  <2>2. CallOK("lenhead", call[t]) /\ SameRole(t, "lenhead", tail.index, block[t])
    BY <1>1, <2>1, Roleless DEF CallOK, Filling, Pushing, Emptying, Popping, Freeing
  <2>3. Knows("lenhead", call[t], tail.index, block[t], aux[t])
    BY <1>1 DEF Knows, LenKnows, Filling, Pushing, Emptying, Popping, Freeing
  <2> QED BY <1>1, <2>1, <2>2, <2>3, LocalStep
<1>5. CASE LenHead(t)
  <2> DEFINE k == Rank(Back) - Rank(Front)
  <2>1. k \in Nat /\ Len(Items) = k
    <3>1. k \in Nat
      <4>1. lap \in Nat /\ lap >= 2
        BY Numbers
      <4>2. Rank(Front) \in Nat /\ Rank(Back) \in Nat
        BY <1>1, <4>1, RankFacts
      <4>3. Rank(Front) <= Rank(Back)
        BY <1>1, <4>1, RankOrder
      <4> QED BY <4>2, <4>3
    <3>2. Items = [i \in 1 .. k |-> ValueAt(SlotAt(Rank(At(head.index)) + i - 1))]
      BY DEF Items, Back, Front
    <3> HIDE DEF k
    <3> QED BY <3>1, <3>2
  <2>2. Moves(t, "lenagain", Q!Looked(k), seen[t], block[t], head.index) /\ UNCHANGED shared /\ pc[t] = "lenhead"
    BY <1>1, <1>5, <2>1 DEF LenHead, Moves
  <2>3. CallOK("lenagain", Q!Looked(k)) /\ SameRole(t, "lenagain", seen[t], block[t])
    BY <2>1, <2>2, Roleless DEF CallOK, Filling, Pushing, Emptying, Popping, Freeing, Q!Looked, Q!Said
  <2>4. LenKnows("lenagain", Q!Looked(k), Mine(t), head.index)
    <3>1. Mine(t) <= Back
      BY <1>1, <2>2 DEF Knows, LenKnows
    <3> QED BY <1>1, <3>1 DEF LenKnows, Q!Looked, Q!Said
  <2>5. Knows("lenagain", Q!Looked(k), seen[t], block[t], head.index)
    BY <1>1, <2>4 DEF Knows, Filling, Pushing, Emptying, Popping, Freeing
  <2> HIDE DEF k
  <2> QED BY <1>1, <2>2, <2>3, <2>5, LocalStep
<1>6. CASE LenAgain(t)
  <2>1. PICK l, c : /\ Moves(t, l, c, seen[t], block[t], aux[t]) /\ UNCHANGED shared /\ pc[t] = "lenagain"
                    /\ \/ l = "len" /\ c = call[t]
                       \/ l = "return" /\ c = Q!Length(LenOf(seen[t], aux[t]))
    BY <1>1, <1>6 DEF LenAgain, Moves, locals
  <2>2. CallOK(l, c) /\ SameRole(t, l, seen[t], block[t])
    BY <1>1, <2>1, Roleless DEF CallOK, Filling, Pushing, Emptying, Popping, Freeing, Q!Length, Q!Said, Q!Answers
  <2>3. Knows(l, c, seen[t], block[t], aux[t])
    BY <2>1 DEF Knows, Filling, Pushing, Emptying, Popping, Freeing
  <2> QED BY <1>1, <2>1, <2>2, <2>3, LocalStep
<1> QED BY <1>2, <1>3, <1>4, <1>5, <1>6

\* destroy finds a slot read, and goes on, or not, and will ask it.
LEMMA DestroyLooks ==
    ASSUME TypeOK, Live, lap' = lap, NEW t \in Threads, Destroy(t), aux[t] # BlockCap - 1
    PROVE  TypeOK' /\ Live'
<1> USE DEF Live, Goto, SetAux
<1>1. /\ Knows(pc[t], call[t], seen[t], block[t], aux[t]) /\ Mine(t) = At(seen[t])
      /\ CallOK(pc[t], call[t]) /\ DOMAIN pc = Threads /\ DOMAIN call = Threads
      /\ seen \in [Threads -> Nat] /\ block \in [Threads -> Nat] /\ aux \in [Threads -> Nat]
      /\ seen[t] \in Nat /\ block[t] \in Nat /\ aux[t] \in Nat /\ BlockCap \in Nat
  BY Numbers, PlaceFacts DEF ThreadsInv, Mine, TypeOK
<1>2. PICK l, a : /\ Moves(t, l, call[t], seen[t], block[t], a) /\ UNCHANGED shared /\ pc[t] = "destroy"
                  /\ \/ l = "destroy" /\ a = aux[t] + 1 /\ blocks[block[t]].slots[aux[t]].read
                     \/ l = "handover" /\ a = aux[t]
  <2>1. pc[t] = "destroy" /\ UNCHANGED shared /\ UNCHANGED <<call, seen, block>>
    BY DEF Destroy, shared
  <2>2. CASE blocks[block[t]].slots[aux[t]].read
    <3>1. Moves(t, "destroy", call[t], seen[t], block[t], aux[t] + 1)
      BY <1>1, <2>1, <2>2 DEF Destroy, Moves
    <3> QED BY <2>1, <2>2, <3>1
  <2>3. CASE ~blocks[block[t]].slots[aux[t]].read
    <3>1. Moves(t, "handover", call[t], seen[t], block[t], aux[t])
      BY <1>1, <2>1, <2>3 DEF Destroy, Moves
    <3> QED BY <2>1, <3>1
  <2> QED BY <2>2, <2>3
<1>3. FreeKnows("destroy", block[t], aux[t])
  BY <1>1, <1>2 DEF Knows, Freeing
<1>4. aux[t] + 1 < BlockCap
  BY <1>1, <1>3 DEF FreeKnows
<1>5. FreeKnows(l, block[t], a) /\ a \in Nat
  BY SMTT(60), <1>1, <1>2, <1>3, <1>4 DEF FreeKnows, GotTo
<1>6. Knows(l, call[t], seen[t], block[t], a)
  BY <1>2, <1>5 DEF Knows, Filling, Pushing, Emptying, Popping, Freeing
<1>7. CallOK(l, call[t]) /\ SameRole(t, l, seen[t], block[t])
  BY <1>1, <1>2 DEF CallOK, SameRole, Linking, Filling, Pushing, Emptying, Popping, Freeing, Advancing
<1> QED BY <1>1, <1>2, <1>5, <1>6, <1>7, LocalStep

-----------------------------------------------------------------------------
(* Steps that change one slot                                              *)

\* A function on the first numbers is a sequence.
LEMMA SeqOf == ASSUME NEW S, NEW n \in Nat, NEW f \in [1 .. n -> S] PROVE f \in Seq(S)
  OBVIOUS

\* The blocks after a slot has changed.
SlotBecomes(d, j, s) == blocks' = [blocks EXCEPT ![d].slots[j] = s]
\* One slot is changed, and nothing else of the blocks.
LEMMA SlotUpdate ==
    ASSUME TypeOK, NEW d \in DOMAIN blocks, NEW j \in Offsets, NEW s \in Slot,
           SlotBecomes(d, j, s)
    PROVE  /\ blocks' \in Seq(Block) /\ Len(blocks') = Len(blocks) /\ DOMAIN blocks' = DOMAIN blocks
           /\ \A e \in DOMAIN blocks : blocks'[e].next = blocks[e].next /\ blocks'[e].frees = blocks[e].frees
           /\ \A e \in DOMAIN blocks : \A i \in Offsets :
                 blocks'[e].slots[i] = IF e = d /\ i = j THEN s ELSE blocks[e].slots[i]
<1> USE DEF SlotBecomes
<1>1. blocks \in Seq(Block) /\ \A e \in DOMAIN blocks : blocks[e] \in Block
  BY DEF TypeOK
<1>2. ASSUME NEW e \in DOMAIN blocks
      PROVE  /\ blocks'[e] \in Block /\ blocks'[e].next = blocks[e].next /\ blocks'[e].frees = blocks[e].frees
             /\ \A i \in Offsets : blocks'[e].slots[i] = IF e = d /\ i = j THEN s ELSE blocks[e].slots[i]
  <2>1. CASE e = d
    <3>1. blocks'[d] = [blocks[d] EXCEPT !.slots = [@ EXCEPT ![j] = s]]
      BY <1>1
    <3> QED BY <1>1, <2>1, <3>1 DEF Block
  <2>2. CASE e # d
    BY <1>1, <2>2
  <2> QED BY <2>1, <2>2
<1>3. Len(blocks') = Len(blocks) /\ DOMAIN blocks' = DOMAIN blocks
  BY <1>1
<1>4. blocks' \in Seq(Block)
  <2>1. Len(blocks) \in Nat /\ DOMAIN blocks = 1 .. Len(blocks)
    BY <1>1
  <2>2. blocks' \in [DOMAIN blocks -> Block]
    <3>1. blocks' = [e \in DOMAIN blocks |-> IF e = d THEN [blocks[d] EXCEPT !.slots[j] = s] ELSE blocks[e]]
      BY <1>1
    <3>2. \A e \in DOMAIN blocks : blocks'[e] \in Block
      BY <1>2
    <3> QED BY <3>1, <3>2
  <2>3. blocks' \in [1 .. Len(blocks) -> Block]
    BY <2>1, <2>2
  <2> QED BY <2>1, <2>3, SeqOf, Zenon
<1> QED BY <1>2, <1>3, <1>4

\* The slot that a thread fills or empties.
LEMMA MyPlace ==
    ASSUME TypeOK, TailInv, ThreadsInv, NEW u \in Threads, pc[u] \in Filling \cup Emptying
    PROVE  /\ Mine(u) \in Nat /\ Mine(u) < Back /\ HasSlot(Mine(u)) /\ Off(Mine(u)) \in Offsets
           /\ block[u] = BlockOf(Mine(u)) /\ block[u] \in DOMAIN blocks /\ Offset(seen[u]) = Off(Mine(u))
           /\ Cell(Mine(u)) = blocks[block[u]].slots[Offset(seen[u])] /\ Cell(Mine(u)) \in Slot /\ ~Cell(Mine(u)).read
           /\ IsLast(u) <=> LastSlot(Mine(u))
           /\ pc[u] \in Filling => FillKnows(pc[u], call[u], Mine(u), block[u]) /\ ~Cell(Mine(u)).written
           /\ pc[u] \in Emptying => EmptyKnows(pc[u], Mine(u), block[u], aux[u]) /\ Mine(u) < Front
<1>1. Knows(pc[u], call[u], seen[u], block[u], aux[u]) /\ Mine(u) = At(seen[u]) /\ Mine(u) \in Nat
  BY Numbers DEF ThreadsInv, Mine
<1>2. pc[u] \in Filling => FillKnows(pc[u], call[u], Mine(u), block[u])
  BY <1>1 DEF Knows
<1>3. pc[u] \in Emptying => EmptyKnows(pc[u], Mine(u), block[u], aux[u])
  BY <1>1 DEF Knows
<1>4. Mine(u) < Back /\ HasSlot(Mine(u)) /\ block[u] = BlockOf(Mine(u)) /\ ~Cell(Mine(u)).read
  BY <1>1, <1>2, <1>3, Numbers DEF FillKnows, EmptyKnows
<1>5. Off(Mine(u)) \in Offsets /\ block[u] \in DOMAIN blocks
  BY <1>1, <1>4, Numbers, PlaceFacts, BlocksExist
<1>6. Offset(seen[u]) = Off(Mine(u)) /\ (IsLast(u) <=> LastSlot(Mine(u)))
  BY DEF Offset, Off, Mine, IsLast, LastSlot
<1>7. Cell(Mine(u)) = blocks[block[u]].slots[Offset(seen[u])]
  BY <1>4, <1>6 DEF Cell
<1>8. Cell(Mine(u)) \in Slot
  <2>1. blocks[block[u]] \in Block
    BY <1>5 DEF TypeOK
  <2> QED BY <1>5, <1>6, <1>7, <2>1 DEF Block
<1>9. (pc[u] \in Filling => ~Cell(Mine(u)).written) /\ (pc[u] \in Emptying => Mine(u) < Front)
  BY <1>2, <1>3 DEF FillKnows, EmptyKnows
<1> QED BY <1>1, <1>2, <1>3, <1>4, <1>5, <1>6, <1>7, <1>8, <1>9

\* Two threads at the same place of a block are at the same position.
LEMMA PlacesDiffer ==
    ASSUME TypeOK, TailInv, ThreadsInv, NEW u \in Threads, pc[u] \in Filling \cup Emptying,
           NEW n \in Nat, BlockOf(n) = block[u], Off(n) = Offset(seen[u])
    PROVE  n = Mine(u)
BY Numbers, MyPlace, SamePlace

\* The ends and the links are not concerned by a step of a thread that neither
\* links nor advances.
LEMMA EndsKept ==
    ASSUME TypeOK, TailInv, HeadInv, LinksInv, NEW t \in Threads, NEW l, NEW c, NEW w, NEW b, NEW a, Moves(t, l, c, w, b, a),
           {l, pc[t]} \cap (Linking \cup {"setnext", "firsthead"} \cup Advancing) = {},
           lap' = lap, head' = head, tail' = tail, Len(blocks') = Len(blocks), blocks' \in Seq(Block),
           \A d \in DOMAIN blocks : blocks'[d].next = blocks[d].next
    PROVE  TailInv' /\ HeadInv' /\ LinksInv' /\ Front' = Front /\ Back' = Back
<1>0. /\ pc'[t] = l /\ block'[t] = b
      /\ \A u \in Threads : u # t => pc'[u] = pc[u] /\ block'[u] = block[u]
  BY MovesFacts
<1>a. {l, pc[t]} \cap {"setindex", "setblock", "setnext", "firsthead", "headindex"} = {} /\ {l, pc[t]} \cap Advancing = {} /\ {l, pc[t]} \cap Linking = {}
  BY DEF Linking, Advancing
<1>1. /\ SomeAt("setindex")' <=> SomeAt("setindex")
      /\ SomeAt("firsthead")' <=> SomeAt("firsthead")
      /\ SomeAt("headindex")' <=> SomeAt("headindex")
      /\ (\E u \in Threads : pc'[u] \in Linking) <=> \E u \in Threads : pc[u] \in Linking
      /\ (\E u \in Threads : pc'[u] \in Advancing) <=> \E u \in Threads : pc[u] \in Advancing
      /\ \A d : (\E u \in Threads : pc'[u] \in {"setindex", "setnext"} /\ block'[u] = d)
                      <=> \E u \in Threads : pc[u] \in {"setindex", "setnext"} /\ block[u] = d
  BY <1>0, <1>a DEF SomeAt
<1>2. Front' = Front /\ Back' = Back
  BY DEF Front, Back
<1>3. BlockOf(Front)' = BlockOf(Front) /\ BlockOf(Back)' = BlockOf(Back) /\ (HasSlot(Front)' <=> HasSlot(Front)) /\ (HasSlot(Back)' <=> HasSlot(Back))
  BY <1>2 DEF BlockOf, HasSlot, Off, BlockCap
<1>4. DOMAIN blocks' = DOMAIN blocks
  BY DEF TypeOK
<1> HIDE DEF SomeAt
<1>5. TailInv'
  BY <1>1, <1>2, <1>3 DEF TailInv
<1>6. HeadInv'
  BY <1>1, <1>2, <1>3 DEF HeadInv
<1>7. LinksInv'
  BY <1>1, <1>4 DEF LinksInv
<1> QED BY <1>2, <1>5, <1>6, <1>7

\* A step of a thread that sets the slot d, j, and is neither linking nor advancing.
SetsSlot(t, l, c, b, a, d, j, s) ==
    /\ Moves(t, l, c, seen[t], b, a) /\ b = block[t]
    /\ {l, pc[t]} \cap (Linking \cup {"setnext", "firsthead"} \cup Advancing) = {}
    /\ lap' = lap /\ head' = head /\ tail' = tail
    /\ d \in DOMAIN blocks /\ j \in Offsets /\ s \in Slot
    /\ SlotBecomes(d, j, s)

\* Such a step leaves both ends and the links alone, and one cell is changed.
LEMMA SlotStep ==
    ASSUME TypeOK, Live, NEW t \in Threads, NEW l, NEW c, NEW b, NEW a \in Nat, NEW d, NEW j, NEW s,
           SetsSlot(t, l, c, b, a, d, j, s), CallOK(l, c)
    PROVE  /\ TypeOK' /\ TailInv' /\ HeadInv' /\ LinksInv' /\ Front' = Front /\ Back' = Back
           /\ Front \in Nat /\ Back \in Nat /\ Front <= Back
           /\ blocks' \in Seq(Block) /\ Len(blocks') = Len(blocks) /\ Len(blocks) \in Nat /\ DOMAIN blocks' = DOMAIN blocks /\ DOMAIN blocks = 1 .. Len(blocks)
           /\ \A e \in DOMAIN blocks : blocks'[e].next = blocks[e].next /\ blocks'[e].frees = blocks[e].frees
           /\ \A e \in DOMAIN blocks : \A i \in Offsets :
                 blocks'[e].slots[i] = IF e = d /\ i = j THEN s ELSE blocks[e].slots[i]
           /\ \A n \in Nat : BlockOf(n) \in DOMAIN blocks /\ HasSlot(n) =>
                 Cell(n)' = IF BlockOf(n) = d /\ Off(n) = j THEN s ELSE Cell(n)
           /\ BlockOf(Front)' = BlockOf(Front) /\ BlockOf(Back)' = BlockOf(Back) /\ Positions' = Positions
<1>1. /\ blocks' \in Seq(Block) /\ Len(blocks') = Len(blocks) /\ DOMAIN blocks' = DOMAIN blocks
      /\ \A e \in DOMAIN blocks : blocks'[e].next = blocks[e].next /\ blocks'[e].frees = blocks[e].frees
      /\ \A e \in DOMAIN blocks : \A i \in Offsets :
                 blocks'[e].slots[i] = IF e = d /\ i = j THEN s ELSE blocks[e].slots[i]
  <2>1. d \in DOMAIN blocks /\ j \in Offsets /\ s \in Slot /\ SlotBecomes(d, j, s)
    BY DEF SetsSlot
  <2> QED BY <2>1, SlotUpdate
<1>2. seen[t] \in Nat /\ b \in Nat /\ lap' = lap /\ TailInv /\ HeadInv /\ LinksInv
  BY DEF TypeOK, SetsSlot, Live
<1>3. head' \in [index : Nat, block : Nat] /\ tail' \in [index : Nat, block : Nat]
  BY DEF TypeOK, SetsSlot
<1>4. TypeOK'
  BY <1>1, <1>2, <1>3, MovesTypes DEF SetsSlot
<1>5. TailInv' /\ HeadInv' /\ LinksInv' /\ Front' = Front /\ Back' = Back
  BY <1>1, <1>2, EndsKept DEF SetsSlot
<1>6. Front \in Nat /\ Back \in Nat /\ Front <= Back /\ lap \in Nat /\ lap >= 2 /\ Len(blocks) \in Nat /\ DOMAIN blocks = 1 .. Len(blocks)
  BY <1>2, Numbers
<1>7. \A n \in Nat : BlockOf(n) \in DOMAIN blocks /\ HasSlot(n) =>
                 Cell(n)' = IF BlockOf(n) = d /\ Off(n) = j THEN s ELSE Cell(n)
  <2> TAKE n \in Nat
  <2> HAVE BlockOf(n) \in DOMAIN blocks /\ HasSlot(n)
  <2>1. Off(n) \in Offsets
    BY <1>6, PlaceFacts
  <2>2. Cell(n)' = blocks'[BlockOf(n)].slots[Off(n)]
    BY <1>2, SamePlaces DEF Cell
  <2> QED BY <1>1, <2>1, <2>2 DEF Cell
<1>8. BlockOf(Front)' = BlockOf(Front) /\ BlockOf(Back)' = BlockOf(Back) /\ Positions' = Positions
  BY <1>1, <1>2, <1>5 DEF BlockOf, Positions
<1> QED BY <1>1, <1>4, <1>5, <1>6, <1>7, <1>8

\* A thread gives a role up, or keeps it; the pop of the last slot of a block
\* turns to freeing it.
Leaves(t, l) ==
    /\ l \in Filling => pc[t] \in Filling
    /\ l \in Popping => pc[t] \in Popping
    /\ l \in Emptying => pc[t] \in Emptying
    /\ l \in Freeing => pc[t] \in Emptying \cup Freeing

\* Then roles are only left.
LEMMA RolesLeft ==
    ASSUME TypeOK, NEW t \in Threads, NEW l, NEW c, NEW a, Moves(t, l, c, seen[t], block[t], a), Leaves(t, l), lap' = lap
    PROVE  /\ \A n : n # Mine(t) \/ pc[t] \in Freeing =>
                 (FilledBy(n)' <=> FilledBy(n)) /\ (PoppedBy(n)' <=> PoppedBy(n)) /\ (EmptiedBy(n)' <=> EmptiedBy(n))
           /\ \A n : PoppedBy(n)' => PoppedBy(n)
           /\ \A e : (LastLeft(e) => LastLeft(e)') /\ (Working(e)' => Working(e))
           /\ \A e : e # block[t] =>
                 /\ (\E u \in Threads : pc'[u] \in Emptying /\ block'[u] = e /\ LastSlot(Mine(u))')
                    <=> \E u \in Threads : pc[u] \in Emptying /\ block[u] = e /\ LastSlot(Mine(u))
                 /\ (\E u \in Threads : pc'[u] \in Freeing /\ block'[u] = e)
                    <=> \E u \in Threads : pc[u] \in Freeing /\ block[u] = e
<1>1. /\ pc'[t] = l /\ \A u \in Threads : u # t => pc'[u] = pc[u]
      /\ \A u \in Threads : block'[u] = block[u] /\ Mine(u)' = Mine(u)
  BY MovesFacts DEF Mine
<1>2. \A u \in Threads : LastSlot(Mine(u))' <=> LastSlot(Mine(u))
  BY <1>1 DEF LastSlot, Off, BlockCap
<1>3. /\ \A u \in Threads : pc'[u] \in Filling => pc[u] \in Filling
      /\ \A u \in Threads : pc'[u] \in Popping => pc[u] \in Popping
      /\ \A u \in Threads : pc'[u] \in Emptying => pc[u] \in Emptying
      /\ \A u \in Threads : pc'[u] \in Freeing => pc[u] \in Emptying \cup Freeing
  BY <1>1 DEF Leaves
<1>4. ASSUME NEW n, n # Mine(t) \/ pc[t] \in Freeing
      PROVE  (FilledBy(n)' <=> FilledBy(n)) /\ (PoppedBy(n)' <=> PoppedBy(n)) /\ (EmptiedBy(n)' <=> EmptiedBy(n))
  <2>1. CASE n # Mine(t)
    BY <1>1, <2>1 DEF FilledBy, PoppedBy, EmptiedBy
  <2>2. CASE pc[t] \in Freeing
    <3>1. {l, pc[t]} \cap (Filling \cup Emptying \cup Popping) = {}
      BY <2>2 DEF Leaves, Filling, Pushing, Emptying, Popping, Freeing
    <3> QED BY <1>1, <3>1 DEF FilledBy, PoppedBy, EmptiedBy
  <2> QED BY <1>4, <2>1, <2>2
<1>5. \A n : PoppedBy(n)' => PoppedBy(n)
  BY <1>1, <1>3 DEF PoppedBy
<1>6. \A e : LastLeft(e) => LastLeft(e)'
  BY <1>1, <1>2, <1>3 DEF LastLeft
<1>7. \A e : Working(e)' => Working(e)
  BY <1>1, <1>3 DEF Working
<1>8. \A e : e # block[t] =>
         /\ (\E u \in Threads : pc'[u] \in Emptying /\ block'[u] = e /\ LastSlot(Mine(u))')
            <=> \E u \in Threads : pc[u] \in Emptying /\ block[u] = e /\ LastSlot(Mine(u))
         /\ (\E u \in Threads : pc'[u] \in Freeing /\ block'[u] = e)
            <=> \E u \in Threads : pc[u] \in Freeing /\ block[u] = e
  BY <1>1, <1>2
<1> QED BY <1>4, <1>5, <1>6, <1>7, <1>8

\* What a step that sets the slot j of the thread's block must see to.
Old(d, j) == blocks[d].slots[j]
SeesTo(t, l, c, a, j, s) ==
    /\ SetsSlot(t, l, c, block[t], a, block[t], j, s) /\ CallOK(l, c) /\ Leaves(t, l)
    /\ Old(block[t], j).read => s.read
    /\ \A u \in Threads : u # t =>
          /\ Apart(l, Mine(t), block[t], pc[u], Mine(u), block[u])
          /\ pc[u] \in Filling \cup Emptying /\ block[u] = block[t] /\ Offset(seen[u]) = j =>
                /\ Old(block[t], j).written => s.written
                /\ s.read = Old(block[t], j).read
                /\ pc[u] \in Filling => s.value = Old(block[t], j).value /\ s.written = Old(block[t], j).written
          /\ pc[u] \in Freeing /\ block[u] = block[t] /\ s.destroy => Old(block[t], j).destroy
    /\ s.destroy /\ ~Old(block[t], j).destroy =>
          /\ GotTo(block[t], j, j + 1)
          /\ \A i \in 0 .. BlockCap - 2 : ~Asked(block[t], i)

\* Then the invariant holds after it, if it does at that slot, for what the thread
\* knows and for who is to free the block.
LEMMA SlotStepKeeps ==
    ASSUME TypeOK, Live, NEW t \in Threads, NEW l, NEW c, NEW a \in Nat, NEW j, NEW s, SeesTo(t, l, c, a, j, s),
           pc[t] \in Freeing \/ (pc[t] \in Filling \cup Emptying /\ j = Offset(seen[t])),
           \A w, e : w = seen[t] /\ e = block[t] => Knows(l, c, w, e, a)',
           \A n : n = Pos(block[t], j) /\ SlotOK(n) => SlotOK(n)',
           \A e : e = block[t] /\ Freer(e) => Freer(e)'
    PROVE  TypeOK' /\ Live'
<1>0. /\ TailInv /\ HeadInv /\ LinksInv /\ ThreadsInv /\ OwnersInv /\ SlotsInv /\ AskedInv /\ FreedInv
      /\ SetsSlot(t, l, c, block[t], a, block[t], j, s) /\ CallOK(l, c) /\ Leaves(t, l)
  BY DEF Live, SeesTo
<1> DEFINE d == block[t]
<1>1. /\ Moves(t, l, c, seen[t], d, a) /\ lap' = lap /\ d \in DOMAIN blocks /\ j \in Offsets /\ s \in Slot
      /\ head' = head /\ {l, pc[t]} \cap (Linking \cup {"firsthead"} \cup Advancing) = {}
  BY <1>0 DEF SetsSlot
<1>2. d \in Nat /\ d >= 1 /\ seen[t] \in Nat
  BY <1>0, <1>1, Numbers
<1>3. /\ TypeOK' /\ TailInv' /\ HeadInv' /\ LinksInv' /\ Front' = Front /\ Back' = Back
      /\ Front \in Nat /\ Back \in Nat /\ Front <= Back
      /\ blocks' \in Seq(Block) /\ Len(blocks') = Len(blocks) /\ Len(blocks) \in Nat /\ DOMAIN blocks' = DOMAIN blocks /\ DOMAIN blocks = 1 .. Len(blocks)
      /\ \A e \in DOMAIN blocks : blocks'[e].next = blocks[e].next /\ blocks'[e].frees = blocks[e].frees
      /\ \A e \in DOMAIN blocks : \A i \in Offsets :
            blocks'[e].slots[i] = IF e = d /\ i = j THEN s ELSE blocks[e].slots[i]
      /\ \A n \in Nat : BlockOf(n) \in DOMAIN blocks /\ HasSlot(n) =>
            Cell(n)' = IF BlockOf(n) = d /\ Off(n) = j THEN s ELSE Cell(n)
      /\ BlockOf(Front)' = BlockOf(Front) /\ BlockOf(Back)' = BlockOf(Back) /\ Positions' = Positions
  <2> HIDE DEF d
  <2> QED BY <1>0, <1>1, SlotStep DEF d
<1>4. /\ \A n : n # Mine(t) \/ pc[t] \in Freeing =>
                 (FilledBy(n)' <=> FilledBy(n)) /\ (PoppedBy(n)' <=> PoppedBy(n)) /\ (EmptiedBy(n)' <=> EmptiedBy(n))
      /\ \A e : (LastLeft(e) => LastLeft(e)') /\ (Working(e)' => Working(e))
      /\ \A e : e # d =>
            /\ (\E u \in Threads : pc'[u] \in Emptying /\ block'[u] = e /\ LastSlot(Mine(u))')
               <=> \E u \in Threads : pc[u] \in Emptying /\ block[u] = e /\ LastSlot(Mine(u))
            /\ (\E u \in Threads : pc'[u] \in Freeing /\ block'[u] = e)
               <=> \E u \in Threads : pc[u] \in Freeing /\ block[u] = e
  BY <1>0, <1>1, RolesLeft
<1>5. /\ lap \in Nat /\ lap >= 2 /\ BlockCap \in Nat /\ BlockCap >= 1 /\ Offsets = 0 .. BlockCap - 1 /\ Offsets' = Offsets /\ BlockCap' = BlockCap
      /\ \A n : BlockOf(n)' = BlockOf(n) /\ Off(n)' = Off(n) /\ (HasSlot(n)' <=> HasSlot(n)) /\ (LastSlot(n)' <=> LastSlot(n))
  <2>1. lap \in Nat /\ lap >= 2 /\ Offsets = 0 .. BlockCap - 1
    BY DEF TypeOK, Offsets
  <2> QED BY <1>1, <2>1, SamePlaces DEF BlockCap
<1>6. ASSUME NEW e \in DOMAIN blocks, NEW lo \in Nat, NEW hi \in Nat, lo <= BlockCap, GotTo(e, lo, hi),
             e = d /\ j >= hi /\ s.destroy => Old(d, j).destroy
      PROVE  GotTo(e, lo, hi)'
  <2>1. e < BlockOf(Front)' /\ LastLeft(e)'
    BY <1>3, <1>4, <1>6 DEF GotTo
  <2>2. \A i \in 0 .. lo - 1 : blocks'[e].slots[i].read
    <3> TAKE i \in 0 .. lo - 1
    <3>1. i \in Offsets /\ blocks[e].slots[i].read
      BY <1>5, <1>6 DEF GotTo
    <3>2. Old(d, j).read => s.read
      BY DEF SeesTo
    <3> QED BY <1>3, <3>1, <3>2 DEF Old
  <2>3. \A i \in hi .. BlockCap - 2 : ~blocks'[e].slots[i].destroy
    <3> TAKE i \in hi .. BlockCap - 2
    <3>1. i \in Offsets /\ ~blocks[e].slots[i].destroy
      BY <1>5, <1>6 DEF GotTo
    <3> QED BY <1>3, <1>6, <3>1 DEF Old
  <2> QED BY <1>5, <2>1, <2>2, <2>3 DEF GotTo
<1>7. ASSUME NEW u \in Threads, u # t PROVE LeavesAlone(u)
  <2>1. pc[u] \in Filling \cup Emptying =>
           LET n == Mine(u)
           IN  /\ n \in Nat /\ BlockOf(n) \in DOMAIN blocks /\ HasSlot(n) /\ block[u] = BlockOf(n) /\ Offset(seen[u]) = Off(n)
               /\ Cell(n) = blocks[block[u]].slots[Offset(seen[u])]
    BY <1>0, MyPlace
  <2>2. ASSUME NEW n, n = Mine(u)
        PROVE  /\ pc[u] \in Filling => SameCell(n)
               /\ pc[u] \in Emptying => (Cell(n).written => Cell(n)'.written) /\ Cell(n)'.read = Cell(n).read
    <3> HIDE DEF d
    <3> SUFFICES ASSUME pc[u] \in Filling \cup Emptying
                 PROVE  /\ pc[u] \in Filling => SameCell(n)
                        /\ pc[u] \in Emptying => (Cell(n).written => Cell(n)'.written) /\ Cell(n)'.read = Cell(n).read
      OBVIOUS
    <3>1. n \in Nat /\ BlockOf(n) \in DOMAIN blocks /\ HasSlot(n) /\ block[u] = BlockOf(n) /\ Offset(seen[u]) = Off(n)
          /\ Cell(n) = blocks[block[u]].slots[Offset(seen[u])]
      BY <2>1, <2>2
    <3>2. Cell(n)' = IF BlockOf(n) = d /\ Off(n) = j THEN s ELSE Cell(n)
      BY <1>3, <3>1
    <3>3. CASE BlockOf(n) = d /\ Off(n) = j
      <4>1. /\ Old(d, j).written => s.written
            /\ s.read = Old(d, j).read
            /\ pc[u] \in Filling => s.value = Old(d, j).value /\ s.written = Old(d, j).written
        BY <1>7, <3>1, <3>3 DEF SeesTo, d
      <4>2. Old(d, j) = Cell(n) /\ Cell(n)' = s
        BY <3>1, <3>2, <3>3 DEF Old
      <4> QED BY <4>1, <4>2 DEF SameCell
    <3>4. CASE ~(BlockOf(n) = d /\ Off(n) = j)
      BY <3>2, <3>4 DEF SameCell
    <3> QED BY <3>3, <3>4
  <2>3. pc[u] \in {"setindex", "setnext", "nextnext", "headblock", "headindex"} => blocks'[block[u]].next = blocks[block[u]].next
    <3>1. pc[u] \in {"setindex", "setnext", "nextnext", "headblock", "headindex"} => block[u] \in DOMAIN blocks
      BY <2>1 DEF Filling, Pushing, Emptying, Popping
    <3> QED BY <1>3, <3>1
  <2>4. pc[u] \in Freeing => \A e, i : e = block[u] /\ i = aux[u] /\ GotTo(e, i, i) => GotTo(e, i, i)'
    <3> SUFFICES ASSUME pc[u] \in Freeing, NEW e, NEW i, e = block[u], i = aux[u], GotTo(e, i, i) PROVE GotTo(e, i, i)'
      OBVIOUS
    <3>1. FreeKnows(pc[u], block[u], aux[u])
      BY <1>0 DEF ThreadsInv, Knows
    <3>2. e \in DOMAIN blocks /\ i \in Nat /\ i <= BlockCap
      BY SMTT(60), <1>0, <1>5, <3>1, Numbers DEF FreeKnows
    <3>3. e = d /\ s.destroy => Old(d, j).destroy
      BY <1>7 DEF SeesTo
    <3> QED BY <1>6, <3>2, <3>3
  <2>5. (pc[u] \in Linking => Back' = Back) /\ (pc[u] \in Advancing => Front' = Front)
    BY <1>3
  <2> HIDE DEF d
  <2>6. \A n : n = Mine(u) =>
          /\ pc[u] \in Filling => SameCell(n)
          /\ pc[u] \in Emptying => (Cell(n).written => Cell(n)'.written) /\ Cell(n)'.read = Cell(n).read
    BY <2>2
  <2> QED BY <2>3, <2>4, <2>5, <2>6 DEF LeavesAlone
<1>8. ThreadsInv'
  <2>1. Front' \in Nat /\ Back' \in Nat /\ Front <= Front' /\ Back <= Back' /\ Len(blocks) <= Len(blocks')
    BY <1>3
  <2>2. PICK w, e : w = seen[t] /\ e = block[t]
    OBVIOUS
  <2>3. Moves(t, l, c, w, e, a) /\ Knows(l, c, w, e, a)'
    BY <1>1, <2>2
  <2> QED BY <1>0, <1>1, <1>3, <1>7, <2>1, <2>3, ThreadsAfter
<1>9. OwnersInv'
  <2>1. \A u \in Threads : u # t => Apart(l, At(seen[t]), block[t], pc[u], Mine(u), block[u])
    BY DEF SeesTo, Mine
  <2> QED BY <1>0, <1>1, <2>1, OwnersAfter
<1>10. SlotsInv'
  <2> SUFFICES ASSUME NEW n \in Positions, HasSlot(n) PROVE SlotOK(n)'
    BY <1>3, <1>5 DEF SlotsInv
  <2>1. SlotOK(n) /\ n \in Nat /\ BlockOf(n) \in DOMAIN blocks /\ BlockOf(n) \in Nat
    <3>1. n \in Nat
      BY <1>3, <1>5 DEF Positions
    <3>2. BlockOf(n) <= Len(blocks) /\ BlockOf(n) \in Nat /\ BlockOf(n) >= 1
      BY <1>3, <1>5, <3>1, PositionsFacts, PlaceFacts DEF Positions
    <3> QED BY <1>0, <1>3, <3>1, <3>2 DEF SlotsInv
  <2>2. CASE BlockOf(n) = d /\ Off(n) = j
    <3>1. n = Pos(d, j)
      <4>1. n = (BlockOf(n) - 1) * lap + Off(n)
        BY <1>5, <2>1, PlaceFacts
      <4> QED BY <2>2, <4>1 DEF Pos
    <3> QED BY <2>1, <3>1
  <2>3. CASE ~(BlockOf(n) = d /\ Off(n) = j)
    <3>1. Cell(n)' = Cell(n) /\ blocks'[BlockOf(n)].frees = blocks[BlockOf(n)].frees
      BY <1>3, <2>1, <2>3
    <3>2. n # Mine(t) \/ pc[t] \in Freeing
      <4> SUFFICES ASSUME pc[t] \in Filling \cup Emptying, j = Offset(seen[t]) PROVE n # Mine(t)
        OBVIOUS
      <4>1. block[t] = BlockOf(Mine(t)) /\ Offset(seen[t]) = Off(Mine(t))
        BY <1>0, MyPlace
      <4> QED BY <2>3, <4>1
    <3>3. (FilledBy(n)' <=> FilledBy(n)) /\ (PoppedBy(n)' <=> PoppedBy(n)) /\ (EmptiedBy(n)' <=> EmptiedBy(n))
      BY <1>4, <3>2
    <3> QED BY <1>3, <1>5, <2>1, <3>1, <3>3 DEF SlotOK
  <2> QED BY <2>2, <2>3
<1>11. AskedInv'
  <2> SUFFICES ASSUME NEW e \in DOMAIN blocks, NEW i \in 0 .. BlockCap - 2
               PROVE  /\ blocks'[e].slots[i].destroy => e < BlockOf(Front)' /\ LastLeft(e)'
                      /\ blocks'[e].slots[i].destroy /\ ~blocks'[e].slots[i].read => GotTo(e, i, i + 1)'
    BY <1>3, <1>5 DEF AskedInv, Asked
  <2>1. /\ i \in Offsets /\ i \in Nat /\ i + 1 \in Nat /\ i <= BlockCap
        /\ blocks[e].slots[i].destroy => e < BlockOf(Front) /\ LastLeft(e)
        /\ Asked(e, i) => GotTo(e, i, i + 1)
    BY <1>0, <1>5 DEF AskedInv
  <2>2. CASE e = d /\ i = j
    <3>1. blocks'[e].slots[i] = s
      BY <1>3, <2>1, <2>2
    <3>2. CASE Old(d, j).destroy
      <4>1. e < BlockOf(Front)' /\ LastLeft(e)'
        BY <1>3, <1>4, <2>1, <2>2, <3>2 DEF Old
      <4>2. ~s.read => Asked(e, i)
        BY <2>2, <3>2 DEF SeesTo, Asked, Old
      <4>3. ~s.read => GotTo(e, i, i + 1)'
        BY <1>6, <2>1, <3>2, <4>2
      <4> QED BY <3>1, <4>1, <4>3
    <3>3. CASE ~Old(d, j).destroy /\ s.destroy
      <4>1. GotTo(e, i, i + 1)
        BY <2>2, <3>3 DEF SeesTo
      <4>2. GotTo(e, i, i + 1)'
        <5>1. ~(e = d /\ j >= i + 1)
          BY <2>1, <2>2
        <5> QED BY <1>6, <2>1, <4>1, <5>1
      <4>3. e < BlockOf(Front)' /\ LastLeft(e)'
        BY <1>3, <1>4, <4>1 DEF GotTo
      <4> QED BY <4>2, <4>3
    <3> QED BY <3>1, <3>2, <3>3
  <2>3. CASE ~(e = d /\ i = j)
    <3>1. blocks'[e].slots[i] = blocks[e].slots[i]
      BY <1>3, <2>1, <2>3
    <3>2. blocks[e].slots[i].destroy => e < BlockOf(Front)' /\ LastLeft(e)'
      BY <1>3, <1>4, <2>1
    <3>3. ASSUME Asked(e, i) PROVE GotTo(e, i, i + 1)'
      <4>1. GotTo(e, i, i + 1)
        BY <2>1, <3>3
      <4>2. e = d /\ s.destroy => Old(d, j).destroy
        BY <3>3 DEF SeesTo
      <4> QED BY <1>6, <2>1, <4>1, <4>2
    <3> QED BY <3>1, <3>2, <3>3 DEF Asked
  <2> QED BY <2>2, <2>3
<1>12. FreedInv'
  <2>1. ASSUME NEW e \in DOMAIN blocks, Freer(e) PROVE Freer(e)'
    <3>1. CASE e = d
      BY <2>1, <3>1
    <3>2. CASE e # d
      <4>1. \A i \in 0 .. BlockCap - 2 : Asked(e, i)' <=> Asked(e, i)
        BY <1>3, <1>5, <3>2 DEF Asked
      <4> QED BY <1>4, <1>5, <2>1, <3>2, <4>1 DEF Freer
    <3> QED BY <3>1, <3>2
  <2> QED BY <1>0, <1>3, <1>4, <2>1 DEF FreedInv
<1> QED BY <1>3, <1>8, <1>9, <1>10, <1>11, <1>12 DEF Live

\* What a thread knows of itself and of the others at its slot.
LEMMA AtMySlot ==
    ASSUME TypeOK, Live, NEW t \in Threads, pc[t] \in Filling \cup Emptying
    PROVE  LET d == block[t]
               j == Offset(seen[t])
           IN  /\ d \in DOMAIN blocks /\ d \in Nat /\ d >= 1 /\ j \in Offsets /\ Old(d, j) \in Slot /\ Old(d, j) = Cell(Mine(t)) /\ ~Old(d, j).read
               /\ Mine(t) = Pos(d, j) /\ Mine(t) < Back
               /\ pc[t] \in Filling => ~Old(d, j).written
               /\ pc[t] \in Emptying => Mine(t) < Front
               /\ IsLast(t) <=> LastSlot(Mine(t))
               /\ \A u \in Threads : u # t /\ pc[u] \in Filling \cup Emptying /\ block[u] = d /\ Offset(seen[u]) = j =>
                     /\ Mine(u) = Mine(t)
                     /\ pc[t] \in Filling => pc[u] \notin Filling
                     /\ pc[t] \in Emptying => pc[u] \notin Emptying
                     /\ pc[u] \in Filling => ~Old(d, j).written
                     /\ pc[u] = "setread" => Old(d, j).written
               /\ \A u \in Threads : u # t => Apart(pc[t], Mine(t), block[t], pc[u], Mine(u), block[u])
<1>0. TailInv /\ HeadInv /\ LinksInv /\ ThreadsInv /\ OwnersInv
  BY DEF Live
<1> DEFINE n == Mine(t)
<1>1. /\ n \in Nat /\ n < Back /\ HasSlot(n) /\ Off(n) \in Offsets
      /\ block[t] = BlockOf(n) /\ block[t] \in DOMAIN blocks /\ Offset(seen[t]) = Off(n)
      /\ Cell(n) = Old(block[t], Offset(seen[t])) /\ Cell(n) \in Slot /\ ~Cell(n).read
      /\ IsLast(t) <=> LastSlot(n)
      /\ pc[t] \in Filling => ~Cell(n).written
      /\ pc[t] \in Emptying => n < Front
  BY <1>0, MyPlace DEF Old
<1>2. n = Pos(block[t], Offset(seen[t]))
  <2>1. n = (BlockOf(n) - 1) * lap + Off(n)
    BY <1>0, <1>1, Numbers, PlaceFacts
  <2> QED BY <1>1, <2>1 DEF Pos
<1>3. block[t] \in Nat /\ block[t] >= 1
  BY <1>0, <1>1, Numbers
<1>4. \A u \in Threads : u # t => Apart(pc[t], Mine(t), block[t], pc[u], Mine(u), block[u])
  BY <1>0 DEF OwnersInv
<1>5. ASSUME NEW u \in Threads, u # t, pc[u] \in Filling \cup Emptying, block[u] = block[t], Offset(seen[u]) = Offset(seen[t])
      PROVE  /\ Mine(u) = n
             /\ pc[t] \in Filling => pc[u] \notin Filling
             /\ pc[t] \in Emptying => pc[u] \notin Emptying
             /\ pc[u] \in Filling => ~Old(block[t], Offset(seen[t])).written
             /\ pc[u] = "setread" => Old(block[t], Offset(seen[t])).written
  <2>1. BlockOf(n) = block[u] /\ Off(n) = Offset(seen[u])
    BY <1>1, <1>5
  <2>2. n = Mine(u)
    <3> HIDE DEF n
    <3> QED BY <1>0, <1>1, <1>5, <2>1, PlacesDiffer
  <2>3. /\ pc[u] \in Filling => ~Cell(Mine(u)).written
        /\ pc[u] \in Emptying => EmptyKnows(pc[u], Mine(u), block[u], aux[u])
    BY <1>0, <1>5, MyPlace
  <2>4. pc[u] = "setread" => Cell(Mine(u)).written
    BY <2>3 DEF EmptyKnows, Emptying
  <2>5. Apart(pc[t], n, block[t], pc[u], Mine(u), block[u])
    BY <1>4, <1>5
  <2> QED BY <1>1, <2>2, <2>3, <2>4, <2>5 DEF Apart
<1> QED BY <1>1, <1>2, <1>3, <1>4, <1>5

\* The cell of a slot after it has changed.
LEMMA CellBecomes ==
    ASSUME TypeOK, NEW d \in DOMAIN blocks, d \in Nat, d >= 1, NEW j \in Offsets, NEW s \in Slot, SlotBecomes(d, j, s), lap' = lap
    PROVE  /\ Cell(Pos(d, j)) = Old(d, j) /\ Pos(d, j) \in Nat /\ BlockOf(Pos(d, j)) = d /\ Off(Pos(d, j)) = j
           /\ \A n : n = Pos(d, j) => Cell(n)' = s /\ blocks'[BlockOf(n)'].frees = blocks[BlockOf(n)].frees
           /\ \A e \in DOMAIN blocks : \A i \in 0 .. BlockCap - 2 :
                 Asked(e, i)' <=> IF e = d /\ i = j THEN s.destroy /\ ~s.read ELSE Asked(e, i)
<1>1. lap \in Nat /\ lap >= 2 /\ j \in Nat /\ j < lap
  BY DEF TypeOK, Offsets, BlockCap
<1>2. Pos(d, j) \in Nat /\ BlockOf(Pos(d, j)) = d /\ Off(Pos(d, j)) = j
  BY <1>1, PosFacts
<1>3. blocks'[d].slots[j] = s /\ blocks'[d].frees = blocks[d].frees
  BY SlotUpdate
<1>4. \A n : BlockOf(n)' = BlockOf(n) /\ Off(n)' = Off(n)
  BY SamePlaces
<1>5. \A n : n = Pos(d, j) => Cell(n)' = s /\ blocks'[BlockOf(n)'].frees = blocks[BlockOf(n)].frees
  BY <1>2, <1>3, <1>4 DEF Cell
<1>6. ASSUME NEW e \in DOMAIN blocks, NEW i \in 0 .. BlockCap - 2
      PROVE  Asked(e, i)' <=> IF e = d /\ i = j THEN s.destroy /\ ~s.read ELSE Asked(e, i)
  <2>1. i \in Offsets
    BY <1>1, <1>6 DEF Offsets, BlockCap
  <2>2. blocks'[e].slots[i] = IF e = d /\ i = j THEN s ELSE blocks[e].slots[i]
    BY <2>1, SlotUpdate
  <2> QED BY <2>2 DEF Asked
<1> QED BY <1>2, <1>5, <1>6 DEF Cell, Old

\* A push writes its value.
LEMMA WriteStep ==
    ASSUME TypeOK, Live, lap' = lap, NEW t \in Threads, PushWrite(t)
    PROVE  TypeOK' /\ Live'
<1>1. pc[t] = "write" /\ pc[t] \in Filling /\ pc[t] \notin Emptying \cup Freeing \cup Popping
  BY DEF PushWrite, Filling, Pushing, Emptying, Popping, Freeing
<1>2. PICK d, j, c, a : d = block[t] /\ j = Offset(seen[t]) /\ c = call[t] /\ a = aux[t]
  OBVIOUS
<1>3. /\ d \in DOMAIN blocks /\ d \in Nat /\ d >= 1 /\ j \in Offsets /\ Old(d, j) \in Slot /\ Old(d, j) = Cell(Mine(t)) /\ ~Old(d, j).read
      /\ Mine(t) = Pos(d, j) /\ Mine(t) < Back /\ ~Old(d, j).written
      /\ \A u \in Threads : u # t /\ pc[u] \in Filling \cup Emptying /\ block[u] = d /\ Offset(seen[u]) = j =>
            pc[u] \notin Filling
      /\ \A u \in Threads : u # t => Apart(pc[t], Mine(t), block[t], pc[u], Mine(u), block[u])
  BY <1>1, <1>2, AtMySlot
<1>4. PICK v \in Values : c.val = v
  BY <1>1, <1>2, CallsNow
<1> DEFINE s == [Old(d, j) EXCEPT !.value = v]
<1>5. /\ s \in Slot /\ s.value = v /\ s.written = FALSE /\ s.read = FALSE /\ s.destroy = Old(d, j).destroy
      /\ Old(d, j).read = FALSE /\ Old(d, j).written = FALSE
  BY <1>3 DEF Slot
<1>6. SlotBecomes(d, j, s)
  BY <1>2, <1>4 DEF PushWrite, SlotBecomes, Old
<1>7. Moves(t, "publish", c, seen[t], d, a)
  BY <1>2 DEF PushWrite, Moves, TypeOK, Goto, locals
<1>8. CallOK("publish", c) /\ Leaves(t, "publish") /\ a \in Nat
  BY <1>1, <1>2 DEF TypeOK, CallOK, Leaves, Filling, Pushing, Emptying, Popping, Freeing
<1> HIDE DEF s
<1>9. SetsSlot(t, "publish", c, d, a, d, j, s)
  <2>1. head' = head /\ tail' = tail
    BY DEF PushWrite
  <2>2. {"publish", pc[t]} \cap (Linking \cup {"setnext", "firsthead"} \cup Advancing) = {}
    BY <1>1 DEF Linking, Advancing
  <2> QED BY <1>2, <1>3, <1>5, <1>6, <1>7, <2>1, <2>2 DEF SetsSlot
<1>10. SeesTo(t, "publish", c, a, j, s)
  <2>1. \A u \in Threads : u # t => Apart("publish", Mine(t), d, pc[u], Mine(u), block[u])
    BY <1>1, <1>2, <1>3 DEF Apart, Filling, Pushing, Emptying, Popping, Freeing
  <2> QED BY <1>2, <1>3, <1>5, <1>8, <1>9, <2>1 DEF SeesTo
<1>11. /\ \A n : n = Pos(d, j) => Cell(n)' = s /\ blocks'[BlockOf(n)'].frees = blocks[BlockOf(n)].frees
       /\ \A i \in 0 .. BlockCap - 2 : Asked(d, i)' <=> Asked(d, i)
  BY <1>3, <1>5, <1>6, CellBecomes DEF Asked, Old
<1>12. /\ Front' = Front /\ Back' = Back /\ BlockCap' = BlockCap
       /\ \A n : BlockOf(n)' = BlockOf(n) /\ Off(n)' = Off(n) /\ (HasSlot(n)' <=> HasSlot(n)) /\ (LastSlot(n)' <=> LastSlot(n))
  BY SamePlaces DEF PushWrite, Front, Back
<1>13. SameRole(t, "publish", seen[t], d)
  BY <1>1, <1>2 DEF SameRole, Filling, Pushing, Emptying, Popping, Freeing, Linking, Advancing, Mine
<1>14. /\ \A n : (FilledBy(n)' <=> FilledBy(n)) /\ (PoppedBy(n)' <=> PoppedBy(n)) /\ (EmptiedBy(n)' <=> EmptiedBy(n))
       /\ (\E u \in Threads : pc'[u] \in Emptying /\ block'[u] = d /\ LastSlot(Mine(u))')
               <=> \E u \in Threads : pc[u] \in Emptying /\ block[u] = d /\ LastSlot(Mine(u))
       /\ (\E u \in Threads : pc'[u] \in Freeing /\ block'[u] = d)
               <=> \E u \in Threads : pc[u] \in Freeing /\ block[u] = d
  BY <1>7, <1>13, RolesStay
<1>15. \A n : n = Pos(d, j) /\ SlotOK(n) => SlotOK(n)'
  <2> SUFFICES ASSUME NEW n, n = Pos(d, j), SlotOK(n) PROVE SlotOK(n)'
    OBVIOUS
  <2>1. FilledBy(n)
    BY <1>1, <1>3 DEF FilledBy
  <2>2. Cell(n).written = FALSE /\ Cell(n).read = FALSE
    BY <1>3 DEF Slot
  <2> QED BY <1>5, <1>11, <1>12, <1>14, <2>1, <2>2 DEF SlotOK
<1>16. \A w, e : w = seen[t] /\ e = block[t] => Knows("publish", c, w, e, a)'
  <2> SUFFICES ASSUME NEW w, w = seen[t] PROVE Knows("publish", c, w, d, a)'
    BY <1>2
  <2>1. FillKnows("write", c, At(w), d)
    BY <1>1, <1>2 DEF Live, ThreadsInv, Knows
  <2>2. At(w) = Pos(d, j)
    BY <1>3 DEF Mine
  <2>3. FillKnows("publish", c, At(w), d)'
    BY <1>4, <1>5, <1>11, <1>12, <2>1, <2>2 DEF FillKnows, Linking
  <2> QED BY <2>3 DEF Knows, Filling, Pushing, Emptying, Popping, Freeing
<1>17. \A e : e = block[t] /\ Freer(e) => Freer(e)'
  BY <1>2, <1>11, <1>12, <1>14 DEF Freer
<1>18. \A n : n = Pos(block[t], j) /\ SlotOK(n) => SlotOK(n)'
  BY <1>2, <1>15
<1> QED BY <1>1, <1>2, <1>8, <1>10, <1>16, <1>17, <1>18, SlotStepKeeps

\* A push marks its slot as written, and is done.
LEMMA PublishStep ==
    ASSUME TypeOK, Live, lap' = lap, NEW t \in Threads, PushPublish(t)
    PROVE  TypeOK' /\ Live'
<1>1. pc[t] = "publish" /\ pc[t] \in Filling /\ pc[t] \notin Emptying \cup Freeing \cup Popping
  BY DEF PushPublish, Filling, Pushing, Emptying, Popping, Freeing
<1>2. PICK d, j, a : d = block[t] /\ j = Offset(seen[t]) /\ a = aux[t]
  OBVIOUS
<1>3. /\ d \in DOMAIN blocks /\ d \in Nat /\ d >= 1 /\ j \in Offsets /\ Old(d, j) \in Slot /\ Old(d, j) = Cell(Mine(t)) /\ ~Old(d, j).read
      /\ Mine(t) = Pos(d, j) /\ Mine(t) < Back /\ ~Old(d, j).written
      /\ \A u \in Threads : u # t /\ pc[u] \in Filling \cup Emptying /\ block[u] = d /\ Offset(seen[u]) = j =>
            pc[u] \notin Filling
      /\ \A u \in Threads : u # t => Apart(pc[t], Mine(t), block[t], pc[u], Mine(u), block[u])
  BY <1>1, <1>2, AtMySlot
<1>4. Old(d, j).value \in Values
  <2>1. FillKnows("publish", call[t], Mine(t), block[t])
    BY <1>1 DEF Live, ThreadsInv, Knows, Mine
  <2>2. \E v \in Values : call[t].val = v
    BY <1>1, CallsNow
  <2> QED BY <1>3, <2>1, <2>2 DEF FillKnows
<1> DEFINE s == [Old(d, j) EXCEPT !.written = TRUE]
           c == Q!Ask("ok")
<1>5. /\ s \in Slot /\ s.value \in Values /\ s.value = Old(d, j).value /\ s.written = TRUE /\ s.read = FALSE /\ s.destroy = Old(d, j).destroy
      /\ Old(d, j).read = FALSE /\ Old(d, j).written = FALSE
  BY <1>3, <1>4 DEF Slot
<1>6. SlotBecomes(d, j, s)
  BY <1>2 DEF PushPublish, SlotBecomes, Old
<1>7. Moves(t, "return", c, seen[t], d, a)
  BY <1>2 DEF PushPublish, Moves, TypeOK, Goto, Answer, locals
<1>8. CallOK("return", c) /\ Leaves(t, "return") /\ a \in Nat
  BY <1>1, <1>2 DEF TypeOK, CallOK, Leaves, Filling, Pushing, Emptying, Popping, Freeing, Q!Ask, Q!Said, Q!Answers
<1> HIDE DEF s, c
<1>9. SetsSlot(t, "return", c, d, a, d, j, s)
  <2>1. head' = head /\ tail' = tail
    BY DEF PushPublish
  <2>2. {"return", pc[t]} \cap (Linking \cup {"setnext", "firsthead"} \cup Advancing) = {}
    BY <1>1 DEF Linking, Advancing
  <2> QED BY <1>2, <1>3, <1>5, <1>6, <1>7, <2>1, <2>2 DEF SetsSlot
<1>10. SeesTo(t, "return", c, a, j, s)
  <2>1. \A u \in Threads : u # t => Apart("return", Mine(t), d, pc[u], Mine(u), block[u])
    BY DEF Apart, Filling, Pushing, Emptying, Popping, Freeing
  <2> QED BY <1>2, <1>3, <1>5, <1>8, <1>9, <2>1 DEF SeesTo
<1>11. /\ \A n : n = Pos(d, j) => Cell(n)' = s /\ blocks'[BlockOf(n)'].frees = blocks[BlockOf(n)].frees
       /\ \A i \in 0 .. BlockCap - 2 : Asked(d, i)' <=> Asked(d, i)
  BY <1>3, <1>5, <1>6, CellBecomes DEF Asked, Old
<1>12. /\ Front' = Front /\ Back' = Back /\ BlockCap' = BlockCap
       /\ \A n : BlockOf(n)' = BlockOf(n) /\ Off(n)' = Off(n) /\ (HasSlot(n)' <=> HasSlot(n)) /\ (LastSlot(n)' <=> LastSlot(n))
  BY SamePlaces DEF PushPublish, Front, Back
<1>13. /\ pc'[t] = "return" /\ \A u \in Threads : u # t => pc'[u] = pc[u]
       /\ \A u \in Threads : block'[u] = block[u] /\ Mine(u)' = Mine(u)
  BY <1>2, <1>7, MovesFacts DEF Mine
<1>14. \A u \in Threads : (pc'[u] \in Emptying <=> pc[u] \in Emptying) /\ (pc'[u] \in Freeing <=> pc[u] \in Freeing)
                          /\ (pc'[u] \in Popping <=> pc[u] \in Popping)
  BY <1>1, <1>13 DEF Emptying, Popping, Freeing
<1>15. \A n : (EmptiedBy(n)' <=> EmptiedBy(n)) /\ (PoppedBy(n)' <=> PoppedBy(n))
  BY <1>13, <1>14 DEF EmptiedBy, PoppedBy
<1>16. \A n : n = Pos(block[t], j) /\ SlotOK(n) => SlotOK(n)'
  <2> SUFFICES ASSUME NEW n, n = Pos(d, j), SlotOK(n) PROVE SlotOK(n)'
    BY <1>2
  <2>1. Cell(n).read = FALSE /\ n < Back /\ n \in Nat /\ Back \in Nat
    <3>1. n \in Nat /\ Back \in Nat
      BY <1>3, Numbers DEF Live
    <3> QED BY <1>3, <1>5, <3>1
  <2> QED BY <1>5, <1>11, <1>12, <1>15, <2>1 DEF SlotOK
<1>17. \A w, e : w = seen[t] /\ e = block[t] => Knows("return", c, w, e, a)'
  BY DEF Knows, Filling, Pushing, Emptying, Popping, Freeing
<1>18. \A e : e = block[t] /\ Freer(e) => Freer(e)'
  <2>1. \A u \in Threads : LastSlot(Mine(u))' <=> LastSlot(Mine(u))
    BY <1>13 DEF LastSlot, Off, BlockCap
  <2> QED BY <1>2, <1>11, <1>12, <1>13, <1>14, <2>1 DEF Freer
<1> QED BY <1>1, <1>2, <1>8, <1>10, <1>16, <1>17, <1>18, SlotStepKeeps

\* A pop marks its slot as read; if it was asked to destroy the block, it goes on
\* behind it.
LEMMA SetReadStep ==
    ASSUME TypeOK, Live, lap' = lap, NEW t \in Threads, PopSetRead(t)
    PROVE  TypeOK' /\ Live'
<1>1. pc[t] = "setread" /\ pc[t] \in Emptying /\ pc[t] \notin Filling \cup Freeing \cup Popping
  BY DEF PopSetRead, Filling, Pushing, Emptying, Popping, Freeing
<1>2. PICK d, j, c : d = block[t] /\ j = Offset(seen[t]) /\ c = call[t]
  OBVIOUS
<1>3. /\ d \in DOMAIN blocks /\ d \in Nat /\ d >= 1 /\ j \in Offsets /\ Old(d, j) \in Slot /\ Old(d, j) = Cell(Mine(t)) /\ ~Old(d, j).read
      /\ Mine(t) = Pos(d, j) /\ Mine(t) < Front
      /\ \A u \in Threads : u # t /\ pc[u] \in Filling \cup Emptying /\ block[u] = d /\ Offset(seen[u]) = j =>
            pc[u] \notin Emptying /\ (pc[u] \in Filling => ~Old(d, j).written)
      /\ \A u \in Threads : u # t => Apart(pc[t], Mine(t), block[t], pc[u], Mine(u), block[u])
  BY <1>1, <1>2, AtMySlot
<1>4. /\ EmptyKnows("setread", Mine(t), block[t], aux[t]) /\ MySlot(t) = Old(d, j)
      /\ TailInv /\ ThreadsInv /\ AskedInv /\ Mine(t) \in Nat /\ lap \in Nat /\ lap >= 2 /\ Front \in Nat /\ Back \in Nat /\ Front <= Back
      /\ aux[t] \in Nat
  BY <1>1, <1>2, Numbers DEF Live, ThreadsInv, Knows, Mine, MySlot, Old
<1>5. /\ Old(d, j).written /\ ~LastSlot(Mine(t)) /\ j \in Nat /\ j + 1 < BlockCap /\ j \in 0 .. BlockCap - 2 /\ BlockCap \in Nat
      /\ j = Off(Mine(t)) /\ d = BlockOf(Mine(t))
  <2>1. Old(d, j).written /\ ~LastSlot(Mine(t))
    BY <1>3, <1>4 DEF EmptyKnows
  <2>2. j = Off(Mine(t)) /\ d = BlockOf(Mine(t))
    BY <1>2, <1>4, MyPlace, <1>1
  <2>3. BlockCap \in Nat /\ j \in Nat /\ j < BlockCap
    BY <1>3, <1>4 DEF BlockCap, Offsets
  <2> QED BY <2>1, <2>2, <2>3 DEF LastSlot
<1> DEFINE s == [Old(d, j) EXCEPT !.read = TRUE]
<1>6. /\ s \in Slot /\ s.read = TRUE /\ s.value = Old(d, j).value /\ s.written = Old(d, j).written /\ s.destroy = Old(d, j).destroy
      /\ Old(d, j).read = FALSE /\ Old(d, j).written = TRUE
  BY <1>3, <1>5 DEF Slot
<1>7. SlotBecomes(d, j, s) /\ head' = head /\ tail' = tail
  BY <1>2 DEF PopSetRead, SlotBecomes, Old
<1>8. PICK l, a : /\ Moves(t, l, c, seen[t], d, a) /\ a \in Nat
                  /\ \/ l = "return" /\ ~Old(d, j).destroy
                     \/ l = "destroy" /\ a = j + 1 /\ Old(d, j).destroy
  <2>1. CASE Old(d, j).destroy
    <3>1. Moves(t, "destroy", c, seen[t], d, j + 1)
      BY <1>2, <1>4, <2>1 DEF PopSetRead, Moves, TypeOK, Goto, SetAux
    <3> QED BY <1>5, <2>1, <3>1
  <2>2. CASE ~Old(d, j).destroy
    <3>1. Moves(t, "return", c, seen[t], d, aux[t])
      BY <1>2, <1>4, <2>2 DEF PopSetRead, Moves, TypeOK, Goto, SetAux
    <3> QED BY <1>4, <2>2, <3>1
  <2> QED BY <2>1, <2>2
<1>9. CallOK(l, c) /\ Leaves(t, l)
  <2>1. PICK v \in Values : c = Q!Popped(v)
    BY <1>1, <1>2, CallsNow
  <2>2. c.op \in Q!Answers
    BY <2>1 DEF Q!Popped, Q!Said, Q!Answers
  <2> QED BY <1>1, <1>8, <2>1, <2>2 DEF CallOK, Leaves, Filling, Pushing, Emptying, Popping, Freeing
<1> HIDE DEF s
<1>10. SetsSlot(t, l, c, d, a, d, j, s)
  <2>1. {l, pc[t]} \cap (Linking \cup {"setnext", "firsthead"} \cup Advancing) = {}
    BY <1>1, <1>8 DEF Linking, Advancing
  <2> QED BY <1>2, <1>3, <1>6, <1>7, <1>8, <2>1 DEF SetsSlot
<1>11. Old(d, j).destroy => GotTo(d, j, j + 1)
  <2>1. Old(d, j).destroy => Asked(d, j)
    BY <1>3 DEF Asked, Old
  <2> QED BY <1>3, <1>4, <1>5, <2>1 DEF AskedInv
<1>12. Old(d, j).destroy => \A u \in Threads : u # t /\ pc[u] \in Freeing => block[u] # d
  <2> SUFFICES ASSUME Old(d, j).destroy, NEW u \in Threads, pc[u] \in Freeing, block[u] = d PROVE FALSE
    OBVIOUS
  <2>1. FreeKnows(pc[u], block[u], aux[u]) /\ aux[u] \in Nat
    BY <1>4, Numbers DEF ThreadsInv, Knows
  <2>2. GotTo(d, aux[u], aux[u])
    BY <2>1 DEF FreeKnows
  <2>3. j \in 0 .. aux[u] - 1 \/ j \in aux[u] .. BlockCap - 2
    BY <1>5, <2>1
  <2> QED BY <1>3, <2>2, <2>3 DEF GotTo, Old
<1>13. SeesTo(t, l, c, a, j, s)
  <2>1. \A u \in Threads : u # t => Apart(l, Mine(t), d, pc[u], Mine(u), block[u])
    BY <1>8, <1>12 DEF Apart, Filling, Pushing, Emptying, Popping, Freeing
  <2> QED BY <1>2, <1>3, <1>6, <1>9, <1>10, <2>1 DEF SeesTo
<1>14. /\ \A n : n = Pos(d, j) => Cell(n)' = s /\ blocks'[BlockOf(n)'].frees = blocks[BlockOf(n)].frees
       /\ \A i \in 0 .. BlockCap - 2 : Asked(d, i)' <=> Asked(d, i) /\ i # j
  BY <1>3, <1>6, <1>7, CellBecomes
<1>15. /\ Front' = Front /\ Back' = Back /\ BlockCap' = BlockCap
       /\ \A n : BlockOf(n)' = BlockOf(n) /\ Off(n)' = Off(n) /\ (HasSlot(n)' <=> HasSlot(n)) /\ (LastSlot(n)' <=> LastSlot(n))
  BY <1>7, SamePlaces DEF Front, Back
<1>16. /\ pc'[t] = l /\ \A u \in Threads : u # t => pc'[u] = pc[u]
       /\ \A u \in Threads : block'[u] = block[u] /\ Mine(u)' = Mine(u)
  BY <1>2, <1>8, MovesFacts DEF Mine
<1>17. \A n : n = Pos(block[t], j) /\ SlotOK(n) => SlotOK(n)'
  <2> SUFFICES ASSUME NEW n, n = Pos(d, j), SlotOK(n) PROVE SlotOK(n)'
    BY <1>2
  <2>1. n < Front /\ n < Back /\ n \in Nat
    BY <1>3, <1>4
  <2>2. ~PoppedBy(n)'
    <3> SUFFICES ASSUME NEW u \in Threads, pc'[u] \in Popping, Mine(u)' = n PROVE FALSE
      BY DEF PoppedBy
    <3>1. u # t /\ pc[u] \in Popping /\ Mine(u) = Mine(t)
      BY <1>3, <1>8, <1>16 DEF Popping
    <3> QED BY <1>1, <1>3, <3>1 DEF Apart, Emptying
  <2> QED BY <1>4, <1>6, <1>14, <1>15, <2>1, <2>2 DEF SlotOK
<1>18. \A w, e : w = seen[t] /\ e = block[t] => Knows(l, c, w, e, a)'
  <2> SUFFICES ASSUME l = "destroy" PROVE FreeKnows(l, d, a)'
    BY <1>2, <1>8 DEF Knows, Filling, Pushing, Emptying, Popping, Freeing
  <2>1. GotTo(d, j, j + 1)
    BY <1>8, <1>11
  <2>2. LastLeft(d)'
    <3>1. \A e : LastLeft(e) => LastLeft(e)'
      BY <1>2, <1>8, <1>9, RolesLeft
    <3> QED BY <2>1, <3>1 DEF GotTo
  <2>3. \A i \in Offsets : blocks'[d].slots[i] = IF i = j THEN s ELSE blocks[d].slots[i]
    BY <1>3, <1>6, <1>7, SlotUpdate
  <2>4. \A i \in 0 .. a - 1 : blocks'[d].slots[i].read
    <3> TAKE i \in 0 .. a - 1
    <3>1. i \in Offsets /\ (i = j \/ i \in 0 .. j - 1)
      BY <1>5, <1>8 DEF Offsets
    <3> QED BY <1>6, <2>1, <2>3, <3>1 DEF GotTo
  <2>5. \A i \in a .. BlockCap - 2 : ~blocks'[d].slots[i].destroy
    <3> TAKE i \in a .. BlockCap - 2
    <3>1. i \in Offsets /\ i # j /\ i \in j + 1 .. BlockCap - 2
      BY <1>5, <1>8 DEF Offsets
    <3> QED BY <2>1, <2>3, <3>1 DEF GotTo
  <2>6. d < BlockOf(Front)'
    BY <1>15, <2>1 DEF GotTo, BlockOf
  <2>7. d \in DOMAIN blocks' /\ a < BlockCap
    <3>1. DOMAIN blocks' = DOMAIN blocks
      BY <1>3, <1>6, <1>7, SlotUpdate
    <3> QED BY <1>3, <1>5, <1>8, <3>1
  <2>8. GotTo(d, a, a)'
    BY <1>15, <2>2, <2>4, <2>5, <2>6 DEF GotTo
  <2> QED BY <1>8, <1>15, <2>7, <2>8 DEF FreeKnows
<1>19. \A e : e = block[t] /\ Freer(e) => Freer(e)'
  <2> SUFFICES ASSUME Freer(d) PROVE Freer(d)'
    BY <1>2
  <2>1. CASE l = "destroy"
    BY <1>2, <1>16, <2>1 DEF Freer, Freeing
  <2>2. CASE l = "return"
    <3>1. \A i \in 0 .. BlockCap - 2 : Asked(d, i)' <=> Asked(d, i)
      BY <1>8, <1>14, <2>2 DEF Asked, Old
    <3>2. \A u \in Threads : LastSlot(Mine(u))' <=> LastSlot(Mine(u))
      BY <1>16 DEF LastSlot, Off, BlockCap
    <3> QED BY <1>1, <1>5, <1>15, <1>16, <3>1, <3>2 DEF Freer
  <2> QED BY <1>8, <2>1, <2>2
<1> QED BY <1>1, <1>2, <1>8, <1>13, <1>17, <1>18, <1>19, SlotStepKeeps

\* A pop reads the value of its slot; after the last one of a block it destroys
\* the block.
LEMMA ReadStep ==
    ASSUME TypeOK, Live, lap' = lap, NEW t \in Threads, PopRead(t)
    PROVE  TypeOK' /\ Live'
<1>1. pc[t] = "read" /\ pc[t] \in Emptying /\ pc[t] \in Popping /\ pc[t] \notin Filling \cup Freeing
  BY DEF PopRead, Filling, Pushing, Emptying, Popping, Freeing
<1>2. PICK d, j : d = block[t] /\ j = Offset(seen[t])
  OBVIOUS
<1>3. /\ d \in DOMAIN blocks /\ d \in Nat /\ d >= 1 /\ j \in Offsets /\ Old(d, j) \in Slot /\ Old(d, j) = Cell(Mine(t)) /\ ~Old(d, j).read
      /\ Mine(t) = Pos(d, j) /\ Mine(t) < Front /\ (IsLast(t) <=> LastSlot(Mine(t)))
      /\ \A u \in Threads : u # t /\ pc[u] \in Filling \cup Emptying /\ block[u] = d /\ Offset(seen[u]) = j =>
            pc[u] \notin Emptying /\ (pc[u] \in Filling => ~Old(d, j).written)
      /\ \A u \in Threads : u # t => Apart(pc[t], Mine(t), block[t], pc[u], Mine(u), block[u])
  BY <1>1, <1>2, AtMySlot
<1>4. /\ EmptyKnows("read", Mine(t), block[t], aux[t]) /\ MySlot(t) = Old(d, j)
      /\ TailInv /\ ThreadsInv /\ AskedInv /\ SlotsInv
      /\ Mine(t) \in Nat /\ lap \in Nat /\ lap >= 2 /\ Front \in Nat /\ Back \in Nat /\ Front <= Back /\ Len(blocks) \in Nat
      /\ aux[t] \in Nat
  BY <1>1, <1>2, Numbers DEF Live, ThreadsInv, Knows, Mine, MySlot, Old
<1>5. /\ Old(d, j).written = TRUE /\ Old(d, j).read = FALSE /\ BlockCap \in Nat /\ BlockCap >= 1 /\ HasSlot(Mine(t)) /\ d = BlockOf(Mine(t))
      /\ j = Off(Mine(t))
  <2>1. BlockCap \in Nat /\ BlockCap >= 1
    BY <1>4 DEF BlockCap
  <2>2. Old(d, j).written = TRUE
    BY <1>3, <1>4 DEF PopRead, Slot
  <2>3. HasSlot(Mine(t)) /\ d = BlockOf(Mine(t)) /\ j = Off(Mine(t))
    BY <1>1, <1>2, <1>4, MyPlace
  <2> QED BY <1>3, <2>1, <2>2, <2>3 DEF Slot
<1>6. PICK v \in Values : Old(d, j).value = v
  <2>1. Mine(t) \in Positions /\ PoppedBy(Mine(t))
    <3>1. BlockOf(Mine(t)) <= Len(blocks)
      BY <1>3, <1>4, <1>5, Numbers
    <3> QED BY <1>1, <1>4, <3>1, PositionsFacts DEF PoppedBy, Positions
  <2>2. SlotOK(Mine(t))
    BY <1>4, <1>5, <2>1 DEF SlotsInv
  <2>3. ~FilledBy(Mine(t))
    <3> SUFFICES ASSUME NEW u \in Threads, pc[u] \in Filling, Mine(u) = Mine(t) PROVE FALSE
      BY DEF FilledBy
    <3>1. ~Cell(Mine(u)).written
      BY <1>4, MyPlace
    <3> QED BY <1>3, <1>5, <3>1
  <2> QED BY <1>3, <1>4, <2>1, <2>2, <2>3 DEF SlotOK
<1> DEFINE s == [Old(d, j) EXCEPT !.value = None]
           c == Q!Popped(v)
<1>7. s \in Slot /\ s.read = FALSE /\ s.written = TRUE /\ s.destroy = Old(d, j).destroy
  BY <1>3, <1>5 DEF Slot
<1>8. SlotBecomes(d, j, s) /\ head' = head /\ tail' = tail
  BY <1>2 DEF PopRead, SlotBecomes, Old
<1>9. PICK l, a : /\ Moves(t, l, c, seen[t], d, a) /\ a \in Nat
                  /\ \/ l = "setread" /\ ~LastSlot(Mine(t)) /\ a = aux[t]
                     \/ l = "destroy" /\ a = 0 /\ LastSlot(Mine(t))
  <2>1. CASE IsLast(t)
    <3>1. Moves(t, "destroy", c, seen[t], d, 0)
      BY <1>2, <1>4, <1>6, <2>1 DEF PopRead, Moves, TypeOK, Goto, SetAux
    <3> QED BY <1>3, <2>1, <3>1
  <2>2. CASE ~IsLast(t)
    <3>1. Moves(t, "setread", c, seen[t], d, aux[t])
      BY <1>2, <1>4, <1>6, <2>2 DEF PopRead, Moves, TypeOK, Goto, SetAux
    <3> QED BY <1>3, <1>4, <2>2, <3>1
  <2> QED BY <2>1, <2>2
<1>10. CallOK(l, c) /\ Leaves(t, l)
  BY <1>1, <1>9 DEF CallOK, Leaves, Filling, Pushing, Emptying, Popping, Freeing
<1> HIDE DEF s, c
<1>11. SetsSlot(t, l, c, d, a, d, j, s)
  <2>1. {l, pc[t]} \cap (Linking \cup {"setnext", "firsthead"} \cup Advancing) = {}
    BY <1>1, <1>9 DEF Linking, Advancing
  <2> QED BY <1>2, <1>3, <1>7, <1>8, <1>9, <2>1 DEF SetsSlot
<1>12. LastSlot(Mine(t)) => ~LastLeft(d)
  BY <1>1, <1>2 DEF LastLeft
<1>13. LastSlot(Mine(t)) => \A u \in Threads : pc[u] \in Freeing => block[u] # d
  <2> SUFFICES ASSUME LastSlot(Mine(t)), NEW u \in Threads, pc[u] \in Freeing, block[u] = d PROVE FALSE
    OBVIOUS
  <2>1. FreeKnows(pc[u], block[u], aux[u])
    BY <1>4 DEF ThreadsInv, Knows
  <2> QED BY <1>12, <2>1 DEF FreeKnows, GotTo
<1>14. SeesTo(t, l, c, a, j, s)
  <2>1. \A u \in Threads : u # t => Apart(l, Mine(t), d, pc[u], Mine(u), block[u])
    <3> TAKE u \in Threads
    <3> HAVE u # t
    <3>1. Apart("read", Mine(t), d, pc[u], Mine(u), block[u])
      BY <1>1, <1>2, <1>3
    <3>2. CASE l = "setread"
      BY <3>1, <3>2 DEF Apart, Filling, Pushing, Emptying, Popping, Freeing
    <3>3. CASE l = "destroy"
      BY <1>9, <1>13, <3>3 DEF Apart, Filling, Pushing, Emptying, Popping, Freeing
    <3> QED BY <1>9, <3>2, <3>3
  <2> QED BY <1>2, <1>3, <1>5, <1>7, <1>10, <1>11, <2>1 DEF SeesTo
<1>15. /\ \A n : n = Pos(d, j) => Cell(n)' = s /\ blocks'[BlockOf(n)'].frees = blocks[BlockOf(n)].frees
       /\ \A i \in 0 .. BlockCap - 2 : Asked(d, i)' <=> Asked(d, i)
  BY <1>3, <1>5, <1>7, <1>8, CellBecomes DEF Asked, Old
<1>16. /\ Front' = Front /\ Back' = Back /\ BlockCap' = BlockCap
       /\ \A n : BlockOf(n)' = BlockOf(n) /\ Off(n)' = Off(n) /\ (HasSlot(n)' <=> HasSlot(n)) /\ (LastSlot(n)' <=> LastSlot(n))
  BY <1>8, SamePlaces DEF Front, Back
<1>17. /\ pc'[t] = l /\ \A u \in Threads : u # t => pc'[u] = pc[u]
       /\ \A u \in Threads : block'[u] = block[u] /\ Mine(u)' = Mine(u)
  BY <1>2, <1>9, MovesFacts DEF Mine
<1>18. \A n : n = Pos(block[t], j) /\ SlotOK(n) => SlotOK(n)'
  <2> SUFFICES ASSUME NEW n, n = Pos(d, j), SlotOK(n) PROVE SlotOK(n)'
    BY <1>2
  <2>1. n < Front /\ n < Back /\ n \in Nat
    BY <1>3, <1>4
  <2>2. ~PoppedBy(n)'
    <3> SUFFICES ASSUME NEW u \in Threads, pc'[u] \in Popping, Mine(u)' = n PROVE FALSE
      BY DEF PoppedBy
    <3>1. u # t /\ pc[u] \in Popping /\ Mine(u) = Mine(t)
      BY <1>3, <1>9, <1>17 DEF Popping
    <3> QED BY <1>1, <1>3, <3>1 DEF Apart, Emptying
  <2>3. ~LastSlot(n) => EmptiedBy(n)'
    <3> SUFFICES ASSUME ~LastSlot(n) PROVE EmptiedBy(n)'
      OBVIOUS
    <3>1. pc'[t] = "setread" /\ Mine(t)' = n
      BY <1>3, <1>9, <1>17
    <3> QED BY <3>1 DEF EmptiedBy, Emptying
  <2> QED BY <1>4, <1>7, <1>15, <1>16, <2>1, <2>2, <2>3 DEF SlotOK
<1>19. \A w, e : w = seen[t] /\ e = block[t] => Knows(l, c, w, e, a)'
  <2> SUFFICES ASSUME NEW w, w = seen[t] PROVE Knows(l, c, w, d, a)'
    BY <1>2
  <2>1. CASE l = "setread"
    <3>1. At(w) = Pos(d, j)
      BY <1>3 DEF Mine
    <3>2. EmptyKnows("read", At(w), d, aux[t])
      BY <1>2, <1>4 DEF Mine
    <3>3. ~LastSlot(At(w))
      BY <1>9, <2>1 DEF Mine
    <3>4. EmptyKnows("setread", At(w), d, a)'
      BY <1>7, <1>15, <1>16, <3>1, <3>2, <3>3 DEF EmptyKnows, Advancing
    <3> QED BY <2>1, <3>4 DEF Knows, Filling, Pushing, Emptying, Popping, Freeing
  <2>2. CASE l = "destroy"
    <3>1. a = 0 /\ LastSlot(Mine(t))
      BY <1>9, <2>2
    <3>2. d < BlockOf(Front)'
      BY <1>2, <1>4, <1>16, <3>1 DEF EmptyKnows, BlockOf
    <3>3. LastLeft(d)'
      <4> SUFFICES ASSUME NEW u \in Threads, pc'[u] \in Filling \cup Emptying, block'[u] = d, LastSlot(Mine(u))' PROVE FALSE
        BY DEF LastLeft
      <4>1. u # t /\ pc[u] \in Filling \cup Emptying /\ block[u] = d /\ LastSlot(Mine(u))
        <5>1. \A n : LastSlot(n)' <=> LastSlot(n)
          BY <1>16
        <5>2. LastSlot(Mine(u))
          BY <1>17, <5>1 DEF LastSlot, Off, BlockCap
        <5> QED BY <1>17, <2>2, <5>2 DEF Filling, Pushing, Emptying, Popping
      <4>2. block[u] = BlockOf(Mine(u)) /\ Off(Mine(u)) \in Offsets /\ Offset(seen[u]) = Off(Mine(u))
        BY <1>4, <4>1, MyPlace
      <4>3. Offset(seen[u]) = j
        <5>1. Off(Mine(u)) + 1 = BlockCap /\ j + 1 = BlockCap
          BY <1>5, <3>1, <4>1 DEF LastSlot
        <5> QED BY <1>3, <1>5, <4>2, <5>1 DEF Offsets
      <4> QED BY <1>3, <1>5, <4>1, <4>3
    <3>4. \A i \in a .. BlockCap - 2 : ~blocks'[d].slots[i].destroy
      <4> TAKE i \in a .. BlockCap - 2
      <4>1. i \in Offsets /\ i \in 0 .. BlockCap - 2
        BY <1>5, <3>1 DEF Offsets
      <4>2. blocks'[d].slots[i] = IF i = j THEN s ELSE blocks[d].slots[i]
        BY <1>3, <1>7, <1>8, <4>1, SlotUpdate
      <4>3. ~blocks[d].slots[i].destroy
        BY <1>3, <1>4, <1>12, <3>1, <4>1 DEF AskedInv
      <4> QED BY <1>7, <4>2, <4>3 DEF Old
    <3>5. d \in DOMAIN blocks' /\ a < BlockCap
      <4>1. DOMAIN blocks' = DOMAIN blocks
        BY <1>3, <1>7, <1>8, SlotUpdate
      <4> QED BY <1>3, <1>5, <3>1, <4>1
    <3>6. GotTo(d, a, a)'
      BY <1>16, <3>1, <3>2, <3>3, <3>4 DEF GotTo
    <3>7. FreeKnows(l, d, a)'
      BY <1>16, <2>2, <3>5, <3>6 DEF FreeKnows
    <3> QED BY <2>2, <3>7 DEF Knows, Filling, Pushing, Emptying, Popping, Freeing
  <2> QED BY <1>9, <2>1, <2>2
<1>20. \A e : e = block[t] /\ Freer(e) => Freer(e)'
  <2> SUFFICES ASSUME Freer(d) PROVE Freer(d)'
    BY <1>2
  <2>1. CASE l = "destroy"
    BY <1>2, <1>17, <2>1 DEF Freer, Freeing
  <2>2. CASE l = "setread"
    <3>1. \A u \in Threads : LastSlot(Mine(u))' <=> LastSlot(Mine(u))
      BY <1>17 DEF LastSlot, Off, BlockCap
    <3>2. \A u \in Threads : (pc'[u] \in Emptying <=> pc[u] \in Emptying) /\ (pc'[u] \in Freeing <=> pc[u] \in Freeing)
      BY <1>1, <1>17, <2>2 DEF Emptying, Freeing, Popping
    <3> QED BY <1>15, <1>16, <1>17, <3>1, <3>2 DEF Freer
  <2> QED BY <1>9, <2>1, <2>2
<1> QED BY <1>1, <1>2, <1>9, <1>14, <1>18, <1>19, <1>20, SlotStepKeeps

\* destroy asks a slot to destroy the block, unless it has been read meanwhile.
LEMMA HandOverStep ==
    ASSUME TypeOK, Live, lap' = lap, NEW t \in Threads, DestroyHandOver(t)
    PROVE  TypeOK' /\ Live'
<1>1. pc[t] = "handover" /\ pc[t] \in Freeing /\ pc[t] \notin Filling \cup Emptying \cup Popping
  BY DEF DestroyHandOver, Filling, Pushing, Emptying, Popping, Freeing
<1>2. PICK d, j, c : d = block[t] /\ j = aux[t] /\ c = call[t]
  OBVIOUS
<1>3. /\ FreeKnows("handover", d, j)
      /\ TailInv /\ ThreadsInv /\ AskedInv /\ OwnersInv /\ lap \in Nat /\ lap >= 2 /\ BlockCap \in Nat
      /\ d \in DOMAIN blocks /\ d \in Nat /\ d >= 1 /\ j \in Nat
  <2>1. TailInv /\ ThreadsInv /\ AskedInv /\ OwnersInv
    BY DEF Live
  <2>2. FreeKnows("handover", d, j)
    BY <1>1, <1>2, <2>1 DEF ThreadsInv, Knows
  <2> QED BY SMTT(60), <1>2, <2>1, <2>2, Numbers DEF FreeKnows, BlockCap
<1>4. j + 1 < BlockCap /\ j \in Offsets /\ j \in 0 .. BlockCap - 2 /\ GotTo(d, j, j) /\ Old(d, j) \in Slot /\ Old(d, j).destroy = FALSE
  <2>1. j + 1 < BlockCap /\ GotTo(d, j, j) /\ j \in 0 .. BlockCap - 2 /\ j \in Offsets
    BY <1>3 DEF FreeKnows, Offsets
  <2>2. Old(d, j) \in Slot
    <3>1. blocks[d] \in Block
      BY <1>3 DEF TypeOK
    <3> QED BY <2>1, <3>1 DEF Block, Old
  <2> QED BY <1>3, <2>1, <2>2 DEF GotTo, Old, Slot
<1> DEFINE s == [Old(d, j) EXCEPT !.destroy = TRUE]
<1>5. /\ s \in Slot /\ s.read = Old(d, j).read /\ s.value = Old(d, j).value /\ s.written = Old(d, j).written /\ s.destroy = TRUE
      /\ Old(d, j).read \in BOOLEAN
  BY <1>4 DEF Slot
<1>6. SlotBecomes(d, j, s) /\ head' = head /\ tail' = tail
  BY <1>2 DEF DestroyHandOver, SlotBecomes, Old
<1>7. PICK l, a : /\ Moves(t, l, c, seen[t], d, a) /\ a \in Nat
                  /\ \/ l = "return" /\ ~Old(d, j).read
                     \/ l = "destroy" /\ a = j + 1 /\ Old(d, j).read
  <2>1. CASE Old(d, j).read
    <3>1. Moves(t, "destroy", c, seen[t], d, j + 1)
      BY <1>2, <2>1 DEF DestroyHandOver, Moves, TypeOK, Goto, SetAux, Old
    <3> QED BY <1>3, <2>1, <3>1
  <2>2. CASE ~Old(d, j).read
    <3>1. Moves(t, "return", c, seen[t], d, j)
      BY <1>2, <2>2 DEF DestroyHandOver, Moves, TypeOK, Goto, SetAux, Old
    <3> QED BY <1>3, <2>2, <3>1
  <2> QED BY <2>1, <2>2
<1>8. CallOK(l, c) /\ Leaves(t, l)
  <2>1. PICK v \in Values : c = Q!Popped(v)
    BY <1>1, <1>2, CallsNow
  <2>2. c.op \in Q!Answers
    BY <2>1 DEF Q!Popped, Q!Said, Q!Answers
  <2> QED BY <1>1, <1>7, <2>1, <2>2 DEF CallOK, Leaves, Filling, Pushing, Emptying, Popping, Freeing
<1> HIDE DEF s
<1>9. SetsSlot(t, l, c, d, a, d, j, s)
  <2>1. {l, pc[t]} \cap (Linking \cup {"setnext", "firsthead"} \cup Advancing) = {}
    BY <1>1, <1>7 DEF Linking, Advancing
  <2> QED BY <1>2, <1>3, <1>4, <1>5, <1>6, <1>7, <2>1 DEF SetsSlot
<1>10. \A u \in Threads : u # t => Apart("handover", Mine(t), d, pc[u], Mine(u), block[u])
  BY <1>1, <1>2, <1>3 DEF OwnersInv
<1>11. \A u \in Threads : u # t /\ pc[u] \in Freeing => block[u] # d
  BY <1>10 DEF Apart, Freeing
<1>12. GotTo(d, j, j + 1) /\ \A i \in 0 .. BlockCap - 2 : ~Asked(d, i)
  <2>1. \A i \in 0 .. j - 1 : blocks[d].slots[i].read
    BY <1>4 DEF GotTo
  <2>2. \A i \in j .. BlockCap - 2 : ~blocks[d].slots[i].destroy
    BY <1>4 DEF GotTo
  <2>3. \A i \in 0 .. BlockCap - 2 : i \in 0 .. j - 1 \/ i \in j .. BlockCap - 2
    BY <1>3
  <2>4. \A i \in j + 1 .. BlockCap - 2 : i \in j .. BlockCap - 2
    BY <1>3
  <2> QED BY <1>4, <2>1, <2>2, <2>3, <2>4 DEF GotTo, Asked
<1>13. SeesTo(t, l, c, a, j, s)
  <2>1. \A u \in Threads : u # t => Apart(l, Mine(t), d, pc[u], Mine(u), block[u])
    BY <1>7, <1>10 DEF Apart, Filling, Pushing, Emptying, Popping, Freeing
  <2> QED BY <1>2, <1>5, <1>8, <1>9, <1>11, <1>12, <2>1 DEF SeesTo
<1>14. /\ \A n : n = Pos(d, j) => Cell(n)' = s /\ blocks'[BlockOf(n)'].frees = blocks[BlockOf(n)].frees
       /\ Cell(Pos(d, j)) = Old(d, j) /\ (Asked(d, j)' <=> ~s.read)
  BY <1>3, <1>4, <1>5, <1>6, CellBecomes
<1>15. /\ Front' = Front /\ Back' = Back /\ BlockCap' = BlockCap
       /\ \A n : BlockOf(n)' = BlockOf(n) /\ Off(n)' = Off(n) /\ (HasSlot(n)' <=> HasSlot(n)) /\ (LastSlot(n)' <=> LastSlot(n))
  BY <1>6, SamePlaces DEF Front, Back
<1>16. \A n : (FilledBy(n)' <=> FilledBy(n)) /\ (PoppedBy(n)' <=> PoppedBy(n)) /\ (EmptiedBy(n)' <=> EmptiedBy(n))
  BY <1>1, <1>2, <1>7, <1>8, RolesLeft
<1>17. \A n : n = Pos(block[t], j) /\ SlotOK(n) => SlotOK(n)'
  BY <1>2, <1>5, <1>14, <1>15, <1>16 DEF SlotOK
<1>18. \A w, e : w = seen[t] /\ e = block[t] => Knows(l, c, w, e, a)'
  <2> SUFFICES ASSUME l = "destroy" PROVE FreeKnows(l, d, a)'
    BY <1>2, <1>7 DEF Knows, Filling, Pushing, Emptying, Popping, Freeing
  <2>1. \A i \in Offsets : blocks'[d].slots[i] = IF i = j THEN s ELSE blocks[d].slots[i]
    BY <1>3, <1>4, <1>5, <1>6, SlotUpdate
  <2>2. LastLeft(d)'
    <3>1. \A e : LastLeft(e) => LastLeft(e)'
      BY <1>2, <1>7, <1>8, RolesLeft
    <3> QED BY <1>4, <3>1 DEF GotTo
  <2>3. \A i \in 0 .. a - 1 : blocks'[d].slots[i].read
    <3> TAKE i \in 0 .. a - 1
    <3>1. i \in Offsets /\ (i = j \/ i \in 0 .. j - 1)
      BY <1>3, <1>4, <1>7 DEF Offsets
    <3> QED BY <1>4, <1>5, <1>7, <2>1, <3>1 DEF GotTo
  <2>4. \A i \in a .. BlockCap - 2 : ~blocks'[d].slots[i].destroy
    <3> TAKE i \in a .. BlockCap - 2
    <3>1. i \in Offsets /\ i # j /\ i \in j .. BlockCap - 2
      BY <1>3, <1>7 DEF Offsets
    <3> QED BY <1>4, <2>1, <3>1 DEF GotTo
  <2>5. d < BlockOf(Front)'
    BY <1>4, <1>15 DEF GotTo, BlockOf
  <2>6. d \in DOMAIN blocks' /\ a < BlockCap
    <3>1. DOMAIN blocks' = DOMAIN blocks
      BY <1>3, <1>4, <1>5, <1>6, SlotUpdate
    <3> QED BY <1>3, <1>4, <1>7, <3>1
  <2>7. GotTo(d, a, a)'
    BY <1>15, <2>2, <2>3, <2>4, <2>5 DEF GotTo
  <2> QED BY <1>7, <1>15, <2>6, <2>7 DEF FreeKnows
<1>19. \A e : e = block[t] /\ Freer(e) => Freer(e)'
  <2> SUFFICES ASSUME Freer(d) PROVE Freer(d)'
    BY <1>2
  <2>1. CASE l = "destroy"
    <3>1. pc'[t] = l /\ block'[t] = d
      BY <1>7, MovesFacts
    <3> QED BY <2>1, <3>1 DEF Freer, Freeing
  <2>2. CASE l = "return"
    <3>1. Asked(d, j)'
      BY <1>5, <1>7, <1>14, <2>2
    <3> QED BY <1>4, <1>15, <3>1 DEF Freer
  <2> QED BY <1>7, <2>1, <2>2
<1> QED BY <1>1, <1>2, <1>7, <1>13, <1>17, <1>18, <1>19, SlotStepKeeps

\* close marks tail.
LEMMA CloseStep ==
    ASSUME TypeOK, Live, lap' = lap, NEW t \in Threads, Close(t)
    PROVE  TypeOK' /\ Live'
<1>1. /\ tail \in [index : Nat, block : Nat] /\ tail.index \in Nat
      /\ seen[t] \in Nat /\ block[t] \in Nat /\ aux[t] \in Nat /\ pc[t] = "close"
  BY DEF TypeOK, Close
<1>2. Mark(tail.index) \in Nat /\ At(Mark(tail.index)) = At(tail.index)
  BY <1>1, WordFacts
<1>3. /\ UNCHANGED <<lap, head, blocks>> /\ tail' = [tail EXCEPT !.index = Mark(tail.index)]
  BY DEF Close
<1>4. Back' = Back /\ tail'.block = tail.block /\ tail' \in [index : Nat, block : Nat]
  BY <1>1, <1>2, <1>3 DEF Back
<1>5. PICK c : Moves(t, "return", c, seen[t], block[t], aux[t]) /\ c \in {Q!Ask("again"), Q!Ask("first")}
  <2>1. Moves(t, "return", Q!Ask(IF Marked(tail.index) THEN "again" ELSE "first"), seen[t], block[t], aux[t])
    BY DEF TypeOK, Close, Answer, Goto, Moves, locals
  <2> QED BY <2>1
<1>6. CallOK("return", c)
  BY <1>5 DEF CallOK, Q!Ask, Q!Said, Q!Answers
<1>7. SameRole(t, "return", seen[t], block[t])
  BY <1>1, Roleless DEF Filling, Pushing, Emptying, Popping, Freeing
<1>8. Knows("return", c, seen[t], block[t], aux[t])
  BY DEF Knows, Filling, Pushing, Emptying, Popping, Freeing
<1> QED BY <1>1, <1>3, <1>4, <1>5, <1>6, <1>7, <1>8, LocalOrMark

\* A step of a thread that moves an end of the queue: to a slot of the blocks there
\* are, which becomes the thread's, or from block to block.
MovesEnd(t, l, c, w, b, a) ==
    /\ Moves(t, l, c, w, b, a) /\ c = call[t] /\ w = seen[t] /\ b = block[t] /\ a = aux[t]
    /\ lap' = lap /\ blocks' = blocks /\ CallOK(l, c)
    /\ {l, pc[t]} \cap Freeing = {}
    /\ l \in Filling \cup Emptying => pc[t] \in Filling \cup Emptying \/ b >= BlockOf(Front)
    /\ pc[t] \in Emptying => l \in Emptying
    /\ \A u \in Threads : u # t =>
          /\ pc[u] \in Linking => Back' = Back
          /\ pc[u] \in Advancing => Front' = Front
          /\ Apart(l, At(w), b, pc[u], Mine(u), block[u])

\* It keeps the invariant, if that holds of the ends, the thread and its slot.
LEMMA EndStep ==
    ASSUME TypeOK, Live, NEW t \in Threads, NEW l, NEW c, NEW w, NEW b, NEW a, MovesEnd(t, l, c, w, b, a),
           head' \in [index : Nat, block : Nat], tail' \in [index : Nat, block : Nat],
           Front <= Front', Back <= Back', head.block # 0 => head'.block # 0,
           TailInv', HeadInv', LinksInv', Knows(l, c, w, b, a)',
           \A n \in Positions : HasSlot(n) /\ SlotOK(n) => SlotOK(n)',
           \A e \in DOMAIN blocks : e >= BlockOf(Front) /\ e < BlockOf(Front)' => Freer(e)'
    PROVE  TypeOK' /\ Live'
<1>0. /\ TailInv /\ HeadInv /\ LinksInv /\ ThreadsInv /\ OwnersInv /\ SlotsInv /\ AskedInv /\ FreedInv
      /\ lap' = lap /\ blocks' = blocks /\ Moves(t, l, c, w, b, a) /\ c = call[t] /\ w = seen[t] /\ b = block[t] /\ a = aux[t]
      /\ w \in Nat /\ b \in Nat /\ a \in Nat /\ blocks \in Seq(Block) /\ CallOK(l, c)
  BY DEF Live, MovesEnd, TypeOK
<1>1. TypeOK'
  BY <1>0, MovesTypes
<1>2. /\ Front \in Nat /\ Back \in Nat /\ Front' \in Nat /\ Back' \in Nat /\ BlockOf(Front) \in Nat /\ BlockOf(Front) <= BlockOf(Front')
      /\ BlockOf(Front') \in Nat /\ BlockOf(Front)' = BlockOf(Front') /\ DOMAIN blocks \subseteq Nat
  <2>1. Front \in Nat /\ Back \in Nat /\ BlockOf(Front) \in Nat /\ lap \in Nat /\ lap >= 2 /\ DOMAIN blocks \subseteq Nat
    BY <1>0, Numbers
  <2>3. Front' \in Nat /\ Back' \in Nat
    <3>1. At(head'.index) \in Nat /\ At(tail'.index) \in Nat
      BY WordFacts
    <3> QED BY <3>1 DEF Front, Back, At
  <2>4. BlockOf(Front) <= BlockOf(Front') /\ BlockOf(Front') \in Nat
    BY <2>1, <2>3, PlaceOrder, PlaceFacts
  <2>5. BlockOf(Front)' = BlockOf(Front')
    BY <1>0 DEF BlockOf
  <2> QED BY <2>1, <2>3, <2>4, <2>5
<1>3. /\ pc'[t] = l /\ \A u \in Threads : u # t => pc'[u] = pc[u]
      /\ \A u \in Threads : block'[u] = block[u] /\ Mine(u)' = Mine(u)
      /\ \A n : BlockOf(n)' = BlockOf(n) /\ Off(n)' = Off(n) /\ (HasSlot(n)' <=> HasSlot(n)) /\ (LastSlot(n)' <=> LastSlot(n)) /\ Cell(n)' = Cell(n)
      /\ BlockCap' = BlockCap /\ Positions' = Positions
      /\ \A u \in Threads : LastSlot(Mine(u))' <=> LastSlot(Mine(u))
  <2>1. /\ pc'[t] = l /\ \A u \in Threads : u # t => pc'[u] = pc[u]
        /\ \A u \in Threads : block'[u] = block[u] /\ Mine(u)' = Mine(u)
    BY <1>0, MovesFacts DEF Mine
  <2> QED BY <1>0, <2>1, SamePlaces DEF Cell, Positions, LastSlot, Off, BlockCap
<1>4. \A e \in DOMAIN blocks : e < BlockOf(Front) => (LastLeft(e) => LastLeft(e)') /\ (Working(e)' => Working(e))
  <2> TAKE e \in DOMAIN blocks
  <2> HAVE e < BlockOf(Front)
  <2>1. \A u \in Threads : block[u] = e => (pc'[u] \in Filling \cup Emptying => pc[u] \in Filling \cup Emptying)
                                           /\ (pc'[u] \in Freeing <=> pc[u] \in Freeing)
    <3> TAKE u \in Threads
    <3>1. CASE u = t
      BY <1>0, <1>2, <1>3, <3>1 DEF MovesEnd
    <3>2. CASE u # t
      BY <1>3, <3>2
    <3> QED BY <3>1, <3>2
  <2> QED BY <1>3, <2>1 DEF LastLeft, Working
<1>5. \A e \in DOMAIN blocks : \A lo, hi : GotTo(e, lo, hi) => GotTo(e, lo, hi)'
  <2> TAKE e \in DOMAIN blocks
  <2>1. e < BlockOf(Front) => e < BlockOf(Front)'
    BY <1>2
  <2> QED BY <1>0, <1>3, <1>4, <2>1 DEF GotTo
<1>6. ASSUME NEW u \in Threads, u # t PROVE LeavesAlone(u)
  <2>1. \A n : SameCell(n) /\ Cell(n)' = Cell(n)
    BY <1>3 DEF SameCell
  <2>2. pc[u] \in Freeing => block[u] \in DOMAIN blocks
    BY <1>0 DEF ThreadsInv, Knows, FreeKnows
  <2>3. pc[u] \in Freeing => \A d, i : d = block[u] /\ i = aux[u] /\ GotTo(d, i, i) => GotTo(d, i, i)'
    BY <1>5, <2>2
  <2>4. (pc[u] \in Linking => Back' = Back) /\ (pc[u] \in Advancing => Front' = Front)
    BY <1>6 DEF MovesEnd
  <2> QED BY <1>0, <2>1, <2>3, <2>4 DEF LeavesAlone
<1>7. ThreadsInv'
  <2>1. Len(blocks) <= Len(blocks') /\ blocks' \in Seq(Block)
    BY <1>0
  <2> QED BY <1>0, <1>2, <1>6, <2>1, ThreadsAfter
<1>8. OwnersInv'
  BY <1>0, OwnersAfter DEF MovesEnd
<1>9. SlotsInv'
  BY <1>0, <1>3 DEF SlotsInv
<1>10. AskedInv'
  <2> SUFFICES ASSUME NEW e \in DOMAIN blocks, NEW i \in 0 .. BlockCap - 2
               PROVE  /\ blocks[e].slots[i].destroy => e < BlockOf(Front)' /\ LastLeft(e)'
                      /\ Asked(e, i) => GotTo(e, i, i + 1)'
    BY <1>0, <1>3 DEF AskedInv, Asked
  <2>1. /\ blocks[e].slots[i].destroy => e < BlockOf(Front) /\ LastLeft(e)
        /\ Asked(e, i) => GotTo(e, i, i + 1)
    BY <1>0 DEF AskedInv
  <2> QED BY <1>2, <1>4, <1>5, <2>1
<1>11. FreedInv'
  <2> SUFFICES ASSUME NEW e \in DOMAIN blocks
               PROVE  /\ blocks[e].frees \in {0, 1}
                      /\ blocks[e].frees = 1 => e < BlockOf(Front)' /\ ~Working(e)'
                      /\ blocks[e].frees = 0 /\ e < BlockOf(Front)' => Freer(e)'
    BY <1>0 DEF FreedInv
  <2>1. Freer(e) => Freer(e)'
    <3>1. \A i : Asked(e, i)' <=> Asked(e, i)
      BY <1>0 DEF Asked
    <3>2. \A u \in Threads : (pc[u] \in Emptying => pc'[u] \in Emptying) /\ (pc[u] \in Freeing => pc'[u] \in Freeing)
      BY <1>3 DEF MovesEnd
    <3> QED BY <1>3, <3>1, <3>2 DEF Freer
  <2> QED BY <1>0, <1>2, <1>4, <2>1 DEF FreedInv
<1> QED BY <1>0, <1>1, <1>7, <1>8, <1>9, <1>10, <1>11 DEF Live

\* What such steps start from.
LEMMA Around ==
    ASSUME TypeOK, Live, NEW t \in Threads
    PROVE  /\ TailInv /\ HeadInv /\ LinksInv /\ ThreadsInv /\ OwnersInv /\ SlotsInv /\ AskedInv /\ FreedInv
           /\ Knows(pc[t], call[t], seen[t], block[t], aux[t]) /\ CallOK(pc[t], call[t])
           /\ DOMAIN pc = Threads /\ DOMAIN call = Threads
           /\ seen \in [Threads -> Nat] /\ block \in [Threads -> Nat] /\ aux \in [Threads -> Nat]
           /\ head \in [index : Nat, block : Nat] /\ tail \in [index : Nat, block : Nat]
           /\ \A u \in Threads : u # t => Apart(pc[t], Mine(t), block[t], pc[u], Mine(u), block[u])
           /\ lap \in Nat /\ lap >= 2 /\ BlockCap \in Nat /\ BlockCap >= 1 /\ Front \in Nat /\ Back \in Nat /\ Front <= Back
           /\ Front = At(head.index) /\ Back = At(tail.index) /\ BlockOf(Front) \in Nat /\ BlockOf(Back) \in Nat /\ BlockOf(Front) <= BlockOf(Back)
           /\ Len(blocks) \in Nat /\ DOMAIN blocks = 1 .. Len(blocks)
           /\ seen[t] \in Nat /\ block[t] \in Nat /\ aux[t] \in Nat /\ Mine(t) \in Nat /\ Mine(t) = At(seen[t])
<1>1. TailInv /\ HeadInv /\ LinksInv /\ ThreadsInv /\ OwnersInv /\ SlotsInv /\ AskedInv /\ FreedInv
  BY DEF Live
<1>2. Knows(pc[t], call[t], seen[t], block[t], aux[t]) /\ CallOK(pc[t], call[t])
  BY <1>1 DEF ThreadsInv, TypeOK
<1>3. \A u \in Threads : u # t => Apart(pc[t], Mine(t), block[t], pc[u], Mine(u), block[u])
  BY <1>1 DEF OwnersInv
<1>4. BlockCap \in Nat /\ BlockCap >= 1
  BY DEF BlockCap, TypeOK
<1> QED BY <1>1, <1>2, <1>3, <1>4, Numbers DEF TypeOK, Front, Back, Mine

\* A push takes the slot tail is at; behind the last one of a block, tail waits for
\* the next block.
LEMMA TakeStep ==
    ASSUME TypeOK, Live, lap' = lap, NEW t \in Threads,
           pc[t] = "take", tail.index = seen[t], tail' = [tail EXCEPT !.index = @ + 2],
           Goto(t, IF IsLast(t) THEN "setblock" ELSE "write"), UNCHANGED <<head, blocks, call, seen, block, aux>>
    PROVE  TypeOK' /\ Live'
<1>0. /\ TailInv /\ HeadInv /\ LinksInv /\ ThreadsInv /\ OwnersInv /\ SlotsInv /\ AskedInv /\ FreedInv
      /\ Knows(pc[t], call[t], seen[t], block[t], aux[t]) /\ CallOK(pc[t], call[t])
      /\ DOMAIN pc = Threads /\ DOMAIN call = Threads
      /\ seen \in [Threads -> Nat] /\ block \in [Threads -> Nat] /\ aux \in [Threads -> Nat]
      /\ head \in [index : Nat, block : Nat] /\ tail \in [index : Nat, block : Nat]
      /\ \A u \in Threads : u # t => Apart(pc[t], Mine(t), block[t], pc[u], Mine(u), block[u])
      /\ lap \in Nat /\ lap >= 2 /\ BlockCap \in Nat /\ BlockCap >= 1 /\ Front \in Nat /\ Back \in Nat /\ Front <= Back
      /\ Front = At(head.index) /\ Back = At(tail.index) /\ BlockOf(Front) \in Nat /\ BlockOf(Back) \in Nat /\ BlockOf(Front) <= BlockOf(Back)
      /\ Len(blocks) \in Nat /\ DOMAIN blocks = 1 .. Len(blocks)
      /\ seen[t] \in Nat /\ block[t] \in Nat /\ aux[t] \in Nat /\ Mine(t) \in Nat /\ Mine(t) = At(seen[t])
  BY Around
<1>1. PICK n, c, w, b, a : n = Back /\ c = call[t] /\ w = seen[t] /\ b = block[t] /\ a = aux[t]
  OBVIOUS
<1>2. /\ At(w) = n /\ n \in Nat /\ HasSlot(n) /\ Len(blocks) # 0 /\ b = BlockOf(n) /\ BlockOf(n) \in DOMAIN blocks
  <2>1. PushKnows("take", w, n, b) /\ At(w) = n
    BY <1>0, <1>1 DEF Knows
  <2>2. Len(blocks) # 0 /\ b = BlockOf(n) /\ HasSlot(n)
    BY <1>1, <2>1 DEF PushKnows
  <2> QED BY <1>0, <1>1, <2>1, <2>2, BlocksExist
<1>3. /\ ~Cell(n).written /\ ~Cell(n).read /\ Cell(n).written = FALSE /\ Cell(n).read = FALSE
  <2>1. n \in Positions
    <3>1. BlockOf(n) <= Len(blocks)
      BY <1>0, <1>2
    <3> QED BY <1>0, <1>2, <3>1, PositionsFacts DEF Positions
  <2>2. SlotOK(n)
    BY <1>0, <1>2, <2>1 DEF SlotsInv
  <2>3. ~Cell(n).written /\ ~Cell(n).read
    BY <1>0, <1>1, <2>2 DEF SlotOK
  <2>4. Cell(n) \in Slot
    <3>1. blocks[BlockOf(n)] \in Block /\ Off(n) \in Offsets
      BY SMTT(60), <1>0, <1>2, PlaceFacts DEF TypeOK
    <3> QED BY <3>1 DEF Cell, Block
  <2> QED BY <2>3, <2>4 DEF Slot
<1>4. /\ Back' = n + 1 /\ Front' = Front /\ BlockOf(n + 1) = BlockOf(n) /\ (LastSlot(n) <=> ~HasSlot(n + 1))
      /\ tail' \in [index : Nat, block : Nat] /\ tail'.block = tail.block /\ head' = head
  <2>1. At(tail.index + 2) = At(tail.index) + 1 /\ tail.index + 2 \in Nat
    <3>1. tail.index \in Nat
      BY <1>0
    <3> QED BY <3>1, WordFacts
  <2>2. tail'.index = tail.index + 2 /\ tail'.block = tail.block /\ tail' \in [index : Nat, block : Nat]
    BY <1>0, <2>1
  <2> QED BY <1>0, <1>1, <1>2, <2>1, <2>2, NextPlace DEF Back, Front
<1>5. PICK l : /\ l = IF LastSlot(n) THEN "setblock" ELSE "write"
               /\ Moves(t, l, c, w, b, a)
  <2>1. IsLast(t) <=> LastSlot(n)
    BY <1>1, <1>2 DEF IsLast, Offset, LastSlot, Off
  <2> QED BY <1>0, <1>1, <2>1 DEF Moves, Goto
<1>6. CallOK(l, c) /\ l \in Filling /\ l \notin Emptying \cup Freeing \cup Popping
      /\ pc[t] \notin Filling \cup Emptying \cup Freeing \cup Popping
  BY <1>0, <1>1, <1>5 DEF CallOK, Filling, Pushing, Emptying, Popping, Freeing
<1>7. \A u \in Threads : pc[u] \in Linking => FALSE
  BY <1>0, <1>1, <1>2, RestingEnds
<1>8. MovesEnd(t, l, c, w, b, a)
  <2>1. ASSUME NEW u \in Threads, u # t PROVE Apart(l, At(w), b, pc[u], Mine(u), block[u])
    <3>1. pc[u] \in Filling => Mine(u) < Back
      BY <1>0, MyPlace
    <3>2. pc[u] \in Filling => At(w) # Mine(u)
      BY <1>0, <1>1, <1>2, <3>1
    <3> QED BY <1>5, <1>6, <3>2 DEF Apart, Emptying, Popping
  <2> QED BY SMTT(60), <1>0, <1>1, <1>2, <1>4, <1>5, <1>6, <1>7, <2>1 DEF MovesEnd
<1>9. /\ pc'[t] = l /\ \A u \in Threads : u # t => pc'[u] = pc[u]
      /\ \A u \in Threads : block'[u] = block[u] /\ Mine(u)' = Mine(u)
      /\ \A m : BlockOf(m)' = BlockOf(m) /\ (HasSlot(m)' <=> HasSlot(m)) /\ (LastSlot(m)' <=> LastSlot(m)) /\ Cell(m)' = Cell(m)
      /\ BlockOf(Front)' = BlockOf(Front) /\ BlockOf(Back)' = BlockOf(n + 1) /\ (HasSlot(Back)' <=> HasSlot(n + 1)) /\ (HasSlot(Front)' <=> HasSlot(Front))
  <2>1. /\ pc'[t] = l /\ \A u \in Threads : u # t => pc'[u] = pc[u]
        /\ \A u \in Threads : block'[u] = block[u] /\ Mine(u)' = Mine(u)
    BY <1>1, <1>5, MovesFacts DEF Mine
  <2>2. BlockOf(Front)' = BlockOf(Front) /\ BlockOf(Back)' = BlockOf(n + 1) /\ (HasSlot(Back)' <=> HasSlot(n + 1)) /\ (HasSlot(Front)' <=> HasSlot(Front))
    BY <1>4 DEF BlockOf, HasSlot, Off, BlockCap
  <2> QED BY <2>1, <2>2, SamePlaces DEF Cell
<1>10. /\ SomeAt("setindex")' <=> SomeAt("setindex")
       /\ SomeAt("firsthead")' <=> SomeAt("firsthead")
       /\ SomeAt("headindex")' <=> SomeAt("headindex")
       /\ \A u \in Threads : (pc'[u] \in Advancing <=> pc[u] \in Advancing) /\ (pc'[u] \in {"setindex", "setnext"} <=> pc[u] \in {"setindex", "setnext"})
  BY <1>5, <1>9 DEF SomeAt, Advancing
<1> HIDE DEF SomeAt
<1>11. TailInv'
  <2>1. ~HasSlot(Back)' => pc'[t] \in Linking
    BY <1>4, <1>5, <1>9 DEF Linking
  <2>2. tail'.block = Len(blocks') /\ Front' <= Back' /\ Len(blocks') # 0 /\ (Len(blocks') = BlockOf(Back)' + (IF SomeAt("setindex")' THEN 1 ELSE 0))
    BY SMTT(60), <1>0, <1>1, <1>2, <1>4, <1>9, <1>10 DEF TailInv
  <2> QED BY <2>1, <2>2 DEF TailInv
<1>12. HeadInv'
  BY <1>0, <1>1, <1>2, <1>4, <1>9, <1>10 DEF HeadInv
<1>13. LinksInv'
  BY <1>0, <1>9, <1>10 DEF LinksInv
<1>14. Knows(l, c, w, b, a)'
  <2>1. FillKnows(l, c, n, b)'
    BY <1>1, <1>2, <1>3, <1>4, <1>5, <1>9 DEF FillKnows, Linking
  <2> QED BY <1>2, <1>5, <1>6, <2>1 DEF Knows, Freeing
<1>15. \A m \in Positions : HasSlot(m) /\ SlotOK(m) => SlotOK(m)'
  <2> TAKE m \in Positions
  <2> HAVE HasSlot(m) /\ SlotOK(m)
  <2>1. (PoppedBy(m)' <=> PoppedBy(m)) /\ (EmptiedBy(m)' <=> EmptiedBy(m)) /\ (FilledBy(m) => FilledBy(m)') /\ (m = n => FilledBy(m)')
    <3>1. \A u \in Threads : (pc'[u] \in Popping <=> pc[u] \in Popping) /\ (pc'[u] \in Emptying <=> pc[u] \in Emptying)
                             /\ (pc[u] \in Filling => pc'[u] \in Filling)
      BY <1>6, <1>9
    <3>2. Mine(t)' = n
      BY <1>1, <1>2, <1>9 DEF Mine
    <3> QED BY <1>6, <1>9, <3>1, <3>2 DEF PoppedBy, EmptiedBy, FilledBy
  <2>2. m \in Int
    BY <1>0 DEF Positions
  <2>3. blocks'[BlockOf(m)'].frees = blocks[BlockOf(m)].frees
    BY <1>9
  <2> QED BY SMTT(60), <1>0, <1>1, <1>2, <1>4, <1>9, <2>1, <2>2, <2>3 DEF SlotOK
<1>16. /\ Front <= Front' /\ Back <= Back' /\ head' \in [index : Nat, block : Nat] /\ (head.block # 0 => head'.block # 0)
       /\ \A e \in DOMAIN blocks : e >= BlockOf(Front) /\ e < BlockOf(Front)' => Freer(e)'
  BY SMTT(60), <1>0, <1>1, <1>4, <1>9
<1> QED BY <1>4, <1>8, <1>11, <1>12, <1>13, <1>14, <1>15, <1>16, EndStep

\* What such steps leave.
LEMMA AroundAfter ==
    ASSUME TypeOK, NEW t \in Threads, NEW l, NEW c, NEW w, NEW b, NEW a, Moves(t, l, c, w, b, a), w = seen[t], b = block[t],
           lap' = lap, blocks' = blocks
    PROVE  /\ pc'[t] = l /\ \A u \in Threads : u # t => pc'[u] = pc[u]
           /\ \A u \in Threads : block'[u] = block[u] /\ Mine(u)' = Mine(u)
           /\ \A m : BlockOf(m)' = BlockOf(m) /\ (HasSlot(m)' <=> HasSlot(m)) /\ (LastSlot(m)' <=> LastSlot(m)) /\ Cell(m)' = Cell(m)
           /\ BlockOf(Front)' = BlockOf(Front') /\ BlockOf(Back)' = BlockOf(Back')
           /\ (HasSlot(Back)' <=> HasSlot(Back')) /\ (HasSlot(Front)' <=> HasSlot(Front'))
<1>1. /\ pc'[t] = l /\ \A u \in Threads : u # t => pc'[u] = pc[u]
      /\ \A u \in Threads : block'[u] = block[u] /\ Mine(u)' = Mine(u)
  BY MovesFacts DEF Mine
<1>2. BlockOf(Front)' = BlockOf(Front') /\ BlockOf(Back)' = BlockOf(Back') /\ (HasSlot(Back)' <=> HasSlot(Back')) /\ (HasSlot(Front)' <=> HasSlot(Front'))
  BY DEF BlockOf, HasSlot, Off, BlockCap
<1> QED BY <1>1, <1>2, SamePlaces DEF Cell

\* A pop takes the slot head is at; behind the last one of a block, head waits for
\* the pop to move it on.
LEMMA PopTakeStep ==
    ASSUME TypeOK, Live, lap' = lap, NEW t \in Threads,
           pc[t] = "poptake", head.index = seen[t], head' = [head EXCEPT !.index = aux[t]],
           Goto(t, IF IsLast(t) THEN "waitnext" ELSE "read"), UNCHANGED <<tail, blocks, call, seen, block, aux>>
    PROVE  TypeOK' /\ Live'
<1>0. /\ TailInv /\ HeadInv /\ LinksInv /\ ThreadsInv /\ OwnersInv /\ SlotsInv /\ AskedInv /\ FreedInv
      /\ Knows(pc[t], call[t], seen[t], block[t], aux[t]) /\ CallOK(pc[t], call[t])
      /\ DOMAIN pc = Threads /\ DOMAIN call = Threads
      /\ seen \in [Threads -> Nat] /\ block \in [Threads -> Nat] /\ aux \in [Threads -> Nat]
      /\ head \in [index : Nat, block : Nat] /\ tail \in [index : Nat, block : Nat]
      /\ \A u \in Threads : u # t => Apart(pc[t], Mine(t), block[t], pc[u], Mine(u), block[u])
      /\ lap \in Nat /\ lap >= 2 /\ BlockCap \in Nat /\ BlockCap >= 1 /\ Front \in Nat /\ Back \in Nat /\ Front <= Back
      /\ Front = At(head.index) /\ Back = At(tail.index) /\ BlockOf(Front) \in Nat /\ BlockOf(Back) \in Nat /\ BlockOf(Front) <= BlockOf(Back)
      /\ Len(blocks) \in Nat /\ DOMAIN blocks = 1 .. Len(blocks)
      /\ seen[t] \in Nat /\ block[t] \in Nat /\ aux[t] \in Nat /\ Mine(t) \in Nat /\ Mine(t) = At(seen[t])
  BY Around
<1>1. PICK n, c, w, b, a : n = Front /\ c = call[t] /\ w = seen[t] /\ b = block[t] /\ a = aux[t]
  OBVIOUS
<1>2. /\ At(w) = n /\ n \in Nat /\ HasSlot(n) /\ n < Back /\ b = BlockOf(n) /\ BlockOf(n) \in DOMAIN blocks
      /\ b # 0 /\ head.block # 0 /\ At(a) = n + 1 /\ (Marked(a) => BlockOf(n) < BlockOf(Back)) /\ Len(blocks) # 0
  <2>1. PopKnows("poptake", w, n, b, a) /\ At(w) = n
    BY <1>0, <1>1 DEF Knows
  <2>2. HasSlot(n) /\ b # 0 /\ head.block # 0 /\ b = BlockOf(n) /\ n < Back /\ At(a) = n + 1 /\ (Marked(a) => BlockOf(n) < BlockOf(Back))
    BY <1>1, <2>1 DEF PopKnows
  <2> QED BY <1>0, <1>1, <2>1, <2>2, BlocksExist
<1>3. SlotOK(n) /\ ~Cell(n).read
  <2>1. n \in Positions
    <3>1. BlockOf(n) <= Len(blocks)
      BY <1>0, <1>2
    <3> QED BY <1>0, <1>2, <3>1, PositionsFacts DEF Positions
  <2>2. SlotOK(n)
    BY <1>0, <1>2, <2>1 DEF SlotsInv
  <2> QED BY <1>0, <1>1, <2>2 DEF SlotOK
<1>4. /\ Front' = n + 1 /\ Back' = Back /\ BlockOf(n + 1) = BlockOf(n) /\ (LastSlot(n) <=> ~HasSlot(n + 1))
      /\ head' \in [index : Nat, block : Nat] /\ head'.block = head.block /\ head'.index = a /\ tail' = tail
  <2>1. head'.index = a /\ head'.block = head.block /\ head' \in [index : Nat, block : Nat]
    BY <1>0, <1>1
  <2> QED BY <1>0, <1>1, <1>2, <2>1, NextPlace DEF Back, Front
<1>5. PICK l : /\ l = IF LastSlot(n) THEN "waitnext" ELSE "read"
               /\ Moves(t, l, c, w, b, a)
  <2>1. IsLast(t) <=> LastSlot(n)
    BY <1>1, <1>2 DEF IsLast, Offset, LastSlot, Off
  <2> QED BY <1>0, <1>1, <2>1 DEF Moves, Goto
<1>6. CallOK(l, c) /\ l \in Emptying /\ l \in Popping /\ l \notin Filling \cup Freeing
      /\ pc[t] \notin Filling \cup Emptying \cup Freeing \cup Popping
  BY <1>0, <1>1, <1>5 DEF CallOK, Filling, Pushing, Emptying, Popping, Freeing
<1>7. \A u \in Threads : pc[u] \in Advancing => FALSE
  BY <1>0, <1>1, <1>2, RestingEnds
<1>8. MovesEnd(t, l, c, w, b, a)
  <2>1. ASSUME NEW u \in Threads, u # t PROVE Apart(l, At(w), b, pc[u], Mine(u), block[u])
    <3>1. pc[u] \in Emptying => Mine(u) < Front
      BY <1>0, MyPlace
    <3>2. pc[u] \in Emptying => At(w) # Mine(u)
      BY <1>0, <1>1, <1>2, <3>1
    <3> QED BY <1>5, <1>6, <3>2 DEF Apart, Filling, Pushing
  <2> QED BY SMTT(60), <1>0, <1>1, <1>2, <1>4, <1>5, <1>6, <1>7, <2>1 DEF MovesEnd
<1>9. /\ pc'[t] = l /\ \A u \in Threads : u # t => pc'[u] = pc[u]
      /\ \A u \in Threads : block'[u] = block[u] /\ Mine(u)' = Mine(u)
      /\ \A m : BlockOf(m)' = BlockOf(m) /\ (HasSlot(m)' <=> HasSlot(m)) /\ (LastSlot(m)' <=> LastSlot(m)) /\ Cell(m)' = Cell(m)
      /\ BlockOf(Back)' = BlockOf(Back) /\ BlockOf(Front)' = BlockOf(n + 1) /\ (HasSlot(Front)' <=> HasSlot(n + 1)) /\ (HasSlot(Back)' <=> HasSlot(Back))
  BY <1>1, <1>4, <1>5, AroundAfter
<1>10. /\ SomeAt("setindex")' <=> SomeAt("setindex")
       /\ SomeAt("firsthead")' <=> SomeAt("firsthead")
       /\ SomeAt("headindex")' <=> SomeAt("headindex")
       /\ \A u \in Threads : (pc'[u] \in Linking <=> pc[u] \in Linking) /\ (pc'[u] \in {"setindex", "setnext"} <=> pc[u] \in {"setindex", "setnext"})
  BY <1>5, <1>9 DEF SomeAt, Linking
<1> HIDE DEF SomeAt
<1>11. TailInv'
  BY SMTT(60), <1>0, <1>1, <1>2, <1>4, <1>9, <1>10 DEF TailInv
<1>12. HeadInv'
  <2>1. ~HasSlot(Front)' => pc'[t] \in Advancing
    BY <1>4, <1>5, <1>9 DEF Advancing
  <2>2. ~SomeAt("firsthead")
    BY <1>0, <1>2 DEF HeadInv
  <2>3. head'.block = IF Len(blocks') = 0 THEN 0 ELSE BlockOf(Front)' + (IF SomeAt("headindex")' THEN 1 ELSE 0)
    BY <1>0, <1>1, <1>4, <1>9, <1>10, <2>2 DEF HeadInv
  <2>4. Marked(head'.index) => BlockOf(Front)' < BlockOf(Back)'
    BY <1>2, <1>4, <1>9
  <2> QED BY <1>10, <2>1, <2>2, <2>3, <2>4 DEF HeadInv, Marked
<1>13. LinksInv'
  BY <1>0, <1>9, <1>10 DEF LinksInv
<1>14. Knows(l, c, w, b, a)'
  <2>1. EmptyKnows(l, n, b, a)'
    BY <1>1, <1>2, <1>3, <1>4, <1>5, <1>9 DEF EmptyKnows, Advancing
  <2> QED BY <1>2, <1>5, <1>6, <2>1 DEF Knows, Freeing
<1>15. \A m \in Positions : HasSlot(m) /\ SlotOK(m) => SlotOK(m)'
  <2> TAKE m \in Positions
  <2> HAVE HasSlot(m) /\ SlotOK(m)
  <2>1. (m # n => (PoppedBy(m)' <=> PoppedBy(m))) /\ (EmptiedBy(m) => EmptiedBy(m)') /\ (FilledBy(m)' <=> FilledBy(m)) /\ (m = n => EmptiedBy(m)')
    <3>1. \A u \in Threads : u # t => (pc'[u] \in Popping <=> pc[u] \in Popping) 
      BY <1>6, <1>9
    <3>2. \A u \in Threads : (pc[u] \in Emptying => pc'[u] \in Emptying) /\ (pc[u] \in Filling <=> pc'[u] \in Filling)
      BY <1>6, <1>9
    <3>3. Mine(t)' = n
      BY <1>1, <1>2, <1>9 DEF Mine
    <3>4. m # n => (PoppedBy(m)' <=> PoppedBy(m))
      BY <1>9, <3>1, <3>3 DEF PoppedBy
    <3> QED BY <1>6, <1>9, <3>2, <3>3, <3>4 DEF EmptiedBy, FilledBy
  <2>2. m \in Int
    BY <1>0 DEF Positions
  <2>3. blocks'[BlockOf(m)'].frees = blocks[BlockOf(m)].frees
    BY <1>9
  <2>4. CASE m = n
    BY <1>0, <1>1, <1>2, <1>3, <1>4, <1>9, <2>1, <2>2, <2>3, <2>4 DEF SlotOK
  <2>5. CASE m # n
    BY SMTT(60), <1>0, <1>1, <1>2, <1>4, <1>9, <2>1, <2>2, <2>3, <2>5 DEF SlotOK
  <2> QED BY <2>4, <2>5
<1>16. /\ Front <= Front' /\ Back <= Back' /\ tail' \in [index : Nat, block : Nat] /\ (head.block # 0 => head'.block # 0)
       /\ \A e \in DOMAIN blocks : e >= BlockOf(Front) /\ e < BlockOf(Front)' => Freer(e)'
  BY SMTT(60), <1>0, <1>1, <1>4, <1>9
<1> QED BY <1>4, <1>8, <1>11, <1>12, <1>13, <1>14, <1>15, <1>16, EndStep

\* The push that linked a block moves tail to its first slot.
LEMMA SetIndexStep ==
    ASSUME TypeOK, Live, lap' = lap, NEW t \in Threads, PushSetIndex(t)
    PROVE  TypeOK' /\ Live'
<1>0. /\ TailInv /\ HeadInv /\ LinksInv /\ ThreadsInv /\ OwnersInv /\ SlotsInv
      /\ Knows(pc[t], call[t], seen[t], block[t], aux[t]) /\ CallOK(pc[t], call[t])
      /\ DOMAIN pc = Threads /\ DOMAIN call = Threads
      /\ seen \in [Threads -> Nat] /\ block \in [Threads -> Nat] /\ aux \in [Threads -> Nat]
      /\ head \in [index : Nat, block : Nat] /\ tail \in [index : Nat, block : Nat]
      /\ \A u \in Threads : u # t => Apart(pc[t], Mine(t), block[t], pc[u], Mine(u), block[u])
      /\ lap \in Nat /\ lap >= 2 /\ BlockCap \in Nat /\ BlockCap >= 1 /\ Front \in Nat /\ Back \in Nat /\ Front <= Back
      /\ Front = At(head.index) /\ Back = At(tail.index) /\ BlockOf(Front) \in Nat /\ BlockOf(Back) \in Nat /\ BlockOf(Front) <= BlockOf(Back)
      /\ Len(blocks) \in Nat /\ DOMAIN blocks = 1 .. Len(blocks)
      /\ seen[t] \in Nat /\ block[t] \in Nat /\ aux[t] \in Nat /\ Mine(t) \in Nat /\ Mine(t) = At(seen[t])
  BY Around
<1>1. PICK n, c, w, b, a : n = Mine(t) /\ c = call[t] /\ w = seen[t] /\ b = block[t] /\ a = aux[t]
  OBVIOUS
<1>2. pc[t] = "setindex" /\ pc[t] \in Linking /\ pc[t] \in Filling /\ pc[t] \notin Emptying \cup Freeing \cup Popping
  BY DEF PushSetIndex, Linking, Filling, Pushing, Emptying, Popping, Freeing
<1>3. /\ FillKnows("setindex", c, n, b) /\ At(w) = n /\ n \in Nat /\ LastSlot(n) /\ Back = n + 1 /\ blocks[b].next = 0
      /\ ~HasSlot(Back) /\ b = BlockOf(Back) /\ b = BlockOf(n) /\ HasSlot(n)
  <2>1. FillKnows("setindex", c, n, b)
    BY <1>0, <1>1, <1>2 DEF Knows
  <2>2. ~HasSlot(Back) /\ Back = n + 1 /\ b = BlockOf(Back) /\ b = BlockOf(n)
    BY <1>0, <1>1, <1>2, RestingEnds
  <2>3. LastSlot(n) /\ blocks[b].next = 0 /\ HasSlot(n)
    BY <2>1 DEF FillKnows, Linking
  <2> QED BY <1>0, <1>1, <2>1, <2>2, <2>3
<1>4. /\ Back' = Back + 1 /\ Front' = Front /\ BlockOf(Back + 1) = BlockOf(Back) + 1 /\ HasSlot(Back + 1)
      /\ tail' \in [index : Nat, block : Nat] /\ tail'.block = tail.block /\ head' = head
  <2>1. At(tail.index + 2) = At(tail.index) + 1 /\ tail.index + 2 \in Nat
    <3>1. tail.index \in Nat
      BY <1>0
    <3> QED BY <3>1, WordFacts
  <2>2. tail'.index = tail.index + 2 /\ tail'.block = tail.block /\ tail' \in [index : Nat, block : Nat] /\ head' = head
    BY <1>0, <2>1 DEF PushSetIndex
  <2>3. BlockOf(Back + 1) = BlockOf(Back) + 1 /\ HasSlot(Back + 1)
    BY <1>0, <1>3, NextPlace
  <2> QED BY <1>0, <2>1, <2>2, <2>3 DEF Back, Front
<1>5. Moves(t, "setnext", c, w, b, a)
  BY <1>0, <1>1 DEF PushSetIndex, Moves, Goto, locals
<1>6. CallOK("setnext", c)
  BY <1>0, <1>1, <1>2 DEF CallOK, Filling, Pushing, Emptying, Popping, Freeing
<1>7. \A u \in Threads : u # t => pc[u] \notin Linking
  <2> TAKE u \in Threads
  <2> HAVE u # t
  <2>1. pc[u] \in Linking => Back = Mine(u) + 1 /\ Mine(u) \in Nat
    BY <1>0, RestingEnds, Numbers
  <2>2. pc[u] \in Linking => Mine(u) = Mine(t)
    BY <1>1, <1>3, <2>1
  <2> QED BY <1>0, <1>2, <2>2 DEF Apart, Filling, Pushing, Linking
<1>8. MovesEnd(t, "setnext", c, w, b, a)
  <2>1. ASSUME NEW u \in Threads, u # t PROVE Apart("setnext", At(w), b, pc[u], Mine(u), block[u])
    <3>1. Apart("setindex", Mine(t), b, pc[u], Mine(u), block[u])
      BY <1>0, <1>1, <1>2, <2>1
    <3> QED BY <1>1, <1>3, <3>1 DEF Apart, Filling, Pushing, Emptying, Popping, Freeing
  <2>2. blocks' = blocks /\ Front' = Front
    BY <1>4 DEF PushSetIndex
  <2>3. "setnext" \notin Freeing
    BY DEF Freeing
  <2> QED BY <1>0, <1>1, <1>2, <1>5, <1>6, <1>7, <2>1, <2>2, <2>3 DEF MovesEnd
<1>9. /\ pc'[t] = "setnext" /\ \A u \in Threads : u # t => pc'[u] = pc[u]
      /\ \A u \in Threads : block'[u] = block[u] /\ Mine(u)' = Mine(u)
      /\ \A m : BlockOf(m)' = BlockOf(m) /\ (HasSlot(m)' <=> HasSlot(m)) /\ (LastSlot(m)' <=> LastSlot(m)) /\ Cell(m)' = Cell(m)
      /\ BlockOf(Front)' = BlockOf(Front) /\ BlockOf(Back)' = BlockOf(Back) + 1 /\ HasSlot(Back)' /\ (HasSlot(Front)' <=> HasSlot(Front))
      /\ blocks' = blocks
  <2>1. blocks' = blocks
    BY DEF PushSetIndex
  <2> QED BY <1>1, <1>4, <1>5, <2>1, AroundAfter
<1>10. /\ SomeAt("setindex") /\ ~SomeAt("setindex")'
       /\ SomeAt("firsthead")' <=> SomeAt("firsthead")
       /\ SomeAt("headindex")' <=> SomeAt("headindex")
       /\ \A u \in Threads : (pc'[u] \in Advancing <=> pc[u] \in Advancing) /\ (pc'[u] \in {"setindex", "setnext"} <=> pc[u] \in {"setindex", "setnext"})
  BY <1>2, <1>7, <1>9 DEF SomeAt, Advancing, Linking
<1> HIDE DEF SomeAt
<1>17. /\ TailInv /\ HeadInv /\ LinksInv /\ Len(blocks) \in Nat /\ Front \in Nat /\ Back \in Nat /\ Front <= Back
       /\ BlockOf(Front) \in Nat /\ BlockOf(Back) \in Nat
  BY <1>0
<1>11. TailInv'
  <2>1. Len(blocks) # 0 /\ Len(blocks) = BlockOf(Back) + 1
    BY <1>0, <1>3, <1>10 DEF TailInv
  <2> QED BY <1>4, <1>9, <1>10, <1>17, <2>1 DEF TailInv
<1>12. HeadInv'
  <2>1. Marked(head.index)' => BlockOf(Front)' < BlockOf(Back)'
    <3>1. Marked(head.index)' <=> Marked(head.index)
      BY <1>4 DEF Marked
    <3> QED BY <1>4, <1>9, <1>17, <3>1 DEF HeadInv
  <2>2. /\ SomeAt("firsthead")' => Front' = 0 /\ Len(blocks') # 0
        /\ head'.block = IF Len(blocks') = 0 \/ SomeAt("firsthead")' THEN 0 ELSE BlockOf(Front)' + (IF SomeAt("headindex")' THEN 1 ELSE 0)
    BY <1>4, <1>9, <1>10, <1>17 DEF HeadInv
  <2>3. ~HasSlot(Front)' => \E u \in Threads : pc'[u] \in Advancing
    BY <1>9, <1>10, <1>17 DEF HeadInv
  <2> QED BY <2>1, <2>2, <2>3 DEF HeadInv
<1>13. LinksInv'
  <2>1. \A d : (\E u \in Threads : pc'[u] \in {"setindex", "setnext"} /\ block'[u] = d)
                <=> \E u \in Threads : pc[u] \in {"setindex", "setnext"} /\ block[u] = d
    BY <1>9, <1>10
  <2>2. blocks' = blocks
    BY <1>9
  <2> QED BY <1>17, <2>1, <2>2 DEF LinksInv
<1>14. Knows("setnext", c, w, b, a)'
  <2>1. FillKnows("setnext", c, n, b)'
    <3>1. HasSlot(n)' /\ BlockOf(n)' = b /\ LastSlot(n)' /\ Cell(n)' = Cell(n) /\ n < Back' /\ b < BlockOf(Back)' /\ blocks'[b].next = 0
      BY <1>3, <1>4, <1>9, <1>17
    <3>2. ~Cell(n).written /\ ~Cell(n).read
      BY <1>3 DEF FillKnows
    <3> QED BY <3>1, <3>2 DEF FillKnows, Linking
  <2> QED BY <1>3, <2>1 DEF Knows, Filling, Pushing, Emptying, Popping, Freeing
<1>15. \A m \in Positions : HasSlot(m) /\ SlotOK(m) => SlotOK(m)'
  <2> TAKE m \in Positions
  <2> HAVE HasSlot(m) /\ SlotOK(m)
  <2>1. (PoppedBy(m)' <=> PoppedBy(m)) /\ (EmptiedBy(m)' <=> EmptiedBy(m)) /\ (FilledBy(m)' <=> FilledBy(m))
    <3>1. \A u \in Threads : (pc'[u] \in Popping <=> pc[u] \in Popping) /\ (pc'[u] \in Emptying <=> pc[u] \in Emptying)
                             /\ (pc[u] \in Filling <=> pc'[u] \in Filling)
      BY <1>2, <1>9 DEF Filling, Pushing, Emptying, Popping
    <3> QED BY <1>9, <3>1 DEF PoppedBy, EmptiedBy, FilledBy
  <2>2. m \in Int /\ m # Back
    BY <1>0, <1>3 DEF Positions
  <2>3. blocks'[BlockOf(m)'].frees = blocks[BlockOf(m)].frees
    BY <1>9
  <2> QED BY <1>4, <1>9, <1>17, <2>1, <2>2, <2>3 DEF SlotOK
<1>16. /\ Front <= Front' /\ Back <= Back' /\ head' \in [index : Nat, block : Nat] /\ (head.block # 0 => head'.block # 0)
       /\ \A e \in DOMAIN blocks : e >= BlockOf(Front) /\ e < BlockOf(Front)' => Freer(e)'
  BY SMTT(60), <1>0, <1>4, <1>9
<1> QED BY <1>4, <1>8, <1>11, <1>12, <1>13, <1>14, <1>15, <1>16, EndStep

\* The push that linked the first block links it in head too.
LEMMA FirstHeadStep ==
    ASSUME TypeOK, Live, lap' = lap, NEW t \in Threads, PushFirstHead(t)
    PROVE  TypeOK' /\ Live'
<1>0. /\ TailInv /\ HeadInv /\ LinksInv /\ ThreadsInv /\ OwnersInv /\ SlotsInv
      /\ Knows(pc[t], call[t], seen[t], block[t], aux[t]) /\ CallOK(pc[t], call[t])
      /\ DOMAIN pc = Threads /\ DOMAIN call = Threads
      /\ seen \in [Threads -> Nat] /\ block \in [Threads -> Nat] /\ aux \in [Threads -> Nat]
      /\ head \in [index : Nat, block : Nat] /\ tail \in [index : Nat, block : Nat]
      /\ seen[t] \in Nat /\ block[t] \in Nat /\ aux[t] \in Nat /\ Mine(t) \in Nat /\ Mine(t) = At(seen[t])
  BY Around
<1>1. /\ lap \in Nat /\ lap >= 2 /\ BlockCap \in Nat /\ BlockCap >= 1 /\ Front \in Nat /\ Back \in Nat /\ Front <= Back
      /\ Len(blocks) \in Nat /\ DOMAIN blocks = 1 .. Len(blocks)
      /\ \A u \in Threads : u # t => Apart(pc[t], Mine(t), block[t], pc[u], Mine(u), block[u])
  BY Around
<1>2. pc[t] = "firsthead" /\ pc[t] \notin Filling \cup Emptying \cup Freeing \cup Popping
      /\ "take" \notin Filling \cup Emptying \cup Freeing \cup Popping
  BY DEF PushFirstHead, Filling, Pushing, Emptying, Popping, Freeing
<1>3. PICK n, c, w, b, a : n = Mine(t) /\ c = call[t] /\ w = seen[t] /\ b = block[t] /\ a = aux[t]
  OBVIOUS
<1>4. /\ n = 0 /\ b = 1 /\ At(w) = n /\ PushKnows("firsthead", w, n, b) /\ Front = 0 /\ Len(blocks) # 0
      /\ BlockOf(Front) = 1 /\ HasSlot(Front)
  <2>1. PushKnows("firsthead", w, n, b) /\ SomeAt("firsthead")
    BY <1>0, <1>2, <1>3 DEF Knows, SomeAt
  <2>2. n = 0 /\ b = 1 /\ HasSlot(n)
    BY <2>1 DEF PushKnows
  <2>3. Front = 0 /\ Len(blocks) # 0
    BY <1>0, <2>1 DEF HeadInv
  <2>4. BlockOf(Front) = 1
    <3>1. Front = (1 - 1) * lap + 0
      BY <1>1, <2>3
    <3>2. 1 \in Nat /\ 0 \in Nat /\ 1 >= 1 /\ 0 < lap
      BY <1>1
    <3> QED BY <1>1, <3>1, <3>2, PlaceOf
  <2> QED BY <1>0, <1>3, <2>1, <2>2, <2>3, <2>4
<1>5. /\ Front' = Front /\ Back' = Back /\ head' \in [index : Nat, block : Nat] /\ head'.block = 1 /\ head'.index = head.index
      /\ tail' = tail /\ blocks' = blocks
  <2>1. head' = [head EXCEPT !.block = b] /\ tail' = tail /\ blocks' = blocks
    BY <1>3 DEF PushFirstHead
  <2>2. head' \in [index : Nat, block : Nat] /\ head'.block = 1 /\ head'.index = head.index
    BY <1>0, <1>3, <1>4, <2>1
  <2> QED BY <2>1, <2>2 DEF Front, Back
<1>6. Moves(t, "take", c, w, b, a)
  BY <1>0, <1>3 DEF PushFirstHead, Moves, Goto, locals
<1>7. CallOK("take", c)
  BY <1>0, <1>2, <1>3 DEF CallOK, Filling, Pushing, Emptying, Popping, Freeing
<1>8. MovesEnd(t, "take", c, w, b, a)
  <2>1. ASSUME NEW u \in Threads, u # t PROVE Apart("take", At(w), b, pc[u], Mine(u), block[u])
    BY <1>2 DEF Apart
  <2> QED BY <1>2, <1>3, <1>5, <1>6, <1>7, <2>1 DEF MovesEnd
<1>9. /\ pc'[t] = "take" /\ \A u \in Threads : u # t => pc'[u] = pc[u]
      /\ \A u \in Threads : block'[u] = block[u] /\ Mine(u)' = Mine(u)
      /\ \A m : BlockOf(m)' = BlockOf(m) /\ (HasSlot(m)' <=> HasSlot(m)) /\ (LastSlot(m)' <=> LastSlot(m)) /\ Cell(m)' = Cell(m)
      /\ BlockOf(Front)' = BlockOf(Front) /\ BlockOf(Back)' = BlockOf(Back) /\ (HasSlot(Back)' <=> HasSlot(Back)) /\ (HasSlot(Front)' <=> HasSlot(Front))
  BY <1>3, <1>5, <1>6, AroundAfter
<1>10. \A u \in Threads : u # t => pc[u] # "firsthead"
  BY <1>1, <1>2 DEF Apart
<1>11. /\ SomeAt("setindex")' <=> SomeAt("setindex")
       /\ ~SomeAt("firsthead")' /\ ~SomeAt("headindex")'
       /\ \A u \in Threads : /\ pc'[u] \in Advancing <=> pc[u] \in Advancing
                             /\ pc'[u] \in Linking <=> pc[u] \in Linking
                             /\ pc'[u] \in {"setindex", "setnext"} <=> pc[u] \in {"setindex", "setnext"}
  <2>1. \A u \in Threads : pc[u] # "headindex"
    <3> SUFFICES ASSUME NEW u \in Threads, pc[u] = "headindex" PROVE FALSE
      OBVIOUS
    <3>1. ~HasSlot(Front)
      BY <1>0, RestingEnds DEF Advancing
    <3> QED BY <1>4, <3>1
  <2> QED BY <1>2, <1>9, <1>10, <2>1 DEF SomeAt, Advancing, Linking
<1> HIDE DEF SomeAt
<1>12. TailInv'
  <2>1. (\E u \in Threads : pc'[u] \in Linking) <=> \E u \in Threads : pc[u] \in Linking
    BY <1>11
  <2> QED BY <1>0, <1>5, <1>9, <1>11, <2>1 DEF TailInv
<1>13. HeadInv'
  <2>1. Marked(head.index)' => BlockOf(Front)' < BlockOf(Back)'
    <3>1. Marked(head.index)' <=> Marked(head.index)
      BY <1>5 DEF Marked
    <3> QED BY <1>0, <1>9, <3>1 DEF HeadInv
  <2> QED BY <1>4, <1>5, <1>9, <1>11, <2>1 DEF HeadInv
<1>14. LinksInv'
  <2>1. \A d : (\E u \in Threads : pc'[u] \in {"setindex", "setnext"} /\ block'[u] = d)
                <=> \E u \in Threads : pc[u] \in {"setindex", "setnext"} /\ block[u] = d
    BY <1>9, <1>11
  <2> QED BY <1>0, <1>5, <2>1 DEF LinksInv
<1>15. Knows("take", c, w, b, a)'
  <2>1. PushKnows("take", w, n, b)'
    <3>1. HasSlot(n) /\ ~Marked(w) /\ n <= Back
      BY <1>4 DEF PushKnows
    <3> QED BY <1>4, <1>5, <1>9, <3>1 DEF PushKnows, Marked
  <2> QED BY <1>2, <1>4, <2>1 DEF Knows
<1>16. \A m \in Positions : HasSlot(m) /\ SlotOK(m) => SlotOK(m)'
  <2> TAKE m \in Positions
  <2>1. (PoppedBy(m)' <=> PoppedBy(m)) /\ (EmptiedBy(m)' <=> EmptiedBy(m)) /\ (FilledBy(m)' <=> FilledBy(m))
    <3>1. \A u \in Threads : (pc'[u] \in Popping <=> pc[u] \in Popping) /\ (pc'[u] \in Emptying <=> pc[u] \in Emptying)
                             /\ (pc[u] \in Filling <=> pc'[u] \in Filling)
      BY <1>2, <1>9
    <3> QED BY <1>9, <3>1 DEF PoppedBy, EmptiedBy, FilledBy
  <2>2. blocks'[BlockOf(m)'].frees = blocks[BlockOf(m)].frees
    BY <1>5, <1>9
  <2> QED BY <1>5, <1>9, <2>1, <2>2 DEF SlotOK
<1>17. /\ Front <= Front' /\ Back <= Back' /\ tail' \in [index : Nat, block : Nat] /\ head'.block # 0
       /\ \A e \in DOMAIN blocks : e >= BlockOf(Front) /\ e < BlockOf(Front)' => Freer(e)'
  BY <1>0, <1>1, <1>4, <1>5, <1>9
<1> QED BY <1>5, <1>8, <1>12, <1>13, <1>14, <1>15, <1>16, <1>17, EndStep

\* A pop that took the last slot of a block sets the next block in head.
LEMMA HeadBlockStep ==
    ASSUME TypeOK, Live, lap' = lap, NEW t \in Threads, PopHeadBlock(t)
    PROVE  TypeOK' /\ Live'
<1>0. /\ TailInv /\ HeadInv /\ LinksInv /\ ThreadsInv /\ OwnersInv /\ SlotsInv
      /\ Knows(pc[t], call[t], seen[t], block[t], aux[t]) /\ CallOK(pc[t], call[t])
      /\ DOMAIN pc = Threads /\ DOMAIN call = Threads
      /\ seen \in [Threads -> Nat] /\ block \in [Threads -> Nat] /\ aux \in [Threads -> Nat]
      /\ head \in [index : Nat, block : Nat] /\ tail \in [index : Nat, block : Nat]
      /\ seen[t] \in Nat /\ block[t] \in Nat /\ aux[t] \in Nat /\ Mine(t) \in Nat /\ Mine(t) = At(seen[t])
  BY Around
<1>1. /\ lap \in Nat /\ lap >= 2 /\ BlockCap \in Nat /\ BlockCap >= 1 /\ Front \in Nat /\ Back \in Nat /\ Front <= Back
      /\ Len(blocks) \in Nat /\ DOMAIN blocks = 1 .. Len(blocks) /\ BlockOf(Front) \in Nat
      /\ \A u \in Threads : u # t => Apart(pc[t], Mine(t), block[t], pc[u], Mine(u), block[u])
  BY Around
<1>2. pc[t] = "headblock" /\ pc[t] \in Advancing /\ pc[t] \in Popping /\ pc[t] \in Emptying /\ pc[t] \notin Filling \cup Freeing
      /\ "headindex" \in Advancing /\ "headindex" \in Popping /\ "headindex" \in Emptying /\ "headindex" \notin Filling \cup Freeing
  BY DEF PopHeadBlock, Filling, Pushing, Emptying, Popping, Freeing, Advancing
<1>3. PICK n, c, w, b, a : n = Mine(t) /\ c = call[t] /\ w = seen[t] /\ b = block[t] /\ a = aux[t]
  OBVIOUS
<1>4. /\ n \in Nat /\ At(w) = n /\ EmptyKnows("headblock", n, b, a) /\ ~HasSlot(Front) /\ Front = n + 1 /\ BlockOf(Front) = b
      /\ blocks[b].next = b + 1 /\ b < BlockOf(Back) /\ n < Back
  <2>1. EmptyKnows("headblock", n, b, a)
    BY <1>0, <1>2, <1>3 DEF Knows
  <2>2. ~HasSlot(Front) /\ Front = n + 1 /\ BlockOf(Front) = b
    BY <1>0, <1>2, <1>3, RestingEnds
  <2>3. blocks[b].next = b + 1 /\ b < BlockOf(Back)
    BY <2>1 DEF EmptyKnows
  <2> QED BY <1>0, <1>1, <1>3, <2>1, <2>2, <2>3
<1>5. /\ Front' = Front /\ Back' = Back /\ head' \in [index : Nat, block : Nat] /\ head'.block = b + 1 /\ head'.index = head.index
      /\ tail' = tail /\ blocks' = blocks
  <2>1. head' = [head EXCEPT !.block = b + 1] /\ tail' = tail /\ blocks' = blocks
    BY <1>3, <1>4 DEF PopHeadBlock, NextOf
  <2>2. head' \in [index : Nat, block : Nat] /\ head'.block = b + 1 /\ head'.index = head.index
    BY <1>0, <1>3, <2>1
  <2> QED BY <2>1, <2>2 DEF Front, Back
<1>6. Moves(t, "headindex", c, w, b, a)
  BY <1>0, <1>3 DEF PopHeadBlock, Moves, Goto, locals
<1>7. CallOK("headindex", c)
  BY <1>0, <1>2, <1>3 DEF CallOK, Filling, Pushing, Popping, Freeing
<1>8. MovesEnd(t, "headindex", c, w, b, a)
  <2>1. ASSUME NEW u \in Threads, u # t PROVE Apart("headindex", At(w), b, pc[u], Mine(u), block[u])
    <3>1. Apart("headblock", n, b, pc[u], Mine(u), block[u])
      BY <1>1, <1>2, <1>3, <2>1
    <3> QED BY <1>2, <1>4, <3>1 DEF Apart
  <2> QED BY <1>2, <1>3, <1>5, <1>6, <1>7, <2>1 DEF MovesEnd
<1>9. /\ pc'[t] = "headindex" /\ \A u \in Threads : u # t => pc'[u] = pc[u]
      /\ \A u \in Threads : block'[u] = block[u] /\ Mine(u)' = Mine(u)
      /\ \A m : BlockOf(m)' = BlockOf(m) /\ (HasSlot(m)' <=> HasSlot(m)) /\ (LastSlot(m)' <=> LastSlot(m)) /\ Cell(m)' = Cell(m)
      /\ BlockOf(Front)' = BlockOf(Front) /\ BlockOf(Back)' = BlockOf(Back) /\ (HasSlot(Back)' <=> HasSlot(Back)) /\ (HasSlot(Front)' <=> HasSlot(Front))
  BY <1>3, <1>5, <1>6, AroundAfter
<1>10. \A u \in Threads : pc[u] # "firsthead"
  <2>1. ~SomeAt("firsthead")
    BY <1>0, <1>4 DEF HeadInv
  <2> QED BY <2>1 DEF SomeAt
<1>11. /\ SomeAt("setindex")' <=> SomeAt("setindex")
       /\ ~SomeAt("firsthead")' /\ SomeAt("headindex")'
       /\ \A u \in Threads : /\ pc'[u] \in Advancing <=> pc[u] \in Advancing
                             /\ pc'[u] \in Linking <=> pc[u] \in Linking
                             /\ pc'[u] \in {"setindex", "setnext"} <=> pc[u] \in {"setindex", "setnext"}
  BY <1>2, <1>9, <1>10 DEF SomeAt, Advancing, Linking
<1> HIDE DEF SomeAt
<1>12. TailInv'
  <2>1. (\E u \in Threads : pc'[u] \in Linking) <=> \E u \in Threads : pc[u] \in Linking
    BY <1>11
  <2> QED BY <1>0, <1>5, <1>9, <1>11, <2>1 DEF TailInv
<1>13. HeadInv'
  <2>1. Marked(head.index)' => BlockOf(Front)' < BlockOf(Back)'
    <3>1. Marked(head.index)' <=> Marked(head.index)
      BY <1>5 DEF Marked
    <3> QED BY <1>0, <1>9, <3>1 DEF HeadInv
  <2>2. Len(blocks) # 0
    BY <1>0, <1>4, BlocksExist
  <2>3. head'.block = BlockOf(Front)' + 1 /\ Len(blocks') # 0
    BY <1>4, <1>5, <1>9, <2>2
  <2>4. \E u \in Threads : pc'[u] \in Advancing
    BY <1>2, <1>9
  <2> QED BY <1>11, <2>1, <2>3, <2>4 DEF HeadInv
<1>14. LinksInv'
  <2>1. \A d : (\E u \in Threads : pc'[u] \in {"setindex", "setnext"} /\ block'[u] = d)
                <=> \E u \in Threads : pc[u] \in {"setindex", "setnext"} /\ block[u] = d
    BY <1>9, <1>11
  <2> QED BY <1>0, <1>5, <2>1 DEF LinksInv
<1>15. Knows("headindex", c, w, b, a)'
  <2>1. EmptyKnows("headindex", n, b, a)'
    <3>1. HasSlot(n)' = HasSlot(n) /\ BlockOf(n)' = BlockOf(n) /\ LastSlot(n)' = LastSlot(n) /\ Cell(n)' = Cell(n) /\ Front' = Front
          /\ BlockOf(Back)' = BlockOf(Back) /\ blocks' = blocks
      BY <1>5, <1>9 DEF HasSlot, LastSlot, Off, BlockCap
    <3>2. HasSlot(n) /\ b = BlockOf(n) /\ ~Cell(n).read /\ LastSlot(n) /\ n < Front
          /\ At(a) = n + 2 /\ (Marked(a) => b + 1 < BlockOf(Back))
      BY <1>4 DEF EmptyKnows, Advancing
    <3> QED BY <1>4, <3>1, <3>2 DEF EmptyKnows, Advancing
  <2> QED BY <1>2, <1>4, <2>1 DEF Knows, Freeing
<1>16. \A m \in Positions : HasSlot(m) /\ SlotOK(m) => SlotOK(m)'
  <2> TAKE m \in Positions
  <2>1. (PoppedBy(m)' <=> PoppedBy(m)) /\ (EmptiedBy(m)' <=> EmptiedBy(m)) /\ (FilledBy(m)' <=> FilledBy(m))
    <3>1. \A u \in Threads : (pc'[u] \in Popping <=> pc[u] \in Popping) /\ (pc'[u] \in Emptying <=> pc[u] \in Emptying)
                             /\ (pc[u] \in Filling <=> pc'[u] \in Filling)
      BY <1>2, <1>9
    <3> QED BY <1>9, <3>1 DEF PoppedBy, EmptiedBy, FilledBy
  <2>2. blocks'[BlockOf(m)'].frees = blocks[BlockOf(m)].frees
    BY <1>5, <1>9
  <2> QED BY <1>5, <1>9, <2>1, <2>2 DEF SlotOK
<1>17. /\ Front <= Front' /\ Back <= Back' /\ tail' \in [index : Nat, block : Nat] /\ head'.block # 0
       /\ \A e \in DOMAIN blocks : e >= BlockOf(Front) /\ e < BlockOf(Front)' => Freer(e)'
  BY <1>0, <1>1, <1>3, <1>5, <1>9
<1> QED BY <1>5, <1>8, <1>12, <1>13, <1>14, <1>15, <1>16, <1>17, EndStep

\* and then its first position: head has left the block whose last slot is popped.
LEMMA HeadIndexStep ==
    ASSUME TypeOK, Live, lap' = lap, NEW t \in Threads, PopHeadIndex(t)
    PROVE  TypeOK' /\ Live'
<1>0. /\ TailInv /\ HeadInv /\ LinksInv /\ ThreadsInv /\ OwnersInv /\ SlotsInv
      /\ Knows(pc[t], call[t], seen[t], block[t], aux[t]) /\ CallOK(pc[t], call[t])
      /\ DOMAIN pc = Threads /\ DOMAIN call = Threads
      /\ seen \in [Threads -> Nat] /\ block \in [Threads -> Nat] /\ aux \in [Threads -> Nat]
      /\ head \in [index : Nat, block : Nat] /\ tail \in [index : Nat, block : Nat]
      /\ seen[t] \in Nat /\ block[t] \in Nat /\ aux[t] \in Nat /\ Mine(t) \in Nat /\ Mine(t) = At(seen[t])
  BY Around
<1>1. /\ lap \in Nat /\ lap >= 2 /\ BlockCap \in Nat /\ BlockCap >= 1 /\ Front \in Nat /\ Back \in Nat /\ Front <= Back
      /\ Len(blocks) \in Nat /\ DOMAIN blocks = 1 .. Len(blocks) /\ BlockOf(Front) \in Nat /\ BlockOf(Back) \in Nat
      /\ \A u \in Threads : u # t => Apart(pc[t], Mine(t), block[t], pc[u], Mine(u), block[u])
  BY Around
<1>2. pc[t] = "headindex" /\ pc[t] \in Advancing /\ pc[t] \in Popping /\ pc[t] \in Emptying /\ pc[t] \notin Filling \cup Freeing
      /\ "read" \notin Advancing \cup Linking \cup Filling \cup Freeing /\ "read" \in Popping /\ "read" \in Emptying
  BY DEF PopHeadIndex, Filling, Pushing, Emptying, Popping, Freeing, Advancing, Linking
<1>3. PICK n, c, w, b, a : n = Mine(t) /\ c = call[t] /\ w = seen[t] /\ b = block[t] /\ a = aux[t]
  OBVIOUS
<1>4. /\ n \in Nat /\ At(w) = n /\ EmptyKnows("headindex", n, b, a) /\ ~HasSlot(Front) /\ Front = n + 1 /\ BlockOf(Front) = b
      /\ LastSlot(n) /\ b < BlockOf(Back) /\ At(a) = n + 2 /\ (Marked(a) => b + 1 < BlockOf(Back)) /\ Len(blocks) # 0
  <2>1. EmptyKnows("headindex", n, b, a)
    BY <1>0, <1>2, <1>3 DEF Knows
  <2>2. ~HasSlot(Front) /\ Front = n + 1 /\ BlockOf(Front) = b
    BY <1>0, <1>2, <1>3, RestingEnds
  <2>3. LastSlot(n) /\ b < BlockOf(Back) /\ At(a) = n + 2 /\ (Marked(a) => b + 1 < BlockOf(Back)) /\ n < Back
    BY <1>0, <1>1, <1>3, <2>1, <2>2 DEF EmptyKnows, Advancing
  <2> QED BY <1>0, <1>3, <2>1, <2>2, <2>3, BlocksExist
<1>5. /\ Front' = Front + 1 /\ Back' = Back /\ head' \in [index : Nat, block : Nat] /\ head'.block = b + 1 /\ head.block = b + 1
      /\ head'.index = a /\ tail' = tail /\ blocks' = blocks
      /\ BlockOf(Front + 1) = b + 1 /\ HasSlot(Front + 1) /\ Front + 1 <= Back
  <2>1. head' = [head EXCEPT !.index = a] /\ tail' = tail /\ blocks' = blocks
    BY <1>3 DEF PopHeadIndex
  <2>2. head' \in [index : Nat, block : Nat] /\ head'.block = head.block /\ head'.index = a
    BY <1>0, <1>3, <2>1
  <2>3. head.block = b + 1
    <3>1. SomeAt("headindex")
      BY <1>2 DEF SomeAt
    <3> HIDE DEF SomeAt
    <3>2. ~SomeAt("firsthead")
      BY <1>0, <1>4 DEF HeadInv
    <3> QED BY <1>0, <1>4, <3>1, <3>2 DEF HeadInv
  <2>4. BlockOf(Front + 1) = b + 1 /\ HasSlot(Front + 1)
    BY <1>1, <1>4, NextPlace
  <2>5. Front # Back
    BY <1>1, <1>4
  <2>6. Front' = Front + 1 /\ Back' = Back
    BY <1>4, <2>1, <2>2 DEF Front, Back
  <2> QED BY <1>1, <2>1, <2>2, <2>3, <2>4, <2>5, <2>6
<1>6. Moves(t, "read", c, w, b, a)
  BY <1>0, <1>3 DEF PopHeadIndex, Moves, Goto, locals
<1>7. CallOK("read", c)
  BY <1>0, <1>2, <1>3 DEF CallOK, Filling, Pushing, Popping, Freeing
<1>8. \A u \in Threads : u # t => pc[u] \notin Advancing
  <2> TAKE u \in Threads
  <2> HAVE u # t
  <2>1. pc[u] \in Advancing => Front = Mine(u) + 1 /\ Mine(u) \in Nat
    BY <1>0, RestingEnds, Numbers
  <2>2. pc[u] \in Advancing => Mine(u) = Mine(t)
    BY <1>3, <1>4, <2>1
  <2>3. pc[u] \in Advancing => pc[u] \in Emptying
    BY DEF Advancing, Emptying, Popping
  <2> QED BY <1>1, <1>2, <2>2, <2>3 DEF Apart
<1>9. MovesEnd(t, "read", c, w, b, a)
  <2>1. ASSUME NEW u \in Threads, u # t PROVE Apart("read", At(w), b, pc[u], Mine(u), block[u])
    <3>1. Apart("headindex", n, b, pc[u], Mine(u), block[u])
      BY <1>1, <1>2, <1>3, <2>1
    <3> QED BY <1>2, <1>4, <3>1 DEF Apart
  <2> QED BY <1>2, <1>3, <1>5, <1>6, <1>7, <1>8, <2>1 DEF MovesEnd
<1>10. /\ pc'[t] = "read" /\ \A u \in Threads : u # t => pc'[u] = pc[u]
       /\ \A u \in Threads : block'[u] = block[u] /\ Mine(u)' = Mine(u)
       /\ \A m : BlockOf(m)' = BlockOf(m) /\ (HasSlot(m)' <=> HasSlot(m)) /\ (LastSlot(m)' <=> LastSlot(m)) /\ Cell(m)' = Cell(m)
       /\ BlockOf(Front)' = b + 1 /\ BlockOf(Back)' = BlockOf(Back) /\ (HasSlot(Back)' <=> HasSlot(Back)) /\ HasSlot(Front)'
  BY <1>3, <1>5, <1>6, AroundAfter
<1>11. /\ SomeAt("setindex")' <=> SomeAt("setindex")
       /\ SomeAt("firsthead")' <=> SomeAt("firsthead")
       /\ ~SomeAt("headindex")' /\ ~SomeAt("firsthead")
       /\ \A u \in Threads : /\ pc'[u] \in Linking <=> pc[u] \in Linking
                             /\ pc'[u] \in {"setindex", "setnext"} <=> pc[u] \in {"setindex", "setnext"}
  <2>1. ~SomeAt("firsthead")
    BY <1>0, <1>4 DEF HeadInv
  <2> QED BY <1>2, <1>8, <1>10, <2>1 DEF SomeAt, Advancing, Linking
<1> HIDE DEF SomeAt
<1>12. TailInv'
  <2>1. (\E u \in Threads : pc'[u] \in Linking) <=> \E u \in Threads : pc[u] \in Linking
    BY <1>11
  <2> QED BY <1>0, <1>1, <1>5, <1>10, <1>11, <2>1 DEF TailInv
<1>13. HeadInv'
  BY <1>4, <1>5, <1>10, <1>11 DEF HeadInv, Marked
<1>14. LinksInv'
  <2>1. \A d : (\E u \in Threads : pc'[u] \in {"setindex", "setnext"} /\ block'[u] = d)
                <=> \E u \in Threads : pc[u] \in {"setindex", "setnext"} /\ block[u] = d
    BY <1>10, <1>11
  <2> QED BY <1>0, <1>5, <2>1 DEF LinksInv
<1>15. Knows("read", c, w, b, a)'
  <2>1. EmptyKnows("read", n, b, a)'
    <3>1. HasSlot(n)' = HasSlot(n) /\ BlockOf(n)' = BlockOf(n) /\ Cell(n)' = Cell(n) /\ n < Front' /\ b < BlockOf(Front)'
      <4>1. HasSlot(n)' = HasSlot(n)
        BY DEF HasSlot, Off, BlockCap, PopHeadIndex
      <4>2. b \in Nat
        BY <1>0, <1>3
      <4> QED BY <1>4, <1>5, <1>10, <4>1, <4>2
    <3>2. HasSlot(n) /\ b = BlockOf(n) /\ ~Cell(n).read
      BY <1>4 DEF EmptyKnows
    <3> QED BY <3>1, <3>2 DEF EmptyKnows, Advancing
  <2> QED BY <1>2, <1>4, <2>1 DEF Knows
<1>16. \A m \in Positions : HasSlot(m) /\ SlotOK(m) => SlotOK(m)'
  <2> TAKE m \in Positions
  <2> HAVE HasSlot(m) /\ SlotOK(m)
  <2>1. (PoppedBy(m)' <=> PoppedBy(m)) /\ (EmptiedBy(m)' <=> EmptiedBy(m)) /\ (FilledBy(m)' <=> FilledBy(m))
    <3>1. \A u \in Threads : (pc'[u] \in Popping <=> pc[u] \in Popping) /\ (pc'[u] \in Emptying <=> pc[u] \in Emptying)
                             /\ (pc[u] \in Filling <=> pc'[u] \in Filling)
      BY <1>2, <1>10
    <3> QED BY <1>10, <3>1 DEF PoppedBy, EmptiedBy, FilledBy
  <2>2. blocks'[BlockOf(m)'].frees = blocks[BlockOf(m)].frees
    BY <1>5, <1>10
  <2>3. m \in Int /\ m # Front
    BY <1>4 DEF Positions
  <2>4. (m >= Front' => m >= Front) /\ (m < Front' => m < Front)
    BY <1>1, <1>5, <2>3
  <2> QED BY <1>1, <1>5, <1>10, <2>1, <2>2, <2>3, <2>4 DEF SlotOK
<1>17. /\ Front <= Front' /\ Back <= Back' /\ tail' \in [index : Nat, block : Nat] /\ head'.block # 0
       /\ \A e \in DOMAIN blocks : e >= BlockOf(Front) /\ e < BlockOf(Front)' => Freer(e)'
  <2>1. Freer(b)'
    <3>1. pc'[t] \in Emptying' /\ block'[t] = b /\ LastSlot(Mine(t))'
      <4>1. Mine(t)' = n /\ LastSlot(n)'
        BY <1>3, <1>4, <1>10
      <4> QED BY <1>2, <1>3, <1>10, <4>1 DEF LastSlot, Off, BlockCap, Emptying, Popping
    <3> QED BY <3>1 DEF Freer
  <2>2. b \in Nat
    BY <1>0, <1>3
  <2>3. \A e \in DOMAIN blocks : e >= BlockOf(Front) /\ e < BlockOf(Front)' => e = b
    BY <1>1, <1>4, <1>10, <2>2
  <2> QED BY <1>0, <1>1, <1>5, <2>1, <2>2, <2>3
<1> QED BY <1>5, <1>9, <1>12, <1>13, <1>14, <1>15, <1>16, <1>17, EndStep

\* A step that links: the slots of the blocks there were stay as they are, and any
\* new block lies behind tail.
Links(t, l, c, w, b, a) ==
    /\ Moves(t, l, c, w, b, a) /\ w = seen[t] /\ lap' = lap /\ Front' = Front /\ Back' = Back
    /\ blocks' \in Seq(Block) /\ Len(blocks) <= Len(blocks')
    /\ \A e \in DOMAIN blocks : blocks'[e].slots = blocks[e].slots /\ blocks'[e].frees = blocks[e].frees
    /\ \A e \in DOMAIN blocks' : e \notin DOMAIN blocks =>
          blocks'[e].slots = NewBlock.slots /\ blocks'[e].frees = 0 /\ \A n \in Nat : BlockOf(n) = e => n >= Back
    /\ l \in Filling <=> pc[t] \in Filling
    /\ l \in Popping <=> pc[t] \in Popping
    /\ l \in Emptying <=> pc[t] \in Emptying
    /\ l \in Freeing <=> pc[t] \in Freeing
    /\ l \in Filling \cup Emptying \cup Freeing => b = block[t]

\* What it leaves.
LEMMA LinksKept ==
    ASSUME TypeOK, Live, NEW t \in Threads, NEW l, NEW c, NEW w, NEW b, NEW a, Links(t, l, c, w, b, a)
    PROVE  /\ SlotsInv' /\ AskedInv' /\ FreedInv'
           /\ \A e \in DOMAIN blocks : \A lo, hi : GotTo(e, lo, hi) => GotTo(e, lo, hi)'
           /\ \A n \in Nat : BlockOf(n) \in DOMAIN blocks => Cell(n)' = Cell(n)
<1>0. /\ TailInv /\ SlotsInv /\ AskedInv /\ FreedInv /\ Moves(t, l, c, w, b, a) /\ w = seen[t] /\ lap' = lap
      /\ Front' = Front /\ Back' = Back /\ blocks' \in Seq(Block) /\ Len(blocks) <= Len(blocks')
  BY DEF Live, Links
<1>1. /\ lap \in Nat /\ lap >= 2 /\ Front \in Nat /\ Back \in Nat /\ Front <= Back /\ BlockOf(Front) \in Nat
      /\ Len(blocks) \in Nat /\ DOMAIN blocks = 1 .. Len(blocks) /\ Len(blocks') \in Nat /\ DOMAIN blocks' = 1 .. Len(blocks')
      /\ BlockCap \in Nat /\ BlockCap >= 1 /\ Offsets = 0 .. BlockCap - 1
  BY <1>0, Numbers, PlaceFacts DEF Offsets
<1>2. /\ pc'[t] = l /\ block'[t] = b /\ Mine(t)' = Mine(t)
      /\ \A u \in Threads : u # t => pc'[u] = pc[u] /\ block'[u] = block[u] /\ Mine(u)' = Mine(u)
  BY <1>0, MovesFacts DEF Mine
<1>3. ASSUME NEW u \in Threads
      PROVE  /\ pc'[u] \in Filling <=> pc[u] \in Filling
             /\ pc'[u] \in Popping <=> pc[u] \in Popping
             /\ pc'[u] \in Emptying <=> pc[u] \in Emptying
             /\ pc'[u] \in Freeing <=> pc[u] \in Freeing
             /\ pc[u] \in Filling \cup Emptying \cup Freeing => block'[u] = block[u]
             /\ Mine(u)' = Mine(u)
  <2>1. CASE u = t
    BY <1>2, <2>1 DEF Links
  <2>2. CASE u # t
    BY <1>2, <2>2
  <2> QED BY <2>1, <2>2
<1>4. /\ \A n : BlockOf(n)' = BlockOf(n) /\ Off(n)' = Off(n) /\ (HasSlot(n)' <=> HasSlot(n)) /\ (LastSlot(n)' <=> LastSlot(n))
      /\ BlockCap' = BlockCap /\ Offsets' = Offsets /\ BlockOf(Front)' = BlockOf(Front)
  <2>1. BlockOf(Front)' = BlockOf(Front)
    BY <1>0 DEF BlockOf
  <2> QED BY <1>0, <2>1, SamePlaces
<1>5. \A u \in Threads : LastSlot(Mine(u))' <=> LastSlot(Mine(u))
  BY <1>3, <1>4 DEF LastSlot, Off
<1>6. \A n : (FilledBy(n)' <=> FilledBy(n)) /\ (PoppedBy(n)' <=> PoppedBy(n)) /\ (EmptiedBy(n)' <=> EmptiedBy(n))
  BY <1>3 DEF FilledBy, PoppedBy, EmptiedBy
<1>7. \A e : (LastLeft(e)' <=> LastLeft(e)) /\ (Working(e)' <=> Working(e))
  BY <1>3, <1>5 DEF LastLeft, Working
<1>8. \A e \in DOMAIN blocks : blocks'[e].slots = blocks[e].slots /\ blocks'[e].frees = blocks[e].frees
  BY DEF Links
<1>9. \A e \in DOMAIN blocks' : e \notin DOMAIN blocks =>
         /\ blocks'[e].frees = 0
         /\ \A n \in Nat : BlockOf(n) = e => n >= Back
         /\ \A i \in Offsets : ~blocks'[e].slots[i].written /\ ~blocks'[e].slots[i].read /\ ~blocks'[e].slots[i].destroy
  BY DEF Links, NewBlock
<1>10. \A e \in DOMAIN blocks' : e \notin DOMAIN blocks => e >= BlockOf(Front)
  <2> SUFFICES ASSUME NEW e \in DOMAIN blocks', e \notin DOMAIN blocks PROVE e >= BlockOf(Front)
    OBVIOUS
  <2>1. e \in Nat /\ e >= 1 /\ 0 \in Nat /\ 0 < lap
    BY <1>1
  <2>2. PICK n \in Nat : BlockOf(n) = e
    BY <1>1, <2>1, PosFacts
  <2>3. Front <= n
    BY <1>1, <1>9, <2>2
  <2> QED BY <1>1, <2>2, <2>3, PlaceOrder
<1>11. \A n \in Nat : BlockOf(n) \in DOMAIN blocks => Cell(n)' = Cell(n)
  BY <1>4, <1>8 DEF Cell
<1>12. \A e \in DOMAIN blocks : \A lo, hi : GotTo(e, lo, hi) => GotTo(e, lo, hi)'
  BY <1>4, <1>7, <1>8 DEF GotTo
<1>13. SlotsInv'
  <2> SUFFICES ASSUME NEW n \in Positions', HasSlot(n) PROVE SlotOK(n)'
    BY <1>4 DEF SlotsInv
  <2>1. n \in Nat /\ BlockOf(n) \in DOMAIN blocks'
    <3>1. n \in 0 .. lap * Len(blocks') - 1
      BY <1>0 DEF Positions
    <3>2. n \in Nat
      BY <3>1
    <3>3. BlockOf(n) <= Len(blocks') /\ BlockOf(n) \in Nat /\ BlockOf(n) >= 1
      BY <1>1, <3>1, <3>2, PositionsFacts, PlaceFacts
    <3> QED BY <1>1, <3>2, <3>3
  <2>2. CASE BlockOf(n) \in DOMAIN blocks
    <3>1. n \in Positions
      <4>1. BlockOf(n) <= Len(blocks)
        BY <1>1, <2>2
      <4> QED BY <1>1, <2>1, <4>1, PositionsFacts DEF Positions
    <3>2. SlotOK(n)
      BY <1>0, <3>1 DEF SlotsInv
    <3>3. blocks'[BlockOf(n)'].frees = blocks[BlockOf(n)].frees
      BY <1>4, <1>8, <2>2
    <3> QED BY <1>0, <1>4, <1>6, <1>11, <2>1, <2>2, <3>2, <3>3 DEF SlotOK
  <2>3. CASE BlockOf(n) \notin DOMAIN blocks
    <3>1. Off(n) \in Offsets
      BY <1>1, <2>1, PlaceFacts
    <3>2. n >= Back /\ n >= Front
      BY <1>1, <1>9, <2>1, <2>3
    <3>3. ~Cell(n)'.written /\ ~Cell(n)'.read
      BY <1>4, <1>9, <2>1, <2>3, <3>1 DEF Cell
    <3> QED BY <1>0, <1>1, <2>1, <3>2, <3>3 DEF SlotOK
  <2> QED BY <2>2, <2>3
<1>14. AskedInv'
  <2> SUFFICES ASSUME NEW e \in DOMAIN blocks', NEW i \in 0 .. BlockCap - 2
               PROVE  /\ blocks'[e].slots[i].destroy => e < BlockOf(Front)' /\ LastLeft(e)'
                      /\ Asked(e, i)' => GotTo(e, i, i + 1)'
    BY <1>4 DEF AskedInv
  <2>1. CASE e \in DOMAIN blocks
    BY <1>0, <1>4, <1>7, <1>8, <1>12, <2>1 DEF AskedInv, Asked
  <2>2. CASE e \notin DOMAIN blocks
    <3>1. i \in Offsets
      BY <1>1
    <3> QED BY <1>9, <2>2, <3>1 DEF Asked
  <2> QED BY <2>1, <2>2
<1>15. FreedInv'
  <2> SUFFICES ASSUME NEW e \in DOMAIN blocks'
               PROVE  /\ blocks'[e].frees \in {0, 1}
                      /\ blocks'[e].frees = 1 => e < BlockOf(Front)' /\ ~Working(e)'
                      /\ blocks'[e].frees = 0 /\ e < BlockOf(Front)' => Freer(e)'
    BY DEF FreedInv
  <2>1. CASE e \in DOMAIN blocks
    <3>1. Freer(e) => Freer(e)'
      <4>1. \A i : Asked(e, i)' <=> Asked(e, i)
        BY <1>8, <2>1 DEF Asked
      <4> QED BY <1>3, <1>4, <1>5, <4>1 DEF Freer
    <3> QED BY <1>0, <1>4, <1>7, <1>8, <2>1, <3>1 DEF FreedInv
  <2>2. CASE e \notin DOMAIN blocks
    <3>1. e \in Nat /\ e >= BlockOf(Front) /\ blocks'[e].frees = 0
      BY <1>1, <1>9, <1>10, <2>2
    <3> QED BY <1>1, <1>4, <3>1
  <2> QED BY <2>1, <2>2
<1> QED BY <1>11, <1>12, <1>13, <1>14, <1>15

\* A step that links and leaves the ends where they are keeps the invariant, if it
\* holds of the links and of the thread.
LEMMA LinkStep ==
    ASSUME TypeOK, Live, NEW t \in Threads, NEW l, NEW c, NEW w, NEW b \in Nat, NEW a, Links(t, l, c, w, b, a), a = aux[t],
           head' \in [index : Nat, block : Nat], tail' \in [index : Nat, block : Nat], head.block # 0 => head'.block # 0,
           CallOK(l, c), TailInv', HeadInv', LinksInv', Knows(l, c, w, b, a)',
           \A u \in Threads : u # t =>
              /\ Apart(l, At(w), b, pc[u], Mine(u), block[u])
              /\ pc[u] \in {"setindex", "setnext", "nextnext", "headblock", "headindex"} =>
                    blocks'[block[u]].next = blocks[block[u]].next
    PROVE  TypeOK' /\ Live'
<1>0. /\ TailInv /\ ThreadsInv /\ OwnersInv /\ Moves(t, l, c, w, b, a) /\ w = seen[t] /\ lap' = lap
      /\ Front' = Front /\ Back' = Back /\ blocks' \in Seq(Block) /\ Len(blocks) <= Len(blocks')
  BY DEF Live, Links
<1>1. w \in Nat /\ a \in Nat /\ Front \in Nat /\ Back \in Nat
  BY <1>0, Numbers DEF TypeOK
<1>2. TypeOK'
  BY <1>0, <1>1, MovesTypes
<1>3. /\ SlotsInv' /\ AskedInv' /\ FreedInv'
      /\ \A e \in DOMAIN blocks : \A lo, hi : GotTo(e, lo, hi) => GotTo(e, lo, hi)'
      /\ \A n \in Nat : BlockOf(n) \in DOMAIN blocks => Cell(n)' = Cell(n)
  BY LinksKept
<1>4. ASSUME NEW u \in Threads, u # t PROVE LeavesAlone(u)
  <2>1. \A n : n = Mine(u) /\ pc[u] \in Filling \cup Emptying => Cell(n)' = Cell(n)
    <3>1. pc[u] \in Filling \cup Emptying => Mine(u) \in Nat /\ block[u] = BlockOf(Mine(u)) /\ block[u] \in DOMAIN blocks
      BY <1>0, MyPlace
    <3> QED BY <1>3, <3>1
  <2>2. pc[u] \in Freeing => block[u] \in DOMAIN blocks
    BY <1>0 DEF ThreadsInv, Knows, FreeKnows
  <2>3. pc[u] \in Freeing => \A d, i : d = block[u] /\ i = aux[u] /\ GotTo(d, i, i) => GotTo(d, i, i)'
    BY <1>3, <2>2
  <2> QED BY <1>0, <1>4, <2>1, <2>3 DEF LeavesAlone, SameCell
<1>5. ThreadsInv'
  BY <1>0, <1>1, <1>4, ThreadsAfter
<1>6. OwnersInv'
  BY <1>0, OwnersAfter
<1> QED BY <1>2, <1>3, <1>5, <1>6 DEF Live

\* The blocks after one has changed.
LEMMA BlockUpdate ==
    ASSUME TypeOK, NEW d \in DOMAIN blocks, NEW B \in Block, blocks' = [blocks EXCEPT ![d] = B]
    PROVE  /\ blocks' \in Seq(Block) /\ Len(blocks') = Len(blocks) /\ DOMAIN blocks' = DOMAIN blocks
           /\ blocks'[d] = B /\ \A e \in DOMAIN blocks : e # d => blocks'[e] = blocks[e]
BY DEF TypeOK

\* The push that linked a block sets the link of the one before.
LEMMA SetNextStep ==
    ASSUME TypeOK, Live, lap' = lap, NEW t \in Threads, PushSetNext(t)
    PROVE  TypeOK' /\ Live'
<1>0. /\ TailInv /\ HeadInv /\ LinksInv /\ ThreadsInv /\ OwnersInv /\ SlotsInv
      /\ Knows(pc[t], call[t], seen[t], block[t], aux[t]) /\ CallOK(pc[t], call[t])
      /\ DOMAIN pc = Threads /\ DOMAIN call = Threads
      /\ seen \in [Threads -> Nat] /\ block \in [Threads -> Nat] /\ aux \in [Threads -> Nat]
      /\ head \in [index : Nat, block : Nat] /\ tail \in [index : Nat, block : Nat]
      /\ seen[t] \in Nat /\ block[t] \in Nat /\ aux[t] \in Nat /\ Mine(t) \in Nat /\ Mine(t) = At(seen[t])
  BY Around
<1>1. /\ lap \in Nat /\ lap >= 2 /\ BlockCap \in Nat /\ BlockCap >= 1 /\ Front \in Nat /\ Back \in Nat /\ Front <= Back
      /\ Len(blocks) \in Nat /\ DOMAIN blocks = 1 .. Len(blocks) /\ BlockOf(Front) \in Nat /\ BlockOf(Back) \in Nat
      /\ \A u \in Threads : u # t => Apart(pc[t], Mine(t), block[t], pc[u], Mine(u), block[u])
  BY Around
<1>2. pc[t] = "setnext" /\ pc[t] \in Filling /\ pc[t] \notin Emptying \cup Freeing \cup Popping
      /\ "write" \in Filling /\ "write" \notin Emptying \cup Freeing \cup Popping \cup Linking
  BY DEF PushSetNext, Filling, Pushing, Emptying, Popping, Freeing, Linking
<1>3. PICK n, c, w, b, a : n = Mine(t) /\ c = call[t] /\ w = seen[t] /\ b = block[t] /\ a = aux[t]
  OBVIOUS
<1>4. /\ n \in Nat /\ At(w) = n /\ b \in Nat /\ FillKnows("setnext", c, n, b) /\ b \in DOMAIN blocks
      /\ n < Back /\ HasSlot(n) /\ b = BlockOf(n) /\ ~Cell(n).written /\ ~Cell(n).read
      /\ LastSlot(n) /\ blocks[b].next = 0 /\ b < BlockOf(Back)
  <2>1. FillKnows("setnext", c, n, b)
    BY <1>0, <1>2, <1>3 DEF Knows
  <2>2. /\ n < Back /\ HasSlot(n) /\ b = BlockOf(n) /\ ~Cell(n).written /\ ~Cell(n).read
        /\ LastSlot(n) /\ blocks[b].next = 0 /\ b < BlockOf(Back)
    BY <2>1 DEF FillKnows
  <2> QED BY <1>0, <1>3, <2>1, <2>2, BlocksExist
<1>5. /\ blocks' \in Seq(Block) /\ Len(blocks') = Len(blocks) /\ DOMAIN blocks' = DOMAIN blocks
      /\ blocks'[b].next = b + 1 /\ blocks'[b].slots = blocks[b].slots /\ blocks'[b].frees = blocks[b].frees
      /\ \A e \in DOMAIN blocks : e # b => blocks'[e] = blocks[e]
  <2>1. PICK B : B = [blocks[b] EXCEPT !.next = b + 1]
    OBVIOUS
  <2>2. blocks[b] \in Block
    BY <1>4 DEF TypeOK
  <2>3. B \in Block /\ B.next = b + 1 /\ B.slots = blocks[b].slots /\ B.frees = blocks[b].frees
    BY <1>4, <2>1, <2>2 DEF Block
  <2>4. blocks' = [blocks EXCEPT ![b] = B]
    BY <1>3, <2>1 DEF PushSetNext
  <2> QED BY <1>4, <2>3, <2>4, BlockUpdate
<1>6. head' = head /\ tail' = tail /\ Front' = Front /\ Back' = Back
  BY DEF PushSetNext, Front, Back
<1>7. Moves(t, "write", c, w, b, a) /\ CallOK("write", c)
  <2>1. Moves(t, "write", c, w, b, a)
    BY <1>0, <1>3 DEF PushSetNext, Moves, Goto, locals
  <2> QED BY <1>0, <1>2, <1>3, <2>1 DEF CallOK, Filling, Pushing, Popping, Freeing
<1>8. Links(t, "write", c, w, b, a)
  BY <1>1, <1>2, <1>3, <1>4, <1>5, <1>6, <1>7 DEF Links
<1>9. ASSUME NEW u \in Threads, u # t
      PROVE  /\ Apart("write", At(w), b, pc[u], Mine(u), block[u])
             /\ pc[u] \in {"setindex", "setnext", "nextnext", "headblock", "headindex"} =>
                   block[u] \in DOMAIN blocks /\ block[u] # b
  <2>1. Apart("setnext", n, b, pc[u], Mine(u), block[u])
    BY <1>1, <1>2, <1>3, <1>9
  <2>2. Apart("write", At(w), b, pc[u], Mine(u), block[u])
    BY <1>2, <1>4, <2>1 DEF Apart
  <2>3. CASE pc[u] \in {"setindex", "setnext"}
    <3>1. pc[u] \in Filling
      BY <2>3 DEF Filling, Pushing
    <3>2. Mine(u) \in Nat /\ block[u] = BlockOf(Mine(u)) /\ block[u] \in DOMAIN blocks /\ FillKnows(pc[u], call[u], Mine(u), block[u])
      BY <1>0, <3>1, MyPlace
    <3>3. LastSlot(Mine(u))
      BY <2>3, <3>2 DEF FillKnows, Linking
    <3>4. block[u] = b => Mine(u) = n
      <4>1. Off(Mine(u)) = Off(n)
        <5>1. Off(n) \in Nat /\ Off(Mine(u)) \in Nat
          BY <1>1, <1>4, <3>2, PlaceFacts
        <5> QED BY <1>1, <1>4, <3>3, <5>1 DEF LastSlot
      <4> QED BY <1>1, <1>4, <3>2, <4>1, SamePlace
    <3> QED BY <1>2, <2>1, <2>2, <3>1, <3>2, <3>4 DEF Apart
  <2>4. CASE pc[u] \in {"nextnext", "headblock", "headindex"}
    <3>1. pc[u] \in Emptying
      BY <2>4 DEF Emptying, Popping
    <3>2. block[u] \in DOMAIN blocks /\ EmptyKnows(pc[u], Mine(u), block[u], aux[u])
      BY <1>0, <3>1, MyPlace
    <3>3. blocks[block[u]].next = block[u] + 1 /\ block[u] \in Nat
      BY <1>1, <2>4, <3>2 DEF EmptyKnows
    <3> QED BY <1>4, <2>2, <3>2, <3>3
  <2> QED BY <2>2, <2>3, <2>4
<1>10. /\ pc'[t] = "write" /\ block'[t] = b /\ \A u \in Threads : u # t => pc'[u] = pc[u] /\ block'[u] = block[u]
  BY <1>7, MovesFacts
<1>11. /\ SomeAt("setindex")' <=> SomeAt("setindex")
       /\ SomeAt("firsthead")' <=> SomeAt("firsthead")
       /\ SomeAt("headindex")' <=> SomeAt("headindex")
       /\ \A u \in Threads : /\ pc'[u] \in Advancing <=> pc[u] \in Advancing
                             /\ pc'[u] \in Linking <=> pc[u] \in Linking
  BY <1>2, <1>10 DEF SomeAt, Advancing, Linking
<1> HIDE DEF SomeAt
<1>12. BlockOf(Front)' = BlockOf(Front) /\ BlockOf(Back)' = BlockOf(Back) /\ (HasSlot(Back)' <=> HasSlot(Back)) /\ (HasSlot(Front)' <=> HasSlot(Front))
  BY <1>6 DEF BlockOf, HasSlot, Off, BlockCap
<1>13. TailInv'
  <2>1. (\E u \in Threads : pc'[u] \in Linking) <=> \E u \in Threads : pc[u] \in Linking
    BY <1>11
  <2> QED BY <1>0, <1>5, <1>6, <1>11, <1>12, <2>1 DEF TailInv
<1>14. HeadInv'
  <2>1. (\E u \in Threads : pc'[u] \in Advancing) <=> \E u \in Threads : pc[u] \in Advancing
    BY <1>11
  <2> QED BY <1>0, <1>5, <1>6, <1>11, <1>12, <2>1 DEF HeadInv, Marked
<1>15. LinksInv'
  <2> SUFFICES ASSUME NEW e \in DOMAIN blocks
               PROVE  /\ blocks'[e].next \in {0, e + 1}
                      /\ e = Len(blocks') => blocks'[e].next = 0
                      /\ e < Len(blocks') /\ blocks'[e].next = 0 =>
                            \E u \in Threads : pc'[u] \in {"setindex", "setnext"} /\ block'[u] = e
    BY <1>5 DEF LinksInv
  <2>1. CASE e = b
    <3>1. Len(blocks) >= BlockOf(Back)
      BY SMTT(60), <1>0, <1>1, <1>4 DEF TailInv
    <3> QED BY <1>1, <1>4, <1>5, <2>1, <3>1
  <2>2. CASE e # b
    <3>1. /\ blocks[e].next \in {0, e + 1}
          /\ e = Len(blocks) => blocks[e].next = 0
          /\ e < Len(blocks) /\ blocks[e].next = 0 =>
                \E u \in Threads : pc[u] \in {"setindex", "setnext"} /\ block[u] = e
      BY <1>0 DEF LinksInv
    <3>2. \A u \in Threads : pc[u] \in {"setindex", "setnext"} /\ block[u] = e => pc'[u] = pc[u] /\ block'[u] = block[u]
      BY <1>3, <1>10, <2>2
    <3> QED BY <1>5, <2>2, <3>1, <3>2
  <2> QED BY <2>1, <2>2
<1>16. Knows("write", c, w, b, a)'
  <2>1. FillKnows("write", c, n, b)'
    <3>1. HasSlot(n)' = HasSlot(n) /\ BlockOf(n)' = b /\ n < Back'
      BY <1>4, <1>6 DEF HasSlot, Off, BlockCap, BlockOf
    <3>2. Cell(n)' = Cell(n)
      BY <1>4, <1>5, <3>1 DEF Cell, Off, BlockOf
    <3> QED BY <1>4, <3>1, <3>2 DEF FillKnows, Linking
  <2> QED BY <1>2, <1>4, <2>1 DEF Knows
<1>17. head' \in [index : Nat, block : Nat] /\ tail' \in [index : Nat, block : Nat] /\ (head.block # 0 => head'.block # 0)
  BY <1>0, <1>6
<1>18. \A u \in Threads : u # t =>
          /\ Apart("write", At(w), b, pc[u], Mine(u), block[u])
          /\ pc[u] \in {"setindex", "setnext", "nextnext", "headblock", "headindex"} =>
                blocks'[block[u]].next = blocks[block[u]].next
  BY <1>5, <1>9
<1> QED BY <1>3, <1>4, <1>7, <1>8, <1>13, <1>14, <1>15, <1>16, <1>17, <1>18, LinkStep

\* A new block behind the others.
LEMMA BlockAppended ==
    ASSUME TypeOK, blocks' = Append(blocks, NewBlock)
    PROVE  /\ blocks' \in Seq(Block) /\ Len(blocks') = Len(blocks) + 1 /\ DOMAIN blocks' = DOMAIN blocks \cup {Len(blocks) + 1}
           /\ \A e \in DOMAIN blocks : blocks'[e] = blocks[e] /\ e # Len(blocks) + 1
           /\ blocks'[Len(blocks) + 1] = NewBlock /\ NewBlock.next = 0 /\ NewBlock.frees = 0
<1>1. NewBlock \in Block /\ NewBlock.next = 0 /\ NewBlock.frees = 0
  BY DEF NewBlock, Block, Slot
<1> HIDE DEF NewBlock
<1>2. blocks \in Seq(Block)
  BY DEF TypeOK
<1> QED BY <1>1, <1>2

\* The push that took the last slot of a block links the next one in tail.
LEMMA SetBlockStep ==
    ASSUME TypeOK, Live, lap' = lap, NEW t \in Threads, PushSetBlock(t)
    PROVE  TypeOK' /\ Live'
<1>0. /\ TailInv /\ HeadInv /\ LinksInv /\ ThreadsInv /\ OwnersInv /\ SlotsInv
      /\ Knows(pc[t], call[t], seen[t], block[t], aux[t]) /\ CallOK(pc[t], call[t])
      /\ DOMAIN pc = Threads /\ DOMAIN call = Threads
      /\ seen \in [Threads -> Nat] /\ block \in [Threads -> Nat] /\ aux \in [Threads -> Nat]
      /\ head \in [index : Nat, block : Nat] /\ tail \in [index : Nat, block : Nat]
      /\ seen[t] \in Nat /\ block[t] \in Nat /\ aux[t] \in Nat /\ Mine(t) \in Nat /\ Mine(t) = At(seen[t])
  BY Around
<1>1. /\ lap \in Nat /\ lap >= 2 /\ BlockCap \in Nat /\ BlockCap >= 1 /\ Front \in Nat /\ Back \in Nat /\ Front <= Back
      /\ Len(blocks) \in Nat /\ DOMAIN blocks = 1 .. Len(blocks) /\ BlockOf(Front) \in Nat /\ BlockOf(Back) \in Nat
      /\ \A u \in Threads : u # t => Apart(pc[t], Mine(t), block[t], pc[u], Mine(u), block[u])
  BY Around
<1>2. pc[t] = "setblock" /\ pc[t] \in Filling /\ pc[t] \in Linking /\ pc[t] \notin Emptying \cup Freeing \cup Popping
      /\ "setindex" \in Filling /\ "setindex" \notin Emptying \cup Freeing \cup Popping /\ "setindex" \in Linking
  BY DEF PushSetBlock, Filling, Pushing, Emptying, Popping, Freeing, Linking
<1>3. PICK n, c, w, b, a, k : n = Mine(t) /\ c = call[t] /\ w = seen[t] /\ b = block[t] /\ a = aux[t] /\ k = Len(blocks)
  OBVIOUS
<1>4. /\ n \in Nat /\ At(w) = n /\ b \in Nat /\ FillKnows("setblock", c, n, b) /\ b \in DOMAIN blocks
      /\ n < Back /\ HasSlot(n) /\ b = BlockOf(n) /\ b = BlockOf(Back) /\ ~Cell(n).written /\ ~Cell(n).read
      /\ LastSlot(n) /\ Back = n + 1 /\ ~HasSlot(Back)
  <2>1. FillKnows("setblock", c, n, b)
    BY <1>0, <1>2, <1>3 DEF Knows
  <2>2. /\ n < Back /\ HasSlot(n) /\ b = BlockOf(n) /\ ~Cell(n).written /\ ~Cell(n).read
        /\ LastSlot(n) /\ Back = n + 1
    BY <2>1 DEF FillKnows, Linking
  <2>3. ~HasSlot(Back) /\ b = BlockOf(Back)
    BY <1>0, <1>2, <1>3, RestingEnds
  <2> QED BY <1>0, <1>3, <2>1, <2>2, <2>3, BlocksExist
<1>5. \A u \in Threads : u # t => pc[u] \notin Linking
  <2> TAKE u \in Threads
  <2> HAVE u # t
  <2>1. pc[u] \in Linking => Back = Mine(u) + 1 /\ Mine(u) \in Nat
    BY <1>0, RestingEnds, Numbers
  <2>2. pc[u] \in Linking => Mine(u) = Mine(t)
    BY <1>3, <1>4, <2>1
  <2> QED BY <1>1, <1>2, <2>2 DEF Apart, Filling, Pushing, Linking
<1>6. k = b /\ b < k + 1 /\ k # 0 /\ ~SomeAt("setindex") /\ blocks[b].next = 0
  <2>1. ~SomeAt("setindex")
    BY <1>2, <1>5 DEF SomeAt, Linking
  <2>2. k # 0
    BY <1>0, <1>1, <1>3, <1>4, BlocksExist
  <2> HIDE DEF SomeAt
  <2>3. k = b
    BY <1>0, <1>3, <1>4, <2>1, <2>2 DEF TailInv
  <2> QED BY <1>0, <1>3, <1>4, <2>1, <2>2, <2>3 DEF LinksInv
<1>7. /\ blocks' \in Seq(Block) /\ Len(blocks') = k + 1 /\ DOMAIN blocks' = DOMAIN blocks \cup {k + 1}
      /\ \A e \in DOMAIN blocks : blocks'[e] = blocks[e] /\ e # k + 1
      /\ blocks'[k + 1] = NewBlock /\ NewBlock.next = 0 /\ NewBlock.frees = 0
  BY <1>3, BlockAppended DEF PushSetBlock
<1>8. /\ head' = head /\ Front' = Front /\ Back' = Back /\ tail' \in [index : Nat, block : Nat] /\ tail'.block = k + 1
  <2>1. head' = head /\ tail' = [tail EXCEPT !.block = k + 1]
    BY <1>7 DEF PushSetBlock
  <2>2. tail' \in [index : Nat, block : Nat] /\ tail'.block = k + 1 /\ tail'.index = tail.index
    <3>1. tail \in [index : Nat, block : Nat] /\ k \in Nat
      BY <1>0, <1>1, <1>3
    <3>2. k + 1 \in Nat
      BY <3>1
    <3> QED BY <2>1, <3>1, <3>2
  <2> QED BY <2>1, <2>2 DEF Front, Back
<1>9. Moves(t, "setindex", c, w, b, a) /\ CallOK("setindex", c)
  <2>1. Moves(t, "setindex", c, w, b, a)
    BY <1>0, <1>3 DEF PushSetBlock, Moves, Goto, locals
  <2> QED BY <1>0, <1>2, <1>3, <2>1 DEF CallOK, Filling, Pushing, Popping, Freeing
<1>10. Links(t, "setindex", c, w, b, a)
  <2>1. \A m \in Nat : BlockOf(m) = k + 1 => m >= Back
    <3> SUFFICES ASSUME NEW m \in Nat, BlockOf(m) = k + 1, m < Back PROVE FALSE
      BY <1>1
    <3>1. BlockOf(m) <= BlockOf(Back)
      BY <1>1, PlaceOrder
    <3> QED BY <1>1, <1>4, <1>6, <3>1
  <2> QED BY <1>1, <1>2, <1>3, <1>7, <1>8, <1>9, <2>1 DEF Links
<1>11. ASSUME NEW u \in Threads, u # t
       PROVE  /\ Apart("setindex", At(w), b, pc[u], Mine(u), block[u])
              /\ pc[u] \in {"setindex", "setnext", "nextnext", "headblock", "headindex"} => block[u] \in DOMAIN blocks
  <2>1. Apart("setblock", n, b, pc[u], Mine(u), block[u])
    BY <1>1, <1>2, <1>3, <1>11
  <2>2. Apart("setindex", At(w), b, pc[u], Mine(u), block[u])
    BY <1>2, <1>4, <2>1 DEF Apart
  <2>3. pc[u] \in {"setindex", "setnext", "nextnext", "headblock", "headindex"} => pc[u] \in Filling \cup Emptying
    BY DEF Filling, Pushing, Emptying, Popping
  <2> QED BY <1>0, <2>2, <2>3, MyPlace
<1>12. /\ pc'[t] = "setindex" /\ block'[t] = b /\ \A u \in Threads : u # t => pc'[u] = pc[u] /\ block'[u] = block[u]
  BY <1>9, MovesFacts
<1>13. /\ SomeAt("setindex")'
       /\ SomeAt("firsthead")' <=> SomeAt("firsthead")
       /\ SomeAt("headindex")' <=> SomeAt("headindex")
       /\ \A u \in Threads : /\ pc'[u] \in Advancing <=> pc[u] \in Advancing
                             /\ pc'[u] \in Linking <=> pc[u] \in Linking
  BY <1>2, <1>12 DEF SomeAt, Advancing, Linking
<1> HIDE DEF SomeAt
<1>14. BlockOf(Front)' = BlockOf(Front) /\ BlockOf(Back)' = BlockOf(Back) /\ (HasSlot(Back)' <=> HasSlot(Back)) /\ (HasSlot(Front)' <=> HasSlot(Front))
  BY <1>8 DEF BlockOf, HasSlot, Off, BlockCap
<1>15. TailInv'
  <2>1. \E u \in Threads : pc'[u] \in Linking
    BY <1>2, <1>12
  <2> QED BY <1>1, <1>4, <1>6, <1>7, <1>8, <1>13, <1>14, <2>1 DEF TailInv
<1>16. HeadInv'
  <2>1. (\E u \in Threads : pc'[u] \in Advancing) <=> \E u \in Threads : pc[u] \in Advancing
    BY <1>13
  <2>2. Len(blocks') # 0 /\ Len(blocks) # 0
    BY <1>1, <1>3, <1>6, <1>7
  <2> QED BY <1>0, <1>8, <1>13, <1>14, <2>1, <2>2 DEF HeadInv, Marked
<1>17. LinksInv'
  <2> SUFFICES ASSUME NEW e \in DOMAIN blocks'
               PROVE  /\ blocks'[e].next \in {0, e + 1}
                      /\ e = Len(blocks') => blocks'[e].next = 0
                      /\ e < Len(blocks') /\ blocks'[e].next = 0 =>
                            \E u \in Threads : pc'[u] \in {"setindex", "setnext"} /\ block'[u] = e
    BY DEF LinksInv
  <2>1. CASE e = k + 1
    BY <1>1, <1>3, <1>7, <2>1
  <2>2. CASE e = b
    BY <1>4, <1>6, <1>7, <1>12, <2>2
  <2>3. CASE e # k + 1 /\ e # b
    <3>1. e \in DOMAIN blocks /\ e < Len(blocks)
      BY <1>1, <1>3, <1>6, <1>7, <2>3
    <3>2. /\ blocks[e].next \in {0, e + 1}
          /\ blocks[e].next = 0 => \E u \in Threads : pc[u] \in {"setindex", "setnext"} /\ block[u] = e
      BY <1>0, <3>1 DEF LinksInv
    <3>3. \A u \in Threads : pc[u] \in {"setindex", "setnext"} /\ block[u] = e => pc'[u] = pc[u] /\ block'[u] = block[u]
      BY <1>2, <1>12
    <3> QED BY <1>7, <2>3, <3>1, <3>2, <3>3
  <2> QED BY <2>1, <2>2, <2>3
<1>18. Knows("setindex", c, w, b, a)'
  <2>1. FillKnows("setindex", c, n, b)'
    <3>1. HasSlot(n)' = HasSlot(n) /\ LastSlot(n)' = LastSlot(n) /\ BlockOf(n)' = b /\ n < Back' /\ Back' = n + 1
      BY <1>4, <1>8, <1>10 DEF Links, HasSlot, LastSlot, Off, BlockCap, BlockOf
    <3>2. Cell(n)' = Cell(n) /\ blocks'[b].next = 0
      <4>1. blocks'[b] = blocks[b]
        BY <1>4, <1>7
      <4> QED BY <1>4, <1>6, <1>10, <3>1, <4>1 DEF Links, Cell, Off, BlockOf
    <3> QED BY <1>4, <3>1, <3>2 DEF FillKnows, Linking
  <2> QED BY <1>2, <1>4, <2>1 DEF Knows
<1>19. head' \in [index : Nat, block : Nat] /\ (head.block # 0 => head'.block # 0)
  BY <1>0, <1>8
<1>20. \A u \in Threads : u # t =>
          /\ Apart("setindex", At(w), b, pc[u], Mine(u), block[u])
          /\ pc[u] \in {"setindex", "setnext", "nextnext", "headblock", "headindex"} =>
                blocks'[block[u]].next = blocks[block[u]].next
  BY <1>7, <1>11
<1> QED BY <1>3, <1>4, <1>8, <1>9, <1>10, <1>15, <1>16, <1>17, <1>18, <1>19, <1>20, LinkStep

\* The first push links the first block in tail.
LEMMA FirstStep ==
    ASSUME TypeOK, Live, lap' = lap, NEW t \in Threads,
           pc[t] = "first", tail.block = 0, blocks' = Append(blocks, NewBlock),
           tail' = [tail EXCEPT !.block = Len(blocks')], Load(t, Len(blocks')), Goto(t, "firsthead"),
           UNCHANGED <<head, call, seen, aux>>
    PROVE  TypeOK' /\ Live'
<1>0. /\ TailInv /\ HeadInv /\ LinksInv /\ ThreadsInv /\ OwnersInv /\ SlotsInv
      /\ Knows(pc[t], call[t], seen[t], block[t], aux[t]) /\ CallOK(pc[t], call[t])
      /\ DOMAIN pc = Threads /\ DOMAIN call = Threads
      /\ seen \in [Threads -> Nat] /\ block \in [Threads -> Nat] /\ aux \in [Threads -> Nat]
      /\ head \in [index : Nat, block : Nat] /\ tail \in [index : Nat, block : Nat]
      /\ seen[t] \in Nat /\ block[t] \in Nat /\ aux[t] \in Nat /\ Mine(t) \in Nat /\ Mine(t) = At(seen[t])
  BY Around
<1>1. /\ lap \in Nat /\ lap >= 2 /\ BlockCap \in Nat /\ BlockCap >= 1 /\ Front \in Nat /\ Back \in Nat /\ Front <= Back
      /\ Len(blocks) \in Nat /\ DOMAIN blocks = 1 .. Len(blocks) /\ BlockOf(Front) \in Nat /\ BlockOf(Back) \in Nat
  BY Around
<1>2. pc[t] \notin Filling \cup Emptying \cup Freeing \cup Popping \cup Linking
      /\ "firsthead" \notin Filling \cup Emptying \cup Freeing \cup Popping \cup Linking
  BY DEF Filling, Pushing, Emptying, Popping, Freeing, Linking
<1>3. PICK c, w, a : c = call[t] /\ w = seen[t] /\ a = aux[t]
  OBVIOUS
<1>4. /\ Len(blocks) = 0 /\ Back = 0 /\ Front = 0 /\ At(w) = 0 /\ ~Marked(w) /\ HasSlot(0) /\ BlockOf(0) = 1 /\ head.block = 0
      /\ ~SomeAt("firsthead") /\ ~Marked(head.index)
  <2>1. PushKnows("first", w, At(w), block[t])
    BY <1>0, <1>3 DEF Knows
  <2>2. Len(blocks) = 0 /\ Back = 0 /\ Front = 0
    BY <1>0, <1>1 DEF TailInv
  <2>3. At(w) = 0 /\ ~Marked(w) /\ HasSlot(0)
    BY <1>0, <1>1, <1>3, <2>1, <2>2 DEF PushKnows
  <2>4. BlockOf(0) = 1
    <3>1. Back = (1 - 1) * lap + 0
      BY <1>1, <2>2
    <3>2. 1 \in Nat /\ 0 \in Nat /\ 1 >= 1 /\ 0 < lap
      BY <1>1
    <3>3. BlockOf(Back) = 1
      BY <1>1, <3>1, <3>2, PlaceOf
    <3> QED BY <2>2, <3>3
  <2> HIDE DEF SomeAt
  <2>5. head.block = 0 /\ ~SomeAt("firsthead")
    BY <1>0, <2>2 DEF HeadInv
  <2>6. ~Marked(head.index)
    BY <1>0, <1>1, <2>2 DEF HeadInv
  <2> QED BY <2>2, <2>3, <2>4, <2>5, <2>6
<1>5. \A u \in Threads : pc[u] \notin Filling \cup Emptying \cup Freeing \cup {"firsthead"}
  <2> TAKE u \in Threads
  <2>1. pc[u] \in Filling \cup Emptying => Mine(u) \in Nat /\ Mine(u) < Back
    BY <1>0, MyPlace
  <2>2. pc[u] \in Freeing => block[u] \in DOMAIN blocks
    BY <1>0 DEF ThreadsInv, Knows, FreeKnows
  <2> QED BY <1>1, <1>4, <2>1, <2>2 DEF SomeAt
<1>6. /\ blocks' \in Seq(Block) /\ Len(blocks') = 1 /\ DOMAIN blocks' = {1} /\ DOMAIN blocks = {}
      /\ blocks'[1] = NewBlock /\ NewBlock.next = 0 /\ NewBlock.frees = 0
  <2>1. 0 + 1 = 1 /\ DOMAIN blocks = {}
    BY <1>1, <1>4
  <2> QED BY <1>4, <2>1, BlockAppended
<1>7. /\ head' = head /\ Front' = Front /\ Back' = Back /\ tail' \in [index : Nat, block : Nat] /\ tail'.block = 1
  <2>1. tail' = [tail EXCEPT !.block = 1] /\ tail \in [index : Nat, block : Nat]
    BY <1>0, <1>6
  <2>2. tail' \in [index : Nat, block : Nat] /\ tail'.block = 1 /\ tail'.index = tail.index
    BY <2>1
  <2> QED BY <2>2 DEF Front, Back
<1>8. Moves(t, "firsthead", c, w, 1, a) /\ CallOK("firsthead", c)
  <2>1. block' = [block EXCEPT ![t] = 1]
    BY <1>6 DEF Load
  <2>2. Moves(t, "firsthead", c, w, 1, a)
    BY <1>0, <1>3, <2>1 DEF Moves, Goto
  <2> QED BY <1>0, <1>2, <1>3, <2>2 DEF CallOK, Filling, Pushing, Popping, Freeing
<1>9. Links(t, "firsthead", c, w, 1, a)
  <2>1. Len(blocks) <= Len(blocks')
    BY <1>4, <1>6
  <2>2. \A m \in Nat : m >= Back
    BY <1>4
  <2> QED BY <1>2, <1>3, <1>6, <1>7, <1>8, <2>1, <2>2 DEF Links
<1>10. /\ pc'[t] = "firsthead" /\ block'[t] = 1 /\ \A u \in Threads : u # t => pc'[u] = pc[u] /\ block'[u] = block[u]
  BY <1>8, MovesFacts
<1>11. SomeAt("firsthead")' /\ ~SomeAt("setindex")' /\ ~SomeAt("headindex")'
  BY <1>5, <1>10 DEF SomeAt, Filling, Pushing, Emptying, Popping
<1> HIDE DEF SomeAt
<1>12. BlockOf(Front)' = 1 /\ BlockOf(Back)' = 1 /\ HasSlot(Back)' /\ HasSlot(Front)'
  BY <1>4, <1>7 DEF BlockOf, HasSlot, Off, BlockCap
<1>13. TailInv'
  BY <1>4, <1>6, <1>7, <1>11, <1>12 DEF TailInv
<1>14. HeadInv'
  BY <1>4, <1>6, <1>7, <1>11, <1>12 DEF HeadInv, Marked
<1>15. LinksInv'
  BY <1>6 DEF LinksInv
<1>16. Knows("firsthead", c, w, 1, a)'
  <2>1. PushKnows("firsthead", w, 0, 1)'
    BY <1>4, <1>7, <1>12 DEF PushKnows, HasSlot, Off, BlockCap, Marked
  <2> QED BY <1>2, <1>4, <2>1 DEF Knows
<1>17. head' \in [index : Nat, block : Nat] /\ (head.block # 0 => head'.block # 0) /\ 1 \in Nat
  BY <1>0, <1>7
<1>18. \A u \in Threads : u # t =>
          /\ Apart("firsthead", At(w), 1, pc[u], Mine(u), block[u])
          /\ pc[u] \notin {"setindex", "setnext", "nextnext", "headblock", "headindex"}
  BY <1>2, <1>5 DEF Apart, Filling, Pushing, Emptying, Popping
<1> QED BY <1>3, <1>7, <1>8, <1>9, <1>13, <1>14, <1>15, <1>16, <1>17, <1>18, LinkStep

\* Whoever finds every slot of a block read, but the last, frees the block, and
\* nobody is at work there any more.
LEMMA FreeStep ==
    ASSUME TypeOK, Live, lap' = lap, NEW t \in Threads, Destroy(t), aux[t] = BlockCap - 1
    PROVE  TypeOK' /\ Live'
<1>0. /\ TailInv /\ HeadInv /\ LinksInv /\ ThreadsInv /\ OwnersInv /\ SlotsInv /\ AskedInv /\ FreedInv
      /\ Knows(pc[t], call[t], seen[t], block[t], aux[t]) /\ CallOK(pc[t], call[t])
      /\ DOMAIN pc = Threads /\ DOMAIN call = Threads
      /\ seen \in [Threads -> Nat] /\ block \in [Threads -> Nat] /\ aux \in [Threads -> Nat]
      /\ head \in [index : Nat, block : Nat] /\ tail \in [index : Nat, block : Nat]
      /\ seen[t] \in Nat /\ block[t] \in Nat /\ aux[t] \in Nat /\ Mine(t) \in Nat /\ Mine(t) = At(seen[t])
  BY Around
<1>1. /\ lap \in Nat /\ lap >= 2 /\ BlockCap \in Nat /\ BlockCap >= 1 /\ Front \in Nat /\ Back \in Nat /\ Front <= Back
      /\ Len(blocks) \in Nat /\ DOMAIN blocks = 1 .. Len(blocks) /\ BlockOf(Front) \in Nat /\ BlockOf(Back) \in Nat
      /\ \A u \in Threads : u # t => Apart(pc[t], Mine(t), block[t], pc[u], Mine(u), block[u])
  BY Around
<1>2. pc[t] = "destroy" /\ pc[t] \in Freeing /\ pc[t] \notin Emptying \cup Filling \cup Popping \cup Linking \cup Advancing
      /\ "return" \notin Filling \cup Emptying \cup Freeing \cup Popping \cup Linking \cup Advancing
  BY DEF Destroy, Filling, Pushing, Emptying, Popping, Freeing, Linking, Advancing
<1>3. PICK b : b = block[t]
  OBVIOUS
<1>4. /\ b \in DOMAIN blocks /\ b < BlockOf(Front) /\ LastLeft(b) /\ b \in Nat /\ b >= 1
      /\ \A j \in 0 .. BlockCap - 2 : blocks[b].slots[j].read
  <2>1. FreeKnows("destroy", b, BlockCap - 1)
    BY <1>0, <1>2, <1>3 DEF Knows
  <2>2. b \in DOMAIN blocks /\ GotTo(b, BlockCap - 1, BlockCap - 1)
    BY <2>1 DEF FreeKnows
  <2> QED BY <1>1, <2>2 DEF GotTo
<1>5. ASSUME NEW u \in Threads, u # t PROVE pc[u] \in Filling \cup Emptying \cup Freeing => block[u] # b
  <2> SUFFICES ASSUME pc[u] \in Filling \cup Emptying \cup Freeing, block[u] = b PROVE FALSE
    OBVIOUS
  <2>1. CASE pc[u] \in Filling \cup Emptying
    <3>1. /\ Offset(seen[u]) \in Offsets /\ ~blocks[b].slots[Offset(seen[u])].read
          /\ Offset(seen[u]) = Off(Mine(u))
      <4>1. /\ Off(Mine(u)) \in Offsets /\ Offset(seen[u]) = Off(Mine(u)) /\ ~Cell(Mine(u)).read
            /\ Cell(Mine(u)) = blocks[block[u]].slots[Offset(seen[u])]
        BY <1>0, <2>1, MyPlace
      <4> QED BY <2>1, <4>1
    <3>2. ~LastSlot(Mine(u))
      BY <1>4, <2>1 DEF LastLeft
    <3>3. Offset(seen[u]) \in 0 .. BlockCap - 2
      BY <1>1, <3>1, <3>2 DEF LastSlot, Offsets
    <3> QED BY <1>4, <3>1, <3>3
  <2>2. CASE pc[u] \in Freeing
    BY <1>1, <1>2, <1>3, <1>5, <2>2 DEF Apart
  <2> QED BY <2>1, <2>2
<1>6. blocks[b].frees = 0
  <2>1. Working(b)
    BY <1>2, <1>3 DEF Working
  <2> QED BY <1>0, <1>4, <2>1 DEF FreedInv
<1>7. /\ blocks' \in Seq(Block) /\ Len(blocks') = Len(blocks) /\ DOMAIN blocks' = DOMAIN blocks
      /\ blocks'[b].next = blocks[b].next /\ blocks'[b].frees = 1
      /\ \A i \in Offsets : ~blocks'[b].slots[i].written /\ ~blocks'[b].slots[i].read /\ ~blocks'[b].slots[i].destroy
      /\ \A e \in DOMAIN blocks : e # b => blocks'[e] = blocks[e]
  <2>1. PICK B : B = Freed(blocks[b])
    OBVIOUS
  <2>2. blocks[b] \in Block
    BY <1>4 DEF TypeOK
  <2>3. /\ B \in Block /\ B.next = blocks[b].next /\ B.frees = 1
        /\ \A i \in Offsets : ~B.slots[i].written /\ ~B.slots[i].read /\ ~B.slots[i].destroy
    <3>1. PICK S : S = NewBlock.slots
      OBVIOUS
    <3>2. S \in [Offsets -> Slot] /\ \A i \in Offsets : ~S[i].written /\ ~S[i].read /\ ~S[i].destroy
      BY <3>1 DEF NewBlock, Slot
    <3>3. B = [next |-> blocks[b].next, frees |-> 1, slots |-> S]
      <4>1. NewBlock = [next |-> 0, frees |-> 0, slots |-> S]
        BY <3>1 DEF NewBlock
      <4>2. B = [[next |-> 0, frees |-> 0, slots |-> S] EXCEPT !.next = blocks[b].next, !.frees = 1]
        BY <1>6, <2>1, <4>1 DEF Freed
      <4> QED BY <4>2
    <3> QED BY <2>2, <3>2, <3>3 DEF Block
  <2>4. blocks' = [blocks EXCEPT ![b] = B]
    BY <1>3, <2>1 DEF Destroy
  <2> QED BY <1>4, <2>3, <2>4, BlockUpdate
<1>8. head' = head /\ tail' = tail
  BY DEF Destroy
<1>9. PICK c, w, a : c = call[t] /\ w = seen[t] /\ a = aux[t]
  OBVIOUS
<1>10. Moves(t, "return", c, w, b, a) /\ CallOK("return", c)
  <2>1. Moves(t, "return", c, w, b, a)
    BY <1>0, <1>3, <1>9 DEF Destroy, Moves, Goto
  <2>2. CallOK("return", c)
    <3>1. \E v \in Values : c = Q!Popped(v)
      BY <1>2, <1>9, CallsNow
    <3> QED BY <3>1 DEF CallOK, Q!Popped, Q!Said, Q!Answers
  <2> QED BY <2>1, <2>2
<1>11. TypeOK'
  <2>1. w \in Nat /\ a \in Nat /\ head' \in [index : Nat, block : Nat] /\ tail' \in [index : Nat, block : Nat]
    BY <1>0, <1>8, <1>9
  <2> QED BY <1>4, <1>7, <1>10, <2>1, MovesTypes
<1>12. TailInv' /\ HeadInv' /\ LinksInv' /\ Front' = Front /\ Back' = Back
  <2>1. {"return", pc[t]} \cap (Linking \cup {"setnext", "firsthead"} \cup Advancing) = {}
    BY <1>2
  <2>2. \A e \in DOMAIN blocks : blocks'[e].next = blocks[e].next
    BY <1>7
  <2> QED BY <1>0, <1>7, <1>8, <1>10, <2>1, <2>2, EndsKept
<1>13. /\ \A n : (FilledBy(n)' <=> FilledBy(n)) /\ (PoppedBy(n)' <=> PoppedBy(n)) /\ (EmptiedBy(n)' <=> EmptiedBy(n))
       /\ \A e : (LastLeft(e) => LastLeft(e)') /\ (Working(e)' => Working(e))
       /\ \A e : e # b =>
            /\ (\E u \in Threads : pc'[u] \in Emptying /\ block'[u] = e /\ LastSlot(Mine(u))')
               <=> \E u \in Threads : pc[u] \in Emptying /\ block[u] = e /\ LastSlot(Mine(u))
            /\ (\E u \in Threads : pc'[u] \in Freeing /\ block'[u] = e)
               <=> \E u \in Threads : pc[u] \in Freeing /\ block[u] = e
  <2>1. Leaves(t, "return") /\ Moves(t, "return", c, seen[t], block[t], a)
    BY <1>2, <1>3, <1>9, <1>10 DEF Leaves
  <2>2. /\ \A n : n # Mine(t) \/ pc[t] \in Freeing =>
                 (FilledBy(n)' <=> FilledBy(n)) /\ (PoppedBy(n)' <=> PoppedBy(n)) /\ (EmptiedBy(n)' <=> EmptiedBy(n))
        /\ \A e : (LastLeft(e) => LastLeft(e)') /\ (Working(e)' => Working(e))
        /\ \A e : e # block[t] =>
             /\ (\E u \in Threads : pc'[u] \in Emptying /\ block'[u] = e /\ LastSlot(Mine(u))')
                <=> \E u \in Threads : pc[u] \in Emptying /\ block[u] = e /\ LastSlot(Mine(u))
             /\ (\E u \in Threads : pc'[u] \in Freeing /\ block'[u] = e)
                <=> \E u \in Threads : pc[u] \in Freeing /\ block[u] = e
    BY <2>1, RolesLeft
  <2> QED BY <1>2, <1>3, <2>2
<1>14. /\ \A n : BlockOf(n)' = BlockOf(n) /\ Off(n)' = Off(n) /\ (HasSlot(n)' <=> HasSlot(n)) /\ (LastSlot(n)' <=> LastSlot(n))
       /\ BlockCap' = BlockCap /\ Positions' = Positions /\ BlockOf(Front)' = BlockOf(Front)
  <2>1. BlockOf(Front)' = BlockOf(Front)
    BY <1>12 DEF BlockOf
  <2>2. Positions' = Positions
    BY <1>7 DEF Positions
  <2> QED BY <2>1, <2>2, SamePlaces
<1>15. \A n : BlockOf(n) \in DOMAIN blocks /\ BlockOf(n) # b => Cell(n)' = Cell(n)
  BY <1>7, <1>14 DEF Cell
<1>16. \A e \in DOMAIN blocks : e # b => \A lo, hi : GotTo(e, lo, hi) => GotTo(e, lo, hi)'
  BY <1>7, <1>13, <1>14 DEF GotTo
<1>17. ASSUME NEW u \in Threads, u # t PROVE LeavesAlone(u)
  <2>1. \A n : n = Mine(u) /\ pc[u] \in Filling \cup Emptying => Cell(n)' = Cell(n)
    <3>1. pc[u] \in Filling \cup Emptying => block[u] = BlockOf(Mine(u)) /\ block[u] \in DOMAIN blocks
      BY <1>0, MyPlace
    <3> QED BY <1>5, <1>15, <1>17, <3>1
  <2>2. pc[u] \in Freeing => block[u] \in DOMAIN blocks /\ block[u] # b
    <3>1. pc[u] \in Freeing => block[u] \in DOMAIN blocks
      BY <1>0 DEF ThreadsInv, Knows, FreeKnows
    <3> QED BY <1>5, <1>17, <3>1
  <2>3. pc[u] \in Freeing => \A d, i : d = block[u] /\ i = aux[u] /\ GotTo(d, i, i) => GotTo(d, i, i)'
    BY <1>16, <2>2
  <2>4. pc[u] \in {"setindex", "setnext", "nextnext", "headblock", "headindex"} => blocks'[block[u]].next = blocks[block[u]].next
    <3>1. pc[u] \in {"setindex", "setnext", "nextnext", "headblock", "headindex"} => pc[u] \in Filling \cup Emptying
      BY DEF Filling, Pushing, Emptying, Popping
    <3>2. pc[u] \in Filling \cup Emptying => block[u] \in DOMAIN blocks
      BY <1>0, MyPlace
    <3> QED BY <1>7, <3>1, <3>2
  <2> QED BY <1>12, <1>17, <2>1, <2>3, <2>4 DEF LeavesAlone, SameCell
<1>18. ThreadsInv'
  <2>1. Knows("return", c, w, b, a)'
    BY <1>2 DEF Knows
  <2>2. Front' \in Nat /\ Back' \in Nat /\ Front <= Front' /\ Back <= Back' /\ Len(blocks) <= Len(blocks') /\ (head.block # 0 => head'.block # 0)
    BY <1>1, <1>7, <1>8, <1>12
  <2> QED BY <1>0, <1>7, <1>10, <1>17, <2>1, <2>2, ThreadsAfter
<1>19. OwnersInv'
  <2>1. \A u \in Threads : u # t => Apart("return", At(w), b, pc[u], Mine(u), block[u])
    BY <1>2 DEF Apart
  <2> QED BY <1>0, <1>10, <2>1, OwnersAfter
<1>20. SlotsInv'
  <2> SUFFICES ASSUME NEW n \in Positions, HasSlot(n) PROVE SlotOK(n)'
    BY <1>14 DEF SlotsInv
  <2>1. n \in Nat /\ BlockOf(n) \in DOMAIN blocks /\ Off(n) \in Offsets
    <3>1. n \in 0 .. lap * Len(blocks) - 1
      BY DEF Positions
    <3>2. n \in Nat
      BY <3>1
    <3>3. BlockOf(n) <= Len(blocks) /\ BlockOf(n) \in Nat /\ BlockOf(n) >= 1
      BY <1>1, <3>1, <3>2, PositionsFacts, PlaceFacts
    <3> QED BY <1>1, <3>2, <3>3, PlaceFacts
  <2>2. CASE BlockOf(n) # b
    <3>1. SlotOK(n)
      BY <1>0 DEF SlotsInv
    <3>2. blocks'[BlockOf(n)'].frees = blocks[BlockOf(n)].frees
      BY <1>7, <1>14, <2>1, <2>2
    <3> QED BY <1>12, <1>13, <1>14, <1>15, <2>1, <2>2, <3>1, <3>2 DEF SlotOK
  <2>3. CASE BlockOf(n) = b
    <3>1. n < Front
      <4>1. Front <= n => BlockOf(Front) <= BlockOf(n)
        BY <1>1, <2>1, PlaceOrder
      <4> QED BY <1>1, <1>4, <2>1, <2>3, <4>1
    <3>2. ~PoppedBy(n)
      <4>1. \A u \in Threads : pc[u] \in Popping => pc[u] \in Emptying
        BY DEF Emptying
      <4>2. \A u \in Threads : pc[u] \in Emptying => block[u] = BlockOf(Mine(u))
        BY <1>0, MyPlace
      <4> QED BY <1>2, <1>5, <2>3, <4>1, <4>2 DEF PoppedBy
    <3>3. ~Cell(n)'.written /\ ~Cell(n)'.read
      BY <1>7, <1>14, <2>1, <2>3 DEF Cell
    <3>4. blocks'[BlockOf(n)'].frees # 0
      BY <1>7, <1>14, <2>3
    <3> QED BY <1>1, <1>12, <1>13, <1>14, <2>1, <3>1, <3>2, <3>3, <3>4 DEF SlotOK
  <2> QED BY <2>2, <2>3
<1>21. AskedInv'
  <2> SUFFICES ASSUME NEW e \in DOMAIN blocks, NEW i \in 0 .. BlockCap - 2
               PROVE  /\ blocks'[e].slots[i].destroy => e < BlockOf(Front)' /\ LastLeft(e)'
                      /\ Asked(e, i)' => GotTo(e, i, i + 1)'
    BY <1>7, <1>14 DEF AskedInv
  <2>1. CASE e # b
    BY <1>0, <1>7, <1>13, <1>14, <1>16, <2>1 DEF AskedInv, Asked
  <2>2. CASE e = b
    <3>1. i \in Offsets
      BY <1>1 DEF Offsets
    <3> QED BY <1>7, <2>2, <3>1 DEF Asked
  <2> QED BY <2>1, <2>2
<1>22. FreedInv'
  <2> SUFFICES ASSUME NEW e \in DOMAIN blocks
               PROVE  /\ blocks'[e].frees \in {0, 1}
                      /\ blocks'[e].frees = 1 => e < BlockOf(Front)' /\ ~Working(e)'
                      /\ blocks'[e].frees = 0 /\ e < BlockOf(Front)' => Freer(e)'
    BY <1>7 DEF FreedInv
  <2>1. CASE e # b
    <3>1. Freer(e) => Freer(e)'
      <4>1. \A i : Asked(e, i)' <=> Asked(e, i)
        BY <1>7, <2>1 DEF Asked
      <4> QED BY <1>13, <1>14, <2>1, <4>1 DEF Freer
    <3> QED BY <1>0, <1>7, <1>13, <1>14, <2>1, <3>1 DEF FreedInv
  <2>2. CASE e = b
    <3>1. ~Working(b)'
      <4>1. pc'[t] = "return" /\ \A u \in Threads : u # t => pc'[u] = pc[u] /\ block'[u] = block[u]
        BY <1>10, MovesFacts
      <4> QED BY <1>2, <1>5, <4>1 DEF Working
    <3> QED BY <1>4, <1>7, <1>14, <2>2, <3>1
  <2> QED BY <2>1, <2>2
<1> QED BY <1>11, <1>12, <1>18, <1>19, <1>20, <1>21, <1>22 DEF Live

\* The position of the i-th item.
Place(i) == SlotAt(Rank(Front) + i - 1)
\* It lies between the ends and is that of a slot.
LEMMA ItemPlace ==
    ASSUME TypeOK, TailInv
    PROVE  /\ Rank(Front) \in Nat /\ Rank(Back) \in Nat /\ Rank(Front) <= Rank(Back)
           /\ \A i \in 1 .. Rank(Back) - Rank(Front) :
                 Place(i) \in Nat /\ Front <= Place(i) /\ Place(i) < Back /\ HasSlot(Place(i)) /\ Rank(Place(i)) = Rank(Front) + i - 1
<1>1. lap \in Nat /\ lap >= 2 /\ Front \in Nat /\ Back \in Nat /\ Front <= Back
  BY Numbers
<1>2. Rank(Front) \in Nat /\ Rank(Back) \in Nat /\ Rank(Front) <= Rank(Back)
  BY <1>1, RankFacts, RankOrder
<1>3. ASSUME NEW i \in 1 .. Rank(Back) - Rank(Front)
      PROVE  Place(i) \in Nat /\ Front <= Place(i) /\ Place(i) < Back /\ HasSlot(Place(i)) /\ Rank(Place(i)) = Rank(Front) + i - 1
  <2>1. Rank(Front) + i - 1 \in Nat /\ Rank(Front) + i - 1 >= Rank(Front) /\ Rank(Front) + i - 1 < Rank(Back)
    BY <1>2
  <2>2. PICK k \in Nat : k = Rank(Front) + i - 1
    BY <2>1
  <2>3. PICK n : n = SlotAt(k)
    OBVIOUS
  <2>4. n \in Nat /\ HasSlot(n) /\ Rank(n) = k
    BY <1>1, <2>3, SlotAtFacts
  <2>5. Front <= n
    <3>1. n < Front => Rank(n) < Rank(Front)
      BY <1>1, <2>4, RankOrder
    <3> QED BY <1>1, <1>2, <2>1, <2>2, <2>4, <3>1
  <2>6. n < Back
    <3>1. Back <= n => Rank(Back) <= Rank(n)
      BY <1>1, <2>4, RankOrder
    <3> QED BY <1>1, <1>2, <2>1, <2>2, <2>4, <3>1
  <2>7. Place(i) = n
    BY <2>2, <2>3 DEF Place
  <2> QED BY <2>2, <2>4, <2>5, <2>6, <2>7
<1> QED BY <1>2, <1>3

\* What holds when every thread is idle: the blocks pops have left are freed, the
\* others are linked from head to tail, and hold the values of the queue.
LEMMA Resting ==
    ASSUME TypeOK, Live, \A t \in Threads : pc[t] = "idle"
    PROVE  /\ Len(blocks) # 0 => head.block = BlockOf(Front) /\ Len(blocks) = BlockOf(Back)
           /\ Len(blocks) = 0 => Front = 0 /\ Back = 0 /\ head.block = 0
           /\ \A b \in DOMAIN blocks : /\ b < Len(blocks) => blocks[b].next = b + 1
                                       /\ blocks[b].frees = IF b < BlockOf(Front) THEN 1 ELSE 0
           /\ \A n \in Nat : Front <= n /\ n < Back /\ HasSlot(n) => Cell(n).value \in Values
<1>1. /\ TailInv /\ HeadInv /\ LinksInv /\ SlotsInv /\ AskedInv /\ FreedInv
      /\ lap \in Nat /\ lap >= 2 /\ Front \in Nat /\ Back \in Nat /\ Front <= Back /\ BlockCap \in Nat /\ BlockCap >= 1
      /\ Len(blocks) \in Nat /\ DOMAIN blocks = 1 .. Len(blocks) /\ BlockOf(Front) \in Nat /\ BlockOf(Back) \in Nat
  BY Numbers, PlaceFacts DEF Live
<1>2. \A t \in Threads : pc[t] \notin Filling \cup Emptying \cup Freeing \cup Popping \cup {"setindex", "setnext", "firsthead", "headindex"}
  BY DEF Filling, Pushing, Emptying, Popping, Freeing
<1>3. ~SomeAt("setindex") /\ ~SomeAt("firsthead") /\ ~SomeAt("headindex")
  BY <1>2 DEF SomeAt
<1> HIDE DEF SomeAt
<1>4. Len(blocks) # 0 => head.block = BlockOf(Front) /\ Len(blocks) = BlockOf(Back)
  BY <1>1, <1>3 DEF TailInv, HeadInv
<1>5. Len(blocks) = 0 => Front = 0 /\ Back = 0 /\ head.block = 0
  BY <1>1 DEF TailInv, HeadInv
<1>6. \A n \in Nat : HasSlot(n) /\ BlockOf(n) \in DOMAIN blocks => SlotOK(n)
  BY <1>1, PositionsFacts DEF SlotsInv, Positions
<1>7. ASSUME NEW b \in DOMAIN blocks
      PROVE  /\ b < Len(blocks) => blocks[b].next = b + 1
             /\ blocks[b].frees = IF b < BlockOf(Front) THEN 1 ELSE 0
  <2>1. b < Len(blocks) => blocks[b].next = b + 1
    BY <1>1, <1>2 DEF LinksInv
  <2>2. blocks[b].frees = 0 => ~Freer(b)
    <3> SUFFICES ASSUME blocks[b].frees = 0, NEW j \in 0 .. BlockCap - 2, Asked(b, j) PROVE FALSE
      BY <1>2 DEF Freer
    <3>1. b < BlockOf(Front)
      BY <1>1 DEF AskedInv, Asked
    <3>2. b \in Nat /\ b >= 1 /\ j \in Nat /\ j < lap
      BY <1>1 DEF BlockCap
    <3>3. PICK n \in Nat : n = Pos(b, j) /\ BlockOf(n) = b /\ Off(n) = j
      BY <1>1, <3>2, PosFacts
    <3>4. HasSlot(n) /\ ~LastSlot(n)
      BY <1>1, <3>2, <3>3 DEF HasSlot, LastSlot
    <3>5. n < Front
      <4>1. Front <= n => BlockOf(Front) <= BlockOf(n)
        BY <1>1, PlaceOrder
      <4> QED BY <1>1, <3>1, <3>2, <3>3, <4>1
    <3>6. ~EmptiedBy(n)
      BY <1>2 DEF EmptiedBy
    <3>7. Cell(n).read
      BY <1>6, <3>3, <3>4, <3>5, <3>6 DEF SlotOK
    <3> QED BY <3>3, <3>7 DEF Cell, Asked
  <2>3. /\ blocks[b].frees \in {0, 1}
        /\ blocks[b].frees = 1 => b < BlockOf(Front)
        /\ blocks[b].frees = 0 /\ b < BlockOf(Front) => Freer(b)
    BY <1>1 DEF FreedInv
  <2> QED BY <2>1, <2>2, <2>3
<1>8. ASSUME NEW n \in Nat, Front <= n, n < Back, HasSlot(n) PROVE Cell(n).value \in Values
  <2>1. SlotOK(n)
    BY <1>1, <1>6, <1>8, BlocksExist
  <2>2. ~FilledBy(n)
    BY <1>2 DEF FilledBy
  <2> QED BY <1>1, <1>8, <2>1, <2>2 DEF SlotOK
<1> QED BY <1>4, <1>5, <1>7, <1>8

\* The walk of drop from block to block: the k-th lap is that of block k + 1.
Walks(f, first, last) ==
    f = [k \in first .. last |-> IF k = first THEN head.block ELSE blocks[f[k - 1]].next]
\* There is one such walk.
LEMMA WalkFacts ==
    ASSUME NEW first \in Nat, NEW last \in Nat, head.block = first + 1,
           \A k \in first + 1 .. last : blocks[k].next = k + 1
    PROVE  /\ \E f : Walks(f, first, last)
           /\ \A f : Walks(f, first, last) => \A k \in first .. last : f[k] = k + 1
<1>1. \E f : Walks(f, first, last)
  <2> DEFINE f == [k \in first .. last |-> k + 1]
  <2>1. ASSUME NEW k \in first .. last PROVE f[k] = IF k = first THEN head.block ELSE blocks[f[k - 1]].next
    <3>1. CASE k = first
      BY <3>1
    <3>2. CASE k # first
      <4>1. k - 1 \in first .. last /\ (k - 1) + 1 = k /\ k \in first + 1 .. last
        BY <3>2
      <4>2. f[k - 1] = k
        BY <4>1
      <4> QED BY <3>2, <4>1, <4>2
    <3> QED BY <3>1, <3>2
  <2>2. f = [k \in first .. last |-> f[k]]
    OBVIOUS
  <2>3. [k \in first .. last |-> f[k]] = [k \in first .. last |-> IF k = first THEN head.block ELSE blocks[f[k - 1]].next]
    <3> HIDE DEF f
    <3> QED BY <2>1
  <2> HIDE DEF f
  <2> QED BY <2>2, <2>3 DEF Walks
<1>2. ASSUME NEW f, Walks(f, first, last) PROVE \A k \in first .. last : f[k] = k + 1
  <2>1. \A k \in first .. last : f[k] = IF k = first THEN head.block ELSE blocks[f[k - 1]].next
    BY <1>2 DEF Walks
  <2> DEFINE A == {k \in first .. last : f[k] # k + 1}
  <2>2. A = {}
    <3> SUFFICES ASSUME A # {} PROVE FALSE
      OBVIOUS
    <3>1. A \in SUBSET Nat
      OBVIOUS
    <3>2. PICK m \in A : \A k \in A : m <= k
      BY <3>1, Lemmas!LeastNumber
    <3>3. m \in first .. last /\ f[m] # m + 1
      BY <3>2
    <3>4. m # first
      BY <2>1, <3>3
    <3>5. m - 1 \in first .. last /\ m - 1 \notin A /\ (m - 1) + 1 = m /\ m \in first + 1 .. last
      BY <3>2, <3>3, <3>4
    <3>6. f[m - 1] = m
      BY <3>5
    <3>7. f[m] = blocks[m].next
      BY <2>1, <3>3, <3>4, <3>6
    <3> QED BY <3>3, <3>5, <3>7
  <2> QED BY <2>2
<1> QED BY <1>1, <1>2

\* The drop finds the values the queue holds, and leaves no block.
LEMMA DropStep ==
    ASSUME LapsOK, TypeOK, Live, lap' = lap, Drop
    PROVE  /\ TypeOK' /\ Gone' /\ dropped' # <<None>>
           /\ dropped' = [i \in 1 .. Rank(Back) - Rank(Front) |-> Cell(Place(i)).value]
<1>0. /\ lap \in Nat /\ lap >= 2 /\ Front \in Nat /\ Back \in Nat /\ Front <= Back
      /\ Len(blocks) \in Nat /\ DOMAIN blocks = 1 .. Len(blocks) /\ BlockOf(Front) \in Nat /\ BlockOf(Back) \in Nat
      /\ BlockOf(Front) >= 1 /\ BlockOf(Front) <= BlockOf(Back) /\ TailInv
  BY Numbers DEF Live
<1>1. \A t \in Threads : pc[t] = "idle"
  BY DEF Drop
<1>2. /\ Len(blocks) # 0 => head.block = BlockOf(Front) /\ Len(blocks) = BlockOf(Back)
      /\ Len(blocks) = 0 => Front = 0 /\ Back = 0 /\ head.block = 0
      /\ \A b \in DOMAIN blocks : /\ b < Len(blocks) => blocks[b].next = b + 1
                                  /\ blocks[b].frees = IF b < BlockOf(Front) THEN 1 ELSE 0
      /\ \A n \in Nat : Front <= n /\ n < Back /\ HasSlot(n) => Cell(n).value \in Values
  BY <1>1, Resting
<1> DEFINE first == LapOf(head.index)
           last == LapOf(tail.index)
           walk[k \in first .. last] == IF k = first THEN head.block ELSE blocks[walk[k - 1]].next
           slots == Rank(At(tail.index)) - Rank(At(head.index))
           Value(n) == blocks[walk[n \div lap]].slots[n % lap].value
           walked == {walk[k] : k \in first .. last}
<1>3. /\ dropped' = [i \in 1 .. slots |-> Value(SlotAt(Rank(At(head.index)) + i - 1))]
      /\ blocks' = [b \in DOMAIN blocks |-> IF b \in walked THEN Freed(blocks[b]) ELSE blocks[b]]
  BY DEF Drop
<1>4. /\ first \in Nat /\ last \in Nat /\ first + 1 = BlockOf(Front) /\ last + 1 = BlockOf(Back) /\ slots = Rank(Back) - Rank(Front)
  BY <1>0 DEF LapOf, BlockOf, Front, Back
<1>5. walk = CHOOSE f : Walks(f, first, last)
  BY DEF Walks
<1> HIDE DEF first, last, walk
<1>6. Len(blocks) # 0 => \A k \in first .. last : walk[k] = k + 1
  <2> SUFFICES ASSUME Len(blocks) # 0 PROVE \A k \in first .. last : walk[k] = k + 1
    OBVIOUS
  <2>1. \A k \in first + 1 .. last : blocks[k].next = k + 1
    BY <1>0, <1>2, <1>4
  <2>2. head.block = first + 1
    BY <1>2, <1>4
  <2>3. \E f : Walks(f, first, last)
    BY <1>4, <2>1, <2>2, WalkFacts
  <2>4. Walks(walk, first, last)
    BY <1>5, <2>3
  <2> QED BY <1>4, <2>1, <2>2, <2>4, WalkFacts
<1>7. \A b \in DOMAIN blocks : b \in walked <=> b >= BlockOf(Front)
  <2> TAKE b \in DOMAIN blocks
  <2>1. Len(blocks) # 0 /\ b \in Nat /\ b <= BlockOf(Back)
    BY <1>0, <1>2
  <2>2. b \in walked => b >= BlockOf(Front)
    BY <1>4, <1>6, <2>1
  <2>3. ASSUME b >= BlockOf(Front) PROVE b \in walked
    <3>1. b - 1 \in first .. last
      BY <1>0, <1>4, <2>1, <2>3
    <3>2. walk[b - 1] = b
      BY <1>6, <2>1, <3>1
    <3> QED BY <3>1, <3>2
  <2> QED BY <2>2, <2>3
<1> HIDE DEF walked
<1>8. ASSUME NEW i \in 1 .. slots PROVE Value(Place(i)) = Cell(Place(i)).value /\ Cell(Place(i)).value \in Values
  <2>1. Place(i) \in Nat /\ Front <= Place(i) /\ Place(i) < Back /\ HasSlot(Place(i))
    BY <1>0, <1>4, ItemPlace
  <2>2. PICK n \in Nat : n = Place(i)
    BY <2>1
  <2>3. BlockOf(Front) <= BlockOf(n) /\ BlockOf(n) <= BlockOf(Back) /\ BlockOf(n) \in Nat
    BY <1>0, <2>1, <2>2, PlaceOrder, PlaceFacts
  <2>4. PICK k \in Nat : k = n \div lap /\ k + 1 = BlockOf(n)
    BY <1>0, <2>3, Lemmas!Euclid DEF BlockOf
  <2>5. k \in first .. last /\ Len(blocks) # 0
    BY SMTT(60), <1>0, <1>2, <1>4, <2>1, <2>2, <2>3, <2>4
  <2>6. walk[n \div lap] = BlockOf(n)
    BY <1>6, <2>4, <2>5
  <2>7. Value(n) = Cell(n).value
    BY <2>6 DEF Cell, Off
  <2> QED BY <1>2, <2>1, <2>2, <2>7
<1> HIDE DEF slots
<1>9. dropped' = [i \in 1 .. Rank(Back) - Rank(Front) |-> Cell(Place(i)).value]
  <2>1. dropped' = [i \in 1 .. slots |-> Value(Place(i))]
    BY <1>3 DEF Place, Front
  <2> HIDE DEF Value
  <2> QED BY <1>4, <1>8, <2>1
<1>10. dropped' # <<None>>
  <2>1. slots \in Nat
    BY <1>0, <1>4, ItemPlace
  <2>2. CASE slots = 0
    <3>1. DOMAIN dropped' = {}
      BY <1>4, <1>9, <2>2
    <3> QED BY <3>1
  <2>3. CASE slots # 0
    <3>1. 1 \in 1 .. slots
      BY <2>1, <2>3
    <3>2. dropped'[1] \in Values
      BY <1>4, <1>8, <1>9, <3>1
    <3> QED BY <3>2 DEF LapsOK
  <2> QED BY <2>2, <2>3
<1>11. ASSUME NEW b \in DOMAIN blocks PROVE blocks'[b] \in Block /\ blocks'[b].frees = 1
  <2>1. blocks[b] \in Block /\ blocks[b].frees = IF b < BlockOf(Front) THEN 1 ELSE 0
    BY <1>2 DEF TypeOK
  <2>2. blocks'[b] = IF b >= BlockOf(Front) THEN Freed(blocks[b]) ELSE blocks[b]
    BY <1>3, <1>7
  <2>3. CASE b >= BlockOf(Front)
    <3>1. PICK S : S = NewBlock.slots
      OBVIOUS
    <3>2. S \in [Offsets -> Slot]
      BY <3>1 DEF NewBlock, Slot
    <3>3. NewBlock = [next |-> 0, frees |-> 0, slots |-> S]
      BY <3>1 DEF NewBlock
    <3>4. blocks[b].frees = 0 /\ blocks[b].next \in Nat
      BY <1>0, <2>1, <2>3 DEF Block
    <3>5. blocks'[b] = [[next |-> 0, frees |-> 0, slots |-> S] EXCEPT !.next = blocks[b].next, !.frees = 1]
      BY <2>2, <2>3, <3>3, <3>4 DEF Freed
    <3>6. blocks'[b] = [next |-> blocks[b].next, frees |-> 1, slots |-> S]
      BY <3>5
    <3> QED BY <3>2, <3>4, <3>6 DEF Block
  <2>4. CASE ~(b >= BlockOf(Front))
    BY <1>0, <2>1, <2>2, <2>4
  <2> QED BY <2>3, <2>4
<1>12. DOMAIN blocks' = DOMAIN blocks /\ blocks' \in Seq(Block)
  <2>1. blocks' = [b \in 1 .. Len(blocks) |-> blocks'[b]]
    BY <1>0, <1>3
  <2>2. blocks' \in [1 .. Len(blocks) -> Block]
    BY <1>0, <1>11, <2>1
  <2> QED BY <1>0, <2>1, <2>2, SeqOf
<1>13. TypeOK'
  <2>1. Block' = Block
    BY DEF Block, Slot, Offsets, BlockCap
  <2>2. \A t \in Threads : CallOK(pc'[t], call'[t])
    BY DEF TypeOK, Drop
  <2>3. \A t \in Threads : CallOK(pc[t], call[t])'
    BY <2>2 DEF CallOK
  <2> QED BY <1>12, <2>1, <2>3 DEF TypeOK, Drop, locals
<1>14. Gone'
  <2>1. \A t \in Threads : pc'[t] = "idle"
    BY <1>1 DEF Drop
  <2> QED BY <1>11, <1>12, <2>1 DEF Gone
<1> QED BY <1>9, <1>10, <1>13, <1>14

\* The invariant holds at first.
LEMMA InitInv == ASSUME LapsOK, Init PROVE Inv
<1>1. TypeOK
  <2>1. blocks \in Seq(Block)
    BY DEF Init
  <2>2. \A t \in Threads : CallOK(pc[t], call[t])
    BY DEF Init, CallOK
  <2> QED BY <2>1, <2>2 DEF Init, LapsOK, TypeOK
<1>2. Front = 0 /\ Back = 0 /\ ~Marked(head.index) /\ HasSlot(0) /\ Len(blocks) = 0 /\ DOMAIN blocks = {}
  <2>1. HasSlot(0)
    <3>1. lap \in Nat /\ lap >= 2
      BY <1>1 DEF TypeOK
    <3>2. PICK z \in Nat : z = 0 * lap + 0
      BY <3>1
    <3>3. z = (1 - 1) * lap + 0
      BY <3>1, <3>2
    <3>4. 1 \in Nat /\ 0 \in Nat /\ 1 >= 1 /\ 0 < lap
      BY <3>1
    <3>5. Off(z) = 0 /\ z = 0
      BY <3>1, <3>2, <3>3, <3>4, PlaceOf
    <3> QED BY <3>1, <3>5 DEF HasSlot, BlockCap
  <2> QED BY <2>1 DEF Init, Front, Back, At, Marked
<1>3. \A t \in Threads : pc[t] \notin Filling \cup Emptying \cup Freeing \cup Linking \cup Advancing \cup {"firsthead"}
  BY DEF Init, Filling, Pushing, Emptying, Popping, Freeing, Linking, Advancing
<1>4. TailInv /\ HeadInv /\ LinksInv
  <2>1. ~SomeAt("firsthead") /\ ~SomeAt("setindex")
    BY <1>3 DEF SomeAt, Linking
  <2> HIDE DEF SomeAt
  <2> QED BY <1>2, <2>1 DEF TailInv, HeadInv, LinksInv, Init
<1>5. ThreadsInv
  BY <1>3 DEF ThreadsInv, Knows, Init
<1>6. OwnersInv
  BY <1>3 DEF OwnersInv, Apart
<1>7. SlotsInv /\ AskedInv /\ FreedInv
  <2>1. Positions = {}
    <3>1. lap * 0 = 0
      BY <1>1 DEF TypeOK
    <3> QED BY <1>2, <3>1 DEF Positions
  <2> QED BY <1>2, <2>1 DEF SlotsInv, AskedInv, FreedInv
<1>8. Q!Alive
  BY DEF Init, Q!Alive
<1> QED BY <1>1, <1>4, <1>5, <1>6, <1>7, <1>8 DEF Inv, Live

\* Every action but the drop keeps the invariant of the live queue.
LEMMA StepKeeps ==
    ASSUME TypeOK, Live, lap' = lap, NEW t \in Threads, Call(t) \/ Step(t)
    PROVE  TypeOK' /\ Live' /\ dropped' = dropped
<1>1. dropped' = dropped
  BY DEF Call, Step, shared, locals, PushIndex, PushBlock, PushFirst, PushFirstHead, PushTake, PushSetBlock, PushSetIndex, PushSetNext, PushWrite,
         PushPublish, PopIndex, PopBlock, PopTail, PopTake, PopWaitNext, PopNextNext, PopHeadBlock, PopHeadIndex, PopRead, PopSetRead,
         Destroy, DestroyHandOver, LenTail, LenHead, LenAgain, Close, Return
<1>2. CASE PushIndex(t) \/ PushBlock(t)
  BY <1>1, <1>2, PushLooks
<1>3. CASE PushFirst(t)
  BY <1>1, <1>3, PushLooks, FirstStep DEF PushFirst, shared
<1>4. CASE PushTake(t)
  BY <1>1, <1>4, PushLooks, TakeStep DEF PushTake, shared
<1>5. CASE PopIndex(t) \/ PopBlock(t) \/ PopTail(t) \/ PopWaitNext(t) \/ PopNextNext(t)
  BY <1>1, <1>5, PopLooks
<1>6. CASE PopTake(t)
  BY <1>1, <1>6, PopLooks, PopTakeStep DEF PopTake, shared
<1>7. CASE Destroy(t)
  BY <1>1, <1>7, DestroyLooks, FreeStep
<1>8. CASE Call(t) \/ Return(t) \/ LenTail(t) \/ LenHead(t) \/ LenAgain(t)
  BY <1>1, <1>8, CallsAndLens
<1>9. CASE PushFirstHead(t) \/ PushSetBlock(t) \/ PushSetIndex(t) \/ PushSetNext(t) \/ PushWrite(t) \/ PushPublish(t)
  BY <1>1, <1>9, FirstHeadStep, SetBlockStep, SetIndexStep, SetNextStep, WriteStep, PublishStep
<1>10. CASE PopHeadBlock(t) \/ PopHeadIndex(t) \/ PopRead(t) \/ PopSetRead(t) \/ DestroyHandOver(t) \/ Close(t)
  BY <1>1, <1>10, HeadBlockStep, HeadIndexStep, ReadStep, SetReadStep, HandOverStep, CloseStep
<1> QED BY <1>2, <1>3, <1>4, <1>5, <1>6, <1>7, <1>8, <1>9, <1>10 DEF Step

\* A thread that is not idle works on a queue that is not dropped.
LEMMA StepsOfLive ==
    ASSUME Inv, NEW t \in Threads, Call(t) \/ Step(t)
    PROVE  Q!Alive
<1> SUFFICES ASSUME ~Q!Alive PROVE FALSE
  OBVIOUS
<1>1. pc[t] = "idle"
  BY DEF Inv, Gone
<1>2. ~Call(t)
  BY DEF Call
<1> QED BY <1>1, <1>2 DEF Step, PushIndex, PushBlock, PushFirst, PushFirstHead, PushTake, PushSetBlock, PushSetIndex, PushSetNext,
      PushWrite, PushPublish, PopIndex, PopBlock, PopTail, PopTake, PopWaitNext, PopNextNext, PopHeadBlock, PopHeadIndex, PopRead,
      PopSetRead, Destroy, DestroyHandOver, LenTail, LenHead, LenAgain, Close, Return

\* Next keeps the invariant; once the queue is dropped, nothing happens any more.
LEMMA InvStep == ASSUME LapsOK, Inv, [Next]_vars PROVE Inv'
<1>1. CASE UNCHANGED vars
  <2> USE DEF vars
  <2>1. TypeOK'
    <3>1. \A t \in Threads : CallOK(pc[t], call[t])'
      BY <1>1 DEF Inv, TypeOK, CallOK
    <3> QED BY <1>1, <3>1 DEF Inv, TypeOK, Block, Slot, Offsets, BlockCap
  <2>2. Q!Alive' <=> Q!Alive
    BY <1>1 DEF Q!Alive
  <2> USE DEF Front, Back, BlockOf, HasSlot, LastSlot, Off, BlockCap, Cell, SomeAt, Mine
  <2>3. (TailInv /\ HeadInv /\ LinksInv) => (TailInv /\ HeadInv /\ LinksInv)'
    BY <1>1 DEF TailInv, HeadInv, LinksInv
  <2>4. ThreadsInv => ThreadsInv'
    BY SMTT(60), <1>1 DEF ThreadsInv, Knows, PushKnows, FillKnows, PopKnows, EmptyKnows, FreeKnows, GotTo, LastLeft, LenKnows, Rank
  <2>5. OwnersInv => OwnersInv'
    BY <1>1 DEF OwnersInv, Apart
  <2>6. SlotsInv => SlotsInv'
    BY <1>1 DEF SlotsInv, SlotOK, Positions, FilledBy, PoppedBy, EmptiedBy
  <2>7. AskedInv => AskedInv'
    BY <1>1 DEF AskedInv, Asked, GotTo, LastLeft
  <2>8. FreedInv => FreedInv'
    BY <1>1 DEF FreedInv, Freer, Working, Asked
  <2>9. Gone => Gone'
    BY <1>1 DEF Gone
  <2> QED BY <2>1, <2>2, <2>3, <2>4, <2>5, <2>6, <2>7, <2>8, <2>9 DEF Inv, Live
<1>2. ASSUME NEW t \in Threads, Call(t) \/ Step(t), lap' = lap PROVE Inv'
  <2>1. Q!Alive
    BY <1>2, StepsOfLive
  <2>2. TypeOK' /\ Live' /\ dropped' = dropped
    BY <1>2, <2>1, StepKeeps DEF Inv
  <2> QED BY <2>1, <2>2 DEF Inv, Q!Alive
<1>3. ASSUME Drop, lap' = lap PROVE Inv'
  <2>1. TypeOK /\ Live
    BY <1>3 DEF Drop, Inv
  <2> QED BY <1>3, <2>1, DropStep DEF Inv, Q!Alive
<1> QED BY <1>1, <1>2, <1>3 DEF Next

\* What a thread is at work in is not freed, nor the block behind it when it looks
\* there.
LEMMA InvFrees == ASSUME LapsOK, Inv PROVE BlocksFreedOnce
<1>1. CASE ~Q!Alive
  BY <1>1 DEF Inv, Gone, BlocksFreedOnce, Touching
<1>2. CASE Q!Alive
  <2>1. TypeOK /\ TailInv /\ ThreadsInv /\ FreedInv
    BY <1>2 DEF Inv, Live
  <2>2. ASSUME NEW t \in Threads, pc[t] \in Touching
        PROVE  /\ blocks[block[t]].frees = 0
               /\ pc[t] = "nextnext" => blocks[NextOf(t)].frees = 0
    <3>1. pc[t] \in Filling \cup Emptying \cup Freeing
      BY <2>2 DEF Touching, Filling, Pushing, Emptying, Popping, Freeing
    <3>2. block[t] \in DOMAIN blocks
      <4>1. pc[t] \in Freeing => block[t] \in DOMAIN blocks
        BY <2>1 DEF ThreadsInv, Knows, FreeKnows
      <4> QED BY <2>1, <3>1, <4>1, MyPlace
    <3>3. blocks[block[t]].frees = 0
      BY <2>1, <3>1, <3>2 DEF FreedInv, Working
    <3>4. ASSUME pc[t] = "nextnext" PROVE blocks[NextOf(t)].frees = 0
      <4>1. pc[t] \in Emptying /\ pc[t] \in Advancing
        BY <3>4 DEF Emptying, Popping, Advancing
      <4>2. EmptyKnows(pc[t], Mine(t), block[t], aux[t]) /\ block[t] = BlockOf(Front)
        BY <2>1, <4>1, MyPlace, RestingEnds
      <4>3. blocks[block[t]].next = block[t] + 1 /\ block[t] \in Nat /\ block[t] < BlockOf(Back)
        BY <2>1, <3>4, <4>2, Numbers DEF EmptyKnows
      <4>4. block[t] + 1 \in DOMAIN blocks
        <5>1. block[t] < Len(blocks)
          BY SMTT(60), <2>1, <3>2, <4>3, Numbers DEF TailInv
        <5> QED BY SMTT(60), <2>1, <4>3, <5>1, Numbers
      <4>5. blocks[block[t] + 1].frees \in {0, 1} /\ (blocks[block[t] + 1].frees = 1 => block[t] + 1 < block[t])
        BY <2>1, <4>2, <4>4 DEF FreedInv
      <4>6. blocks[block[t] + 1].frees = 0
        BY <4>3, <4>5
      <4> QED BY <4>3, <4>6 DEF NextOf
    <3> QED BY <3>3, <3>4
  <2> QED BY <1>2, <2>1, <2>2 DEF BlocksFreedOnce, FreedInv
<1> QED BY <1>1, <1>2

\* The linked queue (unbounded.rs) frees every block exactly once, for blocks of any
\* size and any threads and values: never while a push or a pop still looks into it,
\* whichever pop's destroy ends up with it, and none is left when the queue has been
\* dropped.
THEOREM UnboundedBlocksFreedOnce ==
    ASSUME Laps \subseteq Nat \ {0, 1}, None \notin Values PROVE Spec => []BlocksFreedOnce
<1>0. LapsOK
  BY DEF LapsOK
<1>1. Init => Inv
  BY <1>0, InitInv
<1>2. Inv /\ [Next]_vars => Inv'
  BY <1>0, InvStep
<1>3. Inv => BlocksFreedOnce
  BY <1>0, InvFrees
<1> QED BY <1>1, <1>2, <1>3, PTL DEF Spec

-----------------------------------------------------------------------------
(***************************************************************************)
(* The refinement: what the queue holds and what each thread was answered. *)
(***************************************************************************)
Holds == IF dropped = <<None>> THEN Items ELSE <<>>

\* What a thread was answered, with v the value of the slot it pops.
Seen(l, c, v) == CASE l \in Filling -> Q!Ask("ok")
                   [] l \in Popping -> Q!Popped(v)
                   [] OTHER -> c

\* A value is still in the call of the push that took its slot, or in the slot.
ValuesKnown ==
    \A n : /\ \A t \in Threads : pc[t] \in Pushing /\ Mine(t) = n => ValueAt(n) = call[t].val
           /\ (\A t \in Threads : pc[t] \in Pushing => Mine(t) # n) => ValueAt(n) = Cell(n).value

\* No two pushes fill one slot, so ValueAt has no choice.
LEMMA ValueFacts == OwnersInv => ValuesKnown
<1> SUFFICES ASSUME OwnersInv, NEW n
             PROVE  /\ \A t \in Threads : pc[t] \in Pushing /\ Mine(t) = n => ValueAt(n) = call[t].val
                    /\ (\A t \in Threads : pc[t] \in Pushing => Mine(t) # n) => ValueAt(n) = Cell(n).value
  BY DEF ValuesKnown
<1> DEFINE W == {t \in Threads : pc[t] \in Pushing /\ At(seen[t]) = n}
<1>1. ValueAt(n) = IF W = {} THEN Cell(n).value ELSE call[CHOOSE t \in W : TRUE].val
  BY DEF ValueAt, Cell, BlockOf, Off
<1>2. \A t : t \in W <=> t \in Threads /\ pc[t] \in Pushing /\ Mine(t) = n
  BY DEF Mine
<1> HIDE DEF W
<1>3. ASSUME NEW t \in Threads, pc[t] \in Pushing, Mine(t) = n PROVE W = {t}
  BY <1>2, <1>3 DEF OwnersInv, Apart, Filling
<1>4. (\A t \in Threads : pc[t] \in Pushing => Mine(t) # n) => W = {}
  BY <1>2
<1> QED BY <1>1, <1>3, <1>4

\* A step of one thread keeps the value of a position, if its slot keeps it or gets
\* what the push that fills it brings.
LEMMA ValueKept ==
    ASSUME TypeOK, OwnersInv, OwnersInv', lap' = lap, NEW t \in Threads, NEW l, NEW c, NEW w, NEW b, NEW a, Moves(t, l, c, w, b, a), NEW n,
           l \in Pushing => IF pc[t] \in Pushing THEN w = seen[t] /\ c = call[t] ELSE At(w) # n,
           Cell(n)'.value = IF pc[t] \in Pushing /\ l \notin Pushing /\ Mine(t) = n THEN call[t].val ELSE Cell(n).value
    PROVE  ValueAt(n)' = ValueAt(n)
<1>1. ValuesKnown /\ ValuesKnown'
  <2>1. (OwnersInv => ValuesKnown)'
    BY ValueFacts, PTL
  <2> QED BY <2>1, ValueFacts
<1>2. /\ pc'[t] = l /\ call'[t] = c /\ Mine(t)' = At(w)
      /\ \A u \in Threads : u # t => pc'[u] = pc[u] /\ call'[u] = call[u] /\ Mine(u)' = Mine(u)
  BY MovesFacts
<1>3. CASE \E u \in Threads : u # t /\ pc[u] \in Pushing /\ Mine(u) = n
  BY <1>1, <1>2, <1>3 DEF ValuesKnown, Pushing
<1>4. CASE \A u \in Threads : u # t /\ pc[u] \in Pushing => Mine(u) # n
  <2>1. CASE pc[t] \in Pushing /\ Mine(t) = n
    <3>1. ValueAt(n) = call[t].val
      BY <1>1, <2>1 DEF ValuesKnown
    <3>2. CASE l \in Pushing
      <4>1. pc'[t] \in Pushing' /\ Mine(t)' = n /\ call'[t].val = call[t].val
        BY <1>2, <2>1, <3>2 DEF Pushing, Mine
      <4> QED BY <1>1, <3>1, <4>1 DEF ValuesKnown
    <3>3. CASE l \notin Pushing
      <4>1. \A u \in Threads : pc'[u] \in Pushing' => Mine(u)' # n
        BY <1>2, <1>4, <3>3 DEF Pushing
      <4>2. ValueAt(n)' = Cell(n)'.value
        BY <1>1, <4>1 DEF ValuesKnown
      <4> QED BY <2>1, <3>1, <3>3, <4>2
    <3> QED BY <3>2, <3>3
  <2>2. CASE ~(pc[t] \in Pushing /\ Mine(t) = n)
    <3>1. ValueAt(n) = Cell(n).value
      BY <1>1, <1>4, <2>2 DEF ValuesKnown
    <3>2. \A u \in Threads : pc'[u] \in Pushing' => Mine(u)' # n
      BY <1>2, <1>4, <2>2 DEF Pushing, Mine
    <3>3. ValueAt(n)' = Cell(n)'.value
      BY <1>1, <3>2 DEF ValuesKnown
    <3> QED BY <2>2, <3>1, <3>3
  <2> QED BY <2>1, <2>2
<1> QED BY <1>3, <1>4

\* What is seen of a thread.
LEMMA SeenNow ==
    /\ Calls = [t \in Threads |-> Seen(pc[t], call[t], ValueAt(Mine(t)))]
    /\ \A t \in Threads : Calls[t] = Seen(pc[t], call[t], ValueAt(Mine(t)))
BY DEF Calls, Seen, Filling, Mine, Q!Ask, Q!Popped, Q!Said

\* A step of one thread changes what is seen of that thread only.
LEMMA CallsAfter ==
    ASSUME TypeOK, NEW t \in Threads, NEW l, NEW c, NEW w, NEW b, NEW a, Moves(t, l, c, w, b, a),
           \A n, u : u \in Threads /\ u # t /\ pc[u] \in Popping /\ n = Mine(u) => ValueAt(n)' = ValueAt(n),
           NEW v, \A n : l \in Popping /\ n = At(w) => v = ValueAt(n)'
    PROVE  Calls' = [Calls EXCEPT ![t] = Seen(l, c, v)]
<1>1. Calls' = [u \in Threads |-> Seen(pc'[u], call'[u], ValueAt(Mine(u))')]
  BY DEF Calls, Seen, Filling, Mine, Q!Ask, Q!Popped, Q!Said, Pushing, Popping
<1>2. /\ pc'[t] = l /\ call'[t] = c /\ Mine(t)' = At(w)
      /\ \A u \in Threads : u # t => pc'[u] = pc[u] /\ call'[u] = call[u] /\ Mine(u)' = Mine(u)
  BY MovesFacts
<1>3. ASSUME NEW u \in Threads, u # t PROVE Seen(pc'[u], call'[u], ValueAt(Mine(u))') = Seen(pc[u], call[u], ValueAt(Mine(u)))
  <2>1. PICK n : n = Mine(u)
    OBVIOUS
  <2>2. Mine(u)' = n
    BY <1>2, <1>3, <2>1
  <2>3. pc[u] \in Popping => ValueAt(n)' = ValueAt(n)
    BY <1>3, <2>1
  <2> QED BY <1>2, <1>3, <2>1, <2>2, <2>3 DEF Seen
<1>4. Seen(pc'[t], call'[t], ValueAt(Mine(t))') = Seen(l, c, v)
  <2>1. PICK n : n = At(w)
    OBVIOUS
  <2>2. Mine(t)' = n
    BY <1>2, <2>1
  <2> QED BY <1>2, <2>1, <2>2 DEF Seen
<1> QED BY <1>1, <1>3, <1>4, SeenNow

\* A step of one thread in the queue's life.
InLife == TypeOK /\ Live /\ TypeOK' /\ Live' /\ lap' = lap /\ dropped = <<None>> /\ dropped' = dropped
Lives(t, l, c, w, b, a) == InLife /\ t \in Threads /\ Moves(t, l, c, w, b, a)

\* The positions whose values are seen, while the thread t goes to l: those in the
\* queue, and those of pops that are still to read them.
Counted(t, l, n) ==
    /\ n \in Nat /\ HasSlot(n) /\ n < Back
    /\ Front <= n \/ \E u \in Threads : pc[u] \in Popping /\ Mine(u) = n /\ (u = t => l \in Popping)

\* What they hold is kept, or is what the push that now writes brings.
HoldsValues(t, l) ==
    \A n : Counted(t, l, n) =>
       Cell(n)'.value = IF pc[t] \in Pushing /\ l \notin Pushing /\ Mine(t) = n THEN call[t].val ELSE Cell(n).value

\* Then a step that moves neither end over a slot leaves the items alone, and is
\* seen in the call of its thread only.
LEMMA ItemsKept ==
    ASSUME NEW t, NEW l, NEW c, NEW w, NEW b, NEW a, Lives(t, l, c, w, b, a), HoldsValues(t, l),
           Rank(Front)' = Rank(Front), Rank(Back)' = Rank(Back),
           l \in Pushing => pc[t] \in Pushing /\ w = seen[t] /\ c = call[t],
           l \in Popping => pc[t] \in Popping /\ w = seen[t]
    PROVE  Items' = Items /\ Calls' = [Calls EXCEPT ![t] = Seen(l, c, ValueAt(Mine(t)))]
<1>0. /\ TypeOK /\ TailInv /\ ThreadsInv /\ OwnersInv /\ OwnersInv' /\ lap' = lap /\ t \in Threads /\ Moves(t, l, c, w, b, a)
      /\ Back \in Nat /\ Front \in Nat /\ Front <= Back
  BY Numbers DEF Lives, InLife, Live
<1>1. ASSUME NEW n, Counted(t, l, n) PROVE ValueAt(n)' = ValueAt(n)
  <2>1. l \in Pushing => IF pc[t] \in Pushing THEN w = seen[t] /\ c = call[t] ELSE At(w) # n
    OBVIOUS
  <2>2. Cell(n)'.value = IF pc[t] \in Pushing /\ l \notin Pushing /\ Mine(t) = n THEN call[t].val ELSE Cell(n).value
    BY <1>1 DEF HoldsValues
  <2> QED BY <1>0, <2>1, <2>2, ValueKept
<1>2. Items' = Items
  <2> DEFINE k == Rank(Back) - Rank(Front)
  <2>1. \A i \in 1 .. k : ValueAt(Place(i))' = ValueAt(Place(i))
    <3> SUFFICES ASSUME NEW i \in 1 .. k PROVE ValueAt(Place(i))' = ValueAt(Place(i))
      OBVIOUS
    <3>1. PICK n : n = Place(i)
      OBVIOUS
    <3>2. Place(i)' = n
      BY <1>0, <3>1 DEF Place, SlotAt, BlockCap
    <3>3. n \in Nat /\ Front <= n /\ n < Back /\ HasSlot(n)
      BY <1>0, <3>1, ItemPlace
    <3>4. ValueAt(n)' = ValueAt(n)
      BY <1>1, <3>3 DEF Counted
    <3> QED BY <3>1, <3>2, <3>4
  <2>2. Items = [i \in 1 .. k |-> ValueAt(Place(i))]
    BY DEF Items, Place, Front, Back
  <2>3. Items' = [i \in 1 .. k |-> ValueAt(Place(i))']
    <3>1. Items' = [i \in 1 .. k' |-> ValueAt(Place(i))']
      BY DEF Items, Place, Front, Back
    <3> QED BY <3>1
  <2> HIDE DEF k
  <2> QED BY <2>1, <2>2, <2>3
<1>3. ASSUME NEW n, NEW u, u \in Threads /\ u # t /\ pc[u] \in Popping /\ n = Mine(u) PROVE ValueAt(n)' = ValueAt(n)
  <2>1. pc[u] \in Filling \cup Emptying
    BY <1>3 DEF Emptying
  <2>2. n \in Nat /\ HasSlot(n) /\ n < Back
    BY <1>0, <1>3, <2>1, MyPlace
  <2>3. Counted(t, l, n)
    BY <1>3, <2>2 DEF Counted
  <2> QED BY <1>1, <2>3
<1>4. ASSUME NEW n, l \in Popping, n = At(w) PROVE ValueAt(Mine(t)) = ValueAt(n)'
  <2>1. pc[t] \in Filling \cup Emptying /\ n = Mine(t) /\ pc[t] \in Popping
    BY <1>4 DEF Emptying, Mine
  <2>2. n \in Nat /\ HasSlot(n) /\ n < Back
    BY <1>0, <2>1, MyPlace
  <2>3. Counted(t, l, n)
    BY <1>0, <1>4, <2>1, <2>2 DEF Counted
  <2>4. ValueAt(n)' = ValueAt(n)
    BY <1>1, <2>3
  <2> QED BY <2>1, <2>4
<1>5. PICK v : v = ValueAt(Mine(t))
  OBVIOUS
<1>6. \A n : l \in Popping /\ n = At(w) => v = ValueAt(n)'
  BY <1>4, <1>5
<1>7. \A n, u : u \in Threads /\ u # t /\ pc[u] \in Popping /\ n = Mine(u) => ValueAt(n)' = ValueAt(n)
  BY <1>3
<1>8. Calls' = [Calls EXCEPT ![t] = Seen(l, c, v)]
  BY <1>0, <1>6, <1>7, CallsAfter
<1> QED BY <1>2, <1>5, <1>8

\* A step that shows nothing: the thread has been answered what it is answered.
LEMMA Hidden ==
    ASSUME NEW t, NEW l, NEW c, NEW w, NEW b, NEW a, Lives(t, l, c, w, b, a), HoldsValues(t, l),
           Rank(Front)' = Rank(Front), Rank(Back)' = Rank(Back), Marked(tail'.index) = Marked(tail.index),
           l \in Pushing => pc[t] \in Pushing /\ w = seen[t] /\ c = call[t],
           l \in Popping => pc[t] \in Popping /\ w = seen[t],
           Seen(l, c, ValueAt(Mine(t))) = Seen(pc[t], call[t], ValueAt(Mine(t)))
    PROVE  UNCHANGED Q!fvars
<1>1. Items' = Items /\ Calls' = [Calls EXCEPT ![t] = Seen(l, c, ValueAt(Mine(t)))]
  BY ItemsKept
<1>2. Calls' = Calls
  BY <1>1, SeenNow DEF Lives, InLife
<1> QED BY <1>1, <1>2 DEF Q!fvars, Lives, InLife

\* What a thread looks at, and what it links behind the slots, shows nothing.
LEMMA LooksHidden ==
    ASSUME NEW t, NEW l, NEW w, NEW b, NEW a, Lives(t, l, call[t], w, b, a),
           Rank(Front)' = Rank(Front), Rank(Back)' = Rank(Back), Marked(tail'.index) = Marked(tail.index),
           \A d \in DOMAIN blocks : blocks'[d].slots = blocks[d].slots,
           \/ {l, pc[t]} \cap (Filling \cup Popping) = {}
           \/ pc[t] \in Pushing /\ l \in Pushing /\ w = seen[t]
           \/ pc[t] \in Popping /\ l \in Popping /\ w = seen[t]
    PROVE  UNCHANGED Q!fvars
<1>1. TypeOK /\ TailInv /\ lap' = lap
  BY DEF Lives, InLife, Live
<1>2. ASSUME NEW n, Counted(t, l, n) PROVE Cell(n)' = Cell(n)
  <2>1. BlockOf(n) \in DOMAIN blocks /\ BlockOf(n)' = BlockOf(n) /\ Off(n)' = Off(n)
    BY <1>1, <1>2, BlocksExist, SamePlaces DEF Counted
  <2> QED BY <2>1 DEF Cell
<1>3. /\ l \in Pushing <=> pc[t] \in Pushing
      /\ l \in Popping <=> pc[t] \in Popping
      /\ l \in Pushing \cup Popping => w = seen[t]
  BY DEF Filling, Pushing, Popping
<1>4. HoldsValues(t, l)
  BY <1>2, <1>3 DEF HoldsValues
<1>5. Seen(l, call[t], ValueAt(Mine(t))) = Seen(pc[t], call[t], ValueAt(Mine(t)))
  BY DEF Seen, Filling, Pushing, Popping
<1> QED BY <1>3, <1>4, <1>5, Hidden

\* Ends whose words are kept are at the same item.
LEMMA RanksStay ==
    ASSUME lap' = lap
    PROVE  /\ head'.index = head.index => Rank(Front)' = Rank(Front)
           /\ tail'.index = tail.index => Rank(Back)' = Rank(Back) /\ Marked(tail'.index) = Marked(tail.index)
BY DEF Rank, Front, Back

\* Looking shows nothing.
LEMMA LocalHidden ==
    ASSUME InLife, NEW t \in Threads,
           \/ PushIndex(t) \/ (PushBlock(t) /\ ~Marked(seen[t])) \/ PopIndex(t) \/ PopBlock(t)
           \/ PopTail(t) /\ At(seen[t]) # At(tail.index)
           \/ PopWaitNext(t) \/ PopNextNext(t) \/ LenTail(t) \/ (LenAgain(t) /\ tail.index # seen[t])
           \/ Destroy(t) /\ aux[t] # BlockCap - 1
           \/ pc[t] = "take" /\ See(t, tail.index) /\ Goto(t, "pushblock") /\ UNCHANGED <<shared, call, block, aux>>
           \/ pc[t] = "poptake" /\ See(t, head.index) /\ Goto(t, "popblock") /\ UNCHANGED <<shared, call, block, aux>>
    PROVE  UNCHANGED Q!fvars
<1>0. TypeOK /\ lap' = lap
  BY DEF InLife
<1>1. ASSUME NEW l, NEW w, NEW b, NEW a, Moves(t, l, call[t], w, b, a), UNCHANGED shared,
             \/ {l, pc[t]} \cap (Filling \cup Popping) = {}
             \/ pc[t] \in Popping /\ l \in Popping /\ w = seen[t]
      PROVE  UNCHANGED Q!fvars
  <2>1. head'.index = head.index /\ tail'.index = tail.index /\ blocks' = blocks
    BY <1>1 DEF shared
  <2>2. Lives(t, l, call[t], w, b, a)
    BY <1>1 DEF Lives
  <2> QED BY <1>0, <1>1, <2>1, <2>2, RanksStay, LooksHidden
<1> USE DEF Filling, Pushing, Popping
<1>2. CASE PushIndex(t)
  <2>1. Moves(t, "pushblock", call[t], tail.index, block[t], aux[t])
    BY <1>0, <1>2 DEF PushIndex, Moves, TypeOK, See, Goto, Load, SetAux
  <2> QED BY <1>1, <1>2, <2>1 DEF PushIndex
<1>3. CASE PushBlock(t) /\ ~Marked(seen[t])
  <2>1. PICK l \in {"push", "first", "take"} : Moves(t, l, call[t], seen[t], tail.block, aux[t])
    BY <1>0, <1>3 DEF PushBlock, Moves, TypeOK, See, Goto, Load, SetAux
  <2> QED BY <1>1, <1>3, <2>1 DEF PushBlock
<1>4. CASE PopIndex(t)
  <2>1. Moves(t, "popblock", call[t], head.index, block[t], aux[t])
    BY <1>0, <1>4 DEF PopIndex, Moves, TypeOK, See, Goto, Load, SetAux
  <2> QED BY <1>1, <1>4, <2>1 DEF PopIndex
<1>5. CASE PopBlock(t)
  <2>1. PICK l \in {"pop", "poptail", "poptake"} : Moves(t, l, call[t], seen[t], head.block, seen[t] + 2)
    BY <1>0, <1>5 DEF PopBlock, Moves, TypeOK, See, Goto, Load, SetAux
  <2> QED BY <1>1, <1>5, <2>1 DEF PopBlock
<1>6. CASE PopTail(t) /\ At(seen[t]) # At(tail.index)
  <2>1. PICK l \in {"pop", "poptake"}, a \in {aux[t], Mark(aux[t])} : Moves(t, l, call[t], seen[t], block[t], a)
    BY <1>0, <1>6 DEF PopTail, Moves, TypeOK, See, Goto, Load, SetAux
  <2> QED BY <1>1, <1>6, <2>1 DEF PopTail
<1>7. CASE PopWaitNext(t)
  <2>1. Moves(t, "nextnext", call[t], seen[t], block[t], Unmark(aux[t]) + 2)
    BY <1>0, <1>7 DEF PopWaitNext, Moves, TypeOK, See, Goto, Load, SetAux
  <2> QED BY <1>1, <1>7, <2>1 DEF PopWaitNext
<1>8. CASE PopNextNext(t)
  <2>1. PICK a \in {aux[t], Mark(aux[t])} : Moves(t, "headblock", call[t], seen[t], block[t], a)
    BY <1>0, <1>8 DEF PopNextNext, Moves, TypeOK, See, Goto, Load, SetAux
  <2> QED BY <1>1, <1>8, <2>1 DEF PopNextNext
<1>9. CASE LenTail(t)
  <2>1. Moves(t, "lenhead", call[t], tail.index, block[t], aux[t])
    BY <1>0, <1>9 DEF LenTail, Moves, TypeOK, See, Goto, Load, SetAux
  <2> QED BY <1>1, <1>9, <2>1 DEF LenTail
<1>10. CASE LenAgain(t) /\ tail.index # seen[t]
  <2>1. Moves(t, "len", call[t], seen[t], block[t], aux[t]) /\ UNCHANGED shared
    BY <1>0, <1>10 DEF LenAgain, locals, Moves, TypeOK, See, Goto, Load, SetAux
  <2> QED BY <1>1, <1>10, <2>1 DEF LenAgain
<1>11. CASE Destroy(t) /\ aux[t] # BlockCap - 1
  <2>1. PICK l \in {"destroy", "handover"}, a \in {aux[t], aux[t] + 1} : Moves(t, l, call[t], seen[t], block[t], a)
    BY <1>0, <1>11 DEF Destroy, Moves, TypeOK, See, Goto, Load, SetAux
  <2> QED BY <1>0, <1>1, <1>11, <2>1 DEF Destroy, InLife, shared
<1>12. CASE pc[t] = "take" /\ See(t, tail.index) /\ Goto(t, "pushblock") /\ UNCHANGED <<shared, call, block, aux>>
  <2>1. Moves(t, "pushblock", call[t], tail.index, block[t], aux[t])
    BY <1>0, <1>12 DEF Moves, TypeOK, See, Goto, Load, SetAux
  <2> QED BY <1>1, <1>12, <2>1
<1>13. CASE pc[t] = "poptake" /\ See(t, head.index) /\ Goto(t, "popblock") /\ UNCHANGED <<shared, call, block, aux>>
  <2>1. Moves(t, "popblock", call[t], head.index, block[t], aux[t])
    BY <1>0, <1>13 DEF Moves, TypeOK, See, Goto, Load, SetAux
  <2> QED BY <1>1, <1>13, <2>1
<1> QED BY <1>2, <1>3, <1>4, <1>5, <1>6, <1>7, <1>8, <1>9, <1>10, <1>11, <1>12, <1>13

\* Nor does linking a block, and moving on to it: the place between has no slot.
LEMMA LinksHidden ==
    ASSUME InLife, NEW t \in Threads,
           \/ PushFirst(t) \/ PushFirstHead(t) \/ PushSetBlock(t) \/ PushSetIndex(t) \/ PushSetNext(t)
           \/ PopHeadBlock(t) \/ PopHeadIndex(t)
    PROVE  UNCHANGED Q!fvars
<1>0. /\ TypeOK /\ TailInv /\ ThreadsInv /\ lap' = lap /\ lap \in Nat /\ lap >= 2 /\ Front \in Nat /\ Back \in Nat
      /\ head.index \in Nat /\ tail.index \in Nat
  BY Numbers DEF InLife, Live
<1>1. ASSUME NEW l, NEW b, NEW a, Moves(t, l, call[t], seen[t], b, a),
             Rank(Front)' = Rank(Front), Rank(Back)' = Rank(Back), Marked(tail'.index) = Marked(tail.index),
             \A d \in DOMAIN blocks : blocks'[d].slots = blocks[d].slots,
             \/ {l, pc[t]} \cap (Filling \cup Popping) = {}
             \/ pc[t] \in Pushing /\ l \in Pushing
             \/ pc[t] \in Popping /\ l \in Popping
      PROVE  UNCHANGED Q!fvars
  <2>1. Lives(t, l, call[t], seen[t], b, a)
    BY <1>1 DEF Lives
  <2> QED BY <1>1, <2>1, LooksHidden
<1>2. (blocks' = blocks \/ blocks' = Append(blocks, NewBlock)) => \A d \in DOMAIN blocks : blocks'[d].slots = blocks[d].slots
  <2>1. blocks \in Seq(Block)
    BY <1>0 DEF TypeOK
  <2> QED BY <2>1
<1> USE DEF Filling, Pushing, Popping
<1>3. CASE PushFirst(t)
  <2>1. PICK l, b : l \in {"firsthead", "push"} /\ Moves(t, l, call[t], seen[t], b, aux[t])
    BY SMTT(60), <1>0, <1>3 DEF PushFirst, Moves, TypeOK, See, Goto, Load, SetAux
  <2>2. head' = head /\ tail'.index = tail.index /\ (blocks' = blocks \/ blocks' = Append(blocks, NewBlock)) /\ pc[t] = "first"
    BY <1>0, <1>3 DEF PushFirst, TypeOK
  <2> QED BY <1>0, <1>1, <1>2, <2>1, <2>2, RanksStay
<1>4. CASE PushFirstHead(t)
  <2>1. Moves(t, "take", call[t], seen[t], block[t], aux[t])
    BY <1>0, <1>4 DEF PushFirstHead, locals, Moves, TypeOK, See, Goto, Load, SetAux
  <2>2. head'.index = head.index /\ tail' = tail /\ blocks' = blocks /\ pc[t] = "firsthead"
    BY <1>0, <1>4 DEF PushFirstHead, TypeOK
  <2> QED BY <1>0, <1>1, <1>2, <2>1, <2>2, RanksStay
<1>5. CASE PushSetBlock(t)
  <2>1. Moves(t, "setindex", call[t], seen[t], block[t], aux[t])
    BY <1>0, <1>5 DEF PushSetBlock, locals, Moves, TypeOK, See, Goto, Load, SetAux
  <2>2. head' = head /\ tail'.index = tail.index /\ blocks' = Append(blocks, NewBlock) /\ pc[t] = "setblock"
    BY <1>0, <1>5 DEF PushSetBlock, TypeOK
  <2> QED BY <1>0, <1>1, <1>2, <2>1, <2>2, RanksStay
<1>6. CASE PushSetIndex(t)
  <2>1. Moves(t, "setnext", call[t], seen[t], block[t], aux[t])
    BY <1>0, <1>6 DEF PushSetIndex, locals, Moves, TypeOK, See, Goto, Load, SetAux
  <2>2. head' = head /\ tail'.index = tail.index + 2 /\ blocks' = blocks /\ pc[t] = "setindex"
    BY <1>0, <1>6 DEF PushSetIndex, TypeOK
  <2>3. ~HasSlot(Back) /\ Back' = Back + 1 /\ (Marked(tail'.index) <=> Marked(tail.index))
    <3>1. pc[t] \in Linking
      BY <2>2 DEF Linking
    <3> QED BY <1>0, <2>2, <3>1, RestingEnds, WordFacts DEF Back
  <2>4. Rank(Back)' = Rank(Back)
    <3>1. \A n : n = Back + 1 => Rank(n)' = Rank(Back)
      BY <1>0, <2>3, RankNext, SamePlaces
    <3> QED BY <2>3, <3>1
  <2>5. Marked(tail'.index) = Marked(tail.index)
    BY <2>3 DEF Marked
  <2> QED BY <1>0, <1>1, <1>2, <2>1, <2>2, <2>4, <2>5, RanksStay
<1>7. CASE PushSetNext(t)
  <2>1. Moves(t, "write", call[t], seen[t], block[t], aux[t])
    BY <1>0, <1>7 DEF PushSetNext, locals, Moves, TypeOK, See, Goto, Load, SetAux
  <2>2. head' = head /\ tail' = tail /\ pc[t] = "setnext" /\ \A d \in DOMAIN blocks : blocks'[d].slots = blocks[d].slots
    BY SMTT(60), <1>0, <1>7 DEF PushSetNext, TypeOK, Block
  <2> QED BY <1>0, <1>1, <2>1, <2>2, RanksStay
<1>8. CASE PopHeadBlock(t)
  <2>1. Moves(t, "headindex", call[t], seen[t], block[t], aux[t])
    BY <1>0, <1>8 DEF PopHeadBlock, locals, Moves, TypeOK, See, Goto, Load, SetAux
  <2>2. head'.index = head.index /\ tail' = tail /\ blocks' = blocks /\ pc[t] = "headblock"
    BY <1>0, <1>8 DEF PopHeadBlock, TypeOK
  <2> QED BY <1>0, <1>1, <1>2, <2>1, <2>2, RanksStay
<1>9. CASE PopHeadIndex(t)
  <2>1. Moves(t, "read", call[t], seen[t], block[t], aux[t])
    BY <1>0, <1>9 DEF PopHeadIndex, locals, Moves, TypeOK, See, Goto, Load, SetAux
  <2>2. head'.index = aux[t] /\ tail' = tail /\ blocks' = blocks /\ pc[t] = "headindex"
    BY <1>0, <1>9 DEF PopHeadIndex, TypeOK
  <2>3. ~HasSlot(Front) /\ Front' = Front + 1
    <3>1. pc[t] \in Advancing /\ pc[t] \in Emptying
      BY <2>2 DEF Advancing, Emptying
    <3> HIDE DEF Filling, Pushing, Popping
    <3>2. EmptyKnows(pc[t], Mine(t), block[t], aux[t]) /\ Mine(t) \in Nat
      BY <1>0, <3>1, MyPlace
    <3>3. ~HasSlot(Front) /\ Front = Mine(t) + 1
      BY <1>0, <3>1, RestingEnds
    <3>4. At(aux[t]) = Mine(t) + 2
      BY <2>2, <3>2 DEF EmptyKnows
    <3> QED BY <1>0, <2>2, <3>2, <3>3, <3>4 DEF Front
  <2>4. Rank(Front)' = Rank(Front)
    <3>1. \A n : n = Front + 1 => Rank(n)' = Rank(Front)
      BY <1>0, <2>3, RankNext, SamePlaces
    <3> QED BY <2>3, <3>1
  <2> QED BY <1>0, <1>1, <1>2, <2>1, <2>2, <2>4, RanksStay
<1> QED BY <1>3, <1>4, <1>5, <1>6, <1>7, <1>8, <1>9

\* A step that sets a slot shows nothing, if the slot keeps its value, or the value
\* is the one its push brings or the one its pop takes away.
LEMMA SlotHidden ==
    ASSUME InLife, NEW t \in Threads, NEW l, NEW c, NEW a, Moves(t, l, c, seen[t], block[t], a), head' = head, tail' = tail,
           NEW d \in DOMAIN blocks, NEW j \in Offsets, NEW s \in Slot, SlotBecomes(d, j, s),
           l \notin Pushing \cup Popping,
           \/ pc[t] \notin Pushing \cup Popping /\ s.value = Old(d, j).value
           \/ pc[t] = "write" /\ d = block[t] /\ j = Offset(seen[t]) /\ s.value = call[t].val
           \/ pc[t] = "read" /\ d = block[t] /\ j = Offset(seen[t]),
           Seen(l, c, ValueAt(Mine(t))) = Seen(pc[t], call[t], ValueAt(Mine(t)))
    PROVE  UNCHANGED Q!fvars
<1>0. /\ TypeOK /\ Live /\ TailInv /\ ThreadsInv /\ OwnersInv /\ lap' = lap /\ lap \in Nat /\ lap >= 2
      /\ pc[t] = "write" => pc[t] \in Pushing /\ pc[t] \in Filling /\ pc[t] \notin Popping
      /\ pc[t] = "read" => pc[t] \in Popping /\ pc[t] \in Emptying /\ pc[t] \notin Pushing
  BY Numbers DEF InLife, Live, Filling, Emptying, Pushing, Popping
<1>1. \A e \in DOMAIN blocks : \A i \in Offsets :
          blocks'[e].slots[i] = IF e = d /\ i = j THEN s ELSE blocks[e].slots[i]
  BY <1>0, SlotUpdate
<1>2. ASSUME NEW n, Counted(t, l, n)
      PROVE  /\ n \in Nat
             /\ Cell(n)' = IF BlockOf(n) = d /\ Off(n) = j THEN s ELSE Cell(n)
  <2>1. n \in Nat /\ HasSlot(n) /\ n < Back
    BY <1>2 DEF Counted
  <2>2. BlockOf(n) \in DOMAIN blocks /\ Off(n) \in Offsets /\ BlockOf(n)' = BlockOf(n) /\ Off(n)' = Off(n)
    BY <1>0, <2>1, BlocksExist, PlaceFacts, SamePlaces
  <2> QED BY <1>1, <2>1, <2>2 DEF Cell
<1>3. HoldsValues(t, l)
  <2> SUFFICES ASSUME NEW n, Counted(t, l, n)
               PROVE  Cell(n)'.value = IF pc[t] \in Pushing /\ Mine(t) = n THEN call[t].val ELSE Cell(n).value
    BY DEF HoldsValues
  <2>0. n \in Nat /\ Cell(n)' = IF BlockOf(n) = d /\ Off(n) = j THEN s ELSE Cell(n)
    BY <1>2
  <2>1. CASE pc[t] \notin Pushing \cup Popping /\ s.value = Old(d, j).value
    BY <2>0, <2>1 DEF Cell, Old
  <2>2. CASE pc[t] = "write" /\ d = block[t] /\ j = Offset(seen[t]) /\ s.value = call[t].val
    <3>1. BlockOf(n) = d /\ Off(n) = j => n = Mine(t)
      BY <1>0, <2>0, <2>2, PlacesDiffer
    <3>2. n = Mine(t) => BlockOf(n) = d /\ Off(n) = j
      BY <1>0, <2>2, MyPlace
    <3> QED BY <1>0, <2>0, <2>2, <3>1, <3>2
  <2>3. CASE pc[t] = "read" /\ d = block[t] /\ j = Offset(seen[t])
    <3>1. BlockOf(n) = d /\ Off(n) = j => n = Mine(t)
      BY <1>0, <2>0, <2>3, PlacesDiffer
    <3>2. Mine(t) < Front /\ Mine(t) \in Nat /\ Front \in Nat
      BY <1>0, <2>3, MyPlace, Numbers
    <3>3. n # Mine(t)
      <4>1. ASSUME NEW u \in Threads, pc[u] \in Popping, Mine(u) = n, u = t => l \in Popping PROVE n # Mine(t)
        <5>1. u # t /\ pc[u] \in Emptying
          BY <4>1 DEF Emptying
        <5>2. Apart(pc[t], Mine(t), block[t], pc[u], Mine(u), block[u])
          BY <1>0, <5>1 DEF OwnersInv
        <5> QED BY <1>0, <2>3, <4>1, <5>1, <5>2 DEF Apart
      <4>2. Front <= n => n # Mine(t)
        BY <2>0, <3>2
      <4> QED BY <4>1, <4>2 DEF Counted
    <3> QED BY <1>0, <2>0, <2>3, <3>1, <3>3
  <2> QED BY <2>1, <2>2, <2>3
<1>4. Lives(t, l, c, seen[t], block[t], a)
  BY DEF Lives
<1> QED BY <1>0, <1>3, <1>4, RanksStay, Hidden

\* So do the steps of push and pop that write, publish, read and mark a slot, and
\* the pop that asks a slot to free its block.
LEMMA SlotsHidden ==
    ASSUME InLife, NEW t \in Threads,
           PushWrite(t) \/ PushPublish(t) \/ PopRead(t) \/ PopSetRead(t) \/ DestroyHandOver(t)
    PROVE  UNCHANGED Q!fvars
<1>0. TypeOK /\ Live /\ TailInv /\ ThreadsInv /\ OwnersInv /\ CallOK(pc[t], call[t])
  BY DEF InLife, Live, TypeOK
<1> DEFINE d == block[t]
           j == Offset(seen[t])
<1>1. pc[t] \in Filling \cup Emptying => d \in DOMAIN blocks /\ j \in Offsets /\ Old(d, j) \in Slot
  BY <1>0, AtMySlot
<1>2. ASSUME NEW v \in Values \cup {None}, NEW x \in Slot
      PROVE  /\ LET s == [x EXCEPT !.value = v] IN s \in Slot /\ s.value = v
             /\ LET s == [x EXCEPT !.written = TRUE] IN s \in Slot /\ s.value = x.value
             /\ LET s == [x EXCEPT !.read = TRUE] IN s \in Slot /\ s.value = x.value
             /\ LET s == [x EXCEPT !.destroy = TRUE] IN s \in Slot /\ s.value = x.value
  BY DEF Slot
<1> HIDE DEF d, j
<1>3. CASE PushWrite(t)
  <2>1. pc[t] = "write" /\ pc[t] \in Filling \cup Emptying /\ call[t].val \in Values
    BY <1>0, <1>3, CallsNow DEF PushWrite, Filling, Pushing
  <2>2. PICK s \in Slot : s = [Old(d, j) EXCEPT !.value = call[t].val] /\ s.value = call[t].val
    BY <1>1, <1>2, <2>1
  <2>3. SlotBecomes(d, j, s) /\ head' = head /\ tail' = tail
    BY <1>3, <2>2 DEF PushWrite, SlotBecomes, Old, d, j
  <2>4. Moves(t, "publish", call[t], seen[t], block[t], aux[t])
    BY <1>0, <1>3 DEF PushWrite, Moves, TypeOK, Goto, locals
  <2>5. \A v : Seen("publish", call[t], v) = Seen("write", call[t], v)
    BY DEF Seen, Filling, Pushing, Popping
  <2>6. "publish" \notin Pushing \cup Popping
    BY DEF Pushing, Popping
  <2> QED BY <1>1, <2>1, <2>2, <2>3, <2>4, <2>5, <2>6, SlotHidden DEF d, j
<1>4. CASE PushPublish(t)
  <2>1. pc[t] = "publish" /\ pc[t] \in Filling \cup Emptying
    BY <1>4 DEF PushPublish, Filling
  <2>2. PICK s \in Slot : s = [Old(d, j) EXCEPT !.written = TRUE] /\ s.value = Old(d, j).value
    BY <1>1, <1>2, <2>1
  <2>3. SlotBecomes(d, j, s) /\ head' = head /\ tail' = tail
    BY <1>4, <2>2 DEF PushPublish, SlotBecomes, Old, d, j
  <2>4. Moves(t, "return", Q!Ask("ok"), seen[t], block[t], aux[t])
    BY <1>0, <1>4 DEF PushPublish, Moves, TypeOK, Answer, Goto, locals
  <2>5. \A v : Seen("return", Q!Ask("ok"), v) = Seen("publish", call[t], v)
    BY DEF Seen, Filling, Pushing, Popping
  <2>6. {"return", "publish"} \cap (Pushing \cup Popping) = {}
    BY DEF Pushing, Popping
  <2> QED BY <1>1, <2>1, <2>2, <2>3, <2>4, <2>5, <2>6, SlotHidden
<1>5. CASE PopRead(t)
  <2>1. pc[t] = "read" /\ pc[t] \in Filling \cup Emptying /\ pc[t] \in Emptying
    BY <1>5 DEF PopRead, Emptying, Popping
  <2>2. PICK s \in Slot : s = [Old(d, j) EXCEPT !.value = None] /\ s.value = None
    BY <1>1, <1>2, <2>1
  <2>3. SlotBecomes(d, j, s) /\ head' = head /\ tail' = tail
    BY <1>5, <2>2 DEF PopRead, SlotBecomes, Old, d, j
  <2>4. PICK l \in {"destroy", "setread"}, a \in {0, aux[t]} : Moves(t, l, Q!Popped(MySlot(t).value), seen[t], block[t], a)
    BY <1>0, <1>5 DEF PopRead, Moves, TypeOK, Goto, SetAux
  <2>5. ValueAt(Mine(t)) = MySlot(t).value
    <3>1. Cell(Mine(t)) = MySlot(t) /\ MySlot(t).written
      BY <1>0, <1>5, <2>1, MyPlace DEF PopRead, MySlot
    <3>2. ASSUME NEW u \in Threads, pc[u] \in Pushing, Mine(u) = Mine(t) PROVE FALSE
      <4>1. pc[u] \in Filling /\ ~Cell(Mine(u)).written
        BY <1>0, <3>2, MyPlace DEF Filling
      <4> QED BY <3>1, <3>2, <4>1
    <3>3. PICK n : n = Mine(t)
      OBVIOUS
    <3>4. ValueAt(n) = Cell(n).value
      BY <1>0, <3>2, <3>3, ValueFacts DEF ValuesKnown
    <3> QED BY <3>1, <3>3, <3>4
  <2>6. \A v : Seen(l, Q!Popped(v), v) = Seen("read", call[t], v)
    BY DEF Seen, Filling, Pushing, Popping
  <2>7. l \notin Pushing \cup Popping
    BY DEF Pushing, Popping
  <2>8. Seen(l, Q!Popped(MySlot(t).value), ValueAt(Mine(t))) = Seen(pc[t], call[t], ValueAt(Mine(t)))
    BY <2>1, <2>5, <2>6
  <2> QED BY <1>1, <2>1, <2>2, <2>3, <2>4, <2>7, <2>8, SlotHidden DEF d, j
<1>6. CASE PopSetRead(t)
  <2>1. pc[t] = "setread" /\ pc[t] \in Filling \cup Emptying
    BY <1>6 DEF PopSetRead, Emptying
  <2>2. PICK s \in Slot : s = [Old(d, j) EXCEPT !.read = TRUE] /\ s.value = Old(d, j).value
    BY <1>1, <1>2, <2>1
  <2>3. SlotBecomes(d, j, s) /\ head' = head /\ tail' = tail
    BY <1>6, <2>2 DEF PopSetRead, SlotBecomes, Old, d, j
  <2>4. PICK l, a : l \in {"destroy", "return"} /\ Moves(t, l, call[t], seen[t], block[t], a)
    BY <1>0, <1>6 DEF PopSetRead, Moves, TypeOK, Goto, SetAux
  <2>5. \A v : Seen(l, call[t], v) = Seen("setread", call[t], v)
    BY <2>4 DEF Seen, Filling, Pushing, Popping
  <2>6. {l, "setread"} \cap (Pushing \cup Popping) = {}
    BY <2>4 DEF Pushing, Popping
  <2> QED BY <1>1, <2>1, <2>2, <2>3, <2>4, <2>5, <2>6, SlotHidden
<1>7. CASE DestroyHandOver(t)
  <2> DEFINE i == aux[t]
  <2>1. pc[t] = "handover" /\ d \in DOMAIN blocks /\ i \in Offsets /\ Old(d, i) \in Slot
    <3>1. pc[t] = "handover" /\ FreeKnows("handover", d, i) /\ i \in Nat /\ lap \in Nat
      BY <1>0, <1>7, Numbers DEF DestroyHandOver, ThreadsInv, Knows, Freeing, d
    <3>2. d \in DOMAIN blocks /\ i \in Offsets
      BY <3>1 DEF FreeKnows, Offsets, BlockCap
    <3>3. blocks[d] \in Block
      BY <1>0, <3>2 DEF TypeOK
    <3> QED BY <3>1, <3>2, <3>3 DEF Block, Old
  <2>2. PICK s \in Slot : s = [Old(d, i) EXCEPT !.destroy = TRUE] /\ s.value = Old(d, i).value
    BY <1>2, <2>1
  <2>3. SlotBecomes(d, i, s) /\ head' = head /\ tail' = tail
    BY <1>7, <2>2 DEF DestroyHandOver, SlotBecomes, Old, d
  <2>4. PICK l, a : l \in {"destroy", "return"} /\ Moves(t, l, call[t], seen[t], block[t], a)
    BY <1>0, <1>7 DEF DestroyHandOver, Moves, TypeOK, Goto, SetAux
  <2>5. \A v : Seen(l, call[t], v) = Seen("handover", call[t], v)
    BY <2>4 DEF Seen, Filling, Pushing, Popping
  <2>6. {l, "handover"} \cap (Pushing \cup Popping) = {}
    BY <2>4 DEF Pushing, Popping
  <2> QED BY <2>1, <2>2, <2>3, <2>4, <2>5, <2>6, SlotHidden
<1> QED BY <1>3, <1>4, <1>5, <1>6, <1>7

\* Nor does freeing a block: nothing of the queue is in it, and no pop reads it.
LEMMA FreeHidden ==
    ASSUME InLife, NEW t \in Threads, Destroy(t), aux[t] = BlockCap - 1
    PROVE  UNCHANGED Q!fvars
<1>0. /\ TypeOK /\ TailInv /\ ThreadsInv /\ FreedInv /\ FreedInv' /\ lap' = lap /\ lap \in Nat /\ lap >= 2
      /\ Front \in Nat /\ Back \in Nat
  BY Numbers DEF InLife, Live
<1>1. pc[t] = "destroy" /\ pc[t] \notin Filling \cup Emptying /\ head' = head /\ tail' = tail
  BY DEF Destroy, Filling, Emptying, Pushing, Popping
<1>2. Moves(t, "return", call[t], seen[t], block[t], aux[t])
  BY <1>0 DEF Destroy, Moves, TypeOK, Goto
<1>3. PICK d : d = block[t]
  OBVIOUS
<1>4. d \in DOMAIN blocks /\ DOMAIN blocks' = DOMAIN blocks /\ blocks'[d].frees = blocks[d].frees + 1
      /\ \A e \in DOMAIN blocks : e # d => blocks'[e] = blocks[e]
  <2>1. d \in DOMAIN blocks
    BY <1>0, <1>1, <1>3 DEF ThreadsInv, Knows, FreeKnows, Freeing
  <2>2. blocks' = [blocks EXCEPT ![d] = Freed(blocks[d])]
    BY <1>3 DEF Destroy
  <2>3. Freed(blocks[d]).frees = blocks[d].frees + 1
    BY DEF Freed, NewBlock
  <2> QED BY <2>1, <2>2, <2>3
<1>5. d < BlockOf(Front) /\ \A u \in Threads : pc'[u] \in Filling \cup Emptying => block'[u] # d
  <2>1. blocks[d].frees \in {0, 1} /\ blocks'[d].frees \in {0, 1}
    BY <1>0, <1>4 DEF FreedInv
  <2>2. blocks'[d].frees = 1
    BY <1>4, <2>1
  <2>3. d < BlockOf(Front)' /\ ~Working(d)'
    BY <1>0, <1>4, <2>2 DEF FreedInv
  <2>4. BlockOf(Front)' = BlockOf(Front)
    BY <1>0, <1>1 DEF BlockOf, Front
  <2> QED BY <2>3, <2>4 DEF Working, Filling, Emptying, Pushing, Popping
<1>6. ASSUME NEW n, Counted(t, "return", n) PROVE Cell(n)' = Cell(n)
  <2>1. n \in Nat /\ BlockOf(n) \in DOMAIN blocks /\ BlockOf(n)' = BlockOf(n) /\ Off(n)' = Off(n)
    BY <1>0, <1>6, BlocksExist, SamePlaces DEF Counted
  <2>2. BlockOf(n) # d
    <3>1. Front <= n => BlockOf(Front) <= BlockOf(n)
      BY <1>0, <2>1, PlaceOrder
    <3>2. ASSUME NEW u \in Threads, pc[u] \in Popping, Mine(u) = n PROVE BlockOf(n) # d
      <4>1. pc[u] \in Emptying /\ pc'[u] = pc[u] /\ block'[u] = block[u]
        BY <1>0, <1>1, <1>2, <3>2, MovesFacts DEF Emptying
      <4>2. block[u] = BlockOf(n)
        BY <1>0, <3>2, <4>1, MyPlace
      <4> QED BY <1>5, <4>1, <4>2
    <3>3. BlockOf(Front) \in Nat /\ BlockOf(n) \in Nat /\ d \in Nat
      BY <1>0, <1>4, <2>1, Numbers, PlaceFacts
    <3> QED BY <1>5, <1>6, <3>1, <3>2, <3>3 DEF Counted
  <2> QED BY <1>4, <2>1, <2>2 DEF Cell
<1>7. HoldsValues(t, "return")
  BY <1>1, <1>6 DEF HoldsValues, Filling
<1>8. Lives(t, "return", call[t], seen[t], block[t], aux[t])
  BY <1>2 DEF Lives
<1>9. "return" \notin Pushing \cup Popping /\ \A v : Seen("return", call[t], v) = Seen("destroy", call[t], v)
  BY DEF Seen, Filling, Pushing, Popping
<1> QED BY <1>0, <1>1, <1>7, <1>8, <1>9, RanksStay, Hidden

-----------------------------------------------------------------------------
(***************************************************************************)
(* The steps that show: each is the step of Fifo of its name.              *)
(***************************************************************************)

\* tail stays marked: a push that saw the mark still finds the queue closed.
ClosedSeen == \A t \in Threads : pc[t] = "pushblock" /\ Marked(seen[t]) => Marked(tail.index)

\* It holds at first, and every step keeps it.
LEMMA ClosedStays ==
    /\ Init => ClosedSeen
    /\ Inv /\ ClosedSeen /\ [Next]_vars => ClosedSeen'
<1>1. Init => ClosedSeen
  BY DEF Init, ClosedSeen
<1>2. ASSUME Inv, ClosedSeen, [Next]_vars PROVE ClosedSeen'
  <2>0. tail \in [index : Nat, block : Nat] /\ tail.index \in Nat /\ DOMAIN pc = Threads /\ seen \in [Threads -> Nat]
    BY <1>2 DEF Inv, TypeOK
  <2>1. CASE UNCHANGED vars
    BY <1>2, <2>1 DEF vars, ClosedSeen, Marked
  <2>2. CASE Drop
    BY <1>2, <2>2 DEF Drop, ClosedSeen, Marked, locals
  <2>3. ASSUME NEW t \in Threads, Call(t) \/ Step(t) PROVE ClosedSeen'
    <3>1. /\ Marked(tail.index) => Marked(tail'.index)
      <4>1. tail'.index \in {tail.index, tail.index + 2, Mark(tail.index)}
        BY <2>0, <2>3 DEF Call, Step, shared, locals, PushIndex, PushBlock, PushFirst, PushFirstHead, PushTake, PushSetBlock, PushSetIndex,
           PushSetNext, PushWrite, PushPublish, PopIndex, PopBlock, PopTail, PopTake, PopWaitNext, PopNextNext, PopHeadBlock, PopHeadIndex,
           PopRead, PopSetRead, Destroy, DestroyHandOver, LenTail, LenHead, LenAgain, Close, Return
      <4> QED BY <2>0, <4>1, WordFacts
    <3>2. \A u \in Threads : pc'[u] = "pushblock" => (pc[u] = "pushblock" /\ seen'[u] = seen[u]) \/ (seen'[u] = tail.index /\ tail' = tail)
      <4>1. CASE PushIndex(t) \/ PushTake(t)
        BY <2>0, <4>1 DEF PushIndex, PushTake, See, Goto, shared
      <4>2. CASE ~(PushIndex(t) \/ PushTake(t))
        <5>1. \A u \in Threads : seen'[u] = seen[u] \/ u = t
          BY <2>0, <2>3 DEF Call, Step, shared, locals, See, PushIndex, PushBlock, PushFirst, PushFirstHead, PushTake, PushSetBlock, PushSetIndex,
             PushSetNext, PushWrite, PushPublish, PopIndex, PopBlock, PopTail, PopTake, PopWaitNext, PopNextNext, PopHeadBlock, PopHeadIndex,
             PopRead, PopSetRead, Destroy, DestroyHandOver, LenTail, LenHead, LenAgain, Close, Return
        <5>2. \A u \in Threads : pc'[u] = pc[u] \/ u = t
          BY <2>0, <2>3 DEF Call, Step, Goto, Answer, PushIndex, PushBlock, PushFirst, PushFirstHead, PushTake, PushSetBlock, PushSetIndex,
             PushSetNext, PushWrite, PushPublish, PopIndex, PopBlock, PopTail, PopTake, PopWaitNext, PopNextNext, PopHeadBlock, PopHeadIndex,
             PopRead, PopSetRead, Destroy, DestroyHandOver, LenTail, LenHead, LenAgain, Close, Return
        <5>3. pc'[t] # "pushblock"
          <6>1. CASE Call(t)
            BY <2>0, <6>1 DEF Call, Goto, Q!Questions, Q!AskPush, Q!Ask, Q!Said
          <6>2. CASE ~Call(t)
            BY <2>0, <2>3, <4>2, <6>2 DEF Step, Goto, Answer, PushIndex, PushBlock, PushFirst, PushFirstHead, PushTake, PushSetBlock, PushSetIndex,
               PushSetNext, PushWrite, PushPublish, PopIndex, PopBlock, PopTail, PopTake, PopWaitNext, PopNextNext, PopHeadBlock, PopHeadIndex,
               PopRead, PopSetRead, Destroy, DestroyHandOver, LenTail, LenHead, LenAgain, Close, Return
          <6> QED BY <6>1, <6>2
        <5> QED BY <5>1, <5>2, <5>3
      <4> QED BY <4>1, <4>2
    <3> QED BY <1>2, <3>1, <3>2 DEF ClosedSeen, Marked
  <2> QED BY <1>2, <2>1, <2>2, <2>3 DEF Next
<1> QED BY <1>1, <1>2

\* A step of Fifo.
LEMMA FifoSteps ==
    ASSUME NEW t \in Threads,
           Q!Call(t) \/ Q!Return(t) \/ Q!Push(t) \/ Q!Pop(t) \/ Q!Close(t) \/ Q!LookLen(t) \/ Q!AnswerLen(t)
    PROVE  Q!Next
  BY DEF Q!Next

\* A step that leaves the slots alone changes what its thread is answered.
LEMMA AnswerShows ==
    ASSUME NEW t, NEW l, NEW c, NEW w, NEW b, NEW a, Lives(t, l, c, w, b, a), blocks' = blocks,
           Rank(Front)' = Rank(Front), Rank(Back)' = Rank(Back), {l, pc[t]} \cap (Filling \cup Popping) = {}
    PROVE  Holds' = Items /\ Holds = Items /\ Calls' = [Calls EXCEPT ![t] = c] /\ Calls[t] = call[t]
<1>1. l \notin Pushing /\ pc[t] \notin Pushing /\ l \notin Popping /\ pc[t] \notin Popping /\ l \notin Filling /\ pc[t] \notin Filling
  BY DEF Filling
<1>2. HoldsValues(t, l)
  <2>1. \A n : Cell(n)' = Cell(n)
    BY DEF Cell, BlockOf, Off, Lives, InLife
  <2> QED BY <1>1, <2>1 DEF HoldsValues
<1>3. Items' = Items /\ Calls' = [Calls EXCEPT ![t] = Seen(l, c, ValueAt(Mine(t)))]
  BY <1>1, <1>2, ItemsKept
<1>4. \A v : Seen(l, c, v) = c /\ Seen(pc[t], call[t], v) = call[t]
  BY <1>1 DEF Seen
<1>5. Calls[t] = call[t]
  BY <1>4, SeenNow DEF Lives
<1> QED BY <1>3, <1>4, <1>5 DEF Holds, Lives, InLife

\* Calls and returns, a push told that the queue is closed, a pop that it is empty.
LEMMA AnswersRefine ==
    ASSUME InLife, NEW t \in Threads, ClosedSeen,
           \/ Call(t) \/ Return(t) \/ (PushBlock(t) /\ Marked(seen[t]))
           \/ PopTail(t) /\ At(seen[t]) = At(tail.index)
    PROVE  Q!Next
<1>0. TypeOK /\ TailInv /\ lap' = lap /\ dropped = <<None>> /\ dropped' = <<None>> /\ CallOK(pc[t], call[t]) /\ Q!Alive
  BY DEF InLife, Live, TypeOK, Q!Alive
<1>1. ASSUME NEW l, NEW c, NEW w, NEW b, NEW a, Moves(t, l, c, w, b, a), UNCHANGED shared, {l, pc[t]} \cap (Filling \cup Popping) = {}
      PROVE  Holds' = Items /\ Holds = Items /\ Calls' = [Calls EXCEPT ![t] = c] /\ Calls[t] = call[t]
             /\ Marked(tail'.index) = Marked(tail.index)
  <2>1. Lives(t, l, c, w, b, a)
    BY <1>1 DEF Lives
  <2>2. head'.index = head.index /\ tail'.index = tail.index /\ blocks' = blocks
    BY <1>1 DEF shared
  <2> QED BY <1>0, <1>1, <2>1, <2>2, RanksStay, AnswerShows
<1>2. CASE Call(t)
  <2>1. PICK q \in Q!Questions : Moves(t, q.op, q, seen[t], block[t], aux[t])
    BY <1>0, <1>2 DEF Call, locals, Moves, TypeOK, Goto
  <2>2. {q.op, pc[t]} \cap (Filling \cup Popping) = {}
    BY <1>2 DEF Call, Q!Questions, Q!AskPush, Q!Ask, Q!Said, Filling, Pushing, Popping
  <2>3. call[t] = Q!Idle
    BY <1>0, <1>2 DEF Call, CallOK, Filling, Pushing, Popping, Freeing
  <2>4. Q!Call(t)
    BY <1>0, <1>1, <1>2, <2>1, <2>2, <2>3 DEF Call, Q!Call, Q!Alive, Holds
  <2> QED BY <2>4, FifoSteps
<1>3. CASE Return(t)
  <2>1. Moves(t, "idle", Q!Idle, 0, 0, 0)
    BY <1>0, <1>3 DEF Return, Moves, TypeOK, See, Goto, Load, SetAux
  <2>2. {"idle", pc[t]} \cap (Filling \cup Popping) = {} /\ call[t].op \in Q!Answers
    BY <1>0, <1>3 DEF Return, CallOK, Filling, Pushing, Popping, Freeing
  <2>3. Q!Return(t)
    BY <1>0, <1>1, <1>3, <2>1, <2>2 DEF Return, Q!Return, Holds
  <2> QED BY <2>3, FifoSteps
<1>4. CASE PushBlock(t) /\ Marked(seen[t])
  <2>1. Moves(t, "return", Q!Ask("closed"), seen[t], tail.block, aux[t]) /\ UNCHANGED shared
    BY <1>0, <1>4 DEF PushBlock, Moves, TypeOK, Answer, Goto, Load
  <2>2. {"return", pc[t]} \cap (Filling \cup Popping) = {} /\ call[t].op = "push" /\ Marked(tail.index)
    <3>1. pc[t] = "pushblock"
      BY <1>4 DEF PushBlock
    <3>2. PICK v : call[t] = Q!AskPush(v)
      BY <1>0, <3>1, CallsNow
    <3> QED BY <1>4, <3>1, <3>2 DEF ClosedSeen, Filling, Pushing, Popping, Q!AskPush, Q!Said
  <2>3. Q!Push(t)
    BY <1>0, <1>1, <2>1, <2>2 DEF Q!Push, Q!Answer, Holds
  <2> QED BY <2>3, FifoSteps
<1>5. CASE PopTail(t) /\ At(seen[t]) = At(tail.index)
  <2>1. PICK c : c = Q!Ask(IF Marked(tail.index) THEN "closed" ELSE "empty")
    OBVIOUS
  <2>2. Moves(t, "return", c, seen[t], block[t], aux[t]) /\ UNCHANGED shared
    BY <1>0, <1>5, <2>1 DEF PopTail, Moves, TypeOK, Answer, Goto
  <2>3. {"return", pc[t]} \cap (Filling \cup Popping) = {} /\ call[t].op = "pop"
    BY <1>0, <1>5, CallsNow DEF PopTail, Filling, Pushing, Popping, Q!Ask, Q!Said
  <2>4. Front = Back
    <3>1. Mine(t) <= Front /\ Mine(t) = Back /\ Front \in Nat /\ Back \in Nat /\ Front <= Back
      BY <1>0, <1>5, Around DEF PopTail, Knows, PopKnows, Back, InLife
    <3> QED BY <3>1
  <2>5. Items = <<>>
    <3>1. Rank(Back) - Rank(Front) = 0
      BY <1>0, <2>4, ItemPlace
    <3> QED BY <3>1 DEF Items, Front, Back
  <2>6. Q!Pop(t)
    BY <1>0, <1>1, <2>1, <2>2, <2>3, <2>5 DEF Q!Pop, Q!Answer, Holds
  <2> QED BY <2>6, FifoSteps
<1> QED BY <1>2, <1>3, <1>4, <1>5

\* len looks when it reads head, and answers when tail is still the same; close closes.
LEMMA LensRefine ==
    ASSUME InLife, NEW t \in Threads, LenHead(t) \/ (LenAgain(t) /\ tail.index = seen[t]) \/ Close(t)
    PROVE  Q!Next
<1>0. /\ TypeOK /\ TailInv /\ lap' = lap /\ lap \in Nat /\ lap >= 2 /\ dropped = <<None>> /\ dropped' = <<None>>
      /\ tail \in [index : Nat, block : Nat] /\ tail.index \in Nat /\ aux[t] \in Nat /\ seen[t] \in Nat
  BY Around DEF InLife, TypeOK
<1>1. CASE LenHead(t)
  <2>1. PICK c : c = Q!Looked(Len(Items))
    OBVIOUS
  <2>2. Moves(t, "lenagain", c, seen[t], block[t], head.index) /\ blocks' = blocks /\ head' = head /\ tail' = tail
    BY <1>0, <1>1, <2>1 DEF LenHead, Moves, TypeOK, Goto, SetAux, shared
  <2>3. {"lenagain", pc[t]} \cap (Filling \cup Popping) = {} /\ call[t].op \in {"len", "looked"}
    <3>1. pc[t] = "lenhead"
      BY <1>1 DEF LenHead
    <3>2. call[t] = Q!Ask("len") \/ call[t] = Q!Looked(call[t].num)
      BY <1>0, <3>1, CallsNow
    <3>3. \A n : Q!Looked(n).op = "looked"
      BY DEF Q!Looked, Q!Said
    <3>4. Q!Ask("len").op = "len"
      BY DEF Q!Ask, Q!Said
    <3>5. call[t].op \in {"len", "looked"}
      BY <3>2, <3>3, <3>4
    <3> QED BY <3>1, <3>5 DEF Filling, Pushing, Popping
  <2>4. Lives(t, "lenagain", c, seen[t], block[t], head.index)
    BY <2>2 DEF Lives
  <2>5. Holds' = Items /\ Holds = Items /\ Calls' = [Calls EXCEPT ![t] = c] /\ Calls[t] = call[t]
    BY <1>0, <2>2, <2>3, <2>4, RanksStay, AnswerShows
  <2>6. Q!LookLen(t)
    BY <1>0, <2>1, <2>2, <2>3, <2>5 DEF Q!LookLen, Q!Answer, Holds
  <2> QED BY <2>6, FifoSteps
<1>2. CASE LenAgain(t) /\ tail.index = seen[t]
  <2>1. PICK c : c = Q!Length(LenOf(seen[t], aux[t]))
    OBVIOUS
  <2>2. Moves(t, "return", c, seen[t], block[t], aux[t]) /\ blocks' = blocks /\ head' = head /\ tail' = tail
    BY <1>0, <1>2, <2>1 DEF LenAgain, Moves, TypeOK, Answer, Goto, shared, locals
  <2>3. {"return", pc[t]} \cap (Filling \cup Popping) = {} /\ call[t].op = "looked"
    <3>1. pc[t] = "lenagain"
      BY <1>2 DEF LenAgain
    <3>2. call[t] = Q!Looked(call[t].num)
      BY <1>0, <3>1, CallsNow
    <3>3. \A n : Q!Looked(n).op = "looked"
      BY DEF Q!Looked, Q!Said
    <3>4. call[t].op = "looked"
      BY <3>2, <3>3
    <3> QED BY <3>1, <3>4 DEF Filling, Pushing, Popping
  <2>4. Lives(t, "return", c, seen[t], block[t], aux[t])
    BY <2>2 DEF Lives
  <2>5. Holds' = Items /\ Holds = Items /\ Calls' = [Calls EXCEPT ![t] = c] /\ Calls[t] = call[t]
    BY <1>0, <2>2, <2>3, <2>4, RanksStay, AnswerShows
  <2>6. call[t].num = LenOf(seen[t], aux[t])
    <3>1. call[t].num = Rank(Mine(t)) - Rank(At(aux[t])) /\ Mine(t) = At(seen[t])
      BY <1>2, Around DEF InLife, LenAgain, Knows, LenKnows, Back
    <3> QED BY <1>0, <3>1, LenIsDifference
  <2>7. Q!AnswerLen(t)
    BY <1>0, <2>1, <2>2, <2>3, <2>5, <2>6 DEF Q!AnswerLen, Q!Answer, Holds
  <2> QED BY <2>7, FifoSteps
<1>3. CASE Close(t)
  <2>1. PICK c : c = Q!Ask(IF Marked(tail.index) THEN "again" ELSE "first")
    OBVIOUS
  <2>2. Moves(t, "return", c, seen[t], block[t], aux[t]) /\ blocks' = blocks /\ head' = head /\ tail'.index = Mark(tail.index)
    BY <1>0, <1>3, <2>1 DEF Close, Moves, TypeOK, Answer, Goto, locals
  <2>3. {"return", pc[t]} \cap (Filling \cup Popping) = {} /\ call[t].op = "close"
    BY <1>0, <1>3, CallsNow DEF Close, Filling, Pushing, Popping, Q!Ask, Q!Said
  <2>4. Lives(t, "return", c, seen[t], block[t], aux[t])
    BY <2>2 DEF Lives
  <2>5. Back' = Back /\ Marked(tail'.index)
    BY <1>0, <2>2, WordFacts DEF Back
  <2>6. Rank(Back)' = Rank(Back) /\ Rank(Front)' = Rank(Front)
    BY <1>0, <2>2, <2>5, RanksStay DEF Rank
  <2>7. Holds' = Items /\ Holds = Items /\ Calls' = [Calls EXCEPT ![t] = c] /\ Calls[t] = call[t]
    BY <1>0, <2>2, <2>3, <2>4, <2>6, AnswerShows
  <2>8. Marked(tail'.index) = TRUE
    BY <2>5 DEF Marked
  <2>9. Q!Close(t)
    BY <1>0, <2>1, <2>3, <2>7, <2>8 DEF Q!Close, Q!Answer, Holds
  <2> QED BY <2>9, FifoSteps
<1> QED BY <1>1, <1>2, <1>3

\* The push that moves tail on adds its value behind the others: Push of Fifo.
LEMMA PushTakesRefines ==
    ASSUME InLife, NEW t \in Threads, PushTake(t), tail.index = seen[t], tail'.index = tail.index + 2, seen' = seen
    PROVE  Q!Next
<1>0. /\ TypeOK /\ TailInv /\ ThreadsInv /\ OwnersInv /\ OwnersInv' /\ lap' = lap /\ dropped = <<None>> /\ dropped' = <<None>>
      /\ lap \in Nat /\ lap >= 2 /\ Front \in Nat /\ Back \in Nat /\ Front <= Back /\ tail.index \in Nat
      /\ Knows(pc[t], call[t], seen[t], block[t], aux[t]) /\ Back = At(tail.index)
  BY Around DEF InLife, Live, TypeOK
<1>1. pc[t] = "take" /\ pc[t] \notin Filling \cup Popping /\ pc[t] \notin Pushing /\ UNCHANGED <<head, blocks, dropped>>
  BY DEF PushTake, Filling, Pushing, Popping
<1>2. PICK l \in {"setblock", "write"} : Moves(t, l, call[t], seen[t], block[t], aux[t])
  BY <1>0, <1>1 DEF PushTake, Moves, TypeOK, Goto
<1>3. l \in Pushing /\ l \notin Popping /\ \A v : Seen(l, call[t], v) = Q!Ask("ok")
  BY DEF Pushing, Popping, Seen, Filling
<1>4. Mine(t) = Back /\ HasSlot(Back) /\ ~Marked(tail.index)
  BY <1>0, <1>1 DEF Knows, PushKnows, Mine
<1>5. Back' = Back + 1 /\ (Marked(tail'.index) <=> Marked(tail.index)) /\ Front' = Front
  BY <1>0, <1>1, WordFacts DEF Back, Front
<1>6. Rank(Back)' = Rank(Back) + 1 /\ Rank(Front)' = Rank(Front)
  <2>1. \A n : n = Back + 1 => Rank(n)' = Rank(Back) + 1
    BY <1>0, <1>4, RankNext, SamePlaces
  <2> QED BY <1>5, <2>1, <1>0 DEF Rank
<1>7. ASSUME NEW n, n # Back PROVE ValueAt(n)' = ValueAt(n)
  <2>1. Cell(n)' = Cell(n)
    BY <1>0, <1>1 DEF Cell, BlockOf, Off
  <2>2. At(seen[t]) # n
    BY <1>4, <1>7 DEF Mine
  <2> QED BY <1>0, <1>1, <1>2, <1>3, <2>1, <2>2, ValueKept
<1>8. ASSUME NEW n, n = Back PROVE ValueAt(n)' = call[t].val
  <2>1. (OwnersInv => ValuesKnown)'
    BY ValueFacts, PTL
  <2>2. pc'[t] = l /\ call'[t] = call[t] /\ Mine(t)' = n
    BY <1>0, <1>2, <1>4, <1>8, MovesFacts DEF Mine
  <2> QED BY <1>0, <1>3, <2>1, <2>2 DEF ValuesKnown, Pushing
<1>9. PICK k : k = Rank(Back) - Rank(Front)
  OBVIOUS
<1>10. k \in Nat
  BY <1>0, <1>9, ItemPlace
<1>11. Items = [i \in 1 .. k |-> ValueAt(Place(i))]
  BY <1>9 DEF Items, Place, Front, Back
<1>12. Items' = [i \in 1 .. k + 1 |-> ValueAt(Place(i))']
  <2>1. Rank(Back)' - Rank(Front)' = k + 1
    BY <1>0, <1>6, <1>9, ItemPlace
  <2>2. Items' = [i \in 1 .. Rank(Back)' - Rank(Front)' |-> ValueAt(Place(i))']
    BY DEF Items, Place, Front, Back
  <2> QED BY <2>1, <2>2
<1>13. ASSUME NEW i \in 1 .. k + 1 PROVE ValueAt(Place(i))' = IF i = k + 1 THEN call[t].val ELSE ValueAt(Place(i))
  <2>1. PICK n : n = Place(i)
    OBVIOUS
  <2>2. Place(i)' = n
    BY <1>0, <1>6, <2>1 DEF Place, SlotAt, BlockCap
  <2>3. CASE i = k + 1
    <3>1. Rank(Front) + i - 1 = Rank(Back)
      BY <1>0, <1>9, <2>3, ItemPlace
    <3>2. n = Back
      BY <1>0, <1>4, <2>1, <3>1, SlotAtRank DEF Place
    <3> QED BY <1>8, <2>2, <2>3, <3>2
  <2>4. CASE i # k + 1
    <3>1. i \in 1 .. Rank(Back) - Rank(Front)
      BY <1>9, <1>10, <2>4
    <3>2. n # Back
      BY <1>0, <2>1, <3>1, ItemPlace
    <3> QED BY <1>7, <2>1, <2>2, <2>4, <3>2
  <2> QED BY <2>3, <2>4
<1>14. Items' = Append(Items, call[t].val)
  <2>1. Items' = [i \in 1 .. k + 1 |-> IF i = k + 1 THEN call[t].val ELSE ValueAt(Place(i))]
    BY <1>12, <1>13
  <2> QED BY <1>10, <1>11, <2>1
<1>15. Calls' = [Calls EXCEPT ![t] = Q!Ask("ok")]
  <2>1. ASSUME NEW n, NEW u, u \in Threads /\ u # t /\ pc[u] \in Popping /\ n = Mine(u) PROVE ValueAt(n)' = ValueAt(n)
    <3>1. pc[u] \in Filling \cup Emptying
      BY <2>1 DEF Emptying
    <3>2. n # Back
      BY <1>0, <2>1, <3>1, MyPlace
    <3> QED BY <1>7, <3>2
  <2>2. \A n, u : u \in Threads /\ u # t /\ pc[u] \in Popping /\ n = Mine(u) => ValueAt(n)' = ValueAt(n)
    BY <2>1
  <2>3. \A n : l \in Popping /\ n = At(seen[t]) => None = ValueAt(n)'
    BY <1>3
  <2>4. Calls' = [Calls EXCEPT ![t] = Seen(l, call[t], None)]
    BY <1>0, <1>2, <2>2, <2>3, CallsAfter
  <2> QED BY <1>3, <2>4
<1>16. Calls[t] = call[t] /\ call[t].op = "push"
  <2>1. PICK v : call[t] = Q!AskPush(v)
    BY <1>0, <1>1, CallsNow
  <2>2. \A x : Seen(pc[t], call[t], x) = call[t]
    BY <1>1 DEF Seen
  <2> QED BY <2>1, <2>2, SeenNow DEF Q!AskPush, Q!Said
<1>17. Marked(tail'.index) = Marked(tail.index)
  BY <1>5 DEF Marked
<1>18. Q!Push(t)
  BY <1>0, <1>4, <1>14, <1>15, <1>16, <1>17 DEF Q!Push, Q!Answer, Q!IsFull
<1> QED BY <1>18, FifoSteps

\* A sequence without its first element.
LEMMA TailOf ==
    ASSUME NEW n \in Nat, n >= 1, NEW S, NEW f \in [1 .. n -> S],
           NEW g \in [1 .. n - 1 -> S], \A i \in 1 .. n - 1 : g[i] = f[i + 1]
    PROVE  f # <<>> /\ Head(f) = f[1] /\ Tail(f) = g
<1>1. f \in Seq(S) /\ f # <<>> /\ Len(f) = n
  OBVIOUS
<1>2. Head(f) = f[1]
  BY <1>1
<1>3. PICK h \in Seq(S) : h = Tail(f) /\ Len(h) = n - 1 /\ \A i \in 1 .. n - 1 : h[i] = f[i + 1]
  BY <1>1
<1>4. h \in [1 .. n - 1 -> S]
  <2>1. h \in [1 .. Len(h) -> S]
    OBVIOUS
  <2> QED BY <1>3, <2>1, Zenon
<1>5. h = g
  BY <1>3, <1>4
<1> QED BY <1>1, <1>2, <1>3, <1>5

\* The pop that moves head on takes the first item: Pop of Fifo.
LEMMA PopTakesRefines ==
    ASSUME InLife, NEW t \in Threads, PopTake(t), head.index = seen[t], head'.index = aux[t], seen' = seen
    PROVE  Q!Next
<1>0. /\ TypeOK /\ TailInv /\ ThreadsInv /\ OwnersInv /\ OwnersInv' /\ lap' = lap /\ dropped = <<None>> /\ dropped' = <<None>>
      /\ lap \in Nat /\ lap >= 2 /\ Front \in Nat /\ Back \in Nat /\ Front <= Back
      /\ Knows(pc[t], call[t], seen[t], block[t], aux[t]) /\ Front = At(head.index)
  BY Around DEF InLife, Live
<1>1. pc[t] = "poptake" /\ pc[t] \notin Filling \cup Popping /\ pc[t] \notin Pushing /\ UNCHANGED <<tail, blocks, dropped>>
  BY DEF PopTake, Filling, Pushing, Popping
<1>2. PICK l \in {"waitnext", "read"} : Moves(t, l, call[t], seen[t], block[t], aux[t])
  <2>1. aux[t] # seen[t]
    <3>1. At(aux[t]) = At(seen[t]) + 1 /\ At(seen[t]) \in Nat
      BY <1>0, <1>1 DEF Knows, PopKnows
    <3> QED BY <3>1
  <2> QED BY <1>0, <1>1, <2>1 DEF PopTake, Moves, TypeOK, Goto
<1>3. l \in Popping /\ l \notin Pushing /\ \A v : Seen(l, call[t], v) = Q!Popped(v)
  BY DEF Pushing, Popping, Seen, Filling
<1>4. At(seen[t]) = Front /\ HasSlot(Front) /\ Front < Back /\ At(aux[t]) = Front + 1
  BY <1>0, <1>1 DEF Knows, PopKnows
<1>5. Front' = Front + 1 /\ Back' = Back
  BY <1>1, <1>4 DEF Front, Back
<1>6. Rank(Front)' = Rank(Front) + 1 /\ Rank(Back)' = Rank(Back)
  <2>1. \A n : n = Front + 1 => Rank(n)' = Rank(Front) + 1
    BY <1>0, <1>4, RankNext, SamePlaces
  <2> QED BY <1>5, <2>1, <1>0 DEF Rank
<1>7. ASSUME NEW n PROVE ValueAt(n)' = ValueAt(n)
  <2>1. Cell(n)' = Cell(n)
    BY <1>0, <1>1 DEF Cell, BlockOf, Off
  <2> QED BY <1>0, <1>1, <1>2, <1>3, <2>1, ValueKept
<1>8. PICK k : k = Rank(Back) - Rank(Front)
  OBVIOUS
<1>9. k \in Nat /\ k >= 1 /\ Rank(Front) \in Nat
  BY <1>0, <1>4, <1>8, ItemPlace, RankOrder
<1>10. Items = [i \in 1 .. k |-> ValueAt(Place(i))]
  BY <1>8 DEF Items, Place, Front, Back
<1>11. Items' = [i \in 1 .. k - 1 |-> ValueAt(Place(i))']
  <2>1. Rank(Back)' - Rank(Front)' = k - 1
    BY <1>0, <1>6, <1>8, ItemPlace
  <2>2. Items' = [i \in 1 .. Rank(Back)' - Rank(Front)' |-> ValueAt(Place(i))']
    BY DEF Items, Place, Front, Back
  <2> QED BY <2>1, <2>2
<1>12. ASSUME NEW i \in 1 .. k - 1 PROVE ValueAt(Place(i))' = ValueAt(Place(i + 1))
  <2>1. PICK n : n = Place(i + 1)
    OBVIOUS
  <2>2. Place(i)' = n
    <3>1. (Rank(Front) + 1) + i - 1 = Rank(Front) + (i + 1) - 1
      BY <1>9
    <3>2. Place(i)' = SlotAt(Rank(Front)' + i - 1)
      BY <1>0 DEF Place, SlotAt, BlockCap
    <3> QED BY <1>6, <2>1, <3>1, <3>2 DEF Place
  <2> QED BY <1>7, <2>1, <2>2
<1>13. Place(1) = Front
  <2>1. Rank(Front) + 1 - 1 = Rank(Front)
    BY <1>9
  <2> QED BY <1>0, <1>4, <2>1, SlotAtRank DEF Place
<1>14. Items' = Tail(Items) /\ Items # <<>> /\ Head(Items) = ValueAt(Front)
  <2>1. Items' = [i \in 1 .. k - 1 |-> ValueAt(Place(i + 1))]
    BY <1>11, <1>12
  <2>2. PICK f, g : f = Items /\ g = Items'
    OBVIOUS
  <2>5. PICK S : f \in [1 .. k -> S] /\ g \in [1 .. k - 1 -> S]
    <3> DEFINE V == {ValueAt(Place(i)) : i \in 1 .. k}
    <3>1. f \in [1 .. k -> V]
      BY <1>10, <2>2
    <3>2. \A i \in 1 .. k - 1 : ValueAt(Place(i + 1)) \in V
      <4> TAKE i \in 1 .. k - 1
      <4>1. i + 1 \in 1 .. k
        BY <1>9
      <4> QED BY <4>1
    <3> HIDE DEF V
    <3>3. g \in [1 .. k - 1 -> V]
      BY <2>1, <2>2, <3>2
    <3> QED BY <3>1, <3>3
  <2>6. \A i \in 1 .. k - 1 : g[i] = f[i + 1]
    BY <1>9, <1>10, <2>1, <2>2
  <2>3. f # <<>> /\ Head(f) = f[1] /\ Tail(f) = g
    BY <1>9, <2>5, <2>6, TailOf
  <2>4. Items[1] = ValueAt(Front)
    BY <1>9, <1>10, <1>13
  <2> QED BY <2>2, <2>3, <2>4
<1>15. Calls' = [Calls EXCEPT ![t] = Q!Popped(ValueAt(Front))]
  <2>1. PICK v : v = ValueAt(Front)
    OBVIOUS
  <2>2. \A n, u : u \in Threads /\ u # t /\ pc[u] \in Popping /\ n = Mine(u) => ValueAt(n)' = ValueAt(n)
    BY <1>7
  <2>3. \A n : l \in Popping /\ n = At(seen[t]) => v = ValueAt(n)'
    BY <1>4, <1>7, <2>1
  <2>4. Calls' = [Calls EXCEPT ![t] = Seen(l, call[t], v)]
    BY <1>0, <1>2, <2>2, <2>3, CallsAfter
  <2> QED BY <1>3, <2>1, <2>4
<1>16. Calls[t] = call[t] /\ call[t].op = "pop"
  <2>1. call[t] = Q!Ask("pop")
    BY <1>0, <1>1, CallsNow
  <2>2. \A v : Seen(pc[t], call[t], v) = call[t]
    BY <1>1 DEF Seen
  <2> QED BY <2>1, <2>2, SeenNow DEF Q!Ask, Q!Said
<1>17. Q!Pop(t)
  BY <1>0, <1>1, <1>14, <1>15, <1>16 DEF Q!Pop, Q!Answer
<1> QED BY <1>17, FifoSteps

\* The drop hands on the items in their order: Drop of Fifo.
LEMMA DropRefines ==
    ASSUME LapsOK, TypeOK, Live, lap' = lap, Drop
    PROVE  Q!Next
<1>1. /\ \A t \in Threads : pc[t] = "idle" /\ call[t] = Q!Idle
      /\ dropped = <<None>> /\ tail' = tail /\ pc' = pc /\ call' = call
  BY DEF Drop, TypeOK, CallOK, Q!Alive, Filling, Pushing, Popping, Freeing
<1>2. dropped' # <<None>> /\ dropped' = [i \in 1 .. Rank(Back) - Rank(Front) |-> Cell(Place(i)).value]
  BY DropStep
<1>3. \A n : ValueAt(n) = Cell(n).value
  <2>1. ValuesKnown
    BY ValueFacts DEF Live
  <2>2. \A t \in Threads : pc[t] \notin Pushing
    BY <1>1 DEF Pushing
  <2> QED BY <2>1, <2>2 DEF ValuesKnown
<1>4. dropped' = Items
  <2>1. Items = [i \in 1 .. Rank(Back) - Rank(Front) |-> ValueAt(Place(i))]
    BY DEF Items, Place, Front, Back
  <2> QED BY <1>2, <1>3, <2>1
<1>5. Calls = [t \in Threads |-> Q!Idle] /\ Calls' = [t \in Threads |-> Q!Idle]
  BY <1>1 DEF Calls, Pushing, Popping
<1>6. Q!Drop
  BY <1>1, <1>2, <1>4, <1>5 DEF Q!Drop, Q!Alive
<1> QED BY <1>6 DEF Q!Next

\* What a step of one thread shows.
LEMMA StepRefines ==
    ASSUME InLife, ClosedSeen, NEW t \in Threads, Call(t) \/ Step(t)
    PROVE  Q!Next \/ UNCHANGED Q!fvars
<1>1. CASE Call(t) \/ Return(t)
  BY <1>1, AnswersRefine
<1>2. CASE PushIndex(t) \/ PopIndex(t) \/ PopBlock(t) \/ PopWaitNext(t) \/ PopNextNext(t) \/ LenTail(t)
  BY <1>2, LocalHidden
<1>3. CASE PushBlock(t)
  BY <1>3, LocalHidden, AnswersRefine
<1>4. CASE PushFirst(t) \/ PushFirstHead(t) \/ PushSetBlock(t) \/ PushSetIndex(t) \/ PushSetNext(t) \/ PopHeadBlock(t) \/ PopHeadIndex(t)
  BY <1>4, LinksHidden
<1>5. CASE PushTake(t)
  <2>1. \/ pc[t] = "take" /\ See(t, tail.index) /\ Goto(t, "pushblock") /\ UNCHANGED <<shared, call, block, aux>>
        \/ tail.index = seen[t] /\ tail'.index = tail.index + 2 /\ seen' = seen
    BY <1>5 DEF PushTake, shared, InLife, TypeOK
  <2> QED BY <1>5, <2>1, LocalHidden, PushTakesRefines
<1>6. CASE PopTake(t)
  <2>1. \/ pc[t] = "poptake" /\ See(t, head.index) /\ Goto(t, "popblock") /\ UNCHANGED <<shared, call, block, aux>>
        \/ head.index = seen[t] /\ head'.index = aux[t] /\ seen' = seen
    BY <1>6 DEF PopTake, shared, InLife, TypeOK
  <2> QED BY <1>6, <2>1, LocalHidden, PopTakesRefines
<1>7. CASE PopTail(t)
  BY <1>7, LocalHidden, AnswersRefine
<1>8. CASE PushWrite(t) \/ PushPublish(t) \/ PopRead(t) \/ PopSetRead(t) \/ DestroyHandOver(t)
  BY <1>8, SlotsHidden
<1>9. CASE Destroy(t)
  BY <1>9, LocalHidden, FreeHidden
<1>10. CASE LenHead(t) \/ LenAgain(t) \/ Close(t)
  BY <1>10, LocalHidden, LensRefine
<1> QED BY <1>1, <1>2, <1>3, <1>4, <1>5, <1>6, <1>7, <1>8, <1>9, <1>10 DEF Step

\* Every step of the queue is one of Fifo, or shows nothing.
LEMMA NextRefines ==
    ASSUME LapsOK, Inv, ClosedSeen, [Next]_vars
    PROVE  [Q!Next]_(Q!fvars)
<1>1. CASE UNCHANGED vars
  <2>1. \A n : ValueAt(n)' = ValueAt(n)
    BY <1>1 DEF vars, ValueAt, Pushing, At
  <2>2. Items' = Items
    BY <1>1, <2>1 DEF vars, Items, Rank, SlotAt, BlockCap, At
  <2>3. Calls' = Calls
    BY <1>1, <2>1 DEF vars, Calls, Pushing, Popping, At
  <2> QED BY <1>1, <2>2, <2>3 DEF vars, Q!fvars, Marked
<1>2. ASSUME lap' = lap, Drop PROVE Q!Next
  <2>1. TypeOK /\ Live
    BY <1>2 DEF Drop, Inv
  <2> QED BY <1>2, <2>1, DropRefines
<1>3. ASSUME lap' = lap, NEW t \in Threads, Call(t) \/ Step(t) PROVE Q!Next \/ UNCHANGED Q!fvars
  <2>1. Q!Alive
    BY <1>3, StepsOfLive
  <2>2. TypeOK /\ Live /\ TypeOK' /\ Live' /\ dropped' = dropped
    BY <1>3, <2>1, StepKeeps DEF Inv
  <2>3. InLife
    BY <1>3, <2>1, <2>2 DEF InLife, Q!Alive
  <2> QED BY <1>3, <2>3, StepRefines
<1> QED BY <1>1, <1>2, <1>3 DEF Next

\* A queue that is empty at first.
LEMMA InitRefines == ASSUME LapsOK, Init PROVE Q!Init
<1>1. TypeOK /\ TailInv
  <2>1. Inv /\ Q!Alive
    BY InitInv DEF Init, Q!Alive
  <2> QED BY <2>1 DEF Inv, Live
<1>2. Items = <<>>
  <2>1. Front = Back
    BY DEF Init, Front, Back
  <2>2. Rank(Back) - Rank(Front) = 0
    BY <1>1, <2>1, ItemPlace
  <2> QED BY <2>2 DEF Items, Front, Back
<1>3. Calls = [t \in Threads |-> Q!Idle]
  BY DEF Init, Calls, Pushing, Popping
<1>4. Marked(tail.index) = FALSE
  BY DEF Init, Marked
<1> QED BY <1>2, <1>3, <1>4 DEF Init, Q!Init

\* The linked queue of blocks (queue/unbounded.rs) is a closable FIFO without a bound:
\* push, pop, len, close and the drop each take effect at one instant.
THEOREM UnboundedQueueIsFifo ==
    ASSUME Laps \subseteq Nat \ {0, 1}, None \notin Values
    PROVE  Spec => ImplementsFifo
<1>0. LapsOK
  BY DEF LapsOK
<1>1. Init => Inv /\ ClosedSeen /\ Q!Init
  BY <1>0, InitInv, ClosedStays, InitRefines
<1>2. Inv /\ ClosedSeen /\ [Next]_vars => Inv' /\ ClosedSeen' /\ [Q!Next]_(Q!fvars)
  BY <1>0, InvStep, ClosedStays, NextRefines
<1> QED BY <1>1, <1>2, PTL DEF Spec, ImplementsFifo, Q!Spec
=============================================================================
