------------------------------- MODULE Colo --------------------------------
(***************************************************************************)
(* utils/colo.rs: the slab that keeps the executor's wakers and the        *)
(* reactor's sources and wakers.  Vacant slots form a list through the     *)
(* vector, from head; !0 ends it.  Keys count from 0.                      *)
(***************************************************************************)
EXTENDS Integers, Sequences, FiniteSets

CONSTANTS Objects, MaxSlots   \* bound: the longest vector

VARIABLES
    slots, limited, len, head,  \* the fields of Colo
    held,                       \* the objects it kept, by the key their callers got
    inserted                    \* what insert answered, if it was the last call

cvars == <<slots, limited, len, head, held, inserted>>

End == -1     \* !0
Vacant(n)   == <<"vacant", n>>
Occupied(o) == <<"occupied", o>>
IsOccupied(i) == slots[i + 1][1] = "occupied"
Index == 0 .. Len(slots) - 1

CInit ==
    /\ slots = <<>> /\ len = 0 /\ head = End
    /\ limited \in {0, 2}     \* new, with_capacity, or with_limited(2)
    /\ held = <<>> /\ inserted = {}

next_vacant == IF head = End THEN len ELSE head

Put(k, o) == [j \in DOMAIN held \cup {k} |-> IF j = k THEN o ELSE held[j]]
Answer(k, o, kept) == {[key |-> k, object |-> o, used |-> k \in DOMAIN held, kept |-> kept]}

\* at the limit the object is dropped and its caller told usize::MIN
InsertFull(o) ==
    /\ limited # 0 /\ len = limited
    /\ inserted' = Answer(0, o, FALSE)
    /\ UNCHANGED <<slots, limited, len, head, held>>

Insert(o) ==
    /\ ~(limited # 0 /\ len = limited)
    /\ head # End \/ Len(slots) < MaxSlots
    /\ len' = len + 1
    /\ IF head = End
       THEN /\ slots' = Append(slots, Occupied(o))
            /\ held' = Put((len + 1) - 1, o)
            /\ inserted' = Answer((len + 1) - 1, o, TRUE)
            /\ UNCHANGED head
       ELSE /\ head' = slots[head + 1][2]
            /\ slots' = [slots EXCEPT ![head + 1] = Occupied(o)]
            /\ held' = Put(head, o)
            /\ inserted' = Answer(head, o, TRUE)
    /\ UNCHANGED limited

Forget(ks) == [k \in DOMAIN held \ ks |-> held[k]]

\* mutant: the slot that is vacated ends the list of vacant slots
RemoveUnlinked(i) ==
    /\ i \in Index /\ IsOccupied(i)
    /\ slots' = [slots EXCEPT ![i + 1] = Vacant(End)]
    /\ head' = i /\ len' = len - 1
    /\ held' = Forget({i}) /\ UNCHANGED limited

Remove(i) ==
    /\ i \in Index /\ IsOccupied(i)
    /\ slots' = [slots EXCEPT ![i + 1] = Vacant(head)]
    /\ head' = i /\ len' = len - 1
    /\ held' = Forget({i}) /\ UNCHANGED limited

\* retain, of which ks are refused: they are removed in the order of their keys
Before(ks, i) == {j \in ks : j < i}
NextVacant(ks, i) == IF Before(ks, i) = {} THEN head
                     ELSE CHOOSE j \in Before(ks, i) : \A k \in Before(ks, i) : k <= j
Retain(ks) ==
    /\ ks # {} /\ ks \subseteq {i \in Index : IsOccupied(i)}
    /\ slots' = [n \in DOMAIN slots |-> IF n - 1 \in ks THEN Vacant(NextVacant(ks, n - 1)) ELSE slots[n]]
    /\ head' = NextVacant(ks, Len(slots)) /\ len' = len - Cardinality(ks)
    /\ held' = Forget(ks) /\ UNCHANGED limited

Clear == slots' = <<>> /\ len' = 0 /\ head' = End /\ held' = <<>> /\ UNCHANGED limited

Swap(a, b) ==
    /\ {a, b} \subseteq Index /\ IsOccupied(a) /\ IsOccupied(b)
    /\ slots' = [slots EXCEPT ![a + 1] = slots[b + 1], ![b + 1] = slots[a + 1]]
    /\ held' = [held EXCEPT ![a] = held[b], ![b] = held[a]]
    /\ UNCHANGED <<limited, len, head>>

CNext ==
    \/ \E o \in Objects : Insert(o) \/ InsertFull(o)
    \/ /\ inserted' = {}
       /\ \/ Clear
          \/ \E i \in 0 .. MaxSlots - 1 : Remove(i) \/ \E j \in 0 .. MaxSlots - 1 : Swap(i, j)
          \/ \E ks \in SUBSET (0 .. MaxSlots - 1) : Retain(ks)

-----------------------------------------------------------------------------
get(i) == IF i \in Index /\ IsOccupied(i) THEN <<slots[i + 1][2]>> ELSE <<>>
\* the k-th key of the list of vacant slots
Free[k \in 0 .. MaxSlots] ==
    IF k = 0 THEN head ELSE IF Free[k - 1] = End THEN End ELSE slots[Free[k - 1] + 1][2]

\* After any sequence of calls a key finds the object that the slab keeps under
\* it and nothing else, len counts them, the list from head runs once through
\* every vacant slot, and next_vacant is not in use.  A key that insert answers
\* was not in use and finds the caller's object, with one exception, the code's:
\* of a slab at its limit the object is dropped, and the 0 that is answered is
\* the key of another object.
SlabSound ==
    /\ \A i \in 0 .. MaxSlots : get(i) = IF i \in DOMAIN held THEN <<held[i]>> ELSE <<>>
    /\ len = Cardinality(DOMAIN held)
    /\ {Free[k] : k \in 0 .. MaxSlots} \ {End} = Index \ DOMAIN held
    /\ Free[Len(slots) - len] = End
    /\ next_vacant \notin DOMAIN held /\ next_vacant <= Len(slots)
    /\ \A a \in inserted : IF a.kept THEN ~a.used /\ get(a.key) = <<a.object>>
                                     ELSE a.used /\ limited # 0 /\ len = limited
=============================================================================
