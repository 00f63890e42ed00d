--------------------------- MODULE UnboundedQueue ----------------------------
(***************************************************************************)
(* platform/queue/unbounded.rs: the linked queue of blocks.  A word of     *)
(* head or tail is a position and, in its lowest bit, a mark: closed in    *)
(* tail, "not in the last block" in head.  The last position of every lap  *)
(* has no slot: a word rests there while a thread moves to the next block. *)
(***************************************************************************)
EXTENDS Integers, Sequences

CONSTANTS
    Threads, Values, None,
    Laps,     \* the values of LAP to consider, powers of two
    MaxPush   \* bound: no push is called once so many took a slot

VARIABLES
    lap,        \* LAP; a block has one slot less
    head, tail, \* [index: the word, block: a pointer, 0 when null]
    blocks,     \* the blocks ever linked; a pointer is a position of it
    pc, call,
    seen,       \* the word of head or tail the thread works on
    block,      \* the pointer it works on
    aux,        \* pop: new_head, then next_index, then destroy's i; len: head
    dropped     \* see Fifo

vars == <<lap, head, tail, blocks, pc, call, seen, block, aux, dropped>>

-----------------------------------------------------------------------------
BlockCap == lap - 1
Offsets  == 0 .. BlockCap - 1

NewBlock == [next |-> 0, frees |-> 0,
             slots |-> [i \in Offsets |-> [value |-> None, written |-> FALSE,
                                           read |-> FALSE, destroy |-> FALSE]]]

At(w)     == w \div 2
Marked(w) == w % 2 = 1
Unmark(w) == At(w) * 2
Mark(w)   == Unmark(w) + 1
Offset(w) == At(w) % lap
LapOf(w)  == At(w) \div lap

\* how many slots lie before a position, and the position of the k-th slot
Rank(n)   == n - (n \div lap)
SlotAt(k) == (k \div BlockCap) * lap + (k % BlockCap)

\* len's arithmetic, on the words of tail and head
LenOf(t, h) ==
    LET Up(n) == IF n % lap = lap - 1 THEN n + 1 ELSE n
        laps  == Up(At(h)) \div lap
        tl    == Up(At(t)) - laps * lap
        hd    == Up(At(h)) - laps * lap
    IN  tl - hd - (tl \div lap)

\* What the queue holds: a push takes effect when it moves tail, before it
\* writes its slot, and a pop when it moves head, before it reads.
Pushing == {"setblock", "setindex", "setnext", "write"}
Popping == {"waitnext", "nextnext", "headblock", "headindex", "read"}
ValueAt(n) ==
    LET W == {t \in Threads : pc[t] \in Pushing /\ At(seen[t]) = n}
    IN  IF W = {} THEN blocks[(n \div lap) + 1].slots[n % lap].value
        ELSE call[CHOOSE t \in W : TRUE].val
Items == [i \in 1 .. Rank(At(tail.index)) - Rank(At(head.index)) |->
            ValueAt(SlotAt(Rank(At(head.index)) + i - 1))]

Calls == [t \in Threads |->
            CASE pc[t] \in Pushing \cup {"publish"} -> [op |-> "ok", val |-> None, num |-> 0]
              [] pc[t] \in Popping -> [op |-> "popped", val |-> ValueAt(At(seen[t])), num |-> 0]
              [] OTHER -> call[t]]

Q == INSTANCE Fifo WITH items <- IF dropped = <<None>> THEN Items ELSE <<>>,
                        closed <- Marked(tail.index), call <- Calls,
                        Cap <- 0, Strict <- TRUE

-----------------------------------------------------------------------------
Init ==
    /\ lap \in Laps
    /\ head = [index |-> 0, block |-> 0] /\ tail = [index |-> 0, block |-> 0]
    /\ blocks = <<>>
    /\ pc = [t \in Threads |-> "idle"] /\ call = [t \in Threads |-> Q!Idle]
    /\ seen = [t \in Threads |-> 0] /\ block = [t \in Threads |-> 0]
    /\ aux = [t \in Threads |-> 0] /\ dropped = <<None>>

shared == <<head, tail, blocks, dropped>>
locals == <<seen, block, aux>>

Goto(t, l)   == pc' = [pc EXCEPT ![t] = l]
Answer(t, a) == Goto(t, "return") /\ call' = [call EXCEPT ![t] = a]
See(t, w)    == seen' = [seen EXCEPT ![t] = w]
Load(t, b)   == block' = [block EXCEPT ![t] = b]
SetAux(t, n) == aux' = [aux EXCEPT ![t] = n]

MySlot(t) == blocks[block[t]].slots[Offset(seen[t])]
IsLast(t) == Offset(seen[t]) + 1 = BlockCap
NextOf(t) == blocks[block[t]].next

Call(t) ==
    /\ Q!Alive /\ pc[t] = "idle"
    /\ \E q \in Q!Questions :
          /\ q.op = "push" => Rank(At(tail.index)) < MaxPush
          /\ call' = [call EXCEPT ![t] = q] /\ Goto(t, q.op)
    /\ UNCHANGED <<shared, locals>>

Return(t) ==
    /\ pc[t] = "return"
    /\ Goto(t, "idle") /\ call' = [call EXCEPT ![t] = Q!Idle]
    /\ See(t, 0) /\ Load(t, 0) /\ SetAux(t, 0)
    /\ UNCHANGED shared

(***************************************************************************)
(* push.  The block allocated ahead (next_block) is the thread's own until *)
(* it is linked, and dropped with it otherwise: only linking shows here.   *)
(***************************************************************************)
PushIndex(t) ==
    /\ pc[t] = "push"
    /\ See(t, tail.index) /\ Goto(t, "pushblock")
    /\ UNCHANGED <<shared, call, block, aux>>

PushBlock(t) ==
    /\ pc[t] = "pushblock"
    /\ Load(t, tail.block)
    /\ IF Marked(seen[t]) THEN Answer(t, Q!Ask("closed"))
       ELSE /\ Goto(t, IF Offset(seen[t]) = BlockCap THEN "push"
                       ELSE IF tail.block = 0 THEN "first" ELSE "take")
            /\ UNCHANGED call
    /\ UNCHANGED <<shared, seen, aux>>

\* the first block: one thread links it in tail, then in head
PushFirst(t) ==
    /\ pc[t] = "first"
    /\ \/ /\ tail.block = 0
          /\ blocks' = Append(blocks, NewBlock)
          /\ tail' = [tail EXCEPT !.block = Len(blocks')] /\ Load(t, Len(blocks'))
          /\ Goto(t, "firsthead")
       \/ /\ tail.block # 0
          /\ Goto(t, "push") /\ UNCHANGED <<tail, blocks, block>>
    /\ UNCHANGED <<head, call, seen, aux, dropped>>

PushFirstHead(t) ==
    /\ pc[t] = "firsthead"
    /\ head' = [head EXCEPT !.block = block[t]]
    /\ Goto(t, "take")
    /\ UNCHANGED <<tail, blocks, call, locals, dropped>>

\* the exchange is weak: it may also fail on the word it expects
PushTake(t) ==
    /\ pc[t] = "take"
    /\ \/ /\ tail.index = seen[t]
          /\ tail' = [tail EXCEPT !.index = @ + 2]
          /\ Goto(t, IF IsLast(t) THEN "setblock" ELSE "write")
          /\ UNCHANGED seen
       \/ /\ See(t, tail.index) /\ Goto(t, "pushblock")
          /\ UNCHANGED tail
    /\ UNCHANGED <<head, blocks, call, block, aux, dropped>>

PushSetBlock(t) ==
    /\ pc[t] = "setblock"
    /\ blocks' = Append(blocks, NewBlock)
    /\ tail' = [tail EXCEPT !.block = Len(blocks')]
    /\ Goto(t, "setindex")
    /\ UNCHANGED <<head, call, locals, dropped>>

PushSetIndex(t) ==
    /\ pc[t] = "setindex"
    /\ tail' = [tail EXCEPT !.index = @ + 2]
    /\ Goto(t, "setnext")
    /\ UNCHANGED <<head, blocks, call, locals, dropped>>

PushSetNext(t) ==
    /\ pc[t] = "setnext"
    /\ blocks' = [blocks EXCEPT ![block[t]].next = block[t] + 1]
    /\ Goto(t, "write")
    /\ UNCHANGED <<head, tail, call, locals, dropped>>

PushWrite(t) ==
    /\ pc[t] = "write"
    /\ blocks' = [blocks EXCEPT ![block[t]].slots[Offset(seen[t])].value = call[t].val]
    /\ Goto(t, "publish")
    /\ UNCHANGED <<head, tail, call, locals, dropped>>

PushPublish(t) ==
    /\ pc[t] = "publish"
    /\ blocks' = [blocks EXCEPT ![block[t]].slots[Offset(seen[t])].written = TRUE]
    /\ Answer(t, Q!Ask("ok"))
    /\ UNCHANGED <<head, tail, locals, dropped>>

(***************************************************************************)
(* pop                                                                     *)
(***************************************************************************)
PopIndex(t) ==
    /\ pc[t] = "pop"
    /\ See(t, head.index) /\ Goto(t, "popblock")
    /\ UNCHANGED <<shared, call, block, aux>>

PopBlock(t) ==
    /\ pc[t] = "popblock"
    /\ Load(t, head.block) /\ SetAux(t, seen[t] + 2)
    /\ Goto(t, IF Offset(seen[t]) = BlockCap THEN "pop"
               ELSE IF ~Marked(seen[t]) THEN "poptail"
               ELSE IF head.block = 0 THEN "pop" ELSE "poptake")
    /\ UNCHANGED <<shared, call, seen>>

\* head may be in the last block: tail decides
PopTail(t) ==
    /\ pc[t] = "poptail"
    /\ \/ /\ At(seen[t]) = At(tail.index)
          /\ Answer(t, Q!Ask(IF Marked(tail.index) THEN "closed" ELSE "empty"))
          /\ UNCHANGED aux
       \/ /\ At(seen[t]) # At(tail.index)
          /\ IF LapOf(seen[t]) # LapOf(tail.index) THEN SetAux(t, Mark(aux[t]))
             ELSE UNCHANGED aux
          /\ Goto(t, IF block[t] = 0 THEN "pop" ELSE "poptake")
          /\ UNCHANGED call
    /\ UNCHANGED <<shared, seen, block>>

PopTake(t) ==
    /\ pc[t] = "poptake"
    /\ \/ /\ head.index = seen[t]
          /\ head' = [head EXCEPT !.index = aux[t]]
          /\ Goto(t, IF IsLast(t) THEN "waitnext" ELSE "read")
          /\ UNCHANGED seen
       \/ /\ See(t, head.index) /\ Goto(t, "popblock")
          /\ UNCHANGED head
    /\ UNCHANGED <<tail, blocks, call, block, aux, dropped>>

PopWaitNext(t) ==
    /\ pc[t] = "waitnext" /\ NextOf(t) # 0
    /\ SetAux(t, Unmark(aux[t]) + 2)
    /\ Goto(t, "nextnext")
    /\ UNCHANGED <<shared, call, seen, block>>

\* mutant: the next block is taken not to be the last without looking
PopNextMarks(t) ==
    /\ pc[t] = "nextnext"
    /\ SetAux(t, Mark(aux[t]))
    /\ Goto(t, "headblock")
    /\ UNCHANGED <<shared, call, seen, block>>

\* next_index is marked when the next block is not the last either
PopNextNext(t) ==
    /\ pc[t] = "nextnext"
    /\ IF blocks[NextOf(t)].next # 0 THEN SetAux(t, Mark(aux[t])) ELSE UNCHANGED aux
    /\ Goto(t, "headblock")
    /\ UNCHANGED <<shared, call, seen, block>>

PopHeadBlock(t) ==
    /\ pc[t] = "headblock"
    /\ head' = [head EXCEPT !.block = NextOf(t)]
    /\ Goto(t, "headindex")
    /\ UNCHANGED <<tail, blocks, call, locals, dropped>>

PopHeadIndex(t) ==
    /\ pc[t] = "headindex"
    /\ head' = [head EXCEPT !.index = aux[t]]
    /\ Goto(t, "read")
    /\ UNCHANGED <<tail, blocks, call, locals, dropped>>

\* wait_write, then the read
PopRead(t) ==
    /\ pc[t] = "read" /\ MySlot(t).written
    /\ call' = [call EXCEPT ![t] = Q!Popped(MySlot(t).value)]
    /\ blocks' = [blocks EXCEPT ![block[t]].slots[Offset(seen[t])].value = None]
    /\ IF IsLast(t) THEN Goto(t, "destroy") /\ SetAux(t, 0)
       ELSE Goto(t, "setread") /\ UNCHANGED aux
    /\ UNCHANGED <<head, tail, seen, block, dropped>>

PopSetRead(t) ==
    /\ pc[t] = "setread"
    /\ blocks' = [blocks EXCEPT ![block[t]].slots[Offset(seen[t])].read = TRUE]
    /\ IF MySlot(t).destroy THEN Goto(t, "destroy") /\ SetAux(t, Offset(seen[t]) + 1)
       ELSE Goto(t, "return") /\ UNCHANGED aux
    /\ UNCHANGED <<head, tail, call, seen, block, dropped>>

\* a freed block keeps nothing
Freed(b) == [NewBlock EXCEPT !.next = b.next, !.frees = b.frees + 1]

\* mutant: the block is freed while another pop still reads a slot of it
DestroyNow(t) ==
    /\ pc[t] = "destroy"
    /\ blocks' = [blocks EXCEPT ![block[t]] = Freed(@)]
    /\ Goto(t, "return") /\ UNCHANGED aux
    /\ UNCHANGED <<head, tail, call, seen, block, dropped>>

\* destroy: whoever finds every slot before the last one read frees the block
Destroy(t) ==
    /\ pc[t] = "destroy"
    /\ IF aux[t] = BlockCap - 1
       THEN /\ blocks' = [blocks EXCEPT ![block[t]] = Freed(@)]
            /\ Goto(t, "return") /\ UNCHANGED aux
       ELSE /\ IF blocks[block[t]].slots[aux[t]].read
               THEN SetAux(t, aux[t] + 1) /\ UNCHANGED pc
               ELSE Goto(t, "handover") /\ UNCHANGED aux
            /\ UNCHANGED blocks
    /\ UNCHANGED <<head, tail, call, seen, block, dropped>>

DestroyHandOver(t) ==
    /\ pc[t] = "handover"
    /\ blocks' = [blocks EXCEPT ![block[t]].slots[aux[t]].destroy = TRUE]
    /\ IF blocks[block[t]].slots[aux[t]].read
       THEN Goto(t, "destroy") /\ SetAux(t, aux[t] + 1)
       ELSE Goto(t, "return") /\ UNCHANGED aux
    /\ UNCHANGED <<head, tail, call, seen, block, dropped>>

(***************************************************************************)
(* len, close and the drop                                                 *)
(***************************************************************************)
LenTail(t) ==
    /\ pc[t] = "len"
    /\ See(t, tail.index) /\ Goto(t, "lenhead")
    /\ UNCHANGED <<shared, call, block, aux>>

\* the length at this moment is noted in call, for the refinement only
LenHead(t) ==
    /\ pc[t] = "lenhead"
    /\ SetAux(t, head.index) /\ Goto(t, "lenagain")
    /\ call' = [call EXCEPT ![t] = Q!Looked(Len(Items))]
    /\ UNCHANGED <<shared, seen, block>>

LenAgain(t) ==
    /\ pc[t] = "lenagain"
    /\ IF tail.index = seen[t] THEN Answer(t, Q!Length(LenOf(seen[t], aux[t])))
       ELSE Goto(t, "len") /\ UNCHANGED call
    /\ UNCHANGED <<shared, locals>>

Close(t) ==
    /\ pc[t] = "close"
    /\ tail' = [tail EXCEPT !.index = Mark(@)]
    /\ Answer(t, Q!Ask(IF Marked(tail.index) THEN "again" ELSE "first"))
    /\ UNCHANGED <<head, blocks, locals, dropped>>

\* the blocks from head's to the last are walked, emptied and freed
Drop ==
    /\ Q!Alive /\ \A t \in Threads : pc[t] = "idle"
    /\ LET first == LapOf(head.index)
           last  == LapOf(tail.index)
           walk[k \in first .. last] ==
               IF k = first THEN head.block ELSE blocks[walk[k - 1]].next
           slots == Rank(At(tail.index)) - Rank(At(head.index))
           Value(n) == blocks[walk[n \div lap]].slots[n % lap].value
           walked == {walk[k] : k \in first .. last}
       IN  /\ dropped' = [i \in 1 .. slots |-> Value(SlotAt(Rank(At(head.index)) + i - 1))]
           /\ blocks' = [b \in DOMAIN blocks |->
                           IF b \in walked THEN Freed(blocks[b]) ELSE blocks[b]]
    /\ UNCHANGED <<head, tail, pc, call, locals>>

-----------------------------------------------------------------------------
Step(t) ==
    \/ PushIndex(t) \/ PushBlock(t) \/ PushFirst(t) \/ PushFirstHead(t) \/ PushTake(t)
    \/ PushSetBlock(t) \/ PushSetIndex(t) \/ PushSetNext(t) \/ PushWrite(t)
    \/ PushPublish(t)
    \/ PopIndex(t) \/ PopBlock(t) \/ PopTail(t) \/ PopTake(t) \/ PopWaitNext(t)
    \/ PopNextNext(t) \/ PopHeadBlock(t) \/ PopHeadIndex(t) \/ PopRead(t)
    \/ PopSetRead(t) \/ Destroy(t) \/ DestroyHandOver(t)
    \/ LenTail(t) \/ LenHead(t) \/ LenAgain(t) \/ Close(t) \/ Return(t)

Next ==
    /\ Drop \/ \E t \in Threads : Call(t) \/ Step(t)
    /\ UNCHANGED lap

Spec == Init /\ [][Next]_vars

-----------------------------------------------------------------------------
\* the pcs whose next step looks into the thread's block
Touching == {"setnext", "write", "publish", "waitnext", "nextnext", "headblock", "read",
             "setread", "destroy", "handover"}

\* Every block is freed exactly once: never while a push or a pop still looks
\* into it, whichever pop's destroy ends up with it, never twice, and none is
\* left when the queue has been dropped.
BlocksFreedOnce ==
    /\ \A b \in DOMAIN blocks : blocks[b].frees <= 1 /\ (~Q!Alive => blocks[b].frees = 1)
    /\ \A t \in Threads : pc[t] \in Touching =>
          /\ blocks[block[t]].frees = 0
          /\ pc[t] = "nextnext" => blocks[NextOf(t)].frees = 0

\* The linked queue implements the closable FIFO without a bound: pushes,
\* pops, len, close and the drop each take effect at one instant between call
\* and return, across the links from block to block.
ImplementsFifo == Q!Spec
=============================================================================
