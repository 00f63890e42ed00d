------------------------------ MODULE Streams -------------------------------
(***************************************************************************)
(* future/stream.rs: the stream adaptors, each over one or two inner       *)
(* streams that may answer Pending at any poll.  One step is one turn of   *)
(* the loop of a poll: what a turn leaves is all in the adaptor's fields,  *)
(* so a turn that follows a Pending is the same as one that follows a turn.*)
(* The closures are fixed: the predicate P, the mapping F, the stream G(x) *)
(* and the Err items.                                                      *)
(***************************************************************************)
EXTENDS Integers, Sequences, SequencesExt

CONSTANTS
    Items, Others,  \* the items of the first and of the second inner stream
    MaxLen,         \* bound: the longest inner stream
    N,              \* the argument of take, skip, nth and step_by
    MaxOut          \* bound: what is polled of an endless stream

VARIABLES
    op,     \* the adaptor
    own,    \* its fields
    given,  \* what the inner streams are to yield
    src,    \* what is left of it; 3 is the stream of flat_map and flatten
    over,   \* the inner streams that returned NoItem
    late,   \* the inner streams polled after that
    res,    \* what the last turn came to
    pend,   \* the inner streams that answered Pending in it
    out     \* what the adaptor yielded

vars == <<op, own, given, src, over, late, res, pend, out>>

P(x) == x # 1
F(x) == x + 5
G(x) == [i \in 1 .. x |-> x]
IsErr(x) == x = 2

NoItem    == <<"none">>
Pending == <<"pending">>
Again   == <<"loop">>
Some(x)  == <<"some", x>>
Ready(x) == <<"ready", x>>   \* the output of a future

\* adaptors over one stream, with the fields they start with
Adaptors == [map |-> 0, filter |-> 0, filter_map |-> 0, take |-> N, take_while |-> 0, skip |-> N,
             skip_while |-> TRUE, step_by |-> 0, inspect |-> <<>>, cloned |-> 0, copied |-> 0,
             enumerate |-> 0, scan |-> 0, fuse |-> FALSE, poll_fn |-> 0]
Sinks == [count |-> 0, collect |-> <<>>, try_collect |-> <<>>, partition |-> <<<<>>, <<>>>>,
          unzip |-> <<<<>>, <<>>>>, fold |-> 0, try_fold |-> 0, nth |-> N, last |-> NoItem,
          find |-> 0, find_map |-> 0, position |-> 0, all |-> 0, any |-> 0, for_each |-> <<>>,
          try_for_each |-> <<>>, next |-> 0, try_next |-> 0]
\* the others: sources, and adaptors over two streams or over a stream and a future
Pairs == [chain |-> <<FALSE, FALSE>>, zip |-> NoItem, or |-> 0, race |-> 0]
Makers == [cycle |-> 0, flat_map |-> FALSE, flatten |-> FALSE, then |-> NoItem, unfold |-> "state",
           try_unfold |-> "state", once |-> TRUE, iter |-> 0, repeat |-> 0, repeat_with |-> 0,
           empty |-> 0, never |-> 0]
Fields == Adaptors @@ Sinks @@ Pairs @@ Makers

Bare == {"once", "repeat", "repeat_with", "empty", "never"}

Inputs(S) == UNION {[1 .. n -> S] : n \in 0 .. MaxLen}

Init ==
    /\ op \in DOMAIN Fields
    /\ own = Fields[op]
    /\ given \in {<<a, b>> : a \in IF op \in Bare THEN {<<>>} ELSE Inputs(Items),
                             b \in IF op \in DOMAIN Pairs THEN Inputs(Others) ELSE {<<>>}}
    /\ src = <<given[1], given[2], <<>>>>
    /\ over = {} /\ late = {}
    /\ res = Again /\ pend = {} /\ out = <<>>

-----------------------------------------------------------------------------
\* those a caller may poll after they returned NoItem
Fused == {"fuse", "take", "chain", "try_unfold", "once", "empty", "iter"}
Live == (res[1] \notin {"none", "ready"} \/ op \in Fused) /\ Len(out) < MaxOut

\* inner stream i answers Ready
Ask(i) ==
    /\ src' = [src EXCEPT ![i] = IF @ = <<>> THEN @ ELSE Tail(@)]
    /\ over' = IF src[i] = <<>> THEN over \cup {i} ELSE over
    /\ late' = late \cup ({i} \cap over)

\* inner stream i answers Pending, and with it the adaptor: ready!
Wait(i) == UNCHANGED <<src, over>> /\ late' = late \cup ({i} \cap over) /\ pend' = {i}

\* a turn comes to r and leaves the fields o
Return(o, r) ==
    /\ own' = o /\ res' = r
    /\ out' = IF r[1] \in {"some", "ready"} THEN Append(out, r[2]) ELSE out
    /\ UNCHANGED <<op, given>>

Stay(o, r) == Return(o, r) /\ UNCHANGED <<src, over, late, pend>>
Is(o) == op = o /\ Live
On(o) == Is(o) /\ Ask(1) /\ pend' = {}
More == src[1] # <<>>
X == Head(src[1])

\* every adaptor over one stream hands on its Pending
Suspend ==
    /\ op \in DOMAIN Adaptors \cup DOMAIN Sinks \cup {"cycle"} /\ Live
    /\ op = "take" => own > 0
    /\ op = "fuse" => ~own
    /\ Wait(1) /\ Return(own, Pending)

-----------------------------------------------------------------------------
MapNext       == On("map") /\ Return(own, IF More THEN Some(F(X)) ELSE NoItem)
FilterNext    == On("filter") /\ Return(own, IF ~More THEN NoItem ELSE IF P(X) THEN Some(X) ELSE Again)
FilterMapNext == On("filter_map")
                 /\ Return(own, IF ~More THEN NoItem ELSE IF P(X) THEN Some(F(X)) ELSE Again)

TakeNext == \/ On("take") /\ own > 0 /\ Return(IF More THEN own - 1 ELSE 0, IF More THEN Some(X) ELSE NoItem)
            \/ Is("take") /\ own = 0 /\ Stay(0, NoItem)

TakeWhileNext == On("take_while") /\ Return(own, IF More /\ P(X) THEN Some(X) ELSE NoItem)
SkipNext      == On("skip") /\ IF More /\ own > 0 THEN Return(own - 1, Again)
                               ELSE Return(own, IF More THEN Some(X) ELSE NoItem)
SkipWhileNext == On("skip_while")
                 /\ IF More /\ own /\ P(X) THEN Return(own, Again)
                    ELSE Return(IF More THEN FALSE ELSE own, IF More THEN Some(X) ELSE NoItem)
StepByNext    == On("step_by")
                 /\ IF More /\ own > 0 THEN Return(own - 1, Again)
                    ELSE Return(IF More THEN N - 1 ELSE own, IF More THEN Some(X) ELSE NoItem)
InspectNext   == On("inspect") /\ Return(IF More THEN Append(own, X) ELSE own, IF More THEN Some(X) ELSE NoItem)
ClonedNext    == On("cloned") /\ Return(own, IF More THEN Some(X) ELSE NoItem)
CopiedNext    == On("copied") /\ Return(own, IF More THEN Some(X) ELSE NoItem)
EnumerateNext == On("enumerate")
                 /\ IF More THEN Return(own + 1, Some(<<own, X>>)) ELSE Return(own, NoItem)
\* the closure adds up and stops the stream past 2
ScanNext      == On("scan") /\ IF More THEN Return(own + X, IF own + X > 2 THEN NoItem ELSE Some(own + X))
                               ELSE Return(own, NoItem)
FuseNext == \/ On("fuse") /\ ~own /\ Return(~More, IF More THEN Some(X) ELSE NoItem)
            \/ Is("fuse") /\ own /\ Stay(own, NoItem)

PollFnNext == On("poll_fn") /\ Return(own, IF More THEN Some(X) ELSE NoItem)

-----------------------------------------------------------------------------
\* futures that use up a stream
CountPoll   == On("count") /\ IF More THEN Return(own + 1, Again) ELSE Return(own, Ready(own))
CollectPoll == On("collect") /\ IF More THEN Return(Append(own, X), Again) ELSE Return(<<>>, Ready(own))
TryCollectPoll ==
    On("try_collect") /\ IF ~More THEN Return(<<>>, Ready(own))
                         ELSE IF IsErr(X) THEN Return(own, Ready(<<-1>>)) ELSE Return(Append(own, X), Again)
PartitionPoll ==
    On("partition") /\ IF ~More THEN Return(NoItem, Ready(own))
                       ELSE IF P(X) THEN Return(<<Append(own[1], X), own[2]>>, Again)
                       ELSE Return(<<own[1], Append(own[2], X)>>, Again)
UnzipPoll ==  \* of the pairs <<x, F(x)>>
    On("unzip") /\ IF More THEN Return(<<Append(own[1], X), Append(own[2], F(X))>>, Again)
                   ELSE Return(NoItem, Ready(own))
FoldPoll == On("fold") /\ IF More THEN Return(10 * own + X, Again) ELSE Return(NoItem, Ready(own))
TryFoldPoll ==  \* the closure fails on 0
    On("try_fold") /\ IF ~More THEN Return(NoItem, Ready(own))
                      ELSE IF IsErr(X) THEN Return(own, Ready(-1))
                      ELSE IF X = 0 THEN Return(NoItem, Ready(-2)) ELSE Return(10 * own + X, Again)
NthPoll  == On("nth") /\ IF More /\ own > 0 THEN Return(own - 1, Again)
                         ELSE Return(own, Ready(IF More THEN Some(X) ELSE NoItem))
LastPoll == On("last") /\ IF More THEN Return(Some(X), Again) ELSE Return(NoItem, Ready(own))
FindPoll == On("find") /\ Return(own, IF ~More THEN Ready(NoItem) ELSE IF P(X) THEN Ready(Some(X)) ELSE Again)
FindMapPoll ==
    On("find_map") /\ Return(own, IF ~More THEN Ready(NoItem) ELSE IF P(X) THEN Ready(Some(F(X))) ELSE Again)
PositionPoll ==
    On("position") /\ IF ~More THEN Return(own, Ready(NoItem))
                      ELSE IF P(X) THEN Return(own, Ready(Some(own))) ELSE Return(own + 1, Again)
AllPoll == On("all") /\ Return(own, IF ~More THEN Ready(TRUE) ELSE IF P(X) THEN Again ELSE Ready(FALSE))
AnyPoll == On("any") /\ Return(own, IF ~More THEN Ready(FALSE) ELSE IF P(X) THEN Ready(TRUE) ELSE Again)
ForEachPoll == On("for_each") /\ IF More THEN Return(Append(own, X), Again) ELSE Return(own, Ready(own))
TryForEachPoll ==  \* the closure fails on Err items; what it was called with is the result
    On("try_for_each") /\ IF ~More THEN Return(own, Ready(own))
                          ELSE Return(Append(own, X), IF IsErr(X) THEN Ready(Append(own, X)) ELSE Again)
NextPoll    == On("next") /\ Return(own, Ready(IF More THEN Some(X) ELSE NoItem))
TryNextPoll == On("try_next")
               /\ Return(own, Ready(IF ~More THEN NoItem ELSE IF IsErr(X) THEN <<"err">> ELSE Some(X)))

-----------------------------------------------------------------------------
\* one poll of inner stream i, answered, or not
Polls(i) == Ask(i) /\ pend' = {}

\* mutant: the first stream is polled again after its end
ChainUnfused ==
    /\ Is("chain")
    /\ \/ Polls(1) /\ Return(<<~More, own[2]>>, IF More THEN Some(X) ELSE Again)
       \/ own[1] /\ Polls(2) /\ Return(<<TRUE, src[2] = <<>>>>, IF src[2] # <<>> THEN Some(Head(src[2])) ELSE NoItem)

ChainNext ==
    /\ Is("chain")
    /\ \/ \E i \in {1, 2} :
             /\ ~own[i] /\ (i = 2 => own[1])
             /\ \/ Wait(i) /\ Return(own, Pending)
                \/ Polls(i) /\ IF src[i] = <<>> THEN Return([own EXCEPT ![i] = TRUE], Again)
                               ELSE Return(own, Some(Head(src[i])))
       \/ own = <<TRUE, TRUE>> /\ Stay(own, NoItem)

\* own: the item of the first stream that waits for one of the second
ZipFirst ==
    \/ Wait(1) /\ Return(own, Pending)
    \/ Polls(1) /\ IF More THEN Return(Some(X), Again) ELSE Return(own, NoItem)
ZipSecond == Polls(2) /\ Return(NoItem, IF src[2] = <<>> THEN NoItem ELSE Some(<<own[2], Head(src[2])>>))

\* mutant: the item of the first stream is let go when the second is not ready
ZipForgets ==
    Is("zip") /\ IF own = NoItem THEN ZipFirst ELSE (Wait(2) /\ Return(NoItem, Pending)) \/ ZipSecond

ZipNext ==
    Is("zip") /\ IF own = NoItem THEN ZipFirst ELSE (Wait(2) /\ Return(own, Pending)) \/ ZipSecond

\* stream f has nothing now (it is in w: Pending, or else NoItem), so the other
\* one, s, is polled in the same poll; streams in w answer Pending
Second(f, w) ==
    LET s == 3 - f IN
    /\ f \in w \/ src[f] = <<>>
    /\ src' = IF s \in w \/ src[s] = <<>> THEN src ELSE [src EXCEPT ![s] = Tail(@)]
    /\ over' = over \cup {i \in {1, 2} \ w : src[i] = <<>>}
    /\ late' = late \cup (over \cap {1, 2})
    /\ pend' = w

OrNext ==
    /\ op = "or" /\ Live
    /\ \/ More /\ Ask(1) /\ pend' = {} /\ Return(own, Some(X))
       \/ \E w \in SUBSET {1, 2} :
             /\ Second(1, w)
             /\ Return(own, IF 2 \in w THEN Pending ELSE IF src[2] = <<>> THEN NoItem ELSE Some(Head(src[2])))

\* rander::bool chooses the stream f to poll first
RaceNext ==
    /\ op = "race" /\ Live
    /\ \E f \in {1, 2} :
          \/ src[f] # <<>> /\ Ask(f) /\ pend' = {} /\ Return(own, Some(Head(src[f])))
          \/ \E w \in SUBSET {1, 2} :
                /\ Second(f, w)
                /\ Return(own, IF 3 - f \in w \/ src[3 - f] = <<>> THEN Pending ELSE Some(Head(src[3 - f])))

\* the original is cloned when its copy ends, and the clone polled at once
CycleNext ==
    \/ On("cycle") /\ More /\ Return(own, Some(X))
    \/ /\ op = "cycle" /\ Live /\ ~More /\ UNCHANGED <<over, late>>
       /\ \/ src' = [src EXCEPT ![1] = given[1]] /\ pend' = {1} /\ Return(own, Pending)
          \/ /\ src' = [src EXCEPT ![1] = IF given[1] = <<>> THEN <<>> ELSE Tail(given[1])] /\ pend' = {}
             /\ Return(own, IF given[1] = <<>> THEN NoItem ELSE Some(Head(given[1])))

\* own: whether inner_stream is Some
Flat ==
    \/ own /\ \/ Wait(3) /\ Return(own, Pending)
              \/ src[3] # <<>> /\ Polls(3) /\ Return(own, Some(Head(src[3])))
              \/ src[3] = <<>> /\ Stay(FALSE, Again)
    \/ ~own /\ \/ Wait(1) /\ Return(own, Pending)
               \/ /\ More /\ Return(TRUE, Again)
                  /\ src' = [src EXCEPT ![1] = Tail(@), ![3] = G(X)] /\ UNCHANGED <<over, late, pend>>
               \/ ~More /\ Polls(1) /\ Return(own, NoItem)
FlatMapNext == Is("flat_map") /\ Flat
FlattenNext == Is("flatten") /\ Flat

\* own: the future, by the item it was made of
ThenNext ==
    /\ Is("then")
    /\ \/ /\ own # NoItem /\ UNCHANGED <<src, over, late>>
          /\ \/ pend' = {3} /\ Return(own, Pending)
             \/ pend' = {} /\ Return(NoItem, Some(F(own[2])))
       \/ /\ own = NoItem
          /\ \/ Wait(1) /\ Return(own, Pending)
             \/ Polls(1) /\ IF More THEN Return(Some(X), Again) ELSE Return(own, NoItem)

\* src[1] is what the futures come to, one after the other
UnfoldNext ==
    /\ Is("unfold")
    /\ \/ Wait(1) /\ Return("fut", Pending)
       \/ Polls(1) /\ IF More THEN Return("state", Some(X)) ELSE Return("gone", NoItem)
TryUnfoldNext ==
    /\ Is("try_unfold")
    /\ \/ own # "gone" /\ Wait(1) /\ Return("fut", Pending)
       \/ /\ own # "gone" /\ Polls(1)
          /\ IF ~More THEN Return("gone", NoItem)
             ELSE Return(IF IsErr(X) THEN "gone" ELSE "state", Some(X))
       \/ own = "gone" /\ Stay(own, NoItem)

\* streams that ask nobody
OnceNext       == Is("once") /\ Stay(FALSE, IF own THEN Some(0) ELSE NoItem)
RepeatNext     == Is("repeat") /\ Stay(own, Some(0))
RepeatWithNext == Is("repeat_with") /\ Stay(own + 1, Some(own))
EmptyNext      == Is("empty") /\ Stay(own, NoItem)
PendingNext    == Is("never") /\ Stay(own, Pending)
IterNext       == On("iter") /\ Return(own, IF More THEN Some(X) ELSE NoItem)

Next ==
    \/ Suspend
    \/ MapNext \/ FilterNext \/ FilterMapNext \/ TakeNext \/ TakeWhileNext \/ SkipNext
    \/ SkipWhileNext \/ StepByNext \/ InspectNext \/ ClonedNext \/ CopiedNext
    \/ EnumerateNext \/ ScanNext \/ FuseNext \/ PollFnNext
    \/ CountPoll \/ CollectPoll \/ TryCollectPoll \/ PartitionPoll \/ UnzipPoll \/ FoldPoll
    \/ TryFoldPoll \/ NthPoll \/ LastPoll \/ FindPoll \/ FindMapPoll \/ PositionPoll
    \/ AllPoll \/ AnyPoll \/ ForEachPoll \/ TryForEachPoll \/ NextPoll \/ TryNextPoll
    \/ ChainNext \/ ZipNext \/ OrNext \/ RaceNext \/ CycleNext \/ FlatMapNext \/ FlattenNext
    \/ ThenNext \/ UnfoldNext \/ TryUnfoldNext
    \/ OnceNext \/ RepeatNext \/ RepeatWithNext \/ EmptyNext \/ PendingNext \/ IterNext

Spec == Init /\ [][Next]_vars

-----------------------------------------------------------------------------
\* the positions of s where the predicate holds, and where it does not
Holds(s) == {i \in DOMAIN s : P(s[i])}
Fails(s) == DOMAIN s \ Holds(s)
First(S) == CHOOSE i \in S : \A j \in S : i <= j
Before(s, S) == IF S = {} THEN s ELSE SubSeq(s, 1, First(S) - 1)
From(s, S) == IF S = {} THEN <<>> ELSE SubSeq(s, First(S), Len(s))
Errs(s) == {i \in DOMAIN s : IsErr(s[i])}
Mapped(s) == [i \in DOMAIN s |-> F(s[i])]
AsOption(s) == IF s = <<>> THEN NoItem ELSE Some(Head(s))
Digits(s) == FoldLeft(LAMBDA a, x : 10 * a + x, 0, s)
SumTo(s, i) == FoldLeft(LAMBDA a, x : a + x, 0, SubSeq(s, 1, i))

\* what the adaptor is to yield, from what its streams are to yield
Reference ==
    LET g == given[1]
        kept == SelectSeq(g, P)
        small == {i \in DOMAIN g : SumTo(g, i) <= 2}
        stop == {i \in DOMAIN g : IsErr(g[i]) \/ g[i] = 0}
    IN
    CASE op \in {"inspect", "cloned", "copied", "fuse", "unfold", "iter", "poll_fn"} -> g
      [] op = "map" \/ op = "then" -> Mapped(g)
      [] op = "filter" -> kept
      [] op = "filter_map" -> Mapped(kept)
      [] op = "take" -> SubSeq(g, 1, IF N < Len(g) THEN N ELSE Len(g))
      [] op = "skip" -> SubSeq(g, N + 1, Len(g))
      [] op = "take_while" -> Before(g, Fails(g))
      [] op = "skip_while" -> From(g, Fails(g))
      [] op = "step_by" -> [i \in 1 .. (Len(g) + N - 1) \div N |-> g[(i - 1) * N + 1]]
      [] op = "enumerate" -> [i \in DOMAIN g |-> <<i - 1, g[i]>>]
      [] op = "scan" -> [i \in small |-> SumTo(g, i)]
      [] op = "chain" -> g \o given[2]
      [] op = "zip" -> [i \in DOMAIN g \cap DOMAIN given[2] |-> <<g[i], given[2][i]>>]
      [] op \in {"flat_map", "flatten"} -> FlattenSeq([i \in DOMAIN g |-> G(g[i])])
      [] op = "try_unfold" -> IF Errs(g) = {} THEN g ELSE SubSeq(g, 1, First(Errs(g)))
      [] op = "cycle" -> IF g = <<>> THEN g ELSE [i \in 1 .. MaxOut |-> g[((i - 1) % Len(g)) + 1]]
      [] op = "once" -> <<0>>
      [] op = "repeat" -> [i \in 1 .. MaxOut |-> 0]
      [] op = "repeat_with" -> [i \in 1 .. MaxOut |-> i - 1]
      [] op \in {"empty", "never"} -> <<>>
      [] op = "count" -> <<Len(g)>>
      [] op \in {"collect", "for_each"} -> <<g>>
      [] op = "try_collect" -> IF Errs(g) = {} THEN <<g>> ELSE <<<<-1>>>>
      [] op = "partition" -> <<<<kept, SelectSeq(g, LAMBDA x : ~P(x))>>>>
      [] op = "unzip" -> <<<<g, Mapped(g)>>>>
      [] op = "fold" -> <<Digits(g)>>
      [] op = "try_fold" -> <<IF stop = {} THEN Digits(g) ELSE IF IsErr(g[First(stop)]) THEN -1 ELSE -2>>
      [] op = "nth" -> <<AsOption(SubSeq(g, N + 1, Len(g)))>>
      [] op = "last" -> <<AsOption(Reverse(g))>>
      [] op = "find" -> <<AsOption(kept)>>
      [] op = "find_map" -> <<AsOption(Mapped(kept))>>
      [] op = "position" -> <<IF Holds(g) = {} THEN NoItem ELSE Some(First(Holds(g)) - 1)>>
      [] op = "all" -> <<Fails(g) = {}>>
      [] op = "any" -> <<Holds(g) # {}>>
      [] op = "try_for_each" -> <<IF Errs(g) = {} THEN g ELSE SubSeq(g, 1, First(Errs(g)))>>
      [] op = "next" -> <<AsOption(g)>>
      [] op = "try_next" -> <<IF g # <<>> /\ IsErr(g[1]) THEN <<"err">> ELSE AsOption(g)>>

\* what was taken from inner stream i
Taken(i) == SubSeq(given[i], 1, Len(given[i]) - Len(src[i]))

Ended == res[1] \in {"none", "ready"}

\* Whatever inner polls answer Pending, and whenever, an adaptor yields its
\* reference, item by item and whole when it ends: no poll loses, repeats or
\* reorders an item.  or and race merge: what they took is what they yielded.
Conforms ==
    IF op \in {"or", "race"}
    THEN /\ SelectSeq(out, LAMBDA x : x \in Items) = Taken(1)
         /\ SelectSeq(out, LAMBDA x : x \in Others) = Taken(2)
    ELSE IsPrefix(out, Reference) /\ (Ended => out = Reference)

\* The contract of poll_next towards both sides: Pending is returned only if
\* an inner stream that was polled in the same poll did so, and so will wake
\* the task, and no inner stream is polled after it returned NoItem.  or and
\* race break the second half, and a race between two ended streams the first.
StreamProtocol ==
    /\ res = Pending => pend # {} \/ op = "never" \/ (op = "race" /\ over = {1, 2})
    /\ late = {} \/ op \in {"or", "race", "iter"}
=============================================================================
