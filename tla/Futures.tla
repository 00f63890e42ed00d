------------------------------ MODULE Futures -------------------------------
(***************************************************************************)
(* future/future.rs and future/timeout.rs: the combinators over one or two *)
(* inner futures.  One step is one poll; an inner future that is asked may *)
(* answer Pending any number of times before its result.  In timeout the   *)
(* second future is the timer.                                             *)
(***************************************************************************)
EXTENDS Integers, TLC

VARIABLES
    kind,    \* the combinator
    kept,    \* its fields: output1 and output2, or the flag of YieldNow
    done,    \* the inner futures that completed, with their results
    again,   \* the inner futures polled after that
    asked,   \* the inner futures asked in the last poll that answered Pending
    woken,   \* whether the last poll woke its own task
    answer   \* what the last poll returned

fvars == <<kind, kept, done, again, asked, woken, answer>>

Nothing == "none"
Pend    == <<"pending">>
Two     == {"zip", "try_zip", "or", "race", "timeout"}
One     == {"poll_once", "catch_unwind", "poll_fn"}
Lone    == {"yield_now", "ready", "pending", "outstanding"}
\* what an inner future comes to: Ok, Err or a panic that only catch_unwind keeps
Results == IF kind = "catch_unwind" THEN {"ok", "panic"}
           ELSE IF kind = "try_zip" THEN {"ok", "err"} ELSE {"ok"}

FInit ==
    /\ kind \in Two \cup One \cup Lone
    /\ kept = [i \in {1, 2} |-> Nothing]
    /\ done = [i \in {1, 2} |-> Nothing]
    /\ again = {} /\ asked = {} /\ woken = FALSE /\ answer = <<>>

-----------------------------------------------------------------------------
\* a completed future is not polled by its caller
Polled(k) == kind = k /\ answer \in {<<>>, Pend} /\ UNCHANGED kind

\* the futures of S are asked, and answer a
Asks(S, a) ==
    /\ done' = [i \in {1, 2} |-> IF i \in S /\ a[i] # "pending" THEN a[i] ELSE done[i]]
    /\ again' = again \cup {i \in S : done[i] # Nothing}
    /\ asked' = {i \in S : a[i] = "pending"}
Answers == [{1, 2} -> {"pending"} \cup Results]
Gives(k, w, r) == kept' = k /\ woken' = w /\ answer' = r

ZipPoll ==
    /\ Polled("zip")
    /\ \E a \in Answers :
          LET S == {i \in {1, 2} : kept[i] = Nothing}
              k == [i \in {1, 2} |-> IF i \in S /\ a[i] # "pending" THEN a[i] ELSE kept[i]]
          IN /\ Asks(S, a)
             /\ IF Nothing \in {k[1], k[2]} THEN Gives(k, FALSE, Pend)
                ELSE Gives([i \in {1, 2} |-> Nothing], FALSE, <<k[1], k[2]>>)

\* an Err of the first future returns before the second is asked
TryZipPoll ==
    /\ Polled("try_zip")
    /\ \E a \in Answers :
          LET want == {i \in {1, 2} : kept[i] = Nothing}
              S == IF 1 \in want /\ a[1] = "err" THEN {1} ELSE want
              k == [i \in {1, 2} |-> IF i \in S /\ a[i] = "ok" THEN "ok" ELSE kept[i]]
          IN /\ Asks(S, a)
             /\ IF \E i \in S : a[i] = "err" THEN Gives(k, FALSE, <<"err">>)
                ELSE IF Nothing \in {k[1], k[2]} THEN Gives(k, FALSE, Pend)
                ELSE Gives([i \in {1, 2} |-> Nothing], FALSE, <<k[1], k[2]>>)

\* future f is asked first, the other one only if f is pending
Either(f) ==
    \E a \in Answers :
       /\ Asks(IF a[f] = "pending" THEN {1, 2} ELSE {f}, a)
       /\ Gives(kept, FALSE, IF a[f] # "pending" THEN <<"of", f>> ELSE IF a[3 - f] # "pending" THEN <<"of", 3 - f>> ELSE Pend)
OrPoll      == Polled("or") /\ Either(1)
RacePoll    == Polled("race") /\ \E f \in {1, 2} : Either(f)
TimeoutPoll == Polled("timeout") /\ Either(1)

PollOncePoll == Polled("poll_once") /\ \E a \in Answers : Asks({1}, a) /\ Gives(kept, FALSE, <<"once", a[1]>>)
PollFnPoll   == Polled("poll_fn") /\ \E a \in Answers : Asks({1}, a) /\ Gives(kept, FALSE, <<a[1]>>)
\* a panic of the inner poll is the Err of CatchUnwind
CatchUnwindPoll ==
    Polled("catch_unwind") /\ \E a \in Answers : Asks({1}, a) /\ Gives(kept, FALSE, <<a[1]>>)

NoInner == UNCHANGED <<done, again>> /\ asked' = {}
YieldNowPoll == /\ Polled("yield_now") /\ NoInner
                /\ IF kept[1] = Nothing THEN Gives([kept EXCEPT ![1] = "ok"], TRUE, Pend)
                   ELSE Gives(kept, FALSE, <<"ok">>)
ReadyPoll == Polled("ready") /\ NoInner /\ Gives(kept, FALSE, <<"ok">>)
\* the data of Outstanding is None for ever
PendingPoll == \E k \in {"pending", "outstanding"} : Polled(k) /\ NoInner /\ Gives(kept, FALSE, Pend)

FNext == \/ ZipPoll \/ TryZipPoll \/ OrPoll \/ RacePoll \/ TimeoutPoll \/ PollOncePoll
         \/ PollFnPoll \/ CatchUnwindPoll \/ YieldNowPoll \/ ReadyPoll \/ PendingPoll

-----------------------------------------------------------------------------
Complete == {i \in {1, 2} : done[i] # Nothing}

\* A combinator that returned Pending has asked, in that same poll, every inner
\* future it still waits for, so that whichever of them becomes ready wakes the
\* task as it is now; yield_now has woken it; and no inner future is polled
\* after its completion.
PollContract ==
    /\ again = {}
    /\ answer = Pend =>
          \/ kind \in Two /\ asked = {1, 2} \ Complete /\ asked # {}
          \/ kind \in One /\ asked = {1}
          \/ kind \in Lone /\ (woken \/ kind \in {"pending", "outstanding"})

\* A result is what the inner futures came to: zip has both and try_zip both
\* or an Err, or, race and timeout the future that completed, and timeout says
\* so only in a poll in which the future itself was still pending.
FutureResult ==
    answer \notin {<<>>, Pend} =>
       CASE kind = "zip" -> answer = <<done[1], done[2]>> /\ Complete = {1, 2}
         [] kind = "try_zip" -> \/ answer = <<"ok", "ok">> /\ done[1] = "ok" /\ done[2] = "ok"
                                \/ answer = <<"err">> /\ "err" \in {done[1], done[2]}
         [] kind \in {"or", "race"} -> Complete = {answer[2]}
         [] kind = "timeout" -> Complete = {answer[2]} /\ (answer[2] = 2 => asked = {1})
         [] OTHER -> TRUE
=============================================================================
