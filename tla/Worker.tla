-------------------------------- MODULE Worker -------------------------------
(***************************************************************************)
(* io/worker.rs: threads in block_on, and the thread cynthia-io, take      *)
(* turns at polling the reactor, whose lock only one of them can have.     *)
(* Each future waits for one event, of the kernel or of another thread.    *)
(* Parkers are the tokens that Parker says they are, Readiness is where    *)
(* the events go that the poller reports, and the clock is left open.      *)
(***************************************************************************)
EXTENDS Integers, FiniteSets

CONSTANTS
    Blockers,   \* threads in block_on
    MaxSleeps   \* how often cynthia-io sleeps before it insists: 10 in the code

\* the threads in block_on are not the others the model names
ASSUME BlockersAssumption == {"io", "other", "none"} \cap Blockers = {}

VARIABLES
    kind, ev,   \* what each future waits for, and how far it has come
    bpc,        \* where each thread in block_on is
    token,      \* who has been unparked; "io" is the parker of cynthia-io
    stub, cached,       \* block_stub, and the threads where CACHED_IO is set
    iopc, moved, sleeps, \* cynthia-io: whether the ticker is not at last_tick
    holder,     \* who has the reactor's lock
    flag,       \* the poller has been notified
    waking, mid \* wakers each thread is to call, and the call it is in

wkvars == <<kind, ev, bpc, token, stub, cached, iopc, moved, sleeps, holder, flag, waking, mid>>

None == "none"
Callers == Blockers \cup {"io", "other"}

WkInit ==
    /\ kind \in [Blockers -> {"kernel", "thread"}]
    /\ ev = [b \in Blockers |-> "none"] /\ bpc = [b \in Blockers |-> "poll"]
    /\ token = {} /\ stub = {} /\ cached = {}
    /\ iopc = "tick" /\ moved = FALSE /\ sleeps = 0
    /\ holder = None /\ flag = FALSE
    /\ waking = [c \in Callers |-> {}] /\ mid = [c \in Callers |-> None]

-----------------------------------------------------------------------------
\* an event: the future of b would see it, or the poller is to report it
Occurs(b) ==
    /\ ev[b] = "none"
    /\ ev' = [ev EXCEPT ![b] = IF kind[b] = "thread" THEN "seen" ELSE "raised"]
    /\ waking' = IF kind[b] = "thread" THEN [waking EXCEPT !["other"] = @ \cup {b}] ELSE waking
    /\ UNCHANGED <<kind, bpc, token, stub, cached, iopc, moved, sleeps, holder, flag, mid>>

\* the waker of b, called by c: unpark, then a look at the stub
CallWaker(c) ==
    /\ mid[c] = None
    /\ \E b \in waking[c] :
          /\ waking' = [waking EXCEPT ![c] = @ \ {b}] /\ token' = token \cup {b}
          /\ mid' = IF b \in token \/ c \in cached THEN mid ELSE [mid EXCEPT ![c] = b]
    /\ UNCHANGED <<kind, ev, bpc, stub, cached, iopc, moved, sleeps, holder, flag>>
\* mutant: the poller is left alone
NotifyNobody(c) ==
    /\ mid[c] # None /\ mid' = [mid EXCEPT ![c] = None]
    /\ UNCHANGED <<kind, ev, bpc, token, stub, cached, iopc, moved, sleeps, holder, flag, waking>>
NotifyPoller(c) ==
    /\ mid[c] # None /\ mid' = [mid EXCEPT ![c] = None] /\ flag' = (flag \/ mid[c] \in stub)
    /\ UNCHANGED <<kind, ev, bpc, token, stub, cached, iopc, moved, sleeps, holder, waking>>
Calls(c) == CallWaker(c) \/ NotifyPoller(c)
Called(c) == waking[c] = {} /\ mid[c] = None

\* react(None), or with no time to wait: c delivers what the poller reports
Raised == {b \in Blockers : ev[b] = "raised"}
Reports(c, wait) ==
    /\ wait => flag \/ Raised # {}
    /\ flag' = FALSE /\ ev' = [b \in Blockers |-> IF b \in Raised THEN "seen" ELSE ev[b]]
    /\ waking' = [waking EXCEPT ![c] = Raised]
    /\ UNCHANGED <<kind, token, stub, cached, sleeps, holder, mid>>

-----------------------------------------------------------------------------
Move(b, l) == bpc' = [bpc EXCEPT ![b] = l]
At(b, l) == bpc[b] = l
Io == <<iopc, moved, sleeps>>

PollFuture(b) ==
    /\ At(b, "poll") /\ Move(b, IF ev[b] = "seen" THEN "end" ELSE "zero")
    /\ UNCHANGED <<kind, ev, token, stub, cached, Io, holder, flag, waking, mid>>
\* park_timeout(0): a token is used up
Zero(b) ==
    /\ At(b, "zero") /\ token' = token \ {b} /\ Move(b, IF b \in token THEN "try0" ELSE "try")
    /\ UNCHANGED <<kind, ev, stub, cached, Io, holder, flag, waking, mid>>
\* try_lock, for a look at the poller or to wait there
TryLook(b) ==
    /\ At(b, "try0") /\ (IF holder = None THEN holder' = b /\ cached' = cached \cup {b} /\ Move(b, "look")
                         ELSE Move(b, "poll") /\ UNCHANGED <<holder, cached>>)
    /\ UNCHANGED <<kind, ev, token, stub, Io, flag, waking, mid>>
TryWait(b) ==
    /\ At(b, "try") /\ (IF holder = None THEN holder' = b /\ Move(b, "arm") ELSE Move(b, "park") /\ UNCHANGED holder)
    /\ UNCHANGED <<kind, ev, token, stub, cached, Io, flag, waking, mid>>
Arm(b) ==
    /\ At(b, "arm") /\ cached' = cached \cup {b} /\ stub' = stub \cup {b} /\ Move(b, "check")
    /\ UNCHANGED <<kind, ev, token, Io, holder, flag, waking, mid>>

\* react, and the calls of the wakers, which end it
Look(b)  == At(b, "look") /\ Reports(b, FALSE) /\ Move(b, "looked") /\ moved' = TRUE /\ UNCHANGED <<iopc>>
Wait(b)  == At(b, "wait") /\ Reports(b, TRUE) /\ Move(b, "waited") /\ moved' = TRUE /\ UNCHANGED <<iopc>>
Looked(b) ==
    /\ At(b, "looked") /\ Called(b) /\ holder' = None /\ cached' = cached \ {b} /\ Move(b, "poll")
    /\ UNCHANGED <<kind, ev, token, stub, Io, flag, waking, mid>>

\* break: the guard resets both flags, and the lock is let go
Break(b) ==
    /\ token' = token \ {b} /\ cached' = cached \ {b} /\ stub' = stub \ {b}
    /\ holder' = (IF holder = b THEN None ELSE holder) /\ Move(b, "poll")
Check(b) ==
    /\ At(b, "check") /\ (IF b \in token THEN Break(b) ELSE Move(b, "wait") /\ UNCHANGED <<token, cached, stub, holder>>)
    /\ UNCHANGED <<kind, ev, Io, flag, waking, mid>>
\* mutant: the thread parks with the reactor's lock
CheckAgainLocked(b) ==
    /\ At(b, "waited") /\ Called(b)
    /\ IF b \in token THEN Break(b)
       ELSE \/ cached' = cached \ {b} /\ stub' = stub \ {b} /\ Move(b, "arm") /\ UNCHANGED <<token, holder>>
            \/ Move(b, "hand_over") /\ UNCHANGED <<token, cached, stub, holder>>
    /\ UNCHANGED <<kind, ev, Io, flag, waking, mid>>
\* after the poller: on, around again, or after 500 microseconds cynthia-io has its turn
CheckAgain(b) ==
    /\ At(b, "waited") /\ Called(b)
    /\ IF b \in token THEN Break(b)
       ELSE \/ cached' = cached \ {b} /\ stub' = stub \ {b} /\ Move(b, "arm") /\ UNCHANGED <<token, holder>>
            \/ holder' = None /\ Move(b, "hand_over") /\ UNCHANGED <<token, cached, stub>>
    /\ UNCHANGED <<kind, ev, Io, flag, waking, mid>>
HandOver(b) ==
    /\ At(b, "hand_over") /\ token' = token \cup {"io"} /\ Move(b, "park")
    /\ UNCHANGED <<kind, ev, stub, cached, Io, holder, flag, waking, mid>>
Park(b) == At(b, "park") /\ b \in token /\ Break(b) /\ UNCHANGED <<kind, ev, Io, flag, waking, mid>>
\* the guard of block_on counts the thread out and wakes cynthia-io
Leave(b) == At(b, "end") /\ Move(b, "left") /\ UNCHANGED <<kind, ev, token, stub, cached, Io, holder, flag, waking, mid>>
LeaveWake(b) == At(b, "left") /\ Move(b, "returned") /\ token' = token \cup {"io"}
                /\ UNCHANGED <<kind, ev, stub, cached, Io, holder, flag, waking, mid>>

BlockOn(b) ==
    \/ PollFuture(b) \/ Zero(b) \/ TryLook(b) \/ TryWait(b) \/ Arm(b) \/ Look(b) \/ Looked(b) \/ Check(b)
    \/ Wait(b) \/ CheckAgain(b) \/ HandOver(b) \/ Park(b) \/ Leave(b) \/ LeaveWake(b) \/ Calls(b)

-----------------------------------------------------------------------------
\* cycle_entry
IoStep(from, to) == iopc = from /\ iopc' = to /\ UNCHANGED <<kind, bpc, stub, cached>>
IoTick ==   \* the reactor is polled if nobody else has since
    /\ IoStep("tick", IF moved THEN "count" ELSE "lock") /\ moved' = FALSE
    /\ UNCHANGED <<ev, token, sleeps, holder, flag, waking, mid>>
IoLock ==
    /\ \/ IoStep("lock", "react") /\ holder = None /\ holder' = "io"
       \/ IoStep("lock", "count") /\ holder # None /\ sleeps < MaxSleeps /\ UNCHANGED holder
    /\ UNCHANGED <<ev, token, moved, sleeps, flag, waking, mid>>
IoReact == iopc = "react" /\ Reports("io", TRUE) /\ iopc' = "reacted" /\ UNCHANGED <<bpc, moved>>
IoReacted ==
    /\ IoStep("reacted", "count") /\ Called("io") /\ moved' = FALSE /\ sleeps' = 0 /\ holder' = None
    /\ UNCHANGED <<ev, token, flag, waking, mid>>
IoCount ==  \* BLOCK_ON_GLOBAL
    /\ IoStep("count", IF \A b \in Blockers : bpc[b] \in {"left", "returned"} THEN "tick" ELSE "park")
    /\ UNCHANGED <<ev, token, moved, sleeps, holder, flag, waking, mid>>
IoPark ==   \* with a delay, so that it ends
    /\ IoStep("park", "tick") /\ token' = token \ {"io"}
    /\ IF "io" \in token THEN moved' = FALSE /\ sleeps' = 0
       ELSE sleeps' = (IF sleeps < MaxSleeps THEN sleeps + 1 ELSE sleeps) /\ UNCHANGED moved
    /\ UNCHANGED <<ev, holder, flag, waking, mid>>
CycleEntry == IoTick \/ IoLock \/ IoReact \/ IoReacted \/ IoCount \/ IoPark \/ Calls("io")

WkNext ==
    \/ \E b \in Blockers : Occurs(b) \/ BlockOn(b)
    \/ CycleEntry \/ Calls("other")

\* every thread that can go on does, at last: they are threads of the OS, and
\* the poller returns when it has something to report
WkFair == (\A b \in Blockers : WF_wkvars(BlockOn(b))) /\ WF_wkvars(CycleEntry) /\ WF_wkvars(Calls("other"))
WkSpec == WkInit /\ [][WkNext]_wkvars /\ WkFair

-----------------------------------------------------------------------------
Sleeping(b) == bpc[b] \in {"wait", "park"}

\* Who sleeps in block_on though its event has come is about to be woken; and
\* who was woken is not left in the poller: it has been notified, or will be.
WokenIsSeen ==
    \A b \in Blockers :
       /\ Sleeping(b) /\ ev[b] = "seen" => b \in token \/ \E c \in Callers : b \in waking[c]
       /\ bpc[b] = "wait" /\ b \in token => flag \/ \E c \in Callers : mid[c] = b

\* Every block_on returns once its event has come, whoever polls the reactor at
\* the time, hands it over, or waits for it.
BlockOnReturns == \A b \in Blockers : ev[b] # "none" ~> bpc[b] = "returned"
=============================================================================
