-------------------------------- MODULE MCIo ---------------------------------
(* The pipe, the blocking pool, the file, the timers and the readiness of a  *)
(* source, for TLC: the part that runs, which, may be one of them.           *)
EXTENDS MCAdapters, FiniteSets

CONSTANTS
    PipeCap, MaxSent,                       \* Pipe
    Pool, PerIdle, MaxQueue,                \* BlockingPool
    FileLen, Ahead, MaxFile, MaxCalls,      \* AsyncFile
    TimerOwners, MaxTime, MaxId, OpsCap,         \* Timers
    Waiters, ReadyKind, ReadyDir, MaxTick   \* Readiness

ASSUME IoAssumption ==
    /\ PipeCap \in Nat \ {0} /\ IsFiniteSet(Pool) /\ PerIdle \in Nat
    /\ {FileLen, Ahead, MaxFile, MaxCalls} \subseteq Nat
    /\ ReadyDir \in [Waiters -> {"read", "write"}] /\ "nobody" \notin Waiters

VARIABLES
    index, copy, ring, closed, aw, pwoken, ppc, sent, received, looked,     \* Pipe
    queue, idle_count, thread_count, tpc,                                   \* BlockingPool
    st, task, alive, fring, target, content, pos, read_pos, is_dirty,
    fdoing, fsaid, want, upos, writes, adrift, shut,                        \* AsyncFile
    now, due, tmine, whenOf, todo, ops, timers, tflag, rpc, deadline, wakers, twoken,  \* Timers
    able, interest, ticker, tick, slot, ticks, slab, fticks,
    wpc, roused, rspc, rtick, events, drained                               \* Readiness

Pi == INSTANCE Pipe WITH woken <- pwoken
Bp == INSTANCE BlockingPool
Fi == INSTANCE AsyncFile WITH ring <- fring, doing <- fdoing, said <- fsaid
Ti == INSTANCE Timers WITH Users <- TimerOwners, mine <- tmine, flag <- tflag, woken <- twoken
Re == INSTANCE Readiness WITH Kind <- ReadyKind, Dir <- ReadyDir

pvars  == <<index, copy, ring, closed, aw, pwoken, ppc, sent, received, looked>>
bpvars == <<queue, idle_count, thread_count, tpc>>
fivars == <<st, task, alive, fring, target, content, pos, read_pos, is_dirty,
            fdoing, fsaid, want, upos, writes, adrift, shut>>
tvars  == <<now, due, tmine, whenOf, todo, ops, timers, tflag, rpc, deadline, wakers, twoken>>
rdvars == <<able, interest, ticker, tick, slot, ticks, slab, fticks, wpc, roused, rspc, rtick,
            events, drained>>

IoParts == {"pipe", "blocking_pool", "file", "timers", "readiness"}
iovars  == <<pvars, bpvars, fivars, tvars, rdvars>>

IoInit ==
    /\ Pi!PInit /\ Bp!BpInit /\ Fi!FiInit /\ Ti!TInit /\ Re!RdInit
    /\ which # "file" => ~is_dirty

IoNext ==
    \/ which = "pipe" /\ Pi!PNext /\ UNCHANGED <<bpvars, fivars, tvars, rdvars>>
    \/ which = "blocking_pool" /\ Bp!BpNext /\ UNCHANGED <<pvars, fivars, tvars, rdvars>>
    \/ which = "file" /\ Fi!FiNext /\ UNCHANGED <<pvars, bpvars, tvars, rdvars>>
    \/ which = "timers" /\ Ti!TNext /\ UNCHANGED <<pvars, bpvars, fivars, rdvars>>
    \/ which = "readiness" /\ Re!RdNext /\ UNCHANGED <<pvars, bpvars, fivars, tvars>>

\* The properties of the modules, stated there: the pipe delivers its bytes in
\* order, and wakes who waits for it;
PipeSound          == Pi!PipeInOrder /\ Pi!PipeWakes
\* the pool leaves no runnable without a thread, a file is read and written as
\* if it were a std file, a timer that is due fires, and who waits for a
\* source learns of its events.
NoStrandedRunnable == Bp!NoStrandedRunnable
FileSequential     == Fi!FileSequential
TimersFire         == Ti!TimersFire
AwaitsEvents       == Re!AwaitsEvents
=============================================================================
