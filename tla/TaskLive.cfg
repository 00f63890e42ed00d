CONSTANTS
    r1 = r1  r2 = r2  w1 = w1  w2 = w2  p1 = p1  p2 = p2
    NoWaker = NoWaker
    Handle = Handle
    Runners = {r1, r2}
    Wakers = {w1}
    Parents = {p1, p2}
    SizedSched = FALSE
    MayPanic = FALSE
SPECIFICATION FairSpec
CHECK_DEADLOCK FALSE
INVARIANTS
    CancelStops
PROPERTIES
    AwaiterWoken
    WakeLeadsToPoll
    CancelledIsDropped
