CONSTANTS
    r1 = r1  r2 = r2  w1 = w1  w2 = w2  p1 = p1  p2 = p2
    NoWaker = NoWaker
    Handle = Handle
    Runners <- MCRunners
    Wakers <- MCWakers
    Parents <- MCParents
    SizedSched = TRUE
    MayPanic = TRUE
SYMMETRY MCSymmetry
SPECIFICATION Spec
CHECK_DEADLOCK FALSE
INVARIANTS
    TypeOK
    RefCountExact
    OneRunnable
    SlotExclusive
    DroppedOnce
    NoUseAfterFree
    NoLeak
