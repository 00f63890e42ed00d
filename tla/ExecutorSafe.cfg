CONSTANTS
    r1 = r1 r2 = r2 k1 = k1 h1 = h1 t1 = t1 t2 = t2 t3 = t3 NULL = NULL
    Runners = {r1, r2}
    Tickers = {}
    Threads = {h1}
    Tasks = {t1, t2, t3}
    LocalCap = 1
SYMMETRY MCSymmetry
SPECIFICATION Spec
CHECK_DEADLOCK FALSE
INVARIANTS
    RunnablesConserved
    SleeperSound
    NoLostWakeup
    DropsComplete
