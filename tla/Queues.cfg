CONSTANTS
    Trio = {t1, t2, t3}
    Threads = {p1, p2}
    Values = {v1, v2}
    None = None
    Cap = 2
    Laps = {2, 4}
    MaxSmall = 2
    MaxBounded = 5
    MaxPush = 3
SYMMETRY MCSymmetry
SPECIFICATION MCSpec
CHECK_DEADLOCK FALSE
INVARIANTS
    BlocksFreedOnce
PROPERTIES
    QueuesAreFifos
