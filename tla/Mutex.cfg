CONSTANTS
    t1 = t1  t2 = t2  t3 = t3  t4 = t4
    Lockers <- MCLockers
    MayCancel = TRUE
SPECIFICATION FairMutexSpec
INVARIANTS
    MutualExclusion
    WordExact
PROPERTIES
    NoBarging
    FreeLockIsTaken
