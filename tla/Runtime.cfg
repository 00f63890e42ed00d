CONSTANTS
    Items = {0, 1, 2}
    Others = {7, 8}
    MaxLen = 3
    N = 2
    MaxOut = 5
    MaxText = 4
    MaxErr = 1
    Size = 6
    Capacity = 3
    MaxBack = 3
    Room = 3
    MaxBytes = 7
    Objects = {a, b}
    MaxSlots = 4
    PipeCap = 2
    MaxSent = 6
    Pool = {p1, p2, p3, p4}
    PerIdle = 2
    MaxQueue = 5
    FileLen = 3
    Ahead = 2
    MaxFile = 3
    MaxCalls = 1
    TimerOwners = {u1, u2}
    MaxTime = 2
    MaxId = 2
    OpsCap = 2
    Waiters <- MCWaiters
    ReadyKind <- MCKind
    ReadyDir <- MCDir
    MaxTick = 2
    Tasks = {t1, t2, t3, t4}
    None = None
    Users = {t1, t2, t3}
    Permits = 2
    Parties = {t1, t2, t3, t4}
    Needed = 3
    MaxGens = 3
    Children = {t1, t2, t3}
    Main = main
    Cloners = {main, other}
    NoTask = noTask
    Lockers = {t1, t2, t3}
    Unparkers = {t1, t2, t3}
SYMMETRY MCSymmetry
SPECIFICATION MCSpec
CHECK_DEADLOCK FALSE
INVARIANTS
    GuardsExclude
    WaitsForSomeone
    PermitsConserved
    NobodyStranded
    PipeSound
    NoStrandedRunnable
    FileSequential
    TimersFire
    AwaitsEvents
    Conforms
    BytesInOrder
    SlabSound
