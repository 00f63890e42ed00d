CONSTANTS
    r1 = r1 r2 = r2 k1 = k1 h1 = h1 t1 = t1 t2 = t2 t3 = t3 NULL = NULL
    Runners = {r1}
    Tickers = {k1}
    Threads = {h1}
    Tasks = {t1}
    LocalCap = 1
SPECIFICATION FairSpec
CHECK_DEADLOCK FALSE
PROPERTIES
    ScheduledIsRun
