SPECIFICATION FairSpec
CONSTANTS
    MaxDuration = 7
    DefaultBackoffBase = 1
    DefaultBackoffMax = 4
    DefaultConcurrency = 10
    DefaultMaxRetries = 3
    t1 = t1 t2 = t2 p1 = p1 p2 = p2 w1 = w1 w2 = w2 c1 = c1 c2 = c2
    NoTask = NoTask
    Tasks = {t1, t2}
    AckWait = 2
    Procs = {p1, p2}
    Workers = {w1, w2}
    Callers = {c1}
    ProcOf <- ApartProcOf
    Concurrency = 1
    BackoffBase = 1
    BackoffMax = 1
    EnqueueInputs <- Delayed
    HeartbeatFloor = 1
    Prompt = TRUE
    Patient = TRUE
    MaxRequeues = 1
    MaxCrashes = 0
    MaxFaults = 0
    MaxLapses = 1
    MaxForgets = 1
INVARIANTS
    OneConsumer
PROPERTIES
    ImplementsContract
    TasksSettle
    StopDrains
