SPECIFICATION FairSpec
CONSTANTS
    MaxDuration = 7
    DefaultBackoffBase = 1
    DefaultBackoffMax = 4
    DefaultConcurrency = 10
    DefaultMaxRetries = 3
    t1 = t1 t2 = t2 p1 = p1 p2 = p2 w1 = w1 w2 = w2
    NoTask = NoTask
    NoProc = NoProc
    Tasks = {t1}
    Procs = {p1, p2}
    Listening = {p1}
    ReconnectMin = 1
    ReconnectMax = 2
    MaxLosses = 2
    Workers = {w1}
    ProcOf <- TogetherProcOf
    BackoffBase = 1
    BackoffMax = 1
    EnqueueInputs <- Mixed
    PollInterval = 3
    LeaseDuration = 1
    MaxLate = 1
    MaxRequeues = 1
    MaxCrashes = 1
    MaxFaults = 0
    MaxLapses = 0
INVARIANTS
    TypeOK
    LocalWake
    RemoteWake
PROPERTIES
    TasksSettle
    ListensAgain
    StopDrains
