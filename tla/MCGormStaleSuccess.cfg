SPECIFICATION Spec
CONSTANTS
    MaxDuration = 7
    DefaultBackoffBase = 1
    DefaultBackoffMax = 4
    DefaultConcurrency = 10
    DefaultMaxRetries = 3
    t1 = t1 t2 = t2 p1 = p1 p2 = p2 w1 = w1 w2 = w2
    NoTask = NoTask
    NoProc = NoProc
    Tasks = {t1}
    Procs = {p1, p2}
    Workers = {w1, w2}
    ProcOf <- ApartProcOf
    BackoffBase = 1
    BackoffMax = 1
    EnqueueInputs <- OneRetry
    Window = 5
    PollInterval = 2
    LeaseDuration = 1
    Prompt = FALSE
    Recycled = {}
    MaxAttempts = 3
    MaxLate = 1
    MaxRequeues = 0
    MaxCrashes = 0
    MaxFaults = 0
PROPERTIES
    NewerClaimIsSafe
