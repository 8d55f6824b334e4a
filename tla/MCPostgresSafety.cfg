SPECIFICATION Spec
CONSTANTS
    MaxDuration = 7
    DefaultBackoffBase = 1
    DefaultBackoffMax = 4
    DefaultConcurrency = 10
    DefaultMaxRetries = 3
    t1 = t1 t2 = t2 p1 = p1 p2 = p2 w1 = w1 w2 = w2
    NoTask = NoTask
    NoProc = NoProc
    Tasks = {t1}
    Procs = {p1, p2}
    Listening = {}
    ReconnectMin = 1
    ReconnectMax = 2
    MaxLosses = 0
    Workers = {w1, w2}
    ProcOf <- ApartProcOf
    BackoffBase = 1
    BackoffMax = 1
    EnqueueInputs <- OneRetry
    PollInterval = 2
    LeaseDuration = 1
    MaxLate = 1
    MaxRequeues = 1
    MaxCrashes = 1
    MaxFaults = 1
    MaxLapses = 2
SYMMETRY ApartSymmetry
INVARIANTS
    AttemptOnce
    BudgetPaid
PROPERTIES
    NotEarly
    StaleFailureIsHarmless
    ImplementsContract
