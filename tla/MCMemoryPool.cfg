SPECIFICATION Spec
CONSTANTS
    MaxDuration = 7
    DefaultBackoffBase = 1
    DefaultBackoffMax = 4
    DefaultConcurrency = 10
    DefaultMaxRetries = 3
    q1 = q1 q2 = q2 t1 = t1 t2 = t2 s1 = s1 w1 = w1 w2 = w2
    NoQueue = NoQueue
    NoTask = NoTask
    Queues = {q1, q2}
    Tasks = {t1, t2}
    Subs = {s1}
    Workers = {w1, w2}
    SubOf <- PoolSubOf
    QueueOf <- PoolQueueOf
    BackoffOf <- PoolBackoff
    EnqueueInputs <- FewInputs
    IdleWait = 3
    ClockLag = 1
    MaxTime = 2
    MaxRequeues = 1
INVARIANTS
    TypeOK
    OnePlace
    NoLostWakeup
    DeadOldestFirst
    StoppedIsQuiet
    PagesTileTheList
PROPERTIES
    ImplementsContract
SYMMETRY PoolSymmetry
