SPECIFICATION DispatchSpec
CONSTANTS
    q1 = q1
    m1 = m1
    Queues = {q1}
    Ids = {m1, m2}
    Consumers = {c1, c2}
    Connections = {k1, k2}
    SlowConnections = {k1, k2}
    SlowSubscribers = {k1, k2}
    None = None
    MaxAttempts <- MCOneAttempt
    Priority <- MCPriority
    MaxLengths <- MCMaxLengths
    DefaultMaxLength = None
    VisibilityTimeout = 0
    RetryBackoff = "fixed"
    RetryBaseDelay = 0
    EnqueueDelays = {0}
    RecentAckLimit = 1
    Targets <- OnlyOrdinary
    QueueLists <- OneQueue
    Prefetches = {1}
    Deletable <- DeleteDlq
    RRPeriod = 2
    UnackedBound = 1
SYMMETRY Symmetry
INVARIANTS
    DispatchTypeOK
    NoOrphanLeases
    SlotsCoverLeases
PROPERTIES
    PrefetchRespected
CHECK_DEADLOCK FALSE
