SPECIFICATION FairDispatchSpec
CONSTANTS
    q1 = q1
    m1 = m1
    Queues = {q1}
    Ids = {m1, m2}
    Consumers = {c1}
    Connections = {k1}
    SlowConnections = {}
    SlowSubscribers = {k1}
    None = None
    MaxAttempts <- MCOneRetry
    Priority <- MCFirst
    MaxLengths <- MCLimit
    DefaultMaxLength = None
    VisibilityTimeout = 0
    RetryBackoff = "fixed"
    RetryBaseDelay = 1
    EnqueueDelays = {0}
    RecentAckLimit = 1
    Targets <- OnlyOrdinary
    QueueLists <- OneQueue
    Prefetches = {1, 2}
    Deletable <- DeleteAny
    RRPeriod = 1
    UnackedBound = 2
INVARIANTS
    NotStranded
    WithinLimit
PROPERTIES
    NoLostWakeup
CHECK_DEADLOCK FALSE
