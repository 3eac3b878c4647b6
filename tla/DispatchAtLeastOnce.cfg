SPECIFICATION PromptClientSpec
CONSTANTS
    q1 = q1
    m1 = m1
    Queues = {q1}
    Ids = {m1}
    Consumers = {c1}
    Connections = {k1}
    SlowConnections = {}
    SlowSubscribers = {}
    None = None
    MaxAttempts <- MCMaxAttempts
    Priority <- MCPriority
    MaxLengths <- MCMaxLengths
    DefaultMaxLength = None
    VisibilityTimeout = 1
    RetryBackoff = "fixed"
    RetryBaseDelay = 1
    EnqueueDelays = {0}
    RecentAckLimit = 1
    Targets <- OnlyOrdinary
    QueueLists <- OneQueue
    Prefetches = {1}
    Deletable <- DeleteNothing
    RRPeriod = 1
    UnackedBound = 2
PROPERTIES
    AtLeastOnce
CHECK_DEADLOCK FALSE
