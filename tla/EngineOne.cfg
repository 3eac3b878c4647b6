SPECIFICATION FairSpec
CONSTANTS
    m1 = m1
    m2 = m2
    Queues = {q1}
    Ids = {m1}
    Consumers = {c1, c2}
    None = None
    MaxAttempts <- MCMaxAttempts
    Priority <- MCPriority
    MaxLengths <- MCMaxLengths
    DefaultMaxLength = None
    VisibilityTimeout = 2
    RetryBackoff = "exponential"
    RetryBaseDelay = 1
    EnqueueDelays <- MCEnqueueDelays
    RecentAckLimit = 1
INVARIANTS
    TypeOK
    OneHome
    NotStranded
    OnePlace
    AttemptsLeft
PROPERTIES
    GoneForGood
    NoSilentLoss
    EventuallySettled
    LifeSpec
CHECK_DEADLOCK FALSE
