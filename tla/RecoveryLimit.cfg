SPECIFICATION DurabilitySpec
CONSTANTS
    Queues = {q1}
    Ids = {m1, m2}
    Consumers = {c1}
    None = None
    MaxAttempts <- MCTwoAttempts
    Priority <- MCPriority
    MaxLengths <- MCLengthOne
    DefaultMaxLength = None
    VisibilityTimeout = 1
    RetryBackoff = "fixed"
    RetryBaseDelay = 1
    EnqueueDelays = {0}
    RecentAckLimit = 1
    Fsync = "none"
    Clients = {k1}
    Bodies <- MCBodies
    DiskMayFail = FALSE
    SeqBound = 5
    LagBound = 0
    SnapshotInterval = 0
    SnapshotOnShutdown = {FALSE}
PROPERTIES
    RecoveryKeeps
CHECK_DEADLOCK FALSE
