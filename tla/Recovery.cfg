SPECIFICATION DurabilitySpec
CONSTANTS
    Queues = {q1}
    Ids = {m1}
    Consumers = {c1}
    None = None
    MaxAttempts <- MCTwoAttempts
    Priority <- MCPriority
    MaxLengths <- MCAnyLength
    DefaultMaxLength = None
    VisibilityTimeout = 1
    RetryBackoff = "fixed"
    RetryBaseDelay = 1
    EnqueueDelays = {0}
    RecentAckLimit = 1
    Fsync = "none"
    Clients = {k1}
    Bodies <- MCBodies
    DiskMayFail = FALSE
    SeqBound = 4
    LagBound = 0
    SnapshotInterval = 300
    SnapshotOnShutdown = {TRUE, FALSE}
INVARIANTS
    DurabilityTypeOK
    Whole
PROPERTIES
    RecoveryKeeps
CHECK_DEADLOCK FALSE
