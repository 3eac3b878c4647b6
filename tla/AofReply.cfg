SPECIFICATION AofSpec
CONSTANTS
    Fsync = "always"
    Clients = {k1}
    Bodies = {b}
    DiskMayFail = FALSE
    SeqBound = 2
    LagBound = 0
INVARIANTS
    ReplyAfterFsync
CHECK_DEADLOCK FALSE
