SPECIFICATION AofSpec
CONSTANTS
    Fsync = "everysec"
    Clients = {k1}
    Bodies = {b}
    DiskMayFail = FALSE
    SeqBound = 3
    LagBound = 2
INVARIANTS
    LossBounded
CHECK_DEADLOCK FALSE
