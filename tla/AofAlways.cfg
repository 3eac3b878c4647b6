SPECIFICATION FairAofSpec
CONSTANTS
    Fsync = "always"
    Clients = {k1, k2}
    Bodies = {b}
    DiskMayFail = TRUE
    SeqBound = 4
    LagBound = 1
INVARIANTS
    AofTypeOK
    LogOrdered
    SettledIsDurable
PROPERTIES
    WaiterServed
CHECK_DEADLOCK FALSE
