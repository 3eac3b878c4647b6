SPECIFICATION FairSpec
CONSTANTS
    k1 = k1
    k2 = k2
    ch = ch
    Conns = {k1, k2}
    Channels = {ch}
    None = None
    Batches <- MCBatches
    ReadBound <- MCReadBound
    Fragile = {k1}
    OutboundLimit = 2
    MaxConnections = 2
    AuthRequired = TRUE
    MaxFailures = 2
    FsyncAlways = TRUE
INVARIANTS
    ServerTypeOK
    TablesAgree
    OneLateCommand
PROPERTIES
    SlowAreDropped
    GoneAreDropped
    WriterEnds
CHECK_DEADLOCK FALSE
