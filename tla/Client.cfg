SPECIFICATION FairSpec
CONSTANTS
    c1 = c1
    Calls = {c1, c2}
    Kind <- MCKind
    Cancellable = {c1, c2}
    Tokens = {t1}
    None = None
    Damages = {"magic", "huge", "longer", "body"}
    DamageBound = 1
    ConnectBound = 2
    WireBound = 2
INVARIANTS
    ClientTypeOK
    Reassembled
    OwnReply
    PendingAgrees
    EndWakesRequests
    NothingMislaid
PROPERTIES
    RequestsEnd
CHECK_DEADLOCK FALSE
