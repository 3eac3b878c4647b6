SPECIFICATION Spec
CONSTANTS
    Queues = {q1}
    Exchanges = {x1}
    Default = Default
    Keys = {}
    Pubs = {p1, p2}
    None = None
    DefaultMaxLength = 1
    Rank <- MCRank
    Named <- MCNamed
    Bindable <- MCBindable
    SeqBound = 5
SYMMETRY Symmetry
INVARIANTS
    RoutingTypeOK
    NoOrphanBindings
    ReplyIsTrue
PROPERTIES
    RoutesSurvive
CHECK_DEADLOCK FALSE
