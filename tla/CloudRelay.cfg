SPECIFICATION Spec
CONSTANTS
    MaxConns = 2
    QueueSize = 1
    MaxMessages = 2
    Events = {2}
    d1 = d1
    d2 = d2
    Clients <- TwoClients
SYMMETRY ClientSymmetry
INVARIANTS
    NoGhosts
    NothingWithheld
    OfflineIsKnown
    ReconnectionsRepeatNothing
PROPERTY ImplementsLossyStream
CHECK_DEADLOCK FALSE
