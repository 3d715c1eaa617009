SPECIFICATION FairSpec
CONSTANTS
    c1 = c1
    c2 = c2
    c3 = c3
    Conns <- ThreeConns
    MaxClients = 2
    QueueSize = 2
    MaxMessages = 3
INVARIANTS
    NothingLostUnpressed
    FreshTickKept
PROPERTIES
    ImplementsLossyStream
    TicksArrive
CHECK_DEADLOCK FALSE
