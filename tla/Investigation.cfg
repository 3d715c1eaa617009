SPECIFICATION Spec
CONSTANTS
    StatusPrintsValue = TRUE
    p1 = p1
    p2 = p2
    Pids <- TwoPids
    Apps <- SomeApps
    KernelPids <- NoKernelPid
    Protected <- ProtectedNames
    Monitored <- OneSensor
    Settings <- SomeSettings
    Sockets <- SomeSockets
    FailedQueries <- SomeFailures
    Loads <- SomeLoads
    TimelineCap = 1
    MaxStarts = 2
    MaxCaptures = 2
    MaxRequests = 2
SYMMETRY Symmetry
INVARIANTS
    InUseIsSeen
    ResponsesAreSafe
    AnalysesCorrespond
CHECK_DEADLOCK FALSE
