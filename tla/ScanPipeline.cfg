SPECIFICATION Spec
CONSTANTS
    p1 = p1
    p2 = p2
    monitor = monitor
    api = api
    Processes <- MCProcesses
    Threads <- MCThreads
    Monitor = monitor
    Warmup = 1
    MaxScans = 2
INVARIANTS
    OpenedIsMigrated
    ScansAreWhole
    AlarmsAreWarm
SYMMETRY Symmetry
