SPECIFICATION Spec
CONSTANTS
    s1 = s1
    s2 = s2
    t1 = t1
    Sessions <- OneTab
    Terminals <- OneTerminal
    Nothing = Nothing
    Readings <- QuietAndLoud
    Fallible <- OneProbe
    CameraProbe = TRUE
    OldLogs <- OneOldLog
    MinHistory = 2
    RecentRows = 3
    MaxScans = 2
    MaxClicks = 1
    MaxFaults = 1
INVARIANTS
    HistoryIsWhole
    CacheIsCurrent
    OneVerdict
    CriticalNeedsHistory
    HealthyMeansMeasured
    RefreshShowsNewReadings
CHECK_DEADLOCK FALSE
