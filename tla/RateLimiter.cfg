SPECIFICATION Spec
CONSTANTS
    auth1 = auth1
    auth2 = auth2
    scan1 = scan1
    Keys <- ThreeKeys
    Limit <- RouteLimit
    Window = 2
    MaxKeys = 2
    MaxTime = 5
INVARIANTS
    RefusedOnlyWhenSaturated
PROPERTY ImplementsSlidingWindow
