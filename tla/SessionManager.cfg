SPECIFICATION SessionSpec
CONSTANTS
    code1 = code1
    localDev = localDev
    NoCode = NoCode
    t1 = t1
    t2 = t2
    h1 = h1
    h2 = h2
    Codes <- OneCode
    LocalCodes <- OneLocalCode
    Tokens <- TwoTokens
    Callers <- TwoCallers
    CodeTtl = 1
    DayTtl = 2
    SeedTtl = 9
    SessionTtl = 1
    MaxClock = 3
SYMMETRY DrawSymmetry
INVARIANTS
    SingleUse
    AccessIsBounded
    RevocationIsFinal
CHECK_DEADLOCK FALSE
