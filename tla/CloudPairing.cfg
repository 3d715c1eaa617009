SPECIFICATION PairingSpec
CONSTANTS
    u1 = u1
    u2 = u2
    t1 = t1
    t2 = t2
    p1 = p1
    p2 = p2
    d1 = d1
    d2 = d2
    Emails <- TwoEmails
    Tokens <- TwoTokens
    Codes <- TwoCodes
    Devices <- TwoDevices
    None = None
    Broken = Broken
    SessionTtl = 1
    PairingTtl = 1
    MaxTime = 2
SYMMETRY NameSymmetry
INVARIANTS
    PairingTypeOK
    EveryDeviceHasItsCode
PROPERTY OnlyItsUserShutsADevice
CHECK_DEADLOCK FALSE
