SPECIFICATION Spec
CONSTANTS
    s1 = s1  s2 = s2
    k1 = k1  k2 = k2  lab = lab  nokey = nokey
    me = me  other = other
    Sessions <- MCSessions
    Keys <- MCKeys
    WeakKeys = {lab}
    NoKey = nokey
    Devices <- MCDevices
    ThisDevice = me
    Tokens <- MCTokens
    ReceiptLife = 2
    UiTimeout = 1
    FailureLimit = 1
    BackoffUnit = 1
    MaxTime = 4
    MaxRequests = 2
    MaxProvisions = 1
    MaxFaults = 1
SYMMETRY SessionSymmetry
INVARIANTS OneGrantPerCounter GrantIsDurable RefusalIsHonest RecoveryInv
PROPERTIES ReleaseIsEarned ImplementsLedger
CHECK_DEADLOCK FALSE
