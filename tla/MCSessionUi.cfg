SPECIFICATION Spec
CONSTANTS
    Slots = {p1, p2, p3}
    Sessions = {a, b}
    Nobody = nobody
    MaxLaunches = 2
    MaxFaults = 1
INVARIANTS SessionUiInv OneScreenPerSession
PROPERTIES LockReachesConsole
CHECK_DEADLOCK FALSE
