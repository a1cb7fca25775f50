SPECIFICATION Spec
CONSTANTS
    Passwords = {p1}
    None = none
    Supported <- MCSupported
    MaxOps = 1
    MaxFaults = 0
INVARIANT ApprovedIsTried
CHECK_DEADLOCK FALSE
