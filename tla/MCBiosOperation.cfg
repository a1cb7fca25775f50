SPECIFICATION Spec
CONSTANTS
    Passwords = {p1}
    None = none
    Supported <- MCSupported
    MaxOps = 2
    MaxFaults = 1
INVARIANTS BiosInv OneAtATime ResultIsHonest SecretIsExplained
PROPERTIES ImplementsPasswordRequests OperationEnds
CHECK_DEADLOCK FALSE
