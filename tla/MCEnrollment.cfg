SPECIFICATION FairSpec
CONSTANTS
    svc = svc  cmd = cmd
    Processes <- MCProcesses
    Kinds <- MCKinds
    Nobody = Nobody
    MaxResets = 2
    MaxLaunches = 2
    MaxFaults = 2
INVARIANTS EnrollmentInv StrandedIsExplained StaleCheckInIsExplained
PROPERTIES OnlyDisownedIsErased EnrollmentConverges ApiLockIsFreed
CHECK_DEADLOCK FALSE
