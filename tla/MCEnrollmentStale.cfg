SPECIFICATION Spec
CONSTANTS
    svc = svc  cmd = cmd
    Processes <- MCProcesses
    Kinds <- MCKinds
    Nobody = Nobody
    MaxResets = 2
    MaxLaunches = 1
    MaxFaults = 1
INVARIANTS NoCheckInOnceDisowned
CHECK_DEADLOCK FALSE
