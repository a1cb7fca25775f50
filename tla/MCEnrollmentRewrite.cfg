SPECIFICATION Spec
CONSTANTS
    svc = svc  cmd = cmd
    Processes <- MCProcesses
    Kinds <- MCKinds
    Nobody = Nobody
    MaxResets = 1
    MaxLaunches = 1
    MaxFaults = 0
PROPERTIES EnrollmentIsPreserved
CHECK_DEADLOCK FALSE
