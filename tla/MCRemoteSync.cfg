SPECIFICATION Spec
CONSTANTS
    service = service  desktop = desktop
    Processes <- MCProcesses
    Keys <- MCKeys
    NoCommand = NoCommand  NoPatch = NoPatch  Nobody = Nobody
    Commands <- MCCommands
    Patches <- MCPatches
    Skew = 1
    MaxTime = 2
    MaxTrusts = 2
    MaxFaults = 1
INVARIANTS SignedOnce AppliedIsOnDisk RefusedLeftNoTrace RetryIsHonoured RemoteInv
PROPERTIES ImplementsCommandLedger
CHECK_DEADLOCK FALSE
