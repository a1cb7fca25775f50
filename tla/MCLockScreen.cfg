SPECIFICATION Spec
CONSTANTS
    MaxCheckIns = 3
    MaxStarts = 2
    MaxSubmits = 1
    MaxFaults = 1
INVARIANTS LockScreenInv WindowFollowsLock LockIsObeyed TaskManagerIsExplained
PROPERTIES ReleaseHolds ImplementsLockPolicy ScreenFollowsDisk
CHECK_DEADLOCK FALSE
