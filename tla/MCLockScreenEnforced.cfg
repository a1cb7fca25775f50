SPECIFICATION Spec
CONSTANTS
    MaxCheckIns = 2
    MaxStarts = 1
    MaxSubmits = 1
    MaxFaults = 0
PROPERTY EnforcedUntilToken
CHECK_DEADLOCK FALSE
