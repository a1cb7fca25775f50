SPECIFICATION Spec
CONSTANTS
    CheckInPeriod = 1
    LongPeriod = 5
    Tokens = {t1, t2}
    NoToken = none
    MaxRuns = 2
    MaxFaults = 1
INVARIANTS AgentLoopInv CheckInIsTimely ResumeIsHonoured
PROPERTIES CheckInsGoOn
