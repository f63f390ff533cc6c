SPECIFICATION CountersSpec
CONSTANTS
    Requests = {r1, r2}
    CreditLimit = 1
    Estimate = 1
    EvictionMayRace = FALSE
    MaxCalls = 2
    MaxMonths = 2
    MaxFails = 1
    MaxCrashes = 1
    MaxEvictions = 1
    Events = {e1, e2}
    SwitchLimit = 2
    RebuildsBoth = {FALSE, TRUE}
    MaxSwitches = 3
    MaxTeacherActs = 1
    MaxExpiries = 1
    Tabs = {t1, t2}
    SerialGateway = {FALSE, TRUE}
    OldRedis = {FALSE, TRUE}
    MaxAbsences = 2
    MaxConnects = 3
    MaxJoinFailures = 1
SYMMETRY Interchangeable
INVARIANTS
    CountersTypeOK
    CreditLimitKept
    
    SwitchLimitKept
    ReopenedIsAccepted
    GapsRecorded
PROPERTIES
    EndsOnlyWhenDue
CHECK_DEADLOCK FALSE
