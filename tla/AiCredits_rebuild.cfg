SPECIFICATION Spec
CONSTANTS
    Requests = {r1, r2}
    CreditLimit = 2
    Estimate = 1
    EvictionMayRace = FALSE
    MaxCalls = 2
    MaxMonths = 1
    MaxFails = 0
    MaxCrashes = 0
    MaxEvictions = 1
INVARIANT CounterIsLedger
CHECK_DEADLOCK FALSE
