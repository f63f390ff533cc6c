SPECIFICATION OutboxSpec
CONSTANTS
    Keys = {k1, k2}
    InOrder = {TRUE}
    MaxTyped = 3
    MaxFaults = 1
PROPERTY NewestWins
CHECK_DEADLOCK FALSE
