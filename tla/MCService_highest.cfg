SPECIFICATION Spec
CONSTANTS
    v1 = v1 v2 = v2 a = a b = b
    Pods = {a}
    Vehicles = {v1, v2}
    Inputs <- MCInOrder
    AckWindow = 2
    WarmLimit = 2
    Capacity = 3
    Primaries = {1, 2, 3}
    Weights = {0, 1}
    MaxFlight = 1
    MaxFaults = 2
INVARIANT HighestRevisionWins
CHECK_DEADLOCK FALSE
