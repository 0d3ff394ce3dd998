SPECIFICATION Spec
CONSTANTS
    v1 = v1 v2 = v2 a = a b = b
    Pods = {a, b}
    Vehicles = {v1, v2}
    Inputs <- MCInputs
    AckWindow = 2
    WarmLimit = 2
    Capacity = 2
    Primaries = {1, 2, 3}
    Weights = {0, 1}
    MaxFlight = 1
    MaxFaults = 2
SYMMETRY PodSymmetry
INVARIANTS
    ReplayIsComplete
    ResizeLosesNothing
    TraceKeepsTheNewest
    TraceIsLatestSolve
    PlacementIsStable
CHECK_DEADLOCK FALSE
