SPECIFICATION Spec
CONSTANTS
    car = car
    bus = bus
    w1 = w1
    w2 = w2
    None = None
    Node <- MCNode
    Worker = {w1, w2}
    Runtime = {car, bus}
    Limit = 4
    MaxRepr = 36
    Capacity = 2
    Workloads <- MCWorkloads
INVARIANTS
    TypeOK
    CacheIsSound
    RouteIsReal
    UniformIsExact
CHECK_DEADLOCK FALSE
