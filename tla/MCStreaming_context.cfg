SPECIFICATION Spec
CONSTANTS
    west = west east = east
    Places = {0, 1, 3}
    Steps = {1, 3}
    Gap = 2
    Jump = 2
    Window = 2
    History = 3
    Shards = {west, east}
    ShardOf <- TwoShards
    Ground <- Nodes
    Candidates <- Roads
    MaxEvents = 4
    MaxFaults = 1
INVARIANTS ContextUnbroken SolvesTheWindow LayersResolve RestartIsNeeded
CHECK_DEADLOCK FALSE
