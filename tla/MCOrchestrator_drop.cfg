SPECIFICATION Spec
CONSTANTS
    v1 = v1 v2 = v2 v3 = v3 v4 = v4 v5 = v5 w1 = w1 w2 = w2 p1 = p1 p2 = p2 p3 = p3
    Vehicles = {v1}
    Workers = {w1}
    Partitions = {p1}
    WorkerOf <- OneWorkerAlone
    PartitionOf <- OnePartitionAlone
    Unserved = {}
    Feeds <- MonotonicFeeds
    QueueCap = 1
    MaxAckPending = 2
    BatchSize = 1
    History = 2
    WarmLimit = 2
    MaxFaults = 1
INVARIANTS DropIsRecorded
CHECK_DEADLOCK FALSE
