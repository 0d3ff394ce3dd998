SPECIFICATION FairSpec
CONSTANTS
    v1 = v1 v2 = v2 v3 = v3 v4 = v4 v5 = v5 w1 = w1 w2 = w2 p1 = p1 p2 = p2 p3 = p3
    Vehicles = {v1, v2, v3, v4, v5}
    Workers = {w1, w2}
    Partitions = {p1, p2, p3}
    WorkerOf <- OwnWorkers
    PartitionOf <- FarPartitions
    Unserved = {v3}
    Feeds <- OutageFeeds
    QueueCap = 1
    MaxAckPending = 2
    BatchSize = 2
    History = 1
    WarmLimit = 1
    MaxFaults = 1
PROPERTIES ServedAreSettled
CHECK_DEADLOCK FALSE
