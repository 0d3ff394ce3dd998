SPECIFICATION FleetSpec
CONSTANTS
    PARTITIONS = 5
    Fleets = {1, 2, 3, 5}
    StreamCounts = {1, 2, 3, 4, 7}
INVARIANTS OneForwarder OneStream NoOrphan
