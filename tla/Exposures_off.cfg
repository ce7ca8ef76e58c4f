SPECIFICATION MCSpec
CONSTANTS
    Opens = {o1, o2}
    Instances = {"i"}
    InstanceOf <- OneInstance
    Max = 1
    Closers = {c1, c2}
    o1 = o1
    o2 = o2
    o3 = o3
    c1 = c1
    c2 = c2
    MaxCalls = 2
    Nobody = Nobody
    FunnelOpens = {o1, o2, o3}
    Ports = {1, 2}
    PortOf <- TwoPorts
    Off = 0
    Hooks = {1, 2}
    Batches <- TwoBatches
    DedupMax = 2
    MaxTaken = 2
    MaxLost = 1
    MaxRestarts = 1
PROPERTIES
    OffOnlyWhenFree
CHECK_DEADLOCK FALSE
