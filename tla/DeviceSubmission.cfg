SPECIFICATION MCSpec
CONSTANTS
    g1 = g1
    g2 = g2
    g3 = g3
    None = None
    Graphs = {g1, g2, g3}
    SendersOf <- MCSendersOf
    Parent <- MCParent
    QueueCount = 2
    MaxQueues = 5
    Borrowed = 1
    Launches <- MCLaunches
    MaxWorkers = 3
    WarpSize = 2
    Shapes <- MCShapes
    SizesOf <- MCSizesOf
    ChunkSize = 2
    MaxOperations = 2
INVARIANTS
    DeviceOrder
    DeliveredQuiescent
    DeviceMemoryExact
PROPERTIES
    SubmissionsEnd
CHECK_DEADLOCK FALSE
