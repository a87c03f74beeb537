CONSTANTS
    Nodes = {"a", "b", "r"}
    Relays = {"r"}
    Neighbors <- NeighborsOf
    Hops <- HopsOf
    Reaches <- ReachesOf
    Traffic <- Exchange
    Leavers <- Leaves
    Probes <- Keepalives
    Flows = {1}
    w1 = w1
    w2 = w2
    Workers <- WorkersOf
    Queues = {1, 2}
    QueueOf <- OneQueueEach
    Nothing = Nothing
    DefaultTTL = 3
    Shards = 1
    RingCap = 1
    SeenCap = 2
    QueueCap = 2
    Budgets <- Plans
    MaxFaults = 1
SPECIFICATION Spec
INVARIANTS
    TypeOK
    DirectPathIsDirect
PROPERTIES
    Delivers
CHECK_DEADLOCK FALSE
