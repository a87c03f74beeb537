SPECIFICATION Spec
CONSTANTS
    Nodes = {1, 2, 3, 4}
    Hash <- MCHash
    Capacity <- MCCapacity
    Handlers = {h1}
    Policies <- MCPolicies
    Reported <- MCReported
    MaxEdits = 1
    CacheLimit = 0
INVARIANTS
    TypeOK
    CacheIsCurrent
    BlockedStaysOut
    IslandsAreBridged
    RelaysReachEveryone
