SPECIFICATION FairSpec
CONSTANTS
    Self = "self"
    Peers = {"r", "d"}
    Graphs <- MCGraphs
    MaxEvents = 1
INVARIANTS
    TypeOK
    ViewIsWhole
PROPERTIES
    NodeCatchesUp
    TrafficFindsAWay
