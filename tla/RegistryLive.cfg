CONSTANTS
    Nodes = {1, 2}
    PoolSize = 2
    Handlers = {h1}
    Requests <- Heartbeats
    Administered = {1}
    NewRoles = {"client"}
    AutoSuperpeers = 1
    Accounts = {7}
    MaxLease = 2
    MaxAdminOps = 1
    MaxInvites = 0
SPECIFICATION FairSpec
PROPERTIES
    RemovedNodeFades
    BackboneIsRefilled
