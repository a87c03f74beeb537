CONSTANTS
    Nodes = {1, 2}
    PoolSize = 1
    Handlers = {h1, h2}
    Requests <- Meeting
    Administered = {1}
    NewRoles = {}
    AutoSuperpeers = 0
    Accounts = {7}
    MaxLease = 1
    MaxAdminOps = 1
    MaxInvites = 1
SPECIFICATION Spec
SYMMETRY Symmetry
INVARIANTS
    TypeOK
    AddressesUnique
PROPERTIES
    OwnershipIsKept
