CONSTANTS
    Peers = {p1}
    MaxSession = 2
    Scans = {x1, x2}
    NoScan = NoScan
    Slots = 1
    Repeated = {1}
SPECIFICATION Spec
SYMMETRY Symmetry
INVARIANTS
    TypeOK
    BurstsMeetAScan
    NoOrphanScan
    RegisteredScanIsOpen
