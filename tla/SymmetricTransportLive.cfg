CONSTANTS
    Relays = {r1}
    Pass = Pass
    Socks = {s1, s2, s3, s4}
    NoSock = NoSock
    NoThread = NoThread
    NoRelay = NoRelay
    BurstSize = 2
SPECIFICATION FairSpec
PROPERTIES
    SilentRelayIsRescanned
    DarkNodeRecovers
