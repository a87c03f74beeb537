CONSTANTS
    Relays = {r1, r2}
    Pass = Pass
    Socks = {s1, s2, s3}
    NoSock = NoSock
    NoThread = NoThread
    NoRelay = NoRelay
    BurstSize = 2
SPECIFICATION Spec
PROPERTIES
    ResetKeepsPrimaryUsable
