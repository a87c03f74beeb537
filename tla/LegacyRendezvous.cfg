CONSTANTS
    Sessions = {a, b}
    Ids = {p, q}
    Waiters = {w}
    MaxSessions = 2
    MaxEntries = 3
SPECIFICATION FairSpec
CHECK_DEADLOCK FALSE
PROPERTIES
    WaitIsAnswered
