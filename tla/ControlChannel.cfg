CONSTANTS
    Conns = {c1, c2}
    NoConn = NoConn
    Ops = {"register", "bootstrap"}
    MaxFaults = 2
SPECIFICATION FairSpec
INVARIANTS
    TypeOK
    NoControlSocketLeak
    OneBinding
PROPERTIES
    NewestSessionKeepsBinding
    PromptRepliesMatch
    NodeEndsUpBound
