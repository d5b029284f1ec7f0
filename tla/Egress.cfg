SPECIFICATION MCSpec
CONSTANTS
    Drivers = {d1, d2}
    Transmits = {1, 2, 3, 4, 5}
    Segments <- MCSegments
    Batch = 2
    MaxTransmit = 2
    MaxHints = 1
    NoError = NoError
    Owners = {o1}
    OwnerOf <- MCOwnerOf
    RuleInputs <- MCRules
    Datagrams <- MCDatagrams
    MaxReply = 3
    MaxMatches = 1
    MaxOps = 2
    Stamp = 2
    QueueCapacity = 1
    NoRule = NoRule
    MaxHits = 2
    Servers = {p1, p2}
    Wanted <- MCWanted
    EnvConfig = off
    Sizes = {1, 4}
    MirrorMax = 3
    Clump = 2
    MaxPending = 3
    MaxQueued = 6
    PayloadSize = 1
    Interval = 2
    Catchup = 2
    IdleExit = 1
    ReportsCap = 1
    MarksMax = 2
    MarkWidth = 2
    Threads = {1, 2}
    MaxSubmits = 3
    MaxTicks = 2
    MaxPanics = 1
INVARIANTS SocketSafe PacerSafe
PROPERTIES EgressSettles
CHECK_DEADLOCK FALSE
