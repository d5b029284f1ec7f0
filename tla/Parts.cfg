SPECIFICATION MCSpec
CONSTANTS
    Names = {"s", "x"}
    Values = {"1", "2"}
    NameLen <- MCNameLen
    Sections <- MCSections
    QpackStreams = {1, 2, 3}
    Confs <- MCConfs
    Peers = {"a", "b", "c"}
    PeerPrefix <- MCPeerPrefix
    LimitConns = {1, 2}
    MaxBuckets = 2
    RateScale = 1
    Second = 2
    Rate = 1
    Burst = 1
    Multiplier = 1
    IdleTtl = 2
    MaxTime = 2
    Stores = {"s", "t"}
    ServerNames = {"m", "n"}
    MaxServers = 1
    MaxTickets = 2
    MaxVault = 1
    SessionKeys = {"k", "l"}
    MaxServerEntries = 1
    TicketBound = 4
    PutBound = 4
    MaxReason = 3
    Scripts <- MCScripts
    Keys = {1, 2}
    ChunkLen = 2
    MaxCrossing = 3
    CrossingBytes = 3
    MaxChunks = 1
    FeedFaults = {"throws", "refused", "enqueue", "drop", "close"}
    Comps = {1, 2}
    Owners = {1, 2}
    Phases = 3
    MaxErrors = 1
    PayloadSizes = {0, 2, 3}
    EngineMax = 2
    MaxPayloads = 3
    BucketServers = {1, 2}
    BucketIps = {"i"}
    Unit = 1
    RefillRate = 1
    BucketBurst = 2
    MaxIdle = 2
    ClockBound = 3
INVARIANTS  HandoverSafe  WindowRate
PROPERTIES LimiterSafe TicketsSafe 
CHECK_DEADLOCK FALSE
