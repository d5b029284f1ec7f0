SPECIFICATION MCSpec
CONSTANTS
    MaxTasks = 3
    MaxOps = 1
    ShardOf <- MCShardOf
    Grace = 0
    Abort = 1
    TaskFaults = {"panic", "stall"}
    Instances = {"lead", "twin", "plain", "odd"}
    OptionsOf <- MCOptionsOf
    Slots = {1}
    Retries = 2
    StartFaults = {"late", "fail", "pacer", "attach"}
    Spelled = {"a", "A.", "b", "*", "?"}
    Names = {"a", "b", "*"}
    Canon <- MCCanon
    WildcardOf <- MCWildcardOf
    SniLists <- MCSniLists
    Certs = {"c1", "c2"}
    MaxHellos = 1
    LbConfigs <- MCLbConfigs
    Octets = {0, 255}
INVARIANTS  SetupSafe
PROPERTIES ServerSettles SetupSteps
CHECK_DEADLOCK FALSE
