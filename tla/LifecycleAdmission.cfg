SPECIFICATION Spec
CONSTANTS
    s1 = s1  s2 = s2  s3 = s3  i1 = i1  i2 = i2  p1 = p1
    Sessions = {s1, s2, s3}
    Ips = {i1, i2}
    Prefixes = {p1}
    IpOf <- MCIpOf
    PrefixOf <- MCPrefixOf
    MaxHandshakes = 3
    MaxSessions = 1
    BurstPerIp = 1
    BurstPerPrefix = 2
    ChannelCapacity = 1
    AppReads = TRUE
    Hazards = {"app", "appClose"}
INVARIANTS  SlotsExact LimitsHold ClosedMeansFree
CHECK_DEADLOCK FALSE
