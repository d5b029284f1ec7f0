SPECIFICATION MCSpec
CONSTANTS
    l1 = l1  s1 = s1
    Sessions = {s1}
    Lanes = {l1}
    SessionOf <- OneSession
    Streams = {"p1", "p2", "c1"}
    LaneOf <- MCLaneOf
    OriginOf <- MCOriginOf
    MaxGlobal = 2
    MaxLane = 1
    ChannelCapacity = 1
    MaxDrains = 1
    Calls = {"wait", "pull", "discard"}
    MayEnd = {s1}
INVARIANTS CountsExact OvershootBounded
PROPERTIES StreamsSettle
CHECK_DEADLOCK FALSE
