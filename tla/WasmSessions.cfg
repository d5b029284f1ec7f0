SPECIFICATION Spec
CONSTANTS
    None = None
    c1 = c1
    c2 = c2
    x1 = x1
    x2 = x2
    y1 = y1
    d1 = d1
    d2 = d2
    z1 = z1
    Conns = {c1}
    Streams = {x1, x2, d1}
    Info <- OneConn
    Starts <- ColdOrWarm
    Roles = {TRUE, FALSE}
    WtMax = 1
    MaxHandshakes = 1
    MaxSessions = 1
    MaxStreams = 1
    QGlobal = 1
    QSession = 1
    QStream = 1
    EventCap = 2
    TokenCeiling = 1
    WakeMax = 2
    MaxBlocked = 1
    Frames = {"ok", "blocked", "fail", "close"}
    MaxFrames = 2
    MaxInputs = 4
    MaxDatagrams = 0
    DatagramLen = 1
INVARIANTS BudgetTracksStreams SessionsBounded 
CHECK_DEADLOCK FALSE
