SPECIFICATION FlowSpec
CONSTANTS
    None = None
    c1 = c1
    c2 = c2
    x1 = x1
    x2 = x2
    y1 = y1
    d1 = d1
    d2 = d2
    z1 = z1
    Conns = {c1, c2}
    Streams = {x1, y1, d1, z1}
    Info <- TwoConns
    Starts <- Warm
    Roles = {TRUE}
    WtMax = 1
    MaxHandshakes = 1
    MaxSessions = 2
    MaxStreams = 2
    QGlobal = 2
    QSession = 2
    QStream = 2
    EventCap = 2
    TokenCeiling = 2
    WakeMax = 2
    MaxBlocked = 1
    Frames = {"close"}
    MaxFrames = 2
    MaxInputs = 4
    MaxDatagrams = 1
    DatagramLen = 1
PROPERTIES PayloadsArrive
CHECK_DEADLOCK FALSE
