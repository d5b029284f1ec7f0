SPECIFICATION MCSpec
CONSTANTS
    Readers = {r1, r2}
    Senders = {s1, s2}
    Callers = {c1, c2}
    Budget = 3
    RecvCapacity = 2
    SendCapacity = 1
    BatchMax = 2
    NoReader = NoReader
    Connects = {1, 2, 3}
    Keys = {k1, k2}
    MaxPoolEntries = 1
    MaxPerKey = 2
    IdleTimeout = 0
    MaxNow = 1
    Identities = {i1, i2}
    Servers = {x, y}
    Tickets = {1, 2}
    EarlyTickets = {1}
    MaxPerServer = 1
    MaxServers = 1
    Vaults = {v1}
    NoEntry = 0
    MaxDials = 2
INVARIANTS  ConnectSafe
PROPERTIES ClientSettles
CHECK_DEADLOCK FALSE
