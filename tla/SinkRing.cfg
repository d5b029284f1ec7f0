SPECIFICATION MCSpec
CONSTANTS
    Quarter = 5  Header = 2  MaxTerminal = 1  Reserved = 6
    RecordLengths = {3, 5}
    Modes = {"block", "drop"}
    Framings = {TRUE, FALSE}
    IdleTimeouts = {TRUE, FALSE}
    ChunkSizes = {1, 3}
    FrameHeader = 1
    FrameSizes = {0, 1, 3}
    MaxRecords = 9
    MaxChunks = 7
INVARIANTS RingSafe RecordsHonest
PROPERTIES RingImplements EndReachesConsumer
CHECK_DEADLOCK FALSE
