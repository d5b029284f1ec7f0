SPECIFICATION MCSpec
CONSTANTS
    s1 = s1
    s2 = s2
    Requests = {"send", "ingress", "try", "chunk1", "chunk2"}
    Sessions = {s1, s2}
    Streams = {"t1", "t2", "t3"}
    Bytes = {1, 2, 3, 4, 5, 6, 7, 8, 9, 10}
    BytesOf <- MCBytesOf
    KindOf <- MCKindOf
    SessionOf <- MCSessionOf
    StreamOf <- MCStreamOf
    MaxGlobal = 4
    MaxSession = 3
    MaxStream = 2
    MaxDatagram = 3
    MayClose = {s2}
INVARIANTS BudgetSafe 
 
