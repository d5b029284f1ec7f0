SPECIFICATION MCSpec
CONSTANTS
    r1 = r1  r2 = r2  w1 = w1  w2 = w2
    Readers = {r1, r2}
    Writers = {w1, w2}
    Kinds = {"bidi", "uniRecv", "uniSend"}
    Batches = {TRUE, FALSE}
    MaxChunks = 2
    BatchMax = 2
    MaxStream = 2
    ChannelCapacity = 1
INVARIANTS ReservationsExact AnswersHonest
 
CHECK_DEADLOCK FALSE
