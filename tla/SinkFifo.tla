------------------------------ MODULE SinkFifo ------------------------------
(* What the native sink promises its consumer: the records of one stream,  *)
(* in order, each once, and nothing after the record that ends it.         *)
EXTENDS Naturals, Sequences

CONSTANT Records
VARIABLES
    queue,   \* records put and not yet taken
    ended    \* the terminal record has been put

fifo == <<queue, ended>>
Terminal(r) == r.kind \in {"eof", "error", "reset"}

FifoInit == queue = <<>> /\ ended = FALSE
Put ==
    /\ ~ended /\ queue' # <<>>
    /\ LET r == queue'[Len(queue')]
       IN  r \in Records /\ queue' = Append(queue, r) /\ ended' = Terminal(r)
Take == queue # <<>> /\ queue' = Tail(queue) /\ UNCHANGED ended
FifoNext == Put \/ Take
FifoSpec == FifoInit /\ [][FifoNext]_fifo
=============================================================================
