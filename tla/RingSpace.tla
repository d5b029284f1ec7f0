----------------------------- MODULE RingSpace -----------------------------
(* The space accounting of the native sink's ring (SinkRing in             *)
(* stream_sink.rs): where a record goes, what it costs, when there is room *)
(* for it, and the reserve that keeps room for the last record.            *)
(*                                                                         *)
(* The code's cursors are u32 values that wrap.  A data region is a power  *)
(* of two of at most 2^30 bytes, so twice its size divides 2^32; the code  *)
(* uses a cursor only through its position in the region and through the   *)
(* distance of the two, which is at most the size of the region.  Cursors  *)
(* modulo 2 * Capacity say the same, and wrap soon enough to be checked.   *)
EXTENDS Integers, Sequences

CONSTANTS
    Quarter,       \* a quarter of the data region: the longest record
    Header,        \* RECORD_HEADER_BYTES
    MaxTerminal,   \* MAX_TERMINAL_PAYLOAD_BYTES
    Reserved,      \* RESERVED_TAIL_BYTES
    RecordLengths  \* rec_len of the records pushed, aligned

Capacity == 4 * Quarter
Usable == Capacity - Reserved

\* The reserve covers a wrap record shorter than the terminal record and the
\* terminal record; half the region covers a gap record and the reserve.
ASSUME SpaceAssumption ==
    /\ Quarter \in Nat /\ Header \in Nat \ {0} /\ MaxTerminal \in Nat /\ Reserved \in Nat
    /\ Reserved >= 2 * (Header + MaxTerminal)
    /\ 2 * Quarter >= 2 * Header + Reserved
    /\ RecordLengths \subseteq Header..Quarter

VARIABLES
    tail,    \* OFF_TAIL, the producer's cursor
    head,    \* OFF_HEAD, the consumer's
    state,   \* OFF_STATE
    gap,     \* pending_gap_records
    plan     \* rec_len of the records the call in progress still commits

space == <<tail, head, state, gap, plan>>

Cursors == 0..(2 * Capacity - 1)
\* tail & mask, wrapping_add and wrapping_sub.
Mask(c) == IF c >= Capacity THEN c - Capacity ELSE c
Add(c, n) == IF c + n >= 2 * Capacity THEN c + n - 2 * Capacity ELSE c + n
Sub(c, d) == IF c >= d THEN c - d ELSE c + 2 * Capacity - d
Fill == Sub(tail, head)
Remainder(c) == Capacity - Mask(c)

\* cost_at: the record as it is; padded to the end of the region when no
\* header would fit behind it; or a WRAP record and the record at the start.
CostAt(c, len) ==
    IF Remainder(c) >= len + Header THEN len
    ELSE IF Remainder(c) >= len THEN Remainder(c)
    ELSE Remainder(c) + len

GapCost == IF gap > 0 THEN CostAt(tail, Header) ELSE 0
CostAfterGap(len) == GapCost + CostAt(Add(tail, GapCost), len)
\* Mutant: the room for a record is counted without the gap record before it.
FitsWithoutGap(len) == Fill + CostAt(tail, len) <= Usable
Fits(len) == Fill + CostAfterGap(len) <= Usable
WithGap(len) == IF gap > 0 THEN <<Header, len>> ELSE <<len>>

RingInit == tail = 0 /\ head = 0 /\ state = "active" /\ gap = 0 /\ plan = <<>>

\* push: the record, with the pending gap record before it.
PushWritten(len) ==
    /\ plan = <<>> /\ state = "active" /\ Fits(len)
    /\ plan' = WithGap(len) /\ gap' = 0
    /\ UNCHANGED <<tail, head, state>>
\* push on a full ring in drop-newest mode: note_drop.
PushDropped(len) ==
    /\ plan = <<>> /\ state = "active" /\ ~Fits(len)
    /\ gap' = gap + 1
    /\ UNCHANGED <<tail, head, state, plan>>
\* push_terminal: once, into the reserve; the gap record only if both fit.
PushTerminal(len) ==
    /\ plan = <<>> /\ state = "active"
    /\ state' = "terminal"
    /\ IF Fill + CostAfterGap(len) <= Capacity
       THEN plan' = WithGap(len) /\ gap' = 0
       ELSE plan' = <<len>> /\ UNCHANGED gap
    /\ UNCHANGED <<tail, head>>
\* commit publishes the record.
Commit ==
    /\ plan # <<>>
    /\ tail' = Add(tail, CostAt(tail, Head(plan))) /\ plan' = Tail(plan)
    /\ UNCHANGED <<head, state, gap>>
SetExited ==
    /\ plan = <<>> /\ state = "terminal"
    /\ state' = "exited"
    /\ UNCHANGED <<tail, head, gap, plan>>
\* The consumer gives back bytes, which must be bytes it was given.
Advance(n) == head' = Add(head, n) /\ UNCHANGED <<tail, state, gap, plan>>
Reclaim(n) == n <= Fill /\ Advance(n)

TerminalLengths == Header..(Header + MaxTerminal)
RingNext ==
    \/ \E len \in RecordLengths : PushWritten(len) \/ PushDropped(len)
    \/ \E len \in TerminalLengths : PushTerminal(len)
    \/ Commit \/ SetExited
    \/ \E n \in 1..Capacity : Reclaim(n)
\* A ring whose consumer gives back any number of bytes it has been given.
RingSpec == RingInit /\ [][RingNext]_space

-----------------------------------------------------------------------------
\* Type of the ring's words: the two counters and the write cursor's pieces.
SpaceTypeOK ==
    /\ tail \in Cursors /\ head \in Cursors
    /\ state \in {"active", "terminal", "exited"} /\ gap \in Nat
    /\ plan \in Seq(Nat) /\ Len(plan) <= 2

\* The ring geometry invariant of stream_sink.rs:16: no record starts where
\* its header would not fit before the end of the region.
HeaderFits == Remainder(tail) >= Header

\* The producer never overruns the consumer: the bytes in the ring never
\* exceed it, and until the terminal record they leave its reserve free.
NoOverrun ==
    /\ Fill <= Capacity
    /\ state = "active" /\ plan = <<>> => Fill <= Usable

\* An empty ring has room for every record: a producer that waits for room
\* does wait for a consumer.
EmptyRingAccepts ==
    state = "active" /\ plan = <<>> /\ Fill = 0 => \A len \in RecordLengths : Fits(len)

\* The ring keeps its geometry, never overruns its consumer, and takes every
\* record once it is empty.
RingSafe == HeaderFits /\ NoOverrun /\ EmptyRingAccepts
=============================================================================
