------------------------------ MODULE SinkRing ------------------------------
(* The native stream sink (stream_sink.rs): the task that reads a stream,  *)
(* splits it into frames and writes records into the ring, the ring's      *)
(* memory, and the consumer of sink-reader.ts in its worker.               *)
(*                                                                         *)
(* A stream offset is the ordinal of its record.  Byte counts are in the   *)
(* unit of the constants; timestamps are left out.                         *)
EXTENDS RingSpace, FiniteSets

CONSTANTS
    Modes,        \* OverflowMode: "block", "drop"
    Framings,     \* subset of BOOLEAN: with a Deframer or without
    IdleTimeouts, \* subset of BOOLEAN: idle_timeout is set
    ChunkSizes,   \* lengths of the chunks source.read returns
    FrameHeader,  \* header_bytes
    FrameSizes,   \* lengths of the peer's frames; 0 is an invalid length
    MaxRecords,   \* bound on the records of a stream
    MaxChunks     \* bound on its chunks

ASSUME SinkAssumption ==
    /\ ChunkSizes \subseteq Nat \ {0} /\ FrameHeader \in Nat \ {0}
    /\ FrameSizes \subseteq {0} \cup FrameHeader..(Quarter - Header)
    /\ \A n \in ChunkSizes : Header + n \in RecordLengths
    /\ \A n \in FrameSizes \ {0} : Header + n \in RecordLengths

VARIABLES
    mode, framed, idle,   \* ResolvedSinkOptions
    mem,      \* the data region: what starts at a position
    recs,     \* the records whose lengths plan holds
    written,  \* the first of them is in memory, not yet published
    pc,       \* the sink task
    chunks,   \* chunks read so far
    wire,     \* how the stream ended
    rest,     \* bytes of the chunk the deframer has not looked at
    staged,   \* staging.len()
    frame,    \* length the header of the next frame claims
    frames,   \* lengths of the records still to push
    off,      \* offset
    stall,    \* stall_started: "none", "running", "due"
    watch,    \* idle_watch, likewise
    beat,     \* HEARTBEAT moved since push_absorbing_fullness looked
    beatIdle, \* since the idle check looked
    result,  \* how the task ended
    flag,     \* SinkStop.flag
    stopper,  \* fire(): "no", "flagged", "done"
    woken,    \* notify_waiters has reached the task's Notified
    reader,   \* the consumer: "out", "in" next(), "ended"
    held,     \* the record it returned last, a view of the ring
    seat,     \* where that view points
    adv,      \* #pendingAdvance
    upto      \* records delivered to the application or disclosed as dropped

options == <<mode, framed, idle>>
wireVars == <<chunks, wire, rest, staged, frame>>
task == <<recs, written, pc, frames, off, stall, watch, result>>
beats == <<beat, beatIdle>>
stopVars == <<flag, stopper, woken>>
consumer == <<reader, held, seat, adv, upto>>
sinkVars == <<space, options, mem, wireVars, task, beats, stopVars, consumer>>

RecordKinds == {"data", "message", "drops", "eof", "error", "reset"}
Record == [kind : RecordKinds, off : 0..MaxRecords, count : 0..MaxRecords]
Rec(kind, at, n) == [kind |-> kind, off |-> at, count |-> n]
NoRecord == Rec("none", 0, 0)
Wrap == Rec("wrap", 0, 0)
Junk == [rec |-> Rec("junk", 0, 0), len |-> 1]
Terminals == {"eof", "error", "reset"}

SinkInit ==
    /\ RingInit
    /\ mode \in Modes /\ framed \in Framings /\ idle \in IdleTimeouts
    /\ mem = [p \in 0..(Capacity - 1) |-> Junk]
    /\ recs = <<>> /\ written = FALSE /\ pc = "select" /\ frames = <<>> /\ off = 0
    /\ chunks = 0 /\ wire = "open" /\ rest = 0 /\ staged = 0 /\ frame \in FrameSizes
    /\ stall = "none" /\ watch = "none" /\ beat = FALSE /\ beatIdle = FALSE /\ result = [kind |-> "none", why |-> "none"]
    /\ flag = FALSE /\ stopper = "no" /\ woken = FALSE
    /\ reader = "out" /\ held = NoRecord /\ seat = 0 /\ adv = 0 /\ upto = 0

-----------------------------------------------------------------------------
(* run_sink_task.                                                          *)

Ends(kind, why) == pc' = "ending" /\ result' = [kind |-> kind, why |-> why]
Select == pc' = "select" /\ woken' = FALSE

\* source.read has a chunk; the stop flag is looked at behind the select.
ReadChunk(n) ==
    /\ pc = "select" /\ wire = "open" /\ chunks < MaxChunks
    /\ chunks' = chunks + 1
    /\ IF flag THEN Ends("error", "closed") /\ UNCHANGED <<rest, frames>>
       ELSE /\ UNCHANGED result
            /\ IF framed THEN pc' = "deframe" /\ rest' = n /\ frames' = <<>>
               ELSE pc' = "push" /\ frames' = <<n>> /\ UNCHANGED rest
    /\ UNCHANGED <<space, options, mem, wire, staged, frame, recs, written, off, stall, watch, beats, stopVars, consumer>>
ReadEnds(how) ==
    /\ pc = "select" /\ wire = "open"
    /\ wire' = how
    /\ IF flag THEN Ends("error", "closed") ELSE Ends(how, "wire")
    /\ UNCHANGED <<space, options, mem, chunks, rest, staged, frame, recs, written, frames, off, stall, watch,
                   beats, stopVars, consumer>>
StopWakes ==
    /\ pc = "select" /\ woken
    /\ Ends("error", "closed")
    /\ UNCHANGED <<space, options, mem, wireVars, recs, written, frames, off, stall, watch, beats, stopVars, consumer>>

\* frame_len: the length is out of bounds, which shows when the header is
\* whole.
FrameFault == staged >= FrameHeader /\ frame = 0
Least(a, b) == IF a < b THEN a ELSE b
\* Deframer::push_bytes: bytes are staged until the header is whole, then
\* until the frame is; a frame within the chunk is not staged.  A bad length
\* ends the sink, with the frames of this chunk unwritten.
Deframe ==
    LET goal == IF staged < FrameHeader THEN FrameHeader ELSE frame
        take == Least(goal - staged, rest)
    IN
    /\ pc = "deframe"
    /\ IF FrameFault
       THEN /\ Ends("error", "frame fault")
            /\ UNCHANGED <<rest, staged, frame, frames>>
       ELSE /\ rest' = rest - take
            /\ pc' = IF staged + take < goal THEN "push" ELSE "deframe"
            /\ IF staged + take = frame /\ frame > 0
               THEN /\ frames' = Append(frames, frame) /\ staged' = 0 /\ frame' \in FrameSizes
               ELSE staged' = staged + take /\ UNCHANGED <<frames, frame>>
            /\ UNCHANGED result
    /\ UNCHANGED <<space, options, mem, chunks, wire, recs, written, off, stall, watch, beats, stopVars, consumer>>

\* The records of the chunk are pushed: the idle check, then the next chunk.
ChunkDone ==
    /\ pc = "push" /\ frames = <<>>
    /\ \/ /\ idle /\ ~beatIdle /\ watch = "due"
          /\ Ends("error", "stalled") /\ UNCHANGED <<watch, beatIdle, woken>>
       \/ /\ ~(idle /\ ~beatIdle /\ watch = "due")
          /\ Select /\ beatIdle' = FALSE
          /\ watch' = IF idle /\ (beatIdle \/ watch = "none") THEN "running" ELSE watch
          /\ UNCHANGED result
    /\ UNCHANGED <<space, options, mem, wireVars, recs, written, frames, off, stall, beat, flag, stopper, consumer>>

\* push_absorbing_fullness: the flag, then the ring.
PushStopped ==
    /\ pc = "push" /\ frames # <<>> /\ flag
    /\ Ends("error", "closed")
    /\ UNCHANGED <<space, options, mem, wireVars, recs, written, frames, off, stall, watch, beats, stopVars, consumer>>

Dropped == IF gap > 0 THEN <<Rec("drops", off - gap, gap)>> ELSE <<>>
PushFits ==
    /\ pc = "push" /\ frames # <<>> /\ off < MaxRecords
    /\ PushWritten(Header + Head(frames))
    /\ recs' = Append(Dropped, Rec(IF framed THEN "message" ELSE "data", off, 0))
    /\ off' = off + 1 /\ frames' = Tail(frames)
    /\ pc' = "commit" /\ stall' = "none"
    /\ UNCHANGED <<options, mem, wireVars, written, watch, result, beats, stopVars, consumer>>

PushDrops ==
    /\ pc = "push" /\ frames # <<>> /\ mode = "drop" /\ off < MaxRecords
    /\ PushDropped(Header + Head(frames))
    /\ off' = off + 1 /\ frames' = Tail(frames)
    /\ UNCHANGED <<options, mem, wireVars, recs, written, pc, stall, watch, result, beats, stopVars, consumer>>

\* A heartbeat seen restarts the timer; a timer that has run out is a stall.
PushWaits ==
    /\ pc = "push" /\ frames # <<>> /\ mode = "block" /\ ~Fits(Header + Head(frames))
    /\ \/ /\ ~beat /\ stall = "due"
          /\ Ends("error", "stalled") /\ UNCHANGED <<beat, stall, woken>>
       \/ /\ beat \/ stall # "due"
          /\ pc' = "sleep" /\ woken' = FALSE /\ beat' = FALSE
          /\ stall' = IF beat \/ stall = "none" THEN "running" ELSE stall
          /\ UNCHANGED result
    /\ UNCHANGED <<space, options, mem, wireVars, recs, written, frames, off, watch, beatIdle, flag, stopper, consumer>>
\* The poll interval passes, or the stop wakes it.
Wakes ==
    /\ pc = "sleep"
    /\ pc' = "push"
    /\ UNCHANGED <<space, options, mem, wireVars, recs, written, frames, off, stall, watch, result, beats, stopVars, consumer>>
TimePasses ==
    /\ \/ stall = "running" /\ stall' = "due" /\ UNCHANGED watch
       \/ watch = "running" /\ watch' = "due" /\ UNCHANGED stall
    /\ UNCHANGED <<space, options, mem, wireVars, recs, written, pc, frames, off, result, beats, stopVars, consumer>>

-----------------------------------------------------------------------------
(* The ring.                                                               *)

\* What a record of length len from cursor c on leaves in memory: a WRAP
\* header where it does not fit, its own header, and bytes behind it.
Laid(c, rec, len) ==
    LET wraps == Remainder(c) < len
        pos == IF wraps THEN 0 ELSE Mask(c)
        stored == IF wraps \/ Remainder(c) >= len + Header THEN len ELSE Remainder(c)
    IN  [p \in 0..(Capacity - 1) |->
            IF p = pos THEN [rec |-> rec, len |-> stored]
            ELSE IF wraps /\ p = Mask(c) THEN [rec |-> Wrap, len |-> Remainder(c)]
            ELSE IF p \in pos..(pos + len - 1) \/ (wraps /\ p \in Mask(c)..(Mask(c) + Header - 1)) THEN Junk
            ELSE mem[p]]

\* Mutant: the cursor is published before the bytes are written.
WriteRecordLate ==
    /\ pc = "commit" /\ plan # <<>> /\ ~written
    /\ written' = TRUE
    /\ UNCHANGED <<space, options, mem, wireVars, recs, pc, frames, off, stall, watch, result, beats, stopVars, consumer>>

\* commit: the bytes, then the cursor.
WriteRecord ==
    /\ pc = "commit" /\ plan # <<>> /\ ~written
    /\ mem' = Laid(tail, Head(recs), Head(plan)) /\ written' = TRUE
    /\ UNCHANGED <<space, options, wireVars, recs, pc, frames, off, stall, watch, result, beats, stopVars, consumer>>
\* Mutant: one publication ends the call.
PublishOne ==
    /\ pc = "commit" /\ written
    /\ Commit
    /\ recs' = Tail(recs) /\ written' = FALSE
    /\ pc' = IF state = "active" THEN "push" ELSE "exit"
    /\ UNCHANGED <<options, mem, wireVars, frames, off, stall, watch, result, beats, stopVars, consumer>>

Publish ==
    /\ pc = "commit" /\ written
    /\ Commit
    /\ recs' = Tail(recs) /\ written' = FALSE
    /\ pc' = IF Tail(recs) # <<>> THEN "commit" ELSE IF state = "active" THEN "push" ELSE "exit"
    /\ UNCHANGED <<options, mem, wireVars, frames, off, stall, watch, result, beats, stopVars, consumer>>

\* The terminal record: only an error carries its code.
EndSink ==
    /\ pc = "ending"
    /\ PushTerminal(Header + IF result.kind = "error" THEN MaxTerminal ELSE 0)
    /\ recs' = (IF Len(plan') = 2 THEN Dropped ELSE <<>>) \o <<Rec(result.kind, off, 0)>>
    /\ pc' = "commit"
    /\ UNCHANGED <<options, mem, wireVars, written, frames, off, stall, watch, result, beats, stopVars, consumer>>
Exit ==
    /\ pc = "exit"
    /\ SetExited
    /\ pc' = "done"
    /\ UNCHANGED <<options, mem, wireVars, recs, written, frames, off, stall, watch, result, beats, stopVars, consumer>>

\* SinkStop::fire: the flag, then notify_waiters.
FireFlag ==
    /\ stopper = "no" /\ flag' = TRUE /\ stopper' = "flagged"
    /\ UNCHANGED <<space, options, mem, wireVars, task, beats, woken, consumer>>
FireNotify ==
    /\ stopper = "flagged" /\ stopper' = "done"
    /\ woken' = (pc \in {"select", "sleep"})
    /\ UNCHANGED <<space, options, mem, wireVars, task, beats, flag, consumer>>

-----------------------------------------------------------------------------
(* The consumer: next() of SinkReader.                                     *)

\* next() first gives back the record it returned before.
Next_ ==
    /\ reader = "out"
    /\ reader' = "in" /\ held' = NoRecord /\ seat' = 0
    /\ beat' = TRUE /\ beatIdle' = TRUE
    /\ Advance(adv) /\ adv' = 0
    /\ UNCHANGED <<options, mem, wireVars, task, stopVars, upto>>

At == mem[Mask(head)]
SkipWrap ==
    /\ reader = "in" /\ head # tail /\ At.rec.kind = "wrap"
    /\ Advance(At.len)
    /\ UNCHANGED <<options, mem, wireVars, task, beats, stopVars, consumer>>
Delivered(rec) ==
    CASE rec.kind = "drops" -> rec.count [] rec.kind \in {"data", "message"} -> 1 [] OTHER -> 0
Returned(rec) ==
    /\ held' = rec /\ seat' = Mask(head) /\ upto' = upto + Delivered(rec)
    /\ reader' = IF rec.kind \in Terminals THEN "ended" ELSE "out"

\* Mutant: the record is given back when it is returned.
TakeReclaims ==
    /\ reader = "in" /\ head # tail /\ At.rec.kind # "wrap"
    /\ Returned(At.rec) /\ Advance(At.len) /\ UNCHANGED adv
    /\ UNCHANGED <<options, mem, wireVars, task, beats, stopVars>>

\* The record it returns is a view of the ring until the next call.
TakeRecord ==
    /\ reader = "in" /\ head # tail /\ At.rec.kind # "wrap"
    /\ Returned(At.rec) /\ adv' = At.len
    /\ UNCHANGED <<space, options, mem, wireVars, task, beats, stopVars>>
ReaderWaits ==
    /\ reader = "in" /\ head = tail
    /\ reader' = "out"
    /\ UNCHANGED <<space, options, mem, wireVars, task, beats, stopVars, held, seat, adv, upto>>
ReaderStep == Next_ \/ SkipWrap \/ TakeRecord \/ ReaderWaits

-----------------------------------------------------------------------------
SinkStep ==
    \/ StopWakes \/ Deframe \/ ChunkDone \/ PushStopped \/ PushFits \/ PushDrops \/ PushWaits \/ Wakes
    \/ WriteRecord \/ Publish \/ EndSink \/ Exit

SinkNext ==
    \/ (\E n \in ChunkSizes : ReadChunk(n)) \/ (\E how \in {"eof", "reset", "error"} : ReadEnds(how))
    \/ SinkStep \/ TimePasses
    \/ FireFlag \/ FireNotify
    \/ ReaderStep

\* Tokio polls the task, the consumer's worker goes on calling next() and a
\* stop() call returns; peer and clock owe nothing.
SinkFairness == WF_sinkVars(SinkStep) /\ WF_sinkVars(ReaderStep) /\ WF_sinkVars(FireNotify)
SinkSpec == SinkInit /\ [][SinkNext]_sinkVars
SinkFairSpec == SinkSpec /\ SinkFairness

-----------------------------------------------------------------------------
(* Properties.                                                             *)

\* The state of the sink keeps its type.
SinkTypeOK ==
    /\ SpaceTypeOK
    /\ mem \in [0..(Capacity - 1) -> [rec : Record \cup {Wrap, Junk.rec}, len : 1..Capacity]]
    /\ recs \in Seq(Record) /\ Len(recs) = Len(plan) /\ written \in BOOLEAN
    /\ pc \in {"select", "deframe", "push", "sleep", "commit", "ending", "exit", "done"}
    /\ chunks \in 0..MaxChunks /\ wire \in {"open", "eof", "reset", "error"}
    /\ rest \in Nat /\ staged \in Nat /\ frame \in FrameSizes /\ off \in 0..MaxRecords
    /\ stall \in {"none", "running", "due"} /\ watch \in {"none", "running", "due"}
    /\ flag \in BOOLEAN /\ woken \in BOOLEAN /\ stopper \in {"no", "flagged", "done"}
    /\ reader \in {"out", "in", "ended"} /\ held \in Record \cup {NoRecord}
    /\ adv \in 0..Fill /\ upto \in 0..MaxRecords

\* The records between the consumer and the tail, as the memory has them.
Unread ==
    LET from[n \in 0..Capacity] ==
            IF n = 0 THEN <<>>
            ELSE LET here == mem[Mask(Sub(tail, n))]
                     more == IF here.len <= n THEN from[n - here.len] ELSE <<Junk.rec>>
                 IN  IF here.rec = Wrap THEN more ELSE <<here.rec>> \o more
    IN  from[Sub(tail, Add(head, adv))]
Fifo == INSTANCE SinkFifo WITH Records <- Record, queue <- Unread,
                               ended <- (state # "active" /\ plan = <<>>)
\* Through the ring's memory, its wraps and paddings, and with a consumer at
\* any point of its own steps, the sink is a queue of whole records that
\* ends with its terminal record.
IsFifo == Fifo!FifoSpec

\* Bytes a returned record is a view of are not written until next().
HeldIntact == held # NoRecord => mem[seat].rec = held

\* What the consumer gets is the stream without holes: a record is either
\* the next one or follows a drops record that counts what is missing.
DropsDisclosed ==
    /\ held.kind \in {"data", "message"} => held.off + 1 = upto
    /\ held.kind = "drops" => held.off + held.count = upto

\* A terminal record comes after everything before it; only the drops that
\* did not fit before it stay undisclosed, and "eof" means the peer's FIN.
EndMeansAll ==
    reader = "ended" => upto + gap = off /\ (held.kind = "eof" => wire = "eof")

\* The consumer of a stream that has ended gets its terminal record.
EndReachesConsumer == wire # "open" ~> reader = "ended"

\* What the consumer sees is true: the view it holds, the drops it is told
\* of, and the end.
RecordsHonest == SinkTypeOK /\ HeldIntact /\ DropsDisclosed /\ EndMeansAll

\* The sink task and its consumer implement the queue of whole records, and
\* the ring of RingSpace, about which the proofs are.
RingImplements == IsFifo /\ RingSpec
=============================================================================
