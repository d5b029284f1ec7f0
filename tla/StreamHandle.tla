---------------------------- MODULE StreamHandle ----------------------------
(* One stream handle of the native addon (client_stream.rs) and its read   *)
(* ownership gate (read_ownership.rs).                                     *)
(*                                                                         *)
(* JavaScript's synchronous calls (openReadSink, stopSending, reset,       *)
(* finish, dispose) run on one thread, a step at a time; read, readBatch,  *)
(* write and finishWait are futures on the Tokio workers beside it, as are *)
(* the bridge tasks and the sink task.  Every step is one access to shared *)
(* state.  A chunk is one unit of the stream's byte budget; the three      *)
(* tiers of that budget are the subject of ByteBudget, the ring the sink   *)
(* task fills that of SinkRing.                                            *)
EXTENDS Naturals, Sequences, FiniteSets

CONSTANTS
    Readers,          \* concurrent read() / readBatch() calls
    Writers,          \* write() calls, one chunk each
    Kinds,            \* which handle: "bidi", "uniRecv", "uniSend"
    Batches,          \* {FALSE} for read() only, BOOLEAN for readBatch() too
    MaxChunks,        \* chunks the peer may send
    BatchMax,         \* chunks that fit a batch
    MaxStream,        \* the byte budget, in chunks
    ChannelCapacity   \* STREAM_CHANNEL_CAPACITY

ASSUME BoundsAssumption ==
    /\ IsFiniteSet(Readers) /\ IsFiniteSet(Writers) /\ MaxChunks \in Nat
    /\ BatchMax \in Nat \ {0} /\ MaxStream \in Nat \ {0} /\ ChannelCapacity \in Nat \ {0}
ASSUME NamesAssumption ==
    /\ Kinds \subseteq {"bidi", "uniRecv", "uniSend"} /\ Batches \subseteq BOOLEAN
    /\ Readers \cap {"slot", "bridge", "sink", "none", "free"} = {}
    /\ Writers \cap {"finish", "finishWait", "reset", "none", "recv", "done"} = {}

VARIABLES
    kind,      \* the handle's type
    own,       \* read_ownership
    where,     \* who has the RecvStream and its StreamGuard
    latch,     \* deferred_terminal
    aborted,   \* read_aborted
    enrolled,  \* readers whose Notified of read_abort exists
    woken,     \* those a notify_waiters() has reached
    rd,        \* the read calls
    busy,      \* other handles hold every DEFERRED_READ_BRIDGES permit
    bridge,    \* the receive bridge task
    chan,      \* chunks in its channel
    errSlot,   \* its error slot
    errSet,    \* the handle has that slot (deferred_read_error_slot)
    rx,        \* read_rx: "none", "some", "gone"
    lock,      \* which read holds the channel's mutex
    stopTx,    \* stop_tx: "none", "armed", "fired", "dropped"
    sink,      \* the sink of the handle
    arrived,   \* chunks the transport has received
    big,       \* those above maxQueuedBytesPerStream
    read,      \* chunks taken from the transport
    ended,     \* how the peer ended the stream
    told,      \* the reset has been reported once
    delivered, \* chunks handed to JavaScript or to the sink
    reserved,  \* stream_queued
    js,        \* the JavaScript thread: <<call, step>>
    called,    \* synchronous calls made so far
    shut,      \* a stop or dispose has emptied the deferred slot
    final,     \* the wrapper has been finalized
    lazy,      \* lazy_send_stream is there
    tx,        \* write_tx: "none", "some", "gone"
    finished,  \* the flag of the same name
    cmds,      \* commands in the write channel
    queue,     \* senders waiting for room in it, in order
    wb,        \* the write bridge task
    werr,      \* write_error_slot
    wr,        \* the write calls
    fw,        \* the finishWait call
    acked,     \* writes that resolved without an error
    owed,      \* those acked when finishWait was called
    sent,      \* chunks written to the transport
    wireEnd    \* how our half of the stream ended

gate    == <<own, where>>
wakes   == <<enrolled, woken>>
bridges == <<busy, bridge, chan, errSlot, errSet, rx, lock, stopTx>>
net     == <<arrived, big, read, ended, told>>
thread  == <<js, called, shut, final, aborted>>
writing == <<lazy, tx, finished, cmds, queue, wb, werr, wr, fw, acked, owed, sent, wireEnd>>
vars    == <<kind, gate, latch, wakes, rd, bridges, sink, net, delivered, reserved, thread, writing>>

-----------------------------------------------------------------------------
Codes == {"E_STREAM_RESET", "E_SESSION_CLOSED", "E_BACKPRESSURE_TIMEOUT", "E_SINK_ACTIVE"}
ReadSteps == {"latch", "claim", "take", "check", "enroll", "read", "reserve", "recheck", "loop",
              "park", "convert", "fall", "pending", "permitCheck", "permitEnroll", "permit",
              "migrate", "setRx", "setStop", "mark", "rx", "lock", "checkB", "recv"}
UsesRx == {"lock", "checkB", "recv"}
InFlight == {r \in Readers : rd[r].pc # "idle"}

\* quic_read_error_code; the reset of a stream is reported only once, the
\* next read of it finds a clean end.
Verdict == CASE ended = "lost" -> "E_SESSION_CLOSED"
             [] ended = "reset" /\ ~told -> "E_STREAM_RESET"
             [] OTHER -> "eof"
AtEnd == read = arrived /\ ended # "open"

Idle == [pc |-> "idle", batch |-> FALSE, held |-> 0, out |-> "none", alone |-> TRUE]

\* Bidi and incoming uni streams are born deferred.
InitRead ==
    /\ own = IF kind = "uniSend" THEN "Consumed" ELSE "Deferred"
    /\ where = IF kind = "uniSend" THEN "none" ELSE "slot"
    /\ latch = "none" /\ aborted = FALSE /\ enrolled = {} /\ woken = {}
    /\ rd = [r \in Readers |-> Idle]
    /\ busy \in BOOLEAN /\ bridge = "none" /\ chan = 0 /\ errSlot = "none" /\ errSet = FALSE
    /\ rx = "none" /\ lock = "free" /\ stopTx = "none" /\ sink = "none"
    /\ arrived = 0 /\ big = {} /\ read = 0 /\ ended = "open" /\ told = FALSE
    /\ delivered = 0 /\ reserved = 0
\* An outgoing uni stream is born with its write bridge, a bidi stream
\* without.
InitWrite ==
    /\ lazy = (kind = "bidi") /\ finished = FALSE
    /\ tx = IF kind = "uniSend" THEN "some" ELSE "none"
    /\ wb = IF kind = "uniSend" THEN "recv" ELSE "none"
    /\ cmds = <<>> /\ queue = <<>> /\ werr = "none"
    /\ wr = [w \in Writers |-> "new"] /\ fw = "new"
    /\ acked = {} /\ owed = {} /\ sent = {} /\ wireEnd = "open"
Init ==
    /\ kind \in Kinds /\ InitRead /\ InitWrite
    /\ js = <<"free", "none">> /\ called = {} /\ shut = FALSE /\ final = FALSE

-----------------------------------------------------------------------------
(* The peer and the transport.                                             *)

PeerSends(oversized) ==
    /\ ended = "open" /\ arrived < MaxChunks /\ where # "none"
    /\ arrived' = arrived + 1
    /\ big' = IF oversized THEN big \cup {arrived + 1} ELSE big
    /\ UNCHANGED <<kind, gate, latch, wakes, rd, bridges, sink, read, ended, told, delivered, reserved, thread, writing>>

\* A reset discards what has not been read yet.
PeerEnds(how) ==
    /\ ended = "open" /\ where # "none"
    /\ ended' = how
    /\ arrived' = IF how = "reset" THEN read ELSE arrived
    /\ UNCHANGED <<kind, gate, latch, wakes, rd, bridges, sink, big, read, told, delivered, reserved, thread, writing>>

\* Other handles' bridges come and go.
OthersBridge ==
    /\ busy' = ~busy
    /\ UNCHANGED <<kind, gate, latch, wakes, rd, bridge, chan, errSlot, errSet, rx, lock, stopTx, sink, net,
                   delivered, reserved, thread, writing>>

-----------------------------------------------------------------------------
(* The direct lane: read_deferred_direct and read_deferred_direct_batch.   *)

Goto(r, next) == rd' = [rd EXCEPT ![r].pc = next]
Return(r, out) == rd' = [rd EXCEPT ![r].pc = "idle", ![r].held = 0, ![r].out = out]
\* ReadOwnership::transition.
Cas(from, to) == own' = IF own = from THEN to ELSE own
\* The read is over and drops the stream: end_direct_read_consumed.
DropStream == where' = "none" /\ Cas("DirectReadActive", "Consumed")

ReadStart(r, batch) ==
    /\ kind # "uniSend" /\ ~final /\ rd[r].pc = "idle"
    /\ rd' = [q \in Readers |->
                IF q = r THEN [Idle EXCEPT !.pc = "latch", !.batch = batch, !.alone = InFlight = {}]
                ELSE IF q \in InFlight THEN [rd[q] EXCEPT !.alone = FALSE] ELSE rd[q]]
    /\ UNCHANGED <<kind, gate, latch, wakes, bridges, sink, net, delivered, reserved, thread, writing>>

CheckLatch(r) ==
    /\ rd[r].pc = "latch"
    /\ IF latch # "none" THEN Return(r, latch) ELSE Goto(r, "claim")
    /\ UNCHANGED <<kind, gate, latch, wakes, bridges, sink, net, delivered, reserved, thread, writing>>

begin_direct_read(r) ==
    /\ rd[r].pc = "claim"
    /\ Cas("Deferred", "DirectReadActive")
    /\ Goto(r, IF own = "Deferred" THEN "take" ELSE "fall")
    /\ UNCHANGED <<kind, where, latch, wakes, bridges, sink, net, delivered, reserved, thread, writing>>

\* An empty slot resolves the claim to the end teardown intended.
TakeSlot(r) ==
    /\ rd[r].pc = "take"
    /\ \/ /\ where = "slot"
          /\ where' = r /\ Goto(r, "check") /\ UNCHANGED own
       \/ /\ where # "slot"
          /\ Cas("DirectReadActive", "Consumed") /\ Goto(r, "fall") /\ UNCHANGED where
    /\ UNCHANGED <<kind, latch, wakes, bridges, sink, net, delivered, reserved, thread, writing>>

\* The flag is read before the Notified is created.
CheckAborted(r) ==
    /\ rd[r].pc = "check"
    /\ IF aborted THEN DropStream /\ Return(r, "E_STREAM_RESET") ELSE Goto(r, "enroll") /\ UNCHANGED gate
    /\ UNCHANGED <<kind, latch, wakes, bridges, sink, net, delivered, reserved, thread, writing>>

EnrollDirect(r) ==
    /\ rd[r].pc = "enroll"
    /\ enrolled' = enrolled \cup {r} /\ woken' = woken \ {r}
    /\ Goto(r, "read")
    /\ UNCHANGED <<kind, gate, latch, bridges, sink, net, delivered, reserved, thread, writing>>

\* The select over read_chunk and the abort, either of which may win.
Leave(r) == enrolled' = enrolled \ {r} /\ woken' = woken \ {r}
DirectChunk(r) ==
    /\ rd[r].pc = "read" /\ read < arrived
    /\ read' = read + 1 /\ Leave(r)
    /\ IF ~rd[r].batch /\ read + 1 \in big
       THEN DropStream /\ Return(r, "E_STREAM_RESET")
       ELSE Goto(r, "reserve") /\ UNCHANGED gate
    /\ UNCHANGED <<kind, latch, bridges, sink, arrived, big, ended, told, delivered, reserved, thread, writing>>
DirectEnd(r) ==
    /\ rd[r].pc = "read" /\ AtEnd
    /\ told' = TRUE /\ Leave(r) /\ DropStream
    /\ Return(r, Verdict)
    /\ UNCHANGED <<kind, latch, bridges, sink, arrived, big, read, ended, delivered, reserved, thread, writing>>
DirectAborted(r) ==
    /\ rd[r].pc = "read" /\ r \in woken
    /\ Leave(r) /\ DropStream
    /\ Return(r, "E_STREAM_RESET")
    /\ UNCHANGED <<kind, latch, bridges, sink, net, delivered, reserved, thread, writing>>

\* reserve_or_wait: room, or the backpressure deadline, which other streams
\* that fill the session's or the server's tier can let pass too.
Reserve(r) ==
    /\ rd[r].pc = "reserve"
    /\ \/ /\ reserved < MaxStream
          /\ reserved' = reserved + 1
          /\ rd' = [rd EXCEPT ![r].pc = "recheck", ![r].held = 1] /\ UNCHANGED gate
       \/ /\ DropStream /\ Return(r, "E_BACKPRESSURE_TIMEOUT") /\ UNCHANGED reserved
    /\ UNCHANGED <<kind, latch, wakes, bridges, sink, net, delivered, thread, writing>>

Recheck(r) ==
    /\ rd[r].pc = "recheck"
    /\ \/ /\ aborted
          /\ reserved' = reserved - rd[r].held /\ DropStream /\ Return(r, "E_STREAM_RESET")
       \/ /\ ~aborted
          /\ Goto(r, IF rd[r].batch THEN "loop" ELSE "park") /\ UNCHANGED <<gate, reserved>>
    /\ UNCHANGED <<kind, latch, wakes, bridges, sink, net, delivered, thread, writing>>

\* Mutant: a reset the batch runs into ends the batch like an end of stream.
BatchLoopForgets(r) ==
    LET want == BatchMax - rd[r].held
        room == want > 0 /\ reserved + want <= MaxStream
    IN
    /\ rd[r].pc = "loop"
    /\ \/ /\ room /\ read < arrived
          /\ read' = read + 1 /\ reserved' = reserved + 1
          /\ rd' = [rd EXCEPT ![r].held = @ + 1] /\ UNCHANGED told
       \/ /\ ~(room /\ read < arrived)
          /\ told' = (told \/ (room /\ AtEnd))
          /\ Goto(r, "park") /\ UNCHANGED <<read, reserved>>
    /\ UNCHANGED <<kind, gate, latch, wakes, bridges, sink, arrived, big, ended, delivered, thread, writing>>

\* The batch takes what is there: it reserves what it may still take, polls
\* once and gives the surplus back.  An error it meets is consumed, so it is
\* latched for the next read; the end of the stream is not.
BatchLoop(r) ==
    LET want == BatchMax - rd[r].held
        room == want > 0 /\ reserved + want <= MaxStream
    IN
    /\ rd[r].pc = "loop"
    /\ \/ /\ room /\ read < arrived
          /\ read' = read + 1 /\ reserved' = reserved + 1
          /\ rd' = [rd EXCEPT ![r].held = @ + 1] /\ UNCHANGED <<latch, told>>
       \/ /\ room /\ AtEnd /\ Verdict # "eof"
          /\ latch' = IF latch = "none" THEN Verdict ELSE latch
          /\ told' = TRUE
          /\ Goto(r, "park") /\ UNCHANGED <<read, reserved>>
       \/ /\ ~room \/ (read = arrived /\ (ended = "open" \/ Verdict = "eof"))
          /\ Goto(r, "park") /\ UNCHANGED <<read, reserved, latch, told>>
    /\ UNCHANGED <<kind, gate, wakes, bridges, sink, arrived, big, ended, delivered, thread, writing>>

\* A single chunk gives its reservation back when its bytes are moved out.
Delivered(r) ==
    IF rd[r].batch
    THEN Goto(r, "convert") /\ UNCHANGED <<reserved, delivered>>
    ELSE Return(r, "data") /\ reserved' = reserved - 1 /\ delivered' = delivered + 1

\* Under the slot's lock: stop and dispose set the flag before they look
\* into the slot.
Park(r) ==
    /\ rd[r].pc = "park"
    /\ \/ aborted /\ DropStream
       \/ ~aborted /\ where' = "slot" /\ Cas("DirectReadActive", "Deferred")
    /\ Delivered(r)
    /\ UNCHANGED <<kind, latch, wakes, bridges, sink, net, thread, writing>>

\* CoalescedChunks::to_napi_value copies and drops the chunks.
Convert(r) ==
    /\ rd[r].pc = "convert"
    /\ Return(r, "data")
    /\ reserved' = reserved - rd[r].held /\ delivered' = delivered + rd[r].held
    /\ UNCHANGED <<kind, gate, latch, wakes, bridges, sink, net, thread, writing>>

-----------------------------------------------------------------------------
(* The bridge lane: ensure_deferred_read_bridge, read_inner and            *)
(* read_bridge_batch.                                                      *)

FallThrough(r) ==
    /\ rd[r].pc = "fall"
    /\ IF own = "Sink" THEN Return(r, "E_SINK_ACTIVE") ELSE Goto(r, "pending")
    /\ UNCHANGED <<kind, gate, latch, wakes, bridges, sink, net, delivered, reserved, thread, writing>>

HasPending(r) ==
    /\ rd[r].pc = "pending"
    /\ Goto(r, IF where = "slot" THEN "permitCheck" ELSE "rx")
    /\ UNCHANGED <<kind, gate, latch, wakes, bridges, sink, net, delivered, reserved, thread, writing>>

\* acquire_deferred_read_bridge_permit: the flag, then the Notified.
PermitCheck(r) ==
    /\ rd[r].pc = "permitCheck"
    /\ IF aborted THEN Return(r, "E_STREAM_RESET") ELSE Goto(r, "permitEnroll")
    /\ UNCHANGED <<kind, gate, latch, wakes, bridges, sink, net, delivered, reserved, thread, writing>>
PermitEnroll(r) ==
    /\ rd[r].pc = "permitEnroll"
    /\ enrolled' = enrolled \cup {r} /\ woken' = woken \ {r}
    /\ Goto(r, "permit")
    /\ UNCHANGED <<kind, gate, latch, bridges, sink, net, delivered, reserved, thread, writing>>
GetPermit(r) ==
    /\ rd[r].pc = "permit"
    /\ \/ ~busy /\ Goto(r, "migrate")
       \/ r \in woken /\ Return(r, "E_STREAM_RESET")
    /\ Leave(r)
    /\ UNCHANGED <<kind, gate, latch, bridges, sink, net, delivered, reserved, thread, writing>>

\* The stream moves into a new bridge task, unless the slot is empty by now.
Migrate(r) ==
    /\ rd[r].pc = "migrate"
    /\ \/ /\ where = "slot"
          /\ where' = "bridge" /\ bridge' = "select" /\ Goto(r, "setRx")
       \/ /\ where # "slot"
          /\ Goto(r, "rx") /\ UNCHANGED <<where, bridge>>
    /\ UNCHANGED <<kind, own, latch, wakes, busy, chan, errSlot, errSet, rx, lock, stopTx, sink, net,
                   delivered, reserved, thread, writing>>
SetRx(r) ==
    /\ rd[r].pc = "setRx"
    /\ rx' = "some" /\ Goto(r, "setStop")
    /\ UNCHANGED <<kind, gate, latch, wakes, busy, bridge, chan, errSlot, errSet, lock, stopTx, sink, net,
                   delivered, reserved, thread, writing>>
SetStop(r) ==
    /\ rd[r].pc = "setStop"
    /\ stopTx' = "armed" /\ Goto(r, "mark")
    /\ UNCHANGED <<kind, gate, latch, wakes, busy, bridge, chan, errSlot, errSet, rx, lock, sink, net,
                   delivered, reserved, thread, writing>>
mark_bridged(r) ==
    /\ rd[r].pc = "mark"
    /\ errSet' = TRUE
    /\ own' = IF own = "Consumed" THEN own ELSE "Bridged"
    /\ Goto(r, "rx")
    /\ UNCHANGED <<kind, where, latch, wakes, busy, bridge, chan, errSlot, rx, lock, stopTx, sink, net,
                   delivered, reserved, thread, writing>>

LookRx(r) ==
    /\ rd[r].pc = "rx"
    /\ IF rx = "some" THEN Goto(r, "lock") ELSE Return(r, "E_STREAM_RESET")
    /\ UNCHANGED <<kind, gate, latch, wakes, bridges, sink, net, delivered, reserved, thread, writing>>

\* Here the Notified is created first and the flag read after it.
LockRx(r) ==
    /\ rd[r].pc = "lock" /\ lock = "free"
    /\ lock' = r
    /\ enrolled' = enrolled \cup {r} /\ woken' = woken \ {r}
    /\ Goto(r, "checkB")
    /\ UNCHANGED <<kind, gate, latch, busy, bridge, chan, errSlot, errSet, rx, stopTx, sink, net,
                   delivered, reserved, thread, writing>>

\* The chunks left when the last owner of the receiver lets go of it.
Kept(left, users) == IF rx = "gone" /\ users = {} THEN 0 ELSE left
OtherUsers(r) == {q \in Readers \ {r} : rd[q].pc \in UsesRx}
\* Read r leaves the channel with `taken` chunks, of which it frees `freed`.
LeaveRx(r, taken, freed) ==
    LET left == chan - taken IN
    /\ lock' = "free" /\ Leave(r)
    /\ chan' = Kept(left, OtherUsers(r))
    /\ reserved' = reserved - freed - (left - Kept(left, OtherUsers(r)))

CheckBridge(r) ==
    /\ rd[r].pc = "checkB"
    /\ \/ aborted /\ LeaveRx(r, 0, 0) /\ Return(r, "E_STREAM_RESET")
       \/ ~aborted /\ Goto(r, "recv") /\ UNCHANGED <<lock, wakes, chan, reserved>>
    /\ UNCHANGED <<kind, gate, latch, busy, bridge, errSlot, errSet, rx, stopTx, sink, net,
                   delivered, thread, writing>>

RecvData(r) ==
    LET n == IF rd[r].batch /\ chan >= BatchMax THEN BatchMax ELSE IF rd[r].batch THEN chan ELSE 1 IN
    /\ rd[r].pc = "recv" /\ chan > 0
    /\ IF rd[r].batch
       THEN /\ LeaveRx(r, n, 0) /\ UNCHANGED delivered
            /\ rd' = [rd EXCEPT ![r].pc = "convert", ![r].held = n]
       ELSE LeaveRx(r, 1, 1) /\ Return(r, "data") /\ delivered' = delivered + 1
    /\ UNCHANGED <<kind, gate, latch, busy, bridge, errSlot, errSet, rx, stopTx, sink, net, thread, writing>>
\* The bridge has gone: its error slot tells a failure from the end.
RecvEnd(r) ==
    /\ rd[r].pc = "recv" /\ chan = 0 /\ bridge = "done"
    /\ LeaveRx(r, 0, 0)
    /\ Return(r, IF errSet /\ errSlot # "none" THEN errSlot ELSE "eof")
    /\ UNCHANGED <<kind, gate, latch, busy, bridge, errSlot, errSet, rx, stopTx, sink, net,
                   delivered, thread, writing>>
RecvAborted(r) ==
    /\ rd[r].pc = "recv" /\ r \in woken
    /\ LeaveRx(r, 0, 0) /\ Return(r, "E_STREAM_RESET")
    /\ UNCHANGED <<kind, gate, latch, busy, bridge, errSlot, errSet, rx, stopTx, sink, net,
                   delivered, thread, writing>>

-----------------------------------------------------------------------------
(* The receive bridge task.  Dropping its half of the stream ends it.      *)

Stopped == stopTx \in {"fired", "dropped"}
ReceiverGone == rx = "gone" /\ \A r \in Readers : rd[r].pc \notin UsesRx
bridgeRest == <<kind, own, latch, wakes, rd, busy, errSet, rx, lock, stopTx, sink, delivered, thread, writing>>

BridgeEnds(code) ==
    /\ bridge' = "done" /\ where' = "none"
    /\ errSlot' = code

BridgeReads ==
    /\ bridge = "select"
    /\ \/ /\ read < arrived
          /\ read' = read + 1 /\ UNCHANGED told
          /\ IF read + 1 \in big THEN BridgeEnds("E_STREAM_RESET")
             ELSE bridge' = "reserve" /\ UNCHANGED <<where, errSlot>>
       \/ /\ AtEnd
          /\ told' = TRUE /\ UNCHANGED read
          /\ BridgeEnds(IF Verdict = "eof" THEN "none" ELSE Verdict)
    /\ UNCHANGED <<bridgeRest, chan, arrived, big, ended, reserved>>

\* reserve_for_recv: room, the deadline, or a stop.
BridgeReserves ==
    /\ bridge = "reserve"
    /\ \/ /\ reserved < MaxStream
          /\ reserved' = reserved + 1 /\ bridge' = "send" /\ UNCHANGED <<where, errSlot>>
       \/ /\ BridgeEnds("E_BACKPRESSURE_TIMEOUT") /\ UNCHANGED reserved
    /\ UNCHANGED <<bridgeRest, chan, net>>

BridgeSends ==
    /\ bridge = "send"
    /\ \/ /\ ReceiverGone
          /\ reserved' = reserved - 1 /\ BridgeEnds("none") /\ UNCHANGED chan
       \/ /\ ~ReceiverGone /\ chan < ChannelCapacity
          /\ chan' = chan + 1 /\ bridge' = "select" /\ UNCHANGED <<reserved, where, errSlot>>
    /\ UNCHANGED <<bridgeRest, net>>

\* Mutant: a full channel holds the bridge whatever is stopped.
BridgeStopsOutsideSend ==
    /\ bridge \in {"select", "reserve"} /\ Stopped
    /\ BridgeEnds(errSlot)
    /\ UNCHANGED <<bridgeRest, chan, net, reserved>>

\* Every wait of the bridge has an arm for stop_rx.
BridgeStops ==
    /\ bridge \in {"select", "reserve", "send"} /\ Stopped
    /\ reserved' = IF bridge = "send" THEN reserved - 1 ELSE reserved
    /\ BridgeEnds(errSlot)
    /\ UNCHANGED <<bridgeRest, chan, net>>

BridgeStep == BridgeReads \/ BridgeReserves \/ BridgeSends \/ BridgeStops

-----------------------------------------------------------------------------
(* The native sink: open_read_sink_common on the JavaScript thread, and    *)
(* the task that then owns the stream.                                     *)

JsGoto(call, step) == js' = <<call, step>>
JsFree == js' = <<"free", "none">>
Free == js[1] = "free" /\ ~final
threadRest == <<called, shut, final, aborted>>

OpenSink ==
    /\ Free /\ kind # "uniSend" /\ "sink" \notin called
    /\ sink = "none" /\ latch = "none"
    /\ own = "Deferred" /\ own' = "Sink"      \* try_claim_sink
    /\ called' = called \cup {"sink"} /\ JsGoto("sink", "take")
    /\ UNCHANGED <<kind, where, latch, wakes, rd, bridges, sink, net, delivered, reserved, shut, final, aborted, writing>>
SinkTakes ==
    /\ js = <<"sink", "take">>
    /\ \/ where = "slot" /\ where' = "sink" /\ JsGoto("sink", "init") /\ UNCHANGED own
       \/ where # "slot" /\ own' = "Consumed" /\ JsFree /\ UNCHANGED where
    /\ UNCHANGED <<kind, latch, wakes, rd, bridges, sink, net, delivered, reserved, threadRest, writing>>
\* A bad buffer puts the stream back before it releases the claim.
SinkRollsBack ==
    /\ js = <<"sink", "init">>
    /\ where' = "slot" /\ Cas("Sink", "Deferred") /\ JsFree
    /\ UNCHANGED <<kind, latch, wakes, rd, bridges, sink, net, delivered, reserved, threadRest, writing>>
SinkOpens ==
    /\ js = <<"sink", "init">>
    /\ sink' = "running" /\ JsFree
    /\ UNCHANGED <<kind, gate, latch, wakes, rd, bridges, net, delivered, reserved, threadRest, writing>>

SinkReads ==
    /\ sink \in {"running", "stopping"} /\ read < arrived
    /\ read' = read + 1 /\ delivered' = delivered + 1
    /\ UNCHANGED <<kind, gate, latch, wakes, rd, bridges, sink, arrived, big, ended, told, reserved, thread, writing>>
SinkEnds ==
    /\ sink \in {"running", "stopping"} /\ (sink = "stopping" \/ AtEnd)
    /\ sink' = "exited" /\ where' = "none" /\ told' = (told \/ AtEnd)
    /\ UNCHANGED <<kind, own, latch, wakes, rd, bridges, arrived, big, read, ended, delivered, reserved, thread, writing>>

-----------------------------------------------------------------------------
(* The synchronous calls of the JavaScript thread: each is a chain of      *)
(* steps that other threads see one by one.                                *)

Chain(call) ==
    CASE call = "stop" -> <<"mark", "flag", "notify", "stopTx", "slot">>
      [] call = "reset" /\ kind = "bidi" -> <<"fin", "mark", "flag", "notify", "stopTx", "slot", "ctrl">>
      [] call = "dispose" /\ kind = "bidi" -> <<"mark", "fin", "flag", "notify", "stopTx", "wtx", "slot", "rx">>
      [] call = "dispose" /\ kind = "uniRecv" -> <<"mark", "flag", "notify", "stopTx", "rx", "slot">>
      [] call = "dispose" /\ kind = "uniSend" -> <<"fin", "wtx">>
      [] call \in {"finish", "reset"} -> <<"fin", "ctrl">>
CallsOf == CASE kind = "bidi" -> {"stop", "reset", "finish", "dispose"}
             [] kind = "uniRecv" -> {"stop", "dispose"}
             [] kind = "uniSend" -> {"reset", "finish", "dispose"}

Call(call) ==
    /\ Free /\ call \in CallsOf \ called
    /\ called' = called \cup {call} /\ JsGoto(call, Chain(call)[1])
    /\ UNCHANGED <<kind, gate, latch, wakes, rd, bridges, sink, net, delivered, reserved, shut, final, aborted, writing>>

At(step) == js[2] = step /\ js[1] \in {"stop", "reset", "finish", "dispose"}
Advance ==
    LET c == Chain(js[1])
        i == CHOOSE k \in 1..Len(c) : c[k] = js[2]
    IN  IF i = Len(c) THEN JsFree ELSE JsGoto(js[1], c[i + 1])

\* mark_consumed and fire_sink_stop.
mark_consumed ==
    /\ At("mark") /\ Advance
    /\ own' = "Consumed"
    /\ sink' = IF sink = "running" THEN "stopping" ELSE sink
    /\ UNCHANGED <<kind, where, latch, wakes, rd, bridges, net, delivered, reserved, threadRest, writing>>
abort_read ==
    /\ At("flag") /\ Advance
    /\ aborted' = TRUE
    /\ UNCHANGED <<kind, gate, latch, wakes, rd, bridges, sink, net, delivered, reserved, called, shut, final, writing>>

\* notify_waiters reaches the Notified futures that exist.
NotifyAbort ==
    /\ At("notify") /\ Advance
    /\ woken' = woken \cup enrolled
    /\ UNCHANGED <<kind, gate, latch, enrolled, rd, bridges, sink, net, delivered, reserved, threadRest, writing>>
\* stop_sending returns early when the bridge has already gone.
FireStop ==
    /\ At("stopTx")
    /\ stopTx' = IF stopTx = "armed" THEN "fired" ELSE stopTx
    /\ IF js[1] = "stop" /\ stopTx = "armed" /\ bridge = "done" THEN JsFree ELSE Advance
    /\ UNCHANGED <<kind, gate, latch, wakes, rd, busy, bridge, chan, errSlot, errSet, rx, lock, sink, net,
                   delivered, reserved, threadRest, writing>>
EmptySlot ==
    /\ At("slot") /\ Advance
    /\ where' = IF where = "slot" THEN "none" ELSE where
    /\ shut' = TRUE
    /\ UNCHANGED <<kind, own, latch, wakes, rd, bridges, sink, net, delivered, reserved, called, final, aborted, writing>>
\* The chunks in the channel go with the last owner of its receiver.
DropRx ==
    LET dropped == rx = "some" /\ \A r \in Readers : rd[r].pc \notin UsesRx IN
    /\ At("rx") /\ Advance
    /\ rx' = IF rx = "some" THEN "gone" ELSE rx
    /\ chan' = IF dropped THEN 0 ELSE chan
    /\ reserved' = IF dropped THEN reserved - chan ELSE reserved
    /\ UNCHANGED <<kind, gate, latch, wakes, rd, busy, bridge, errSlot, errSet, lock, stopTx, sink, net,
                   delivered, threadRest, writing>>

readHalf == <<kind, gate, latch, wakes, rd, bridges, sink, net, delivered>>
SetFinished ==
    /\ At("fin") /\ Advance
    /\ finished' = TRUE
    /\ UNCHANGED <<readHalf, reserved, threadRest, lazy, tx, cmds, queue, wb, werr, wr, fw, acked, owed, sent, wireEnd>>
DropTx ==
    /\ At("wtx") /\ Advance
    /\ tx' = IF tx = "some" THEN "gone" ELSE tx
    /\ lazy' = FALSE
    /\ wireEnd' = IF lazy THEN "dropped" ELSE wireEnd
    /\ UNCHANGED <<readHalf, reserved, threadRest, finished, cmds, queue, wb, werr, wr, fw, acked, owed, sent>>

\* ensure_write_tx: the first use of the send half spawns its bridge.
Usable == tx = "some" \/ (tx = "none" /\ lazy)
EnsureTx ==
    /\ tx' = IF Usable THEN "some" ELSE tx
    /\ lazy' = IF tx = "none" THEN FALSE ELSE lazy
    /\ wb' = IF tx = "none" /\ lazy THEN "recv" ELSE wb
\* send_ctrl_lossless: at once when there is room and nobody waits for it,
\* else by a task of its own.
SendCtrl(cmd) ==
    LET now == queue = <<>> /\ Len(cmds) < ChannelCapacity
        open == Usable /\ wb # "done"
    IN  /\ cmds' = IF open /\ now THEN Append(cmds, cmd) ELSE cmds
        /\ queue' = IF open /\ ~now THEN Append(queue, cmd) ELSE queue

\* A send half that is still lazy is reset on the spot.
Control ==
    /\ At("ctrl") /\ Advance
    /\ IF js[1] = "reset" /\ lazy
       THEN lazy' = FALSE /\ wireEnd' = "reset" /\ UNCHANGED <<tx, wb, cmds, queue>>
       ELSE EnsureTx /\ SendCtrl(js[1]) /\ UNCHANGED wireEnd
    /\ UNCHANGED <<readHalf, reserved, threadRest, finished, werr, wr, fw, acked, owed, sent>>

JsStep ==
    \/ SinkTakes \/ SinkRollsBack \/ SinkOpens
    \/ mark_consumed \/ abort_read \/ NotifyAbort \/ FireStop \/ EmptySlot \/ DropRx
    \/ SetFinished \/ DropTx \/ Control

\* The wrapper is collected once no call of it is pending.
Finalize ==
    /\ Free /\ InFlight = {}
    /\ \A w \in Writers : wr[w] \notin {"tx", "reserve", "recheck", "queue", "queued"}
    /\ fw \notin {"tx", "queue", "queued", "waiting"}
    /\ final' = TRUE
    /\ where' = IF where = "slot" THEN "none" ELSE where
    /\ stopTx' = IF stopTx = "armed" THEN "dropped" ELSE stopTx
    /\ rx' = IF rx = "some" THEN "gone" ELSE rx
    /\ chan' = IF rx = "some" THEN 0 ELSE chan
    /\ reserved' = IF rx = "some" THEN reserved - chan ELSE reserved
    /\ tx' = IF tx = "some" THEN "gone" ELSE tx
    /\ lazy' = FALSE /\ wireEnd' = IF lazy THEN "dropped" ELSE wireEnd
    /\ UNCHANGED <<kind, own, latch, wakes, rd, busy, bridge, errSlot, errSet, lock, sink, net, delivered,
                   js, called, shut, aborted, finished, cmds, queue, wb, werr, wr, fw, acked, owed, sent>>

-----------------------------------------------------------------------------
(* Writing: write_bytes and finish_wait_inner.                             *)

others == <<readHalf, thread>>
WriteGoto(w, next) == wr' = [wr EXCEPT ![w] = next]

WriteStart(w) ==
    /\ kind # "uniRecv" /\ ~final /\ wr[w] = "new"
    /\ WriteGoto(w, CASE finished -> "E_STREAM_RESET" [] ~finished /\ werr # "none" -> werr [] OTHER -> "tx")
    /\ UNCHANGED <<others, reserved, lazy, tx, finished, cmds, queue, wb, werr, fw, acked, owed, sent, wireEnd>>
WriteTx(w) ==
    /\ wr[w] = "tx"
    /\ EnsureTx
    /\ WriteGoto(w, IF Usable THEN "reserve" ELSE "E_STREAM_RESET")
    /\ UNCHANGED <<others, reserved, finished, cmds, queue, werr, fw, acked, owed, sent, wireEnd>>
WriteReserve(w) ==
    /\ wr[w] = "reserve"
    /\ \/ reserved < MaxStream /\ reserved' = reserved + 1 /\ WriteGoto(w, "recheck")
       \/ WriteGoto(w, "E_BACKPRESSURE_TIMEOUT") /\ UNCHANGED reserved
    /\ UNCHANGED <<others, lazy, tx, finished, cmds, queue, wb, werr, fw, acked, owed, sent, wireEnd>>

\* Mutant: the chunk that owns the reservation is built after the re-check.
WriteRecheckLeaks(w) ==
    /\ wr[w] = "recheck"
    /\ WriteGoto(w, IF finished THEN "E_STREAM_RESET" ELSE "queue")
    /\ UNCHANGED <<others, reserved, lazy, tx, finished, cmds, queue, wb, werr, fw, acked, owed, sent, wireEnd>>

WriteRecheck(w) ==
    /\ wr[w] = "recheck"
    /\ \/ finished /\ WriteGoto(w, "E_STREAM_RESET") /\ reserved' = reserved - 1
       \/ ~finished /\ WriteGoto(w, "queue") /\ UNCHANGED reserved
    /\ UNCHANGED <<others, lazy, tx, finished, cmds, queue, wb, werr, fw, acked, owed, sent, wireEnd>>
WriteQueues(w) ==
    /\ wr[w] = "queue"
    /\ queue' = Append(queue, w) /\ WriteGoto(w, "queued")
    /\ UNCHANGED <<others, reserved, lazy, tx, finished, cmds, wb, werr, fw, acked, owed, sent, wireEnd>>

FinishWaitStart ==
    /\ kind # "uniRecv" /\ ~final /\ fw = "new"
    /\ finished' = TRUE /\ owed' = acked /\ fw' = "tx"
    /\ UNCHANGED <<others, reserved, lazy, tx, cmds, queue, wb, werr, wr, acked, sent, wireEnd>>
FinishWaitTx ==
    /\ fw = "tx"
    /\ EnsureTx
    /\ fw' = IF Usable THEN "queue" ELSE "E_STREAM_RESET"
    /\ UNCHANGED <<others, reserved, finished, cmds, queue, werr, wr, acked, owed, sent, wireEnd>>
FinishWaitQueues ==
    /\ fw = "queue"
    /\ queue' = Append(queue, "finishWait") /\ fw' = "queued"
    /\ UNCHANGED <<others, reserved, lazy, tx, finished, cmds, wb, werr, wr, acked, owed, sent, wireEnd>>

\* The channel admits its waiting senders in order.
Admit ==
    /\ queue # <<>> /\ wb # "done" /\ Len(cmds) < ChannelCapacity
    /\ queue' = Tail(queue) /\ cmds' = Append(cmds, Head(queue))
    /\ wr' = [w \in Writers |-> IF w = Head(queue) THEN "ok" ELSE wr[w]]
    /\ acked' = acked \cup ({Head(queue)} \cap Writers)
    /\ fw' = IF Head(queue) = "finishWait" THEN "waiting" ELSE fw
    /\ UNCHANGED <<others, reserved, lazy, tx, finished, wb, werr, owed, sent, wireEnd>>
\* The bridge has gone: a chunk drops with its reservation.
Refuse ==
    LET c == Head(queue) IN
    /\ queue # <<>> /\ wb = "done"
    /\ queue' = Tail(queue)
    /\ wr' = [w \in Writers |-> IF w = c THEN "E_STREAM_RESET" ELSE wr[w]]
    /\ reserved' = IF c \in Writers THEN reserved - 1 ELSE reserved
    /\ fw' = IF c = "finishWait" THEN "E_STREAM_RESET" ELSE fw
    /\ UNCHANGED <<others, lazy, tx, finished, cmds, wb, werr, acked, owed, sent, wireEnd>>

-----------------------------------------------------------------------------
(* The write bridge task.  When it ends, the commands left in its channel  *)
(* drop with their reservations and acknowledgements.                      *)

DataIn(c) == Cardinality({i \in 1..Len(c) : c[i] \in Writers})
BridgeDown(left, freed) ==
    /\ wb' = "done" /\ cmds' = <<>>
    /\ reserved' = reserved - DataIn(left) - freed

WbTakes ==
    LET c == Head(cmds) IN
    /\ wb = "recv" /\ cmds # <<>> /\ c \in Writers
    /\ cmds' = Tail(cmds) /\ wb' = c
    /\ UNCHANGED <<others, reserved, lazy, tx, finished, queue, werr, wr, fw, acked, owed, sent, wireEnd>>
WbWrites ==
    /\ wb \in Writers
    /\ sent' = sent \cup {wb} /\ wb' = "recv" /\ reserved' = reserved - 1
    /\ UNCHANGED <<others, lazy, tx, finished, cmds, queue, werr, wr, fw, acked, owed, wireEnd>>
\* finishWait learns of a bridge that ended before its command by the end
\* of its acknowledgement channel.
\* A failed write or finish is E_STOP_SENDING or E_STREAM_RESET; no other
\* step depends on which, so the model keeps one.
Abandoned(left) == \E i \in 1..Len(left) : left[i] = "finishWait"

WbFails(code) ==
    /\ wb \in Writers
    /\ BridgeDown(cmds, 1)
    /\ werr' = IF werr = "none" THEN code ELSE werr
    /\ fw' = IF Abandoned(cmds) THEN "E_STREAM_RESET" ELSE fw
    /\ wireEnd' = "dropped"
    /\ UNCHANGED <<others, lazy, tx, finished, queue, wr, acked, owed, sent>>
WbControl(ok) ==
    LET c == Head(cmds) IN
    /\ wb = "recv" /\ cmds # <<>> /\ c \notin Writers
    /\ BridgeDown(Tail(cmds), 0)
    /\ wireEnd' = IF c = "reset" THEN "reset" ELSE IF ok THEN "fin" ELSE "dropped"
    /\ werr' = IF c # "reset" /\ ~ok /\ werr = "none" THEN "E_STOP_SENDING" ELSE werr
    /\ fw' = CASE c = "finishWait" -> IF ok THEN "ok" ELSE "E_STOP_SENDING"
               [] c # "finishWait" /\ Abandoned(Tail(cmds)) -> "E_STREAM_RESET"
               [] OTHER -> fw
    /\ UNCHANGED <<others, lazy, tx, finished, queue, wr, acked, owed, sent>>
\* Every sender has gone.
WbClosed ==
    /\ wb = "recv" /\ cmds = <<>> /\ queue = <<>> /\ tx = "gone"
    /\ \A w \in Writers : wr[w] \notin {"reserve", "recheck", "queue"}
    /\ fw # "queue"
    /\ wb' = "done" /\ wireEnd' = "dropped"
    /\ UNCHANGED <<others, reserved, lazy, tx, finished, cmds, queue, werr, wr, fw, acked, owed, sent>>

-----------------------------------------------------------------------------
DirectStep(r) ==
    \/ CheckLatch(r) \/ begin_direct_read(r) \/ TakeSlot(r) \/ CheckAborted(r) \/ EnrollDirect(r)
    \/ DirectChunk(r) \/ DirectEnd(r) \/ DirectAborted(r)
    \/ Reserve(r) \/ Recheck(r) \/ BatchLoop(r) \/ Park(r) \/ Convert(r)
BridgeLaneStep(r) ==
    \/ FallThrough(r) \/ HasPending(r) \/ PermitCheck(r) \/ PermitEnroll(r) \/ GetPermit(r)
    \/ Migrate(r) \/ SetRx(r) \/ SetStop(r) \/ mark_bridged(r)
    \/ LookRx(r) \/ LockRx(r) \/ CheckBridge(r) \/ RecvData(r) \/ RecvEnd(r) \/ RecvAborted(r)
WriteStep(w) == WriteTx(w) \/ WriteReserve(w) \/ WriteRecheck(w) \/ WriteQueues(w)
FinishWaitStep == FinishWaitTx \/ FinishWaitQueues
WbStep == WbTakes \/ WbWrites \/ WbFails("E_STOP_SENDING") \/ (\E ok \in BOOLEAN : WbControl(ok)) \/ WbClosed

Next ==
    \/ (\E oversized \in BOOLEAN : PeerSends(oversized)) \/ (\E how \in {"fin", "reset", "lost"} : PeerEnds(how)) \/ OthersBridge
    \/ \E r \in Readers : \/ \E batch \in Batches : ReadStart(r, batch)
                           \/ DirectStep(r) \/ BridgeLaneStep(r)
    \/ BridgeStep
    \/ OpenSink \/ SinkReads \/ SinkEnds
    \/ (\E call \in {"stop", "reset", "finish", "dispose"} : Call(call)) \/ JsStep \/ Finalize
    \/ \E w \in Writers : WriteStart(w) \/ WriteStep(w)
    \/ FinishWaitStart \/ FinishWaitStep
    \/ Admit \/ Refuse \/ WbStep

\* Tokio polls the bridge task when one of its waits can end.  The peer, the
\* application and its reads owe nothing.
Fairness == WF_vars(BridgeStep)
Spec == Init /\ [][Next]_vars
FairSpec == Spec /\ Fairness

-----------------------------------------------------------------------------
(* Properties.                                                             *)

WriteStates == {"new", "tx", "reserve", "recheck", "queue", "queued", "ok", "E_STOP_SENDING"} \cup Codes
\* The state of the handle keeps its type.
TypeOK ==
    /\ kind \in Kinds
    /\ own \in {"Deferred", "DirectReadActive", "Bridged", "Sink", "Consumed"}
    /\ where \in {"slot", "bridge", "sink", "none"} \cup Readers
    /\ latch \in {"none"} \cup Codes /\ aborted \in BOOLEAN
    /\ enrolled \subseteq Readers /\ woken \subseteq enrolled
    /\ rd \in [Readers -> [pc : {"idle"} \cup ReadSteps, batch : BOOLEAN, held : 0..BatchMax,
                           out : {"none", "data", "eof"} \cup Codes, alone : BOOLEAN]]
    /\ busy \in BOOLEAN /\ bridge \in {"none", "select", "reserve", "send", "done"}
    /\ chan \in 0..ChannelCapacity /\ errSlot \in {"none"} \cup Codes /\ errSet \in BOOLEAN
    /\ rx \in {"none", "some", "gone"} /\ lock \in {"free"} \cup Readers
    /\ stopTx \in {"none", "armed", "fired", "dropped"}
    /\ sink \in {"none", "running", "stopping", "exited"}
    /\ arrived \in 0..MaxChunks /\ big \subseteq 1..MaxChunks /\ read \in 0..arrived /\ delivered \in 0..read
    /\ ended \in {"open", "fin", "reset", "lost"} /\ told \in BOOLEAN
    /\ reserved \in 0..MaxStream
    /\ shut \in BOOLEAN /\ final \in BOOLEAN /\ lazy \in BOOLEAN /\ finished \in BOOLEAN
    /\ tx \in {"none", "some", "gone"} /\ wb \in {"none", "recv", "done"} \cup Writers
    /\ wr \in [Writers -> WriteStates]
    /\ acked \subseteq Writers /\ owed \subseteq acked /\ sent \subseteq Writers
    /\ wireEnd \in {"open", "fin", "reset", "dropped"}

\* Chunks in the hands of reads, and of writes and their bridge.
InReads(f) == Cardinality({p \in Readers \X (1..BatchMax) : p[2] <= f[p[1]].held})
InWrites(f, b) == Cardinality({w \in Writers : f[w] \in {"recheck", "queue", "queued"} \/ b = w})
\* Every unit of the byte budget that is taken belongs to a chunk that
\* exists: in a read's hands, in a bridge or its channel, or in a write.
ReservationsExact ==
    reserved = InReads(rd) + chan + (IF bridge = "send" THEN 1 ELSE 0) + InWrites(wr, wb) + DataIn(cmds)

\* A read that no other read overlapped reports the end of the stream only
\* when the peer finished it and all of it has been handed over: a reset, a
\* lost connection or a dropped chunk never looks like a clean end, unless
\* the application itself stopped reading.
NoFalseEof ==
    \A r \in Readers :
        rd[r].out = "eof" /\ rd[r].alone /\ ~aborted => ended = "fin" /\ delivered = arrived

\* Once stop or dispose has emptied the deferred slot nothing puts a stream
\* back there: no read in flight, no sink whose opening failed.
StoppedStaysStopped == shut => where # "slot"

\* Once stop or dispose has notified, every read waiting for the bridge's
\* channel has been woken.
Notified_(r) == aborted /\ js[2] # "notify" => r \in woken
AbortReachesBridgeReads == \A r \in Readers : rd[r].pc = "recv" => Notified_(r)

\* finishWait resolves without an error only when every write that resolved
\* before it was called has been written to the transport.
FinishAckMeansWritten == fw = "ok" => owed \subseteq sent

\* A bridge that is told to stop ends, whatever it is waiting for, and with
\* it go the stream, its guard and its permit.
StopEndsBridge == Stopped ~> bridge \in {"none", "done"}

\* What a handle answers is true: an end of stream, and a finish.
AnswersHonest == NoFalseEof /\ FinishAckMeansWritten

\* A stop is final, reaches every read that waits, and ends the bridge.
StopHonoured == []StoppedStaysStopped /\ []AbortReachesBridgeReads /\ StopEndsBridge
=============================================================================
