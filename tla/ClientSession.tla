---------------------------- MODULE ClientSession ----------------------------
(***************************************************************************)
(* One client session (crates/native/src/client.rs) from the moment        *)
(* run_connect returned a connection: the registry entry the connect       *)
(* callback hands to JavaScript, the send task, the receive forwarder, the *)
(* four stream request tasks, the datagram readers that share one receiver *)
(* mutex, and the terminal task that settles the receive accounting.       *)
(*                                                                         *)
(* Every datagram counts one unit of queued_bytes.  The QUIC connection is *)
(* external: it is up or down, and everything that awaits it fails once it *)
(* is down.                                                                *)
(***************************************************************************)
EXTENDS Integers, FiniteSets, Sequences

CONSTANTS
    Readers,       \* concurrent readDatagram / readDatagramBatch calls
    Senders,       \* concurrent sendDatagram calls
    Callers,       \* concurrent stream requests
    Budget,        \* datagram_budget_bytes
    RecvCapacity,  \* CLIENT_DATAGRAM_RECV_CAPACITY
    SendCapacity,  \* slots of the send channel
    BatchMax,      \* DATAGRAM_BATCH_MAX
    NoReader       \* the receiver mutex is free

ASSUME SessionAssumption ==
    /\ {Budget, RecvCapacity, SendCapacity, BatchMax} \subseteq Nat \ {0}
    /\ NoReader \notin Readers
    /\ IsFiniteSet(Senders) /\ IsFiniteSet(Callers)

Kinds == {"open_bi", "open_uni", "accept_bi", "accept_uni"}

VARIABLES
    conn,      \* the QUIC connection: "up" or "down"
    closed,    \* the handle's sticky close flag
    closeReq,  \* the close watch has changed
    term,      \* the terminal task
    fwd,       \* the receive forwarder
    fwdWoken,  \* its enabled Notified has fired
    recvq,     \* datagrams in the receive channel
    lock,      \* holder of the receiver mutex across an await
    reader,    \* the readers
    readWoken, \* readers whose enabled Notified has fired
    sendq,     \* datagrams in the send channel
    sendTask,  \* the send task
    sender,    \* the senders
    queued,    \* queued_bytes
    stranded,  \* reservations of datagrams dropped with the send channel
    chan,      \* the request channel of each kind, its head being served
    caller,    \* the stream callers
    streams,   \* streams_active
    boot,      \* the connect task after run_connect returned
    entry,     \* the handle is in CLIENT_HANDLE_REGISTRY
    handle,    \* JavaScript holds the handle
    onClosed   \* on_closed calls made

recvVars == <<fwd, fwdWoken, recvq, lock, reader, readWoken>>
sendVars == <<sendq, sendTask, sender, stranded>>
streamVars == <<chan, caller, streams>>
bootVars == <<boot, entry, handle>>
closeVars == <<conn, closed, closeReq, term, onClosed>>
sessionVars == <<closeVars, recvVars, sendVars, streamVars, bootVars, queued>>

SessionInit ==
    /\ conn = "up" /\ closed = FALSE /\ closeReq = FALSE
    /\ term = "open" /\ onClosed = 0
    /\ fwd = "next" /\ fwdWoken = FALSE /\ recvq = 0
    /\ lock = NoReader /\ reader = [r \in Readers |-> "idle"] /\ readWoken = {}
    /\ sendq = 0 /\ sendTask = "run" /\ sender = [s \in Senders |-> "idle"]
    /\ stranded = 0 /\ queued = 0
    /\ chan = [k \in Kinds |-> <<>>] /\ caller = [c \in Callers |-> "idle"]
    /\ streams = 0
    /\ boot = "spawned" /\ entry = FALSE /\ handle = FALSE

-----------------------------------------------------------------------------
(* What several operations share.                                          *)

\* try_reserve_client_queued_bytes: one unit, or the budget is exhausted.
TryReserve == queued + 1 <= Budget /\ queued' = queued + 1

Refund(n) == queued' = queued - n

\* mark_client_closed_and_notify: the sticky flag, then notify_waiters, which
\* reaches exactly the futures that have been enabled.
MarkClosed ==
    /\ closed' = TRUE
    /\ fwdWoken' = (fwdWoken \/ fwd \in {"armed", "offer"})
    /\ readWoken' = readWoken \cup {r \in Readers : reader[r] \in {"armed", "parked"}}

\* drain_and_refund_queued_datagrams, run while no reader holds the mutex.
DrainReceive ==
    /\ lock = NoReader
    /\ recvq' = 0
    /\ Refund(recvq)

-----------------------------------------------------------------------------
(* Connecting: spawn_session_task has run, the connect task goes on.       *)

\* connect_inner publishes the handle; the session's tasks already run.
InsertEntry ==
    /\ boot = "spawned"
    /\ boot' = "inserted" /\ entry' = TRUE
    /\ UNCHANGED <<handle, closeVars, recvVars, sendVars, streamVars, queued>>

\* The callback is queued to JavaScript, which takes the handle.
CallbackDelivered ==
    /\ boot = "inserted"
    /\ boot' = "called"
    /\ UNCHANGED <<entry, handle, closeVars, recvVars, sendVars, streamVars, queued>>

\* initiate_close: flag and wake, then the watch, then the connection.
InitiateClose ==
    /\ MarkClosed
    /\ closeReq' = TRUE
    /\ conn' = "down"
    /\ UNCHANGED <<term, onClosed, fwd, recvq, lock, reader>>

\* handle_connect_callback_status: JavaScript cannot be told, so the entry is
\* taken out and its session closed.
CallbackFailed ==
    /\ boot = "inserted"
    /\ boot' = "failed" /\ entry' = FALSE
    /\ IF entry
       THEN InitiateClose
       ELSE UNCHANGED <<closeVars, recvVars>>
    /\ UNCHANGED <<handle, sendVars, streamVars, queued>>

TakeSession ==
    /\ boot = "called"
    /\ boot' = "taken" /\ entry' = FALSE /\ handle' = entry
    /\ UNCHANGED <<closeVars, recvVars, sendVars, streamVars, queued>>

\* close(): JavaScript closes a session it holds; a second call changes nothing.
Close ==
    /\ handle
    /\ ~closeReq
    /\ InitiateClose
    /\ UNCHANGED <<sendVars, streamVars, bootVars, queued>>

\* The peer, the path or the idle timeout ends the connection.
ConnectionLost ==
    /\ conn = "up"
    /\ conn' = "down"
    /\ UNCHANGED <<closed, closeReq, term, onClosed, recvVars, sendVars, streamVars,
                   bootVars, queued>>

-----------------------------------------------------------------------------
(* The send side.                                                          *)

\* send_one up to its await.  An oversized datagram and an exhausted budget
\* fail fast and change nothing.
SendReserve(s) ==
    /\ handle /\ sender[s] = "idle"
    /\ ~closed
    /\ TryReserve
    /\ sender' = [sender EXCEPT ![s] = "offering"]
    /\ UNCHANGED <<sendq, sendTask, stranded, closeVars, recvVars, streamVars, bootVars>>

SendEnqueue(s) ==
    /\ sender[s] = "offering" /\ sendTask # "gone" /\ sendq < SendCapacity
    /\ sendq' = sendq + 1
    /\ sender' = [sender EXCEPT ![s] = "idle"]
    /\ UNCHANGED <<sendTask, stranded, queued, closeVars, recvVars, streamVars, bootVars>>

\* The receiver is gone, or the deadline passes with the channel full.
SendRefund(s) ==
    /\ sender[s] = "offering"
    /\ sendTask = "gone" \/ sendq = SendCapacity
    /\ Refund(1)
    /\ sender' = [sender EXCEPT ![s] = "idle"]
    /\ UNCHANGED <<sendq, sendTask, stranded, closeVars, recvVars, streamVars, bootVars>>

\* try_send_one: the same without the await; a full channel is E_WOULD_BLOCK.
TrySend ==
    /\ handle /\ ~closed
    /\ sendTask # "gone" /\ sendq < SendCapacity
    /\ TryReserve
    /\ sendq' = sendq + 1
    /\ UNCHANGED <<sendTask, sender, stranded, closeVars, recvVars, streamVars, bootVars>>

\* The send task takes a datagram, gives its bytes back and offers it to the
\* connection; any refusal ends the loop, TooLarge and UnsupportedByPeer too.
SendTake ==
    /\ sendTask = "run" /\ sendq > 0
    /\ sendq' = sendq - 1
    /\ Refund(1)
    /\ \/ conn = "up" /\ UNCHANGED sendTask
       \/ sendTask' = "drain"
    /\ UNCHANGED <<sender, stranded, closeVars, recvVars, streamVars, bootVars>>

\* The try_recv loop behind the send loop, to its first Empty.
SendDrain ==
    /\ sendTask = "drain"
    /\ sendq' = 0
    /\ Refund(sendq)
    /\ sendTask' = "drained"
    /\ UNCHANGED <<sender, stranded, closeVars, recvVars, streamVars, bootVars>>

\* The task returns and drops the receiver with whatever is in it by then.
SendTaskEnds ==
    /\ sendTask = "drained"
    /\ sendTask' = "gone"
    /\ stranded' = stranded + sendq /\ sendq' = 0
    /\ UNCHANGED <<sender, queued, closeVars, recvVars, streamVars, bootVars>>

-----------------------------------------------------------------------------
(* The receive forwarder, run_client_datagram_forwarder.                   *)

fwdFrame == UNCHANGED <<lock, reader, readWoken, closeVars, sendVars, streamVars, bootVars>>

ForwardGot ==
    /\ fwd = "next" /\ conn = "up"
    /\ fwd' = "got"
    /\ UNCHANGED <<fwdWoken, recvq, queued>> /\ fwdFrame

ForwardEnds ==
    /\ fwd = "next" /\ conn = "down"
    /\ fwd' = "leave"
    /\ UNCHANGED <<fwdWoken, recvq, queued>> /\ fwdFrame

\* The flag, then the charge; a datagram over budget is dropped.
ForwardCharge ==
    /\ fwd = "got"
    /\ IF closed THEN fwd' = "leave" /\ UNCHANGED queued
       ELSE \/ TryReserve /\ fwd' = "charged"
            \/ queued + 1 > Budget /\ fwd' = "next" /\ UNCHANGED queued
    /\ UNCHANGED <<fwdWoken, recvq>> /\ fwdFrame

\* notified.enable(), and then the flag once more.
ForwardArm ==
    /\ fwd = "charged"
    /\ fwd' = "armed" /\ fwdWoken' = FALSE
    /\ UNCHANGED <<recvq, queued>> /\ fwdFrame

ForwardRecheck ==
    /\ fwd = "armed"
    /\ IF closed THEN fwd' = "leave" /\ Refund(1) ELSE fwd' = "offer" /\ UNCHANGED queued
    /\ UNCHANGED <<fwdWoken, recvq>> /\ fwdFrame

ForwardSend ==
    /\ fwd = "offer" /\ recvq < RecvCapacity
    /\ recvq' = recvq + 1
    /\ fwd' = "next"
    /\ UNCHANGED <<fwdWoken, queued>> /\ fwdFrame

ForwardInterrupted ==
    /\ fwd = "offer" /\ fwdWoken
    /\ Refund(1)
    /\ fwd' = "leave"
    /\ UNCHANGED <<fwdWoken, recvq>> /\ fwdFrame

ForwardLeaveUndrained ==
    /\ fwd = "leave"
    /\ fwd' = "gone"
    /\ UNCHANGED <<fwdWoken, recvq, queued>> /\ fwdFrame

\* drop(tx); a closed session is drained by the forwarder itself, an open one
\* keeps what a reader is still entitled to.
ForwardLeave ==
    /\ fwd = "leave"
    /\ fwd' = IF closed THEN "drain" ELSE "gone"
    /\ UNCHANGED <<fwdWoken, recvq, queued>> /\ fwdFrame

ForwardDrain ==
    /\ fwd = "drain"
    /\ DrainReceive
    /\ fwd' = "gone"
    /\ UNCHANGED fwdWoken /\ fwdFrame

-----------------------------------------------------------------------------
(* The readers: read_batch and recv_first_datagram.                        *)

readFrame == UNCHANGED <<fwd, fwdWoken, closeVars, sendVars, streamVars, bootVars>>

\* A batch of n datagrams resolves, the mutex is released.
ReadTake(r, n) ==
    /\ recvq' = recvq - n
    /\ Refund(n)
    /\ reader' = [reader EXCEPT ![r] = "idle"]
    /\ lock' = NoReader /\ readWoken' = readWoken \ {r}

\* null: on a close with the queue drained and refunded, on a disconnect as is.
ReadEof(r, drained) ==
    /\ recvq' = recvq - drained
    /\ Refund(drained)
    /\ reader' = [reader EXCEPT ![r] = "idle"]
    /\ lock' = NoReader /\ readWoken' = readWoken \ {r}

ReadStart(r) ==
    /\ handle /\ reader[r] = "idle"
    /\ reader' = [reader EXCEPT ![r] = "lock"]
    /\ UNCHANGED <<recvq, lock, readWoken, queued>> /\ readFrame

ReadLock(r) ==
    /\ reader[r] = "lock" /\ lock = NoReader
    /\ lock' = r
    /\ reader' = [reader EXCEPT ![r] = "first"]
    /\ UNCHANGED <<recvq, readWoken, queued>> /\ readFrame

\* The flag, before anything is taken: a read entered after a close is EOF.
ReadFirst(r) ==
    /\ reader[r] = "first"
    /\ IF closed THEN ReadEof(r, recvq)
       ELSE /\ reader' = [reader EXCEPT ![r] = "try"]
            /\ UNCHANGED <<recvq, lock, readWoken, queued>>
    /\ readFrame

\* The batch takes what is queued, up to a size in 1..BatchMax.
ReadBatch(r) ==
    \E max \in 1..BatchMax : recvq > 0 /\ ReadTake(r, IF recvq < max THEN recvq ELSE max)

\* try_recv, and on an empty queue the Notified is created and enabled.
ReadTry(r) ==
    /\ reader[r] = "try"
    /\ \/ ReadBatch(r)
       \/ recvq = 0 /\ fwd = "gone" /\ ReadEof(r, 0)
       \/ /\ recvq = 0 /\ fwd # "gone"
          /\ reader' = [reader EXCEPT ![r] = "armed"]
          /\ readWoken' = readWoken \ {r}
          /\ UNCHANGED <<recvq, lock, queued>>
    /\ readFrame

ReadRecheckSkipped(r) ==
    /\ reader[r] = "armed"
    /\ reader' = [reader EXCEPT ![r] = "parked"]
    /\ UNCHANGED <<recvq, lock, readWoken, queued>>
    /\ readFrame

\* The Notified is enabled: the flag is read again before parking.
ReadRecheck(r) ==
    /\ reader[r] = "armed"
    /\ IF closed THEN ReadEof(r, recvq)
       ELSE /\ reader' = [reader EXCEPT ![r] = "parked"]
            /\ UNCHANGED <<recvq, lock, readWoken, queued>>
    /\ readFrame

\* The select: the wake goes round the loop, a datagram or the last sender's
\* end resolves the read.
ReadSelect(r) ==
    /\ reader[r] = "parked"
    /\ \/ /\ r \in readWoken
          /\ reader' = [reader EXCEPT ![r] = "armed"]
          /\ readWoken' = readWoken \ {r}
          /\ UNCHANGED <<recvq, lock, queued>>
       \/ ReadBatch(r)
       \/ recvq = 0 /\ fwd = "gone" /\ ReadEof(r, 0)
    /\ readFrame

-----------------------------------------------------------------------------
(* Stream requests: four tasks, each serving one request at a time.        *)

streamFrame == UNCHANGED <<closeVars, recvVars, sendVars, bootVars, queued>>

RequestStream(c, k) ==
    /\ handle /\ caller[c] = "idle"
    /\ chan' = [chan EXCEPT ![k] = Append(@, c)]
    /\ caller' = [caller EXCEPT ![c] = k]
    /\ UNCHANGED streams /\ streamFrame

\* open_bi().await / accept_bi().await produced a stream and its guard.
StreamReady(k) ==
    /\ chan[k] # <<>> /\ conn = "up"
    /\ chan' = [chan EXCEPT ![k] = Tail(@)]
    /\ caller' = [caller EXCEPT ![Head(chan[k])] = "holds"]
    /\ streams' = streams + 1
    /\ streamFrame

\* The connection is down: the error reaches the caller (null for an accept).
StreamFails(k) ==
    /\ chan[k] # <<>> /\ conn = "down"
    /\ chan' = [chan EXCEPT ![k] = Tail(@)]
    /\ caller' = [caller EXCEPT ![Head(chan[k])] = "idle"]
    /\ UNCHANGED streams /\ streamFrame

\* StreamGuard::client dropped with the stream's last half.
StreamReleased(c) ==
    /\ caller[c] = "holds"
    /\ caller' = [caller EXCEPT ![c] = "idle"]
    /\ streams' = streams - 1
    /\ UNCHANGED chan /\ streamFrame

-----------------------------------------------------------------------------
(* The terminal task.                                                      *)

termFrame == UNCHANGED <<sendVars, streamVars>>

\* The select over the connection's end and the close watch; both end with
\* the session closed on the connection.
TermEnds ==
    /\ term = "open"
    /\ conn = "down" \/ closeReq
    /\ conn' = "down"
    /\ term' = "mark"
    /\ UNCHANGED <<closed, closeReq, onClosed, recvVars, queued, bootVars>> /\ termFrame

TermMark ==
    /\ term = "mark"
    /\ MarkClosed
    /\ term' = "drain1"
    /\ UNCHANGED <<conn, closeReq, onClosed, fwd, recvq, lock, reader, queued, bootVars>>
    /\ termFrame

\* The first drain, and finalize_client_terminal_state behind it: the flag and
\* the wake again, the registry entry out, on_closed called.
TermFinalize ==
    /\ term = "drain1"
    /\ DrainReceive
    /\ MarkClosed
    /\ entry' = FALSE
    /\ onClosed' = onClosed + 1
    /\ term' = "wait"
    /\ UNCHANGED <<conn, closeReq, fwd, lock, reader, boot, handle>> /\ termFrame

\* Up to FORWARDER_EXIT_WAIT for the forwarder; the wait may expire first.
TermWait ==
    /\ term = "wait"
    /\ term' = "drain2"
    /\ UNCHANGED <<conn, closed, closeReq, onClosed, recvVars, queued, bootVars>>
    /\ termFrame

TermSettle ==
    /\ term = "drain2"
    /\ DrainReceive
    /\ term' = "over"
    /\ UNCHANGED <<conn, closed, closeReq, onClosed, fwd, fwdWoken, lock, reader, readWoken,
                   bootVars>>
    /\ termFrame

-----------------------------------------------------------------------------
BootStep == InsertEntry \/ CallbackDelivered \/ CallbackFailed \/ TakeSession
SendTaskStep == SendTake \/ SendDrain \/ SendTaskEnds
ForwardStep ==
    \/ ForwardEnds \/ ForwardCharge \/ ForwardArm \/ ForwardRecheck
    \/ ForwardSend \/ ForwardInterrupted \/ ForwardLeave \/ ForwardDrain
ReadStep(r) == ReadFirst(r) \/ ReadTry(r) \/ ReadRecheck(r) \/ ReadSelect(r)
TermStep == TermEnds \/ TermMark \/ TermFinalize \/ TermWait \/ TermSettle

SessionNext ==
    \/ BootStep \/ Close \/ ConnectionLost
    \/ \E s \in Senders : SendReserve(s) \/ SendEnqueue(s) \/ SendRefund(s)
    \/ TrySend \/ SendTaskStep
    \/ ForwardGot \/ ForwardStep
    \/ \E r \in Readers : ReadStart(r) \/ ReadLock(r) \/ ReadStep(r)
    \/ \E c \in Callers : StreamReleased(c) \/ \E k \in Kinds : RequestStream(c, k)
    \/ \E k \in Kinds : StreamReady(k) \/ StreamFails(k)
    \/ TermStep

\* Every task is polled once it can go on.  tokio's mutex queues its waiters,
\* so a lock that keeps coming free is not withheld for ever.
SessionFairness ==
    /\ WF_sessionVars(BootStep)
    /\ \A s \in Senders : WF_sessionVars(SendEnqueue(s) \/ SendRefund(s))
    /\ WF_sessionVars(SendTaskStep)
    /\ WF_sessionVars(ForwardStep) /\ SF_sessionVars(ForwardDrain)
    /\ \A r \in Readers : WF_sessionVars(ReadStep(r)) /\ SF_sessionVars(ReadLock(r))
    /\ \A k \in Kinds : WF_sessionVars(StreamFails(k))
    /\ WF_sessionVars(TermEnds \/ TermMark \/ TermWait)
    /\ SF_sessionVars(TermFinalize) /\ SF_sessionVars(TermSettle)

SessionSpec == SessionInit /\ [][SessionNext]_sessionVars /\ SessionFairness

-----------------------------------------------------------------------------
\* Every variable stays in its domain; the counters neither wrap below zero nor
\* pass their channels' capacities.
SessionTypeOK ==
    /\ conn \in {"up", "down"} /\ closed \in BOOLEAN /\ closeReq \in BOOLEAN
    /\ term \in {"open", "mark", "drain1", "wait", "drain2", "over"}
    /\ fwd \in {"next", "got", "charged", "armed", "offer", "leave", "drain", "gone"}
    /\ fwdWoken \in BOOLEAN
    /\ recvq \in 0..RecvCapacity /\ sendq \in 0..SendCapacity
    /\ lock \in Readers \cup {NoReader} /\ readWoken \subseteq Readers
    /\ reader \in [Readers -> {"idle", "lock", "first", "try", "armed", "parked"}]
    /\ sendTask \in {"run", "drain", "drained", "gone"}
    /\ sender \in [Senders -> {"idle", "offering"}]
    /\ queued \in 0..Budget /\ stranded \in 0..Budget
    /\ chan \in [Kinds -> Seq(Callers)]
    /\ caller \in [Callers -> Kinds \cup {"idle", "holds"}]
    /\ streams \in 0..Cardinality(Callers)
    /\ boot \in {"spawned", "inserted", "called", "taken", "failed"}
    /\ entry \in BOOLEAN /\ handle \in BOOLEAN /\ onClosed \in Nat

\* queued_bytes, which three tasks and every caller change without a lock, is
\* at any moment the datagrams in the two channels, the reservations in flight
\* and those lost with the send channel: nothing is refunded twice, nothing
\* that left the client stays charged.
QueuedExact ==
    queued = recvq + sendq + stranded
             + Cardinality({s \in Senders : sender[s] = "offering"})
             + (IF fwd \in {"charged", "armed", "offer"} THEN 1 ELSE 0)

\* Once the terminal task and the forwarder have both ended, whichever ended
\* first and even when the terminal task stopped waiting, no receive
\* reservation is left.
ReceiveSettled == term = "over" /\ fwd = "gone" => recvq = 0

\* A datagram that was queued is discarded undelivered only in a session
\* whose close flag is set: the clean end of a connection leaves the rest to
\* the readers.
DiscardsOnlyWhenClosed ==
    [][recvq' < recvq /\ UNCHANGED reader => closed]_sessionVars

\* At most one reader is inside the receiver, and the mutex is its own.
OneReaderInside ==
    \A r \in Readers : reader[r] \in {"first", "try", "armed", "parked"} <=> lock = r

\* A session whose connection ended reports on_closed, although the terminal
\* task needs the mutex a parked reader holds.
ClosedReported == conn = "down" ~> onClosed > 0

\* A close ends every read that is under way.
ReadsEnd == \A r \in Readers : closed /\ reader[r] # "idle" ~> reader[r] = "idle"

\* After a close the forwarder ends, also when it was parked on a full channel.
ForwarderEnds == closed ~> fwd = "gone"

\* Whatever becomes of the connect callback, the registry does not keep the
\* handle.
EntryReclaimed == <>[](~entry)

\* A session JavaScript was never told about is closed.
UndeliveredCloses == boot = "failed" ~> onClosed > 0

\* A stream request is answered once the connection is down.
RequestsAnswered ==
    \A c \in Callers : conn = "down" /\ caller[c] \in Kinds ~> caller[c] \notin Kinds

\* The bytes of a client session are counted exactly, and given back when it
\* ends, with one reader inside the receiver at a time.
BytesSettled == SessionTypeOK /\ QueuedExact /\ ReceiveSettled /\ OneReaderInside

\* A client session ends for everybody who waits on it.
SessionSettles ==
    /\ DiscardsOnlyWhenClosed /\ ClosedReported /\ ReadsEnd /\ ForwarderEnds
    /\ EntryReclaimed /\ UndeliveredCloses /\ RequestsAnswered
=============================================================================
