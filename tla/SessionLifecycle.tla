-------------------------- MODULE SessionLifecycle --------------------------
(***************************************************************************)
(* The life of a server-side WebTransport session in the native addon      *)
(* (crates/native/src/lib.rs, session_registry.rs, rate_limit.rs,          *)
(* server_metrics.rs, server.rs, spawn_tracked.rs).                        *)
(*                                                                         *)
(* One "session task" per incoming connection walks through admission      *)
(* (handshake admission, per-IP and per-prefix slots, the sessions_active  *)
(* gauge), registers the session, announces it to JavaScript, spawns the   *)
(* session's worker tasks and returns.  The "forward task" then owns the   *)
(* session's counters: it reads datagrams, sees the connection close, and  *)
(* gives everything back.  Meanwhile the peer, the application and the     *)
(* server's close() may end the session at any moment.                     *)
(*                                                                         *)
(* Every atomic operation on a shared counter is a step of its own, so the *)
(* interleavings of the multi-threaded runtime are all present.            *)
(***************************************************************************)
EXTENDS Integers, FiniteSets

CONSTANTS
    Sessions,        \* incoming connections; each is one potential session
    Ips,             \* peer addresses
    Prefixes,        \* /24 or /64 prefixes
    IpOf,            \* Sessions -> Ips
    PrefixOf,        \* Ips -> Prefixes
    MaxHandshakes,   \* limits.max_handshakes_in_flight
    MaxSessions,     \* limits.max_sessions
    BurstPerIp,      \* rate_limits.handshakes_burst_per_ip
    BurstPerPrefix,  \* rate_limits.handshakes_burst_per_prefix
    ChannelCapacity, \* DGRAM_CHANNEL_CAPACITY
    AppReads,        \* TRUE when the application keeps reading datagrams
    Hazards          \* what may happen: "datagram"s, ends of connections, a local
                     \* "appClose", a "panic", the server's "close"

ASSUME SessionsFinite == IsFiniteSet(Sessions)
ASSUME AddressAssumption == IpOf \in [Sessions -> Ips] /\ PrefixOf \in [Ips -> Prefixes]
ASSUME LimitsAssumption ==
    /\ MaxHandshakes \in Nat \ {0} /\ MaxSessions \in Nat \ {0}
    /\ BurstPerIp \in Nat \ {0} /\ BurstPerPrefix \in Nat \ {0}
    /\ ChannelCapacity \in Nat \ {0}
ASSUME EnvironmentAssumption ==
    AppReads \in BOOLEAN
    /\ Hazards \subseteq {"datagram", "app", "closing", "idle", "transport", "appClose",
                         "panic", "close"}

VARIABLES
    task,        \* where each session task is
    fwd,         \* where each datagram-forward task is
    queued,      \* datagrams waiting in each session's channel
    aux,         \* the worker tasks of each session that are still running
    unwinding,   \* forward tasks leaving by a panic or an abort, not by return
    panicked,    \* forward tasks whose panic the watcher has still to handle
    conn,        \* the QUIC connection of each session
    registry,    \* REGISTRY: sessions JavaScript can still look up
    events,      \* lifecycle events JavaScript has been sent, per session
    handshakes,  \* metrics.handshakes_in_flight
    active,      \* metrics.sessions_active
    perIp,       \* PER_IP_SESSIONS of this server
    perPrefix,   \* PER_PREFIX_SESSIONS of this server
    tally,       \* sessions_closed_by_idle / _by_reap / _other
    closer,      \* the progress of ServerHandle::close
    sweep,       \* keys close_all_for_owner has still to visit
    loop,        \* the accept loop is running
    doomed       \* tasks abort_server_tasks has aborted

vars == <<task, fwd, queued, aux, unwinding, panicked, conn, registry, events,
          handshakes, active, perIp, perPrefix, tally, closer, sweep, loop, doomed>>

workers  == <<fwd, queued, aux, unwinding, panicked>>
counters == <<handshakes, active, perIp, perPrefix>>
server   == <<closer, sweep, loop, doomed>>

-----------------------------------------------------------------------------
(* Stages.  A session task that returned without handing its slots to a    *)
(* forward task, although it still holds them, is at "lost" (gauge and     *)
(* address slots) or "lostSlots" (address slots only).                     *)

TaskStages == {"idle", "incoming", "refusing", "ip", "prefix", "unwind", "count", "over",
               "rejecting", "accepting", "undo", "freeIp", "freePrefix", "confirm",
               "announce", "startBidi", "startUni", "done", "lost", "lostSlots"}
FwdStages  == {"none", "spawned", "recv", "send", "remove", "freeIp", "freePrefix",
               "uncount", "notify", "done", "lost"}
\* Two kinds of worker task: the bidi and uni accept loops, and the handlers
\* of create-stream requests.  Both tasks of a kind end on the same condition.
Workers    == {"accept", "create"}
\* How a connection ended decides the code extract_close_info finds: the
\* peer's application code, the idle code, or none at all.
Ends       == {"app", "closing", "idle", "transport", "local"}
ConnStates == {"none", "open"} \cup Ends

\* The stages during which the task's future owns the HandshakeAdmission.
AdmissionHeld(s) == task[s] \in {"incoming", "refusing", "ip", "prefix", "unwind", "count",
                                 "over", "rejecting", "accepting", "undo", "freeIp", "freePrefix"}
\* The session is counted in sessions_active.
Counted(s) == \/ task[s] \in {"over", "accepting", "undo", "confirm", "announce",
                              "startBidi", "startUni", "lost"}
              \/ fwd[s] \in {"spawned", "recv", "send", "remove", "freeIp",
                             "freePrefix", "uncount", "lost"}
HoldsIp(s) == \/ task[s] \in {"prefix", "unwind", "count", "over", "rejecting", "accepting",
                              "undo", "freeIp", "confirm", "announce", "startBidi",
                              "startUni", "lost", "lostSlots"}
              \/ fwd[s] \in {"spawned", "recv", "send", "remove", "freeIp", "lost"}
HoldsPrefix(s) == \/ task[s] \in {"count", "over", "rejecting", "accepting", "undo", "freeIp",
                                  "freePrefix", "confirm", "announce", "startBidi",
                                  "startUni", "lost", "lostSlots"}
                  \/ fwd[s] \in {"spawned", "recv", "send", "remove", "freeIp",
                                 "freePrefix", "lost"}
\* The session got past the sessions_active check.
Admitted(s) == Counted(s) /\ task[s] # "over"

Open(s)   == conn[s] = "open"
Closed(s) == conn[s] \in Ends
\* Connection::close: only the first close of a connection counts.
CloseConn(S) == [s \in Sessions |-> IF s \in S /\ Open(s) THEN "local" ELSE conn[s]]
Pred(n) == IF n = 0 THEN 0 ELSE n - 1     \* saturating_sub(1)

Goto(s, stage)    == task' = [task EXCEPT ![s] = stage]
FwdGoto(s, stage) == fwd' = [fwd EXCEPT ![s] = stage]
PrefixFor(s) == PrefixOf[IpOf[s]]
\* An aborted task is not polled again: it takes no step out of an await.
Polled(s, kind) == <<s, kind>> \notin doomed

-----------------------------------------------------------------------------
Init ==
    /\ task = [s \in Sessions |-> "idle"]
    /\ fwd = [s \in Sessions |-> "none"]
    /\ queued = [s \in Sessions |-> 0]
    /\ aux = [s \in Sessions |-> {}]
    /\ unwinding = {} /\ panicked = {} /\ doomed = {}
    /\ conn = [s \in Sessions |-> "none"]
    /\ registry = {}
    /\ events = [s \in Sessions |-> {}]
    /\ handshakes = 0 /\ active = 0
    /\ perIp = [i \in Ips |-> 0] /\ perPrefix = [p \in Prefixes |-> 0]
    /\ tally = [k \in {"idle", "reap", "other"} |-> 0]
    /\ closer = "idle" /\ sweep = {} /\ loop = TRUE

-----------------------------------------------------------------------------
(* Admission: the accept loop and the session task up to accept().         *)

\* The accept loop takes an incoming connection: a free handshake slot buys
\* it a session task, otherwise it is refused on the spot.
Arrive(s) ==
    /\ loop /\ task[s] = "idle"
    /\ IF handshakes < MaxHandshakes
       THEN /\ handshakes' = handshakes + 1
            /\ Goto(s, "incoming")
            /\ conn' = [conn EXCEPT ![s] = "open"]
       ELSE /\ Goto(s, "done")
            /\ conn' = [conn EXCEPT ![s] = "local"]
            /\ UNCHANGED handshakes
    /\ UNCHANGED <<workers, registry, events, active, perIp, perPrefix, tally, server>>

\* The session task's future is gone without a forward task: its admission
\* guard and its connection handle are dropped.
LeaveTask(s, stage) ==
    /\ Goto(s, stage)
    /\ handshakes' = Pred(handshakes)
    /\ conn' = CloseConn({s})

\* incoming_session.await resolved to a request; the handshake token bucket
\* of the peer's address has a token or it has not.
ReadRequest(s) ==
    /\ task[s] = "incoming" /\ Open(s) /\ Polled(s, "task")
    /\ \/ Goto(s, "ip")
       \/ Goto(s, "refusing")
    /\ UNCHANGED <<workers, conn, registry, events, counters, tally, server>>

\* incoming_session.await failed, or the 429 answer has been written.
TurnedAway(s) ==
    /\ task[s] \in {"incoming", "refusing"} /\ Polled(s, "task")
    /\ LeaveTask(s, "done")
    /\ UNCHANGED <<workers, registry, events, active, perIp, perPrefix, tally, server>>

\* try_acquire_per_ip_session_with_prefix, first compare-and-swap.
AcquireIp(s) ==
    /\ task[s] = "ip"
    /\ IF perIp[IpOf[s]] < BurstPerIp
       THEN perIp' = [perIp EXCEPT ![IpOf[s]] = @ + 1] /\ Goto(s, "prefix")
       ELSE Goto(s, "refusing") /\ UNCHANGED perIp
    /\ UNCHANGED <<workers, conn, registry, events, handshakes, active, perPrefix, tally,
                   server>>

\* Mutant: a refused prefix forgets to give the per-IP slot back.
AcquirePrefixNoRollback(s) ==
    /\ task[s] = "prefix"
    /\ IF perPrefix[PrefixFor(s)] < BurstPerPrefix
       THEN perPrefix' = [perPrefix EXCEPT ![PrefixFor(s)] = @ + 1] /\ Goto(s, "count")
       ELSE Goto(s, "refusing") /\ UNCHANGED perPrefix
    /\ UNCHANGED <<workers, conn, registry, events, handshakes, active, perIp, tally, server>>

\* Second compare-and-swap; its failure gives the per-IP slot back first.
AcquirePrefix(s) ==
    /\ task[s] = "prefix"
    /\ IF perPrefix[PrefixFor(s)] < BurstPerPrefix
       THEN perPrefix' = [perPrefix EXCEPT ![PrefixFor(s)] = @ + 1] /\ Goto(s, "count")
       ELSE Goto(s, "unwind") /\ UNCHANGED perPrefix
    /\ UNCHANGED <<workers, conn, registry, events, handshakes, active, perIp, tally, server>>

UnwindIp(s) ==
    /\ task[s] = "unwind"
    /\ perIp' = [perIp EXCEPT ![IpOf[s]] = Pred(@)]
    /\ Goto(s, "refusing")
    /\ UNCHANGED <<workers, conn, registry, events, handshakes, active, perPrefix, tally,
                   server>>

\* Mutant: the value before the addition is compared with > instead of >=.
CountSessionOneMore(s) ==
    /\ task[s] = "count"
    /\ active' = active + 1
    /\ Goto(s, IF active > MaxSessions THEN "over" ELSE "accepting")
    /\ UNCHANGED <<workers, conn, registry, events, handshakes, perIp, perPrefix, tally, server>>

\* sessions_active.fetch_add: the value before the addition decides.
CountSession(s) ==
    /\ task[s] = "count"
    /\ active' = active + 1
    /\ Goto(s, IF active >= MaxSessions THEN "over" ELSE "accepting")
    /\ UNCHANGED <<workers, conn, registry, events, handshakes, perIp, perPrefix, tally,
                   server>>

\* Over maxSessions: take the addition back, then answer under a time-out.
UncountOver(s) ==
    /\ task[s] = "over"
    /\ active' = active - 1
    /\ Goto(s, "rejecting")
    /\ UNCHANGED <<workers, conn, registry, events, handshakes, perIp, perPrefix, tally,
                   server>>

\* accept() of a rejected request returned or timed out.
Rejected(s) ==
    /\ task[s] = "rejecting" /\ Polled(s, "task")
    /\ Goto(s, "freeIp")
    /\ UNCHANGED <<workers, conn, registry, events, counters, tally, server>>

\* Mutant: the time-out path releases the address but not the gauge.
AcceptFailsKeepsGauge(s) ==
    /\ task[s] = "accepting" /\ Polled(s, "task")
    /\ Goto(s, "freeIp")
    /\ UNCHANGED <<workers, conn, registry, events, counters, tally, server>>

\* accept() failed, or handshake_timeout_ms passed first.
AcceptFails(s) ==
    /\ task[s] = "accepting" /\ Polled(s, "task")
    /\ Goto(s, "undo")
    /\ UNCHANGED <<workers, conn, registry, events, counters, tally, server>>

UndoCount(s) ==
    /\ task[s] = "undo"
    /\ active' = active - 1
    /\ Goto(s, "freeIp")
    /\ UNCHANGED <<workers, conn, registry, events, handshakes, perIp, perPrefix, tally,
                   server>>

\* release_per_ip_session of a request that never became a session.
FreeIp(s) ==
    /\ task[s] = "freeIp"
    /\ perIp' = [perIp EXCEPT ![IpOf[s]] = Pred(@)]
    /\ Goto(s, "freePrefix")
    /\ UNCHANGED <<workers, conn, registry, events, handshakes, active, perPrefix, tally,
                   server>>

FreePrefix(s) ==
    /\ task[s] = "freePrefix"
    /\ perPrefix' = [perPrefix EXCEPT ![PrefixFor(s)] = Pred(@)]
    /\ LeaveTask(s, "done")
    /\ UNCHANGED <<workers, registry, events, active, perIp, tally, server>>

-----------------------------------------------------------------------------
(* From accept() to the worker tasks.                                      *)

\* accept() succeeded: the admission is dropped and the session registered,
\* before JavaScript hears of it.
AcceptOk(s) ==
    /\ task[s] = "accepting" /\ Open(s) /\ Polled(s, "task")
    /\ handshakes' = Pred(handshakes)
    /\ registry' = registry \cup {s}
    /\ Goto(s, "confirm")
    /\ UNCHANGED <<workers, conn, events, active, perIp, perPrefix, tally, server>>

\* A deferred 0-RTT session waits for handshake_confirmed; others pass.
Confirm(s) ==
    /\ task[s] = "confirm" /\ Polled(s, "task")
    /\ Goto(s, "announce")
    /\ UNCHANGED <<workers, conn, registry, events, counters, tally, server>>

\* SessionEvent::Accepted, awaiting room in the event channel.
Announce(s) ==
    /\ task[s] = "announce" /\ Polled(s, "task")
    /\ events' = [events EXCEPT ![s] = @ \cup {"accepted"}]
    /\ Goto(s, "startBidi")
    /\ UNCHANGED <<workers, conn, registry, counters, tally, server>>

\* bidi_discard_state(&id) else return; spawn the bidi accept loop.
StartBidi(s) ==
    /\ task[s] = "startBidi"
    /\ IF s \in registry
       THEN Goto(s, "startUni") /\ aux' = [aux EXCEPT ![s] = @ \cup {"accept"}]
       ELSE Goto(s, "lost") /\ UNCHANGED aux
    /\ UNCHANGED <<fwd, queued, unwinding, panicked, conn, registry, events, counters, tally,
                   server>>

\* uni_discard_state(&id) else return; spawn the uni accept loop, the two
\* create handlers and the forward task, and return.
StartRest(s) ==
    /\ task[s] = "startUni"
    /\ IF s \in registry
       THEN /\ Goto(s, "done")
            /\ FwdGoto(s, "spawned")
            /\ aux' = [aux EXCEPT ![s] = @ \cup {"accept", "create"}]
       ELSE Goto(s, "lost") /\ UNCHANGED <<fwd, aux>>
    /\ UNCHANGED <<queued, unwinding, panicked, conn, registry, events, counters, tally,
                   server>>

-----------------------------------------------------------------------------
(* The datagram-forward task, owner of the SessionCounters.                *)

\* First poll: the SessionCounters exist from here on.
FwdStart(s) ==
    /\ fwd[s] = "spawned" /\ Polled(s, "fwd")
    /\ FwdGoto(s, "recv")
    /\ UNCHANGED <<task, queued, aux, unwinding, panicked, conn, registry, events, counters,
                   tally, server>>

\* A datagram was received and reserved: the task is in dgram_tx.send(slot).
FwdReceive(s) ==
    /\ "datagram" \in Hazards /\ fwd[s] = "recv" /\ Open(s) /\ Polled(s, "fwd")
    /\ FwdGoto(s, "send")
    /\ UNCHANGED <<task, queued, aux, unwinding, panicked, conn, registry, events, counters,
                   tally, server>>

\* The channel has room for the slot.  No arm of this await watches the
\* connection: with a full channel only a reader lets the task go on.
FwdSent(s) ==
    /\ fwd[s] = "send" /\ s \in registry /\ Polled(s, "fwd")
    /\ queued[s] < ChannelCapacity
    /\ queued' = [queued EXCEPT ![s] = @ + 1]
    /\ FwdGoto(s, "recv")
    /\ UNCHANGED <<task, aux, unwinding, panicked, conn, registry, events, counters, tally,
                   server>>

\* JavaScript reads a datagram of a session it can still look up.
ReadDatagram(s) ==
    /\ s \in registry /\ queued[s] > 0
    /\ queued' = [queued EXCEPT ![s] = @ - 1]
    /\ UNCHANGED <<task, fwd, aux, unwinding, panicked, conn, registry, events, counters,
                   tally, server>>

\* The receiver went away with the registry entry: leave with no close code.
FwdSendFails(s) ==
    /\ fwd[s] = "send" /\ s \notin registry /\ Polled(s, "fwd")
    /\ FwdGoto(s, "remove")
    /\ UNCHANGED <<task, queued, aux, unwinding, panicked, conn, registry, events, counters,
                   tally, server>>

\* record_session_close: which counter a connection's end is put down to.
record_session_close(end) ==
    CASE end = "idle"    -> [tally EXCEPT !["idle"] = @ + 1]
      [] end = "closing" -> [tally EXCEPT !["reap"] = @ + 1]
      [] end = "app"     -> [tally EXCEPT !["other"] = @ + 1]
      [] OTHER           -> tally

\* Mutant: JavaScript is told before the counters are released.
FwdSeesCloseTellsFirst(s) ==
    /\ fwd[s] = "recv" /\ Closed(s) /\ Polled(s, "fwd")
    /\ tally' = record_session_close(conn[s])
    /\ events' = [events EXCEPT ![s] = @ \cup {"closed"}]
    /\ FwdGoto(s, "remove")
    /\ UNCHANGED <<task, queued, aux, unwinding, panicked, conn, registry, counters, server>>

\* receive_datagram() failed or closed() fired: classify the end.
FwdSeesClose(s) ==
    /\ fwd[s] = "recv" /\ Closed(s) /\ Polled(s, "fwd")
    /\ tally' = record_session_close(conn[s])
    /\ FwdGoto(s, "remove")
    /\ UNCHANGED <<task, queued, aux, unwinding, panicked, conn, registry, events, counters,
                   server>>

\* SessionCounters::release, one shared structure at a time.
FwdRemove(s) ==
    /\ fwd[s] = "remove"
    /\ registry' = registry \ {s}
    /\ FwdGoto(s, "freeIp")
    /\ UNCHANGED <<task, queued, aux, unwinding, panicked, conn, events, counters, tally,
                   server>>

FwdFreeIp(s) ==
    /\ fwd[s] = "freeIp"
    /\ perIp' = [perIp EXCEPT ![IpOf[s]] = Pred(@)]
    /\ FwdGoto(s, "freePrefix")
    /\ UNCHANGED <<task, queued, aux, unwinding, panicked, conn, registry, events, handshakes,
                   active, perPrefix, tally, server>>

FwdFreePrefix(s) ==
    /\ fwd[s] = "freePrefix"
    /\ perPrefix' = [perPrefix EXCEPT ![PrefixFor(s)] = Pred(@)]
    /\ FwdGoto(s, "uncount")
    /\ UNCHANGED <<task, queued, aux, unwinding, panicked, conn, registry, events, handshakes,
                   active, perIp, tally, server>>

\* The gauge goes last; an unwinding task has no event left to send.
FwdUncount(s) ==
    /\ fwd[s] = "uncount"
    /\ active' = active - 1
    /\ FwdGoto(s, IF s \in unwinding THEN "done" ELSE "notify")
    /\ UNCHANGED <<task, queued, aux, unwinding, panicked, conn, registry, events, handshakes,
                   perIp, perPrefix, tally, server>>

\* SessionEvent::Closed, awaiting room in the event channel.
FwdNotify(s) ==
    /\ fwd[s] = "notify" /\ Polled(s, "fwd")
    /\ events' = [events EXCEPT ![s] = @ \cup {"closed"}]
    /\ FwdGoto(s, "done")
    /\ UNCHANGED <<task, queued, aux, unwinding, panicked, conn, registry, counters, tally,
                   server>>

-----------------------------------------------------------------------------
(* Ending a session: close_session / abort_session, panics, the peer.      *)

\* Whoever takes the entry out of the registry closes the connection.
RemoveAndClose(s) ==
    /\ registry' = registry \ {s}
    /\ conn' = IF s \in registry THEN CloseConn({s}) ELSE conn

\* session.close() from JavaScript.
close_session(s) ==
    /\ "appClose" \in Hazards /\ s \in registry
    /\ RemoveAndClose(s)
    /\ UNCHANGED <<task, workers, events, counters, tally, server>>

\* The forward task panics while polling: dropping its SessionCounters
\* releases them while the stack unwinds, before the watcher is told.
FwdPanics(s) ==
    /\ "panic" \in Hazards /\ fwd[s] = "recv" /\ Polled(s, "fwd")
    /\ FwdGoto(s, "remove")
    /\ unwinding' = unwinding \cup {s}
    /\ panicked' = panicked \cup {s}
    /\ UNCHANGED <<task, queued, aux, conn, registry, events, counters, tally, server>>

\* spawn_tracked_watcher with PanicScope::Session: abort_session(id).
WatcherAborts(s) ==
    /\ s \in panicked /\ fwd[s] = "done"
    /\ panicked' = panicked \ {s}
    /\ RemoveAndClose(s)
    /\ UNCHANGED <<task, fwd, queued, aux, unwinding, events, counters, tally, server>>

\* A worker task panics; its watcher aborts the session.
WorkerPanics(s, w) ==
    /\ "panic" \in Hazards
    /\ w \in aux[s]
    /\ aux' = [aux EXCEPT ![s] = @ \ {w}]
    /\ RemoveAndClose(s)
    /\ UNCHANGED <<task, fwd, queued, unwinding, panicked, events, counters, tally, server>>

\* An accept loop ends with the connection; a create handler when the last
\* sender of its channel is gone, that is, with the registry entry.
WorkerExits(s, w) ==
    /\ w \in aux[s]
    /\ IF w = "accept" THEN Closed(s) ELSE s \notin registry
    /\ aux' = [aux EXCEPT ![s] = @ \ {w}]
    /\ UNCHANGED <<task, fwd, queued, unwinding, panicked, conn, registry, events, counters,
                   tally, server>>

\* An accept loop that takes one more stream finds its channel closed.
WorkerFindsChannelClosed(s, w) ==
    /\ w = "accept" /\ w \in aux[s]
    /\ Open(s) /\ s \notin registry
    /\ aux' = [aux EXCEPT ![s] = @ \ {w}]
    /\ UNCHANGED <<task, fwd, queued, unwinding, panicked, conn, registry, events, counters,
                   tally, server>>

\* The peer closes, goes silent, or the transport fails (external).
ConnEnds(s) ==
    /\ Open(s)
    /\ \E end \in Ends \cap Hazards : conn' = [conn EXCEPT ![s] = end]
    /\ UNCHANGED <<task, workers, registry, events, counters, tally, server>>

-----------------------------------------------------------------------------
(* ServerHandle::close and the drain that follows it.                      *)

\* The synchronous prologue: shutdown is signalled, this server's address
\* slots are forgotten, the owned registry keys are collected.
Close ==
    /\ "close" \in Hazards /\ closer = "idle"
    /\ closer' = "sweeping"
    /\ perIp' = [i \in Ips |-> 0] /\ perPrefix' = [p \in Prefixes |-> 0]
    /\ sweep' = registry
    /\ UNCHANGED <<task, workers, conn, registry, events, handshakes, active, tally, loop,
                   doomed>>

\* close_all_for_owner, one key: only a key still present is reaped.
SweepOne(s) ==
    /\ s \in sweep
    /\ sweep' = sweep \ {s}
    /\ tally' = IF s \in registry THEN [tally EXCEPT !["reap"] = @ + 1] ELSE tally
    /\ RemoveAndClose(s)
    /\ UNCHANGED <<task, workers, events, counters, closer, loop, doomed>>

SweepDone ==
    /\ sweep = {} /\ closer \in {"sweeping", "resweeping"}
    /\ closer' = IF closer = "sweeping" THEN "grace" ELSE "abort"
    /\ UNCHANGED <<task, workers, conn, registry, events, counters, tally, sweep, loop,
                   doomed>>

\* The accept loop sees the shutdown signal and closes the endpoint, and
\* with it every connection.
LoopStops ==
    /\ loop /\ closer # "idle"
    /\ loop' = FALSE
    /\ conn' = CloseConn(Sessions)
    /\ UNCHANGED <<task, workers, registry, events, counters, tally, closer, sweep, doomed>>

TaskLive(s) == task[s] \notin {"idle", "done", "lost", "lostSlots"}
FwdLive(s)  == fwd[s] \notin {"none", "done", "lost"}

\* Mutant: the drain looks at the session gauges and not at stream tasks.
idle_without_stream_tasks ==
    /\ ~loop
    /\ \A s \in Sessions : ~TaskLive(s)
    /\ active = 0

\* server_runtime_is_idle over the gauges (the accept loop is tracked too).
server_runtime_is_idle ==
    /\ ~loop
    /\ \A s \in Sessions : ~TaskLive(s) /\ ~FwdLive(s) /\ aux[s] = {}
    /\ active = 0

DrainEnds ==
    /\ closer \in {"grace", "abort"} /\ server_runtime_is_idle
    /\ closer' = "closed"
    /\ UNCHANGED <<task, workers, conn, registry, events, counters, tally, sweep, loop,
                   doomed>>

\* The grace period is over: abort every tracked task, sweep once more.
GraceExpires ==
    /\ closer = "grace" /\ ~server_runtime_is_idle
    /\ closer' = "resweeping"
    /\ doomed' = {<<s, "task">> : s \in {x \in Sessions : TaskLive(x)}}
                   \cup {<<s, "fwd">> : s \in {x \in Sessions : FwdLive(x)}}
                   \cup {t \in Sessions \X Workers : t[2] \in aux[t[1]]}
    /\ loop' = FALSE
    /\ sweep' = registry
    /\ UNCHANGED <<task, workers, conn, registry, events, counters, tally>>

\* Mutant: the second deadline only counts while sessions are registered.
AbortExpiresOnlyRegistered ==
    /\ closer = "abort" /\ ~server_runtime_is_idle /\ registry # {}
    /\ closer' = "failed"
    /\ UNCHANGED <<task, workers, conn, registry, events, counters, tally, sweep, loop, doomed>>

\* The abort period is over as well: close() rejects.
AbortExpires ==
    /\ closer = "abort" /\ ~server_runtime_is_idle
    /\ closer' = "failed"
    /\ UNCHANGED <<task, workers, conn, registry, events, counters, tally, sweep, loop,
                   doomed>>

\* An aborted session task is dropped at an await point; what it had counted
\* by hand, before any SessionCounters existed, stays counted.
CancelTask(s) ==
    /\ <<s, "task">> \in doomed
    /\ \/ task[s] \in {"incoming", "refusing"} /\ LeaveTask(s, "done")
       \/ task[s] = "rejecting" /\ LeaveTask(s, "lostSlots")
       \/ task[s] = "accepting" /\ LeaveTask(s, "lost")
       \/ task[s] \in {"confirm", "announce"} /\ Goto(s, "lost") /\ UNCHANGED <<handshakes, conn>>
    /\ UNCHANGED <<workers, registry, events, active, perIp, perPrefix, tally, server>>

\* An aborted forward task drops its SessionCounters, unless it never ran.
CancelFwd(s) ==
    /\ <<s, "fwd">> \in doomed
    /\ \/ fwd[s] = "spawned" /\ FwdGoto(s, "lost") /\ UNCHANGED unwinding
       \/ fwd[s] \in {"recv", "send"} /\ FwdGoto(s, "remove") /\ unwinding' = unwinding \cup {s}
       \/ fwd[s] = "notify" /\ FwdGoto(s, "done") /\ UNCHANGED unwinding
    /\ UNCHANGED <<task, queued, aux, panicked, conn, registry, events, counters, tally,
                   server>>

CancelWorker(s, w) ==
    /\ <<s, w>> \in doomed /\ w \in aux[s]
    /\ aux' = [aux EXCEPT ![s] = @ \ {w}]
    /\ UNCHANGED <<task, fwd, queued, unwinding, panicked, conn, registry, events, counters,
                   tally, server>>

-----------------------------------------------------------------------------
\* The session task's own progress.  Its awaits are bounded: accept() by
\* handshake_timeout_ms, the rest by the connection's idle time-out.
TaskStep(s) ==
    \/ ReadRequest(s) \/ TurnedAway(s) \/ AcquireIp(s) \/ AcquirePrefix(s) \/ UnwindIp(s)
    \/ CountSession(s) \/ UncountOver(s) \/ Rejected(s) \/ AcceptFails(s) \/ UndoCount(s)
    \/ FreeIp(s) \/ FreePrefix(s) \/ AcceptOk(s) \/ Confirm(s) \/ Announce(s) \/ StartBidi(s)
    \/ StartRest(s)

\* The forward task's progress that depends on nobody else.
FwdStep(s) ==
    \/ FwdStart(s) \/ FwdSent(s) \/ FwdSendFails(s) \/ FwdSeesClose(s) \/ FwdRemove(s) \/ FwdFreeIp(s)
    \/ FwdFreePrefix(s) \/ FwdUncount(s) \/ FwdNotify(s)

CloseStep == (\E s \in Sessions : SweepOne(s)) \/ SweepDone \/ DrainEnds \/ GraceExpires
                \/ AbortExpires

Cancel(s) == CancelTask(s) \/ CancelFwd(s) \/ (\E w \in Workers : CancelWorker(s, w))

Next ==
    \/ \E s \in Sessions :
        \/ Arrive(s) \/ TaskStep(s) \/ FwdStep(s) \/ FwdReceive(s) \/ ReadDatagram(s)
        \/ close_session(s) \/ FwdPanics(s) \/ WatcherAborts(s) \/ ConnEnds(s)
        \/ \E w \in Workers :
              WorkerPanics(s, w) \/ WorkerExits(s, w) \/ WorkerFindsChannelClosed(s, w)
        \/ Cancel(s)
    \/ Close \/ LoopStops \/ CloseStep

\* Tokio polls every runnable task again and again; an application that
\* reads (AppReads) keeps making room in the datagram channel.
Fairness ==
    /\ \A s \in Sessions :
        /\ WF_vars(TaskStep(s)) /\ WF_vars(FwdStep(s))
        /\ WF_vars(WatcherAborts(s)) /\ WF_vars(Cancel(s))
        /\ \A w \in Workers : WF_vars(WorkerExits(s, w))
        /\ AppReads => WF_vars(ReadDatagram(s))
    /\ WF_vars(LoopStops) /\ WF_vars(CloseStep)

Spec == Init /\ [][Next]_vars
FairSpec == Spec /\ Fairness

-----------------------------------------------------------------------------
\* Every variable stays in its domain; no counter goes below zero.
TypeOK ==
    /\ task \in [Sessions -> TaskStages]
    /\ fwd \in [Sessions -> FwdStages]
    /\ queued \in [Sessions -> 0 .. ChannelCapacity]
    /\ aux \in [Sessions -> SUBSET Workers]
    /\ unwinding \subseteq Sessions /\ panicked \subseteq Sessions
    /\ conn \in [Sessions -> ConnStates]
    /\ registry \subseteq Sessions /\ sweep \subseteq Sessions
    /\ events \in [Sessions -> SUBSET {"accepted", "closed"}]
    /\ handshakes \in Nat /\ active \in Nat
    /\ perIp \in [Ips -> Nat] /\ perPrefix \in [Prefixes -> Nat]
    /\ tally \in [{"idle", "reap", "other"} -> Nat]
    /\ closer \in {"idle", "sweeping", "grace", "resweeping", "abort", "closed", "failed"}
    /\ loop \in BOOLEAN
    /\ doomed \subseteq Sessions \X (Workers \cup {"task", "fwd"})

CountedSet  == {s \in Sessions : Counted(s)}
HeldSet     == {s \in Sessions : AdmissionHeld(s)}
AdmittedSet == {s \in Sessions : Admitted(s)}
IpHolders(i)     == {s \in Sessions : IpOf[s] = i /\ HoldsIp(s)}
PrefixHolders(p) == {s \in Sessions : PrefixFor(s) = p /\ HoldsPrefix(s)}

\* A forward task exists only for a session task that has returned.
HandedOver == \A s \in Sessions : fwd[s] # "none" => task[s] = "done"

\* The gauges are exact at every instant: sessions_active is the number of
\* sessions some task still has to uncount (lib.rs, the hand-written
\* fetch_sub of each error path and SessionCounters::release), and
\* handshakes_in_flight the number of live HandshakeAdmission guards.
GaugesExact ==
    /\ active = Cardinality(CountedSet)
    /\ handshakes = Cardinality(HeldSet)

\* Address slots: until close() forgets them, PER_IP_SESSIONS and
\* PER_PREFIX_SESSIONS count exactly the holders; afterwards never more.
SlotsExact ==
    /\ \A i \in Ips : /\ perIp[i] <= Cardinality(IpHolders(i))
                      /\ closer = "idle" => perIp[i] = Cardinality(IpHolders(i))
    /\ \A p \in Prefixes : /\ perPrefix[p] <= Cardinality(PrefixHolders(p))
                           /\ closer = "idle" => perPrefix[p] = Cardinality(PrefixHolders(p))

\* sessions_active may overshoot for an instant (it is incremented before it
\* is compared), yet no more than max_sessions sessions are ever let in.
AdmittedWithinMax == Cardinality(AdmittedSet) <= MaxSessions

\* While the server is open, the sessions of one address or prefix stay
\* within its burst limit.
AddressesWithinBurst ==
    closer = "idle" =>
        /\ \A i \in Ips : Cardinality(IpHolders(i)) <= BurstPerIp
        /\ \A p \in Prefixes : Cardinality(PrefixHolders(p)) <= BurstPerPrefix

\* When JavaScript is told that a session closed, the session is gone from
\* the registry and every slot it held is free again: a client reconnecting
\* from the closed event is not turned away on account of its old session.
ClosedMeansFree ==
    \A s \in Sessions : "closed" \in events[s] =>
        s \notin registry /\ ~Counted(s) /\ ~HoldsIp(s) /\ ~HoldsPrefix(s)

\* A close() that resolves leaves no registry entry, and every session that
\* was announced and not aborted has been reported closed.
CleanClose ==
    closer = "closed" =>
        /\ registry = {}
        /\ \A s \in Sessions :
              ("accepted" \in events[s] /\ s \notin unwinding /\ <<s, "fwd">> \notin doomed)
                 => "closed" \in events[s]

\* Once a session with a forward task is out of the registry, whoever took it
\* out, its slots are eventually given back.
DeregisteredIsReleased ==
    \A s \in Sessions :
        (FwdLive(s) /\ s \notin registry) ~> (fwd[s] \in {"notify", "done", "lost"})

\* A server close always settles, one way or the other.
CloseSettles == (closer = "sweeping") ~> (closer \in {"closed", "failed"})

\* session_registry.rs:4: sessions are removed when the connection closes.
RemovedWhenConnectionCloses ==
    \A s \in Sessions :
        (s \in registry /\ Closed(s)) ~> (s \notin registry \/ closer # "idle")

\* "Reaped-vs-lost is the distinction the session-scale axis needs": however
\* peer, idle time-out, close() and panics race, no session is booked under an
\* end it did not have, nor under its own end twice.
TallyHonest ==
    /\ tally["idle"] <= Cardinality({s \in Sessions : conn[s] = "idle"})
    /\ tally["other"] <= Cardinality({s \in Sessions : conn[s] = "app"})

\* The limits of the server hold however connections race: maxSessions, and
\* the session bursts per address and per prefix.
LimitsHold == AdmittedWithinMax /\ AddressesWithinBurst

\* What close() and the metrics say of a session's end is so.
CloseHonest == CleanClose /\ TallyHonest

\* Sessions end: removal leads to release, a lost connection to removal, and
\* close() settles.
SessionsEnd == DeregisteredIsReleased /\ RemovedWhenConnectionCloses /\ CloseSettles
=============================================================================
