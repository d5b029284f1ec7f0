---------------------------- MODULE WasmEndpoint ----------------------------
(***************************************************************************)
(* The sans-I/O WebTransport endpoint of crates/wasm (endpoint.rs) with    *)
(* the resource governor it charges (governor.rs).  The endpoint is single *)
(* threaded: a call of the host runs to completion.  What makes it hard is *)
(* the order in which the peer's frames, the host's calls, the deadlines   *)
(* and the byte budgets meet.                                              *)
(*                                                                         *)
(*   ep    the fields of WtEndpoint; handlers are functions from ep to ep, *)
(*         composed the way the methods call each other                    *)
(*   net   what quinn has received on each stream and not handed over yet  *)
(*   dgs   the same for each connection's datagrams                        *)
(*   job   the call in progress: the streams its pump has still to read    *)
(*                                                                         *)
(* A stream's WT handle is the stream itself: quinn never reuses one.      *)
(* Reservations are RAII guards, so the governor's counters are the number *)
(* of guards alive (Held, Queued).  A frame is one of                      *)
(*   ok       a WebTransport CONNECT (server) or a 2xx response (client)   *)
(*   blocked  the same, encoded with table entries not yet received        *)
(*   interim  a 1xx response       fail  another request, a non-2xx answer *)
(*   bad      an undecodable or oversized frame                            *)
(*   close, drain, badcap   capsules in a DATA frame                       *)
(*   head     a data stream's type and session id      b  a payload byte   *)
(***************************************************************************)
EXTENDS Integers, Sequences, FiniteSets, SequencesExt, FiniteSetsExt

CONSTANTS
    Conns,          \* connection ids
    Streams,        \* quinn stream ids, over all connections
    None,           \* "no stream", "no connection"
    Info,           \* [Streams -> [c, kind, local, bidi, sess]]
    Roles,          \* the values of is_server to explore
    Starts,         \* sets of connections that have a session from the start
    WtMax,          \* SETTINGS_WT_MAX_SESSIONS, ours and the peer's
    MaxHandshakes, MaxSessions, MaxStreams,     \* WasmLimits
    QGlobal, QSession, QStream,                 \* queued-byte limits
    EventCap,       \* MAX_PENDING_EVENTS
    TokenCeiling,   \* host_token_ceiling
    WakeMax,        \* MAX_WAITERS_WOKEN_PER_CAPACITY_CHANGE
    MaxBlocked,     \* max_blocked_streams of the QPACK settings
    Frames,         \* the frames the peer may send on a CONNECT stream
    MaxFrames,      \* bound: frames the peer sends on one stream
    MaxInputs,      \* bound: calls and arrivals other than polls and releases
    MaxDatagrams,   \* bound: datagrams received on one connection
    DatagramLen     \* payload bytes of a datagram

(* More waiters than one capacity change wakes would be left for the next  *)
(* change; the runs keep every waiter within one round.                    *)
ASSUME WakeCoversConns == WakeMax >= Cardinality(Conns)
ASSUME LimitsAssumption ==
    /\ {WtMax, MaxHandshakes, MaxSessions, MaxStreams, QGlobal, QSession, QStream, TokenCeiling}
         \subseteq Nat \ {0}
    /\ QStream <= QSession /\ QSession <= QGlobal
    /\ {WakeMax, DatagramLen} \subseteq Nat
(* A new stream is read when two slots are free: an event queue of one     *)
(* would never admit it.                                                   *)
ASSUME EventsAssumption == EventCap \in Nat /\ EventCap >= 2
ASSUME StreamsAssumption ==
    /\ IsFiniteSet(Conns) /\ IsFiniteSet(Streams) /\ None \notin Conns \cup Streams
    /\ Info \in [Streams -> [c : Conns, kind : {"connect", "data"}, local : BOOLEAN,
                            bidi : BOOLEAN, sess : Streams \cup {None}]]
    /\ \A c \in Conns : \E s \in Streams : Info[s].c = c /\ Info[s].kind = "connect"
    /\ Starts \subseteq SUBSET Conns /\ Roles \subseteq BOOLEAN

VARIABLES ep, net, dgs, job, inputs

vars == <<ep, net, dgs, job, inputs>>

Of(c) == {s \in Streams : Info[s].c = c}
Connects(c) == {s \in Of(c) : Info[s].kind = "connect"}
Datas == {s \in Streams : Info[s].kind = "data"}
(* CONNECT streams are opened by the client.                               *)
Local(e, s) == IF Info[s].kind = "connect" THEN ~e.server ELSE Info[s].local

Blank == [primary |-> None, est |-> FALSE, shut |-> FALSE, extras |-> {},
          pend |-> {}, stuck |-> {}, dyn |-> FALSE, settings |-> FALSE]

Resting == [c |-> None, cur |-> None, wasConn |-> FALSE, wasPrim |-> FALSE,
            slots |-> 0, fresh |-> FALSE, dg |-> FALSE, ids |-> {}, cids |-> {},
            then |-> "done", wake |-> 0]

First(c) == CHOOSE s \in Connects(c) : TRUE

(* A connection just registered, or one whose first CONNECT stream has     *)
(* been answered.                                                          *)
Init ==
    /\ \E r \in Roles, w \in Starts :
         ep = [server |-> r,
               phase |-> [c \in Conns |-> IF c \in w THEN "up" ELSE "absent"],
               hs |-> {}, sess |-> w, str |-> {},
               ses |-> [c \in Conns |->
                          IF c \in w THEN [Blank EXCEPT !.primary = First(c), !.est = TRUE]
                          ELSE Blank],
               ins |-> IF r THEN {First(c) : c \in w} ELSE {},
               cls |-> [s \in Streams |->
                          IF r /\ s \in {First(c) : c \in w} THEN "connect" ELSE "none"],
               own |-> {}, idx |-> {}, half |-> [s \in Streams |-> None], ssn |-> {},
               paused |-> {}, events |-> <<>>, tokens |-> <<>>, next |-> 1,
               waiters |-> <<>>, lost |-> {}]
    /\ net = [s \in Streams |-> [q |-> <<>>, end |-> "open", seen |-> 0, stop |-> FALSE]]
    /\ dgs = [c \in Conns |-> [wait |-> 0, seen |-> 0]]
    /\ job = Resting
    /\ inputs = 0

-----------------------------------------------------------------------------
(* The governor.                                                           *)

(* Bytes of connections cs and streams ss charged by the queued events and *)
(* the host's tokens: one pair for each byte.                              *)
Bytes(f, cs, ss) ==
    Cardinality({p \in (DOMAIN f) \X (1..QGlobal) :
                    p[2] <= f[p[1]].n /\ f[p[1]].c \in cs /\ f[p[1]].s \in ss})
Queued(e, cs, ss) == Bytes(e.events, cs, ss) + Bytes(e.tokens, cs, ss)
AnyStream == Streams \cup {None}

Left(limit, used) == IF used < limit THEN limit - used ELSE 0  \* saturating_sub
(* available_event_bytes                                                   *)
Room(e, c, s) ==
    Min({Left(QGlobal, Queued(e, Conns, AnyStream)), Left(QSession, Queued(e, {c}, AnyStream))}
        \cup IF s = None THEN {} ELSE {Left(QStream, Queued(e, {c}, {s}))})

(* reserve_stream: the global cap; the caps per connection and kind are    *)
(* the same test on a smaller set.                                         *)
StreamRoom(e) == Cardinality(e.str) < MaxStreams

FreeTokens(e) == (1..TokenCeiling) \ DOMAIN e.tokens
(* allocate_host_token: the first free token from next_host_token on.      *)
NextToken(e) ==
    LET up == {t \in FreeTokens(e) : t >= e.next}
    IN  IF up # {} THEN Min(up) ELSE Min(FreeTokens(e))

Ev(k, c, s, n) == [k |-> k, c |-> c, s |-> s, n |-> n]
(* Only payload is charged; announcements are alike once they are queued.  *)
Charged(ev) == ev.k \in {"data", "dgram"}
Note == Ev("note", None, None, 0)

(* push_event: dropped, with only last_error set, when the queue or the    *)
(* byte budget has no room.                                                *)
PushEvent(e, ev) ==
    IF Len(e.events) >= EventCap \/ (Charged(ev) /\ ev.n > Room(e, ev.c, ev.s))
    THEN [e EXCEPT !.lost = @ \cup ({ev.k} \cap {"data", "dgram", "opened"})]
    ELSE [e EXCEPT !.events = Append(@, IF Charged(ev) THEN ev ELSE Note)]

(* n announcements in a row, as many as find room.                         *)
PushNotes(e, n) ==
    [e EXCEPT !.events = @ \o [i \in 1..Min({n, EventCap - Len(@)}) |-> Note]]

EventSlots(e, n) == Len(e.events) + n <= EventCap

WaitForgotten(e, c) == e
(* enqueue_capacity_waiter                                                 *)
WaitForCapacity(e, c) ==
    IF Contains(e.waiters, c) \/ e.phase[c] = "gone" THEN e
    ELSE [e EXCEPT !.waiters = Append(@, c)]

-----------------------------------------------------------------------------
(* Sessions and stream tables.                                             *)

Live(ss) == ss.est /\ ~ss.shut /\ ss.primary # None
ExtrasOnly(ss) == Cardinality(ss.extras) + Cardinality(ss.pend)
(* active_wt_count                                                         *)
Active(ss) ==
    (IF Live(ss) THEN 1 ELSE 0) + Cardinality(ss.extras) + Cardinality(ss.pend)

WtConnects(ss) == ({ss.primary} \ {None}) \cup ss.extras
LiveConnects(ss) == (IF ss.shut THEN {} ELSE {ss.primary} \ {None}) \cup ss.extras
Resolvable(ss) == WtConnects(ss) \cup ss.pend

(* count_unlatched_connect_streams                                         *)
Unlatched(e, c) ==
    {s \in e.ins \cap Of(c) : e.cls[s] = "connect" /\ s \notin WtConnects(e.ses[c])}

(* mark_stream_half_done                                                   *)
HalfDone(e, s, bit) ==
    LET bits == (IF e.half[s] = None THEN {} ELSE e.half[s]) \cup {bit}
    IN  IF bits = {"recv", "send"}
        THEN [e EXCEPT !.half[s] = None, !.idx = @ \ {s}, !.ssn = @ \ {s},
                       !.paused = @ \ {s}, !.str = @ \ {s}]
        ELSE [e EXCEPT !.half[s] = bits]

(* retire_in_stream                                                        *)
RetireIn(e, s) ==
    LET e1 == [e EXCEPT !.ins = @ \ {s}]
    IN  IF s \in e.ins /\ e.cls[s] = "wt"
        THEN HalfDone([e1 EXCEPT !.paused = @ \ {s}], s, "recv")
        ELSE e1

(* index_insert, the half-done bits and the reservation of a new stream.   *)
Register(e, s, done) ==
    [e EXCEPT !.idx = @ \cup {s}, !.ssn = @ \cup {s}, !.str = @ \cup {s},
              !.half[s] = done]

(* reset_session_streams                                                   *)
ResetSessionStreams(e, c, x) ==
    LET gone == {s \in e.idx \cap e.ssn : Info[s].c = c /\ Info[s].sess = x}
        e1 == [e EXCEPT !.own = @ \ gone, !.ins = @ \ gone, !.paused = @ \ gone,
                        !.str = @ \ gone, !.idx = @ \ gone, !.ssn = @ \ gone,
                        !.half = [s \in Streams |-> IF s \in gone THEN None ELSE @[s]]]
    IN  PushNotes(e1, Cardinality(gone))

SessionClosed(e, c, x) == PushEvent(e, Ev("sclosed", c, x, 0))

(* end_wt_session                                                          *)
EndWtSession(e, c, x) ==
    LET ss == e.ses[c]
        prim == ss.primary = x
        live == IF prim THEN ss.est /\ ~ss.shut ELSE x \in ss.extras
        e1 == IF prim THEN [e EXCEPT !.ses[c].shut = TRUE]
              ELSE [e EXCEPT !.ses[c].extras = @ \ {x}]
    IN  IF live THEN SessionClosed(ResetSessionStreams(e1, c, x), c, x) ELSE e1

(* Connection::close: quinn keeps the connection until it is drained.      *)
QuinnCloses(e, c) == [e EXCEPT !.phase[c] = "closed"]

ReleaseStreamsOnly(e, c) == [e EXCEPT !.str = @ \ (e.idx \cap Of(c))]

(* release_connection_budget                                               *)
ReleaseBudget(e, c) ==
    [e EXCEPT !.hs = @ \ {c}, !.sess = @ \ {c}, !.str = @ \ (e.idx \cap Of(c))]

(* close_conn_protocol_error                                               *)
CloseProtocolError(e, c) ==
    ReleaseBudget(QuinnCloses(PushEvent(e, Ev("closed", c, None, 0)), c), c)

(* fail_session_before_establish                                           *)
FailBeforeEstablish(e, c) ==
    IF e.ses[c].shut THEN e
    ELSE ReleaseBudget(QuinnCloses(PushEvent(
            [e EXCEPT !.ses[c].shut = TRUE, !.ses[c].extras = {}],
            Ev("closed", c, None, 0)), c), c)

(* cleanup_connection: stream_sessions is the one table it leaves alone.   *)
Cleanup(e, c) ==
    LET mine == e.idx \cap Of(c)
    IN  [e EXCEPT !.phase[c] = "gone", !.ses[c] = Blank,
                  !.hs = @ \ {c}, !.sess = @ \ {c}, !.ins = @ \ Of(c),
                  !.own = @ \ Of(c), !.idx = @ \ mine, !.paused = @ \ mine,
                  !.str = @ \ mine,
                  !.half = [s \in Streams |-> IF s \in mine THEN None ELSE @[s]]]

(* close_conn                                                              *)
CloseConn(e, c) == Cleanup(PushEvent(e, Ev("closed", c, None, 0)), c)

(* on_connect_stream_ended                                                 *)
ConnectEnded(e, c, s, prim) ==
    IF prim /\ ~e.ses[c].est THEN FailBeforeEstablish(e, c) ELSE EndWtSession(e, c, s)

(* feed_session_capsules                                                   *)
Capsule(e, c, s, f) ==
    CASE f = "close"  -> EndWtSession(e, c, s)
      [] f = "drain"  -> PushEvent(e, Ev("draining", c, s, 0))
      [] f = "badcap" -> EndWtSession(e, c, s)

Capsules == {"close", "drain", "badcap"}

(* note_qpack_header_blocked                                               *)
NoteBlocked(e, c, s) ==
    LET stuck == e.ses[c].stuck
    IN  IF s \notin stuck /\ Cardinality(stuck) >= MaxBlocked
        THEN CloseProtocolError(e, c)
        ELSE [e EXCEPT !.ses[c].stuck = @ \cup {s}]

Established(e, c, s) ==
    PushEvent([e EXCEPT !.hs = @ \ {c}], Ev("established", c, s, 0))

-----------------------------------------------------------------------------
(* CONNECT streams, one frame at a time.                                   *)

(* parse_client_connect                                                    *)
ClientFrame(e, c, s, f) ==
    LET ss == e.ses[c]
    IN  CASE f = "bad" -> CloseProtocolError(e, c)
          [] f \in Capsules -> IF ss.est /\ ~ss.shut THEN Capsule(e, c, s, f) ELSE e
          [] f = "ok" /\ ~ss.shut /\ ~ss.est ->
               Established([e EXCEPT !.ses[c].est = TRUE, !.ses[c].stuck = @ \ {s}], c, s)
          [] f = "fail" /\ ~ss.shut /\ ~ss.est -> FailBeforeEstablish(e, c)
          [] OTHER -> e

(* parse_pending_client_connect                                            *)
PendingFrame(e, c, s, f) ==
    LET e1 == [e EXCEPT !.ses[c].pend = @ \ {s}, !.ses[c].stuck = @ \ {s}]
    IN  CASE f = "bad"  -> CloseProtocolError(e, c)
          [] f = "ok"   -> Established([e1 EXCEPT !.ses[c].extras = @ \cup {s}], c, s)
          [] f = "fail" -> SessionClosed(e1, c, s)
          [] OTHER      -> e

(* parse_extra_connect_capsules                                            *)
ExtraFrame(e, c, s, f) ==
    CASE f = "bad" -> CloseProtocolError(e, c)
      [] f \in Capsules -> Capsule(e, c, s, f)
      [] OTHER -> e

(* parse_server_connect                                                    *)
ServerFrame(e, c, s, f) ==
    LET ss == e.ses[c]
        e1 == [e EXCEPT !.ses[c].stuck = @ \ {s}]
        first == ~ss.est \/ ss.primary = None
    IN  CASE f = "bad" -> CloseProtocolError(e, c)
          [] f \in Capsules -> IF s \in WtConnects(ss) THEN Capsule(e, c, s, f) ELSE e
          [] f = "ok" /\ s \notin WtConnects(ss) /\ Active(ss) < WtMax ->
               Established(
                 IF first
                 THEN [e1 EXCEPT !.ses[c].primary = s, !.ses[c].est = TRUE,
                                 !.ses[c].shut = FALSE]
                 ELSE [e1 EXCEPT !.ses[c].extras = @ \cup {s}], c, s)
          [] OTHER -> e1

(* The branch of read_one that serves stream s.                            *)
Branch(e, s) ==
    LET ss == e.ses[Info[s].c]
    IN  CASE ~e.server /\ ss.primary = s -> "primary"
          [] s \in ss.pend -> "pending"
          [] ~e.server /\ s \in ss.extras -> "extra"
          [] s \in e.ins -> e.cls[s]
          [] s \in e.own -> "own"
          [] OTHER -> "nothing"

Frame(e, c, s, f) ==
    CASE Branch(e, s) = "primary" -> ClientFrame(e, c, s, f)
      [] Branch(e, s) = "pending" -> PendingFrame(e, c, s, f)
      [] Branch(e, s) = "extra"   -> ExtraFrame(e, c, s, f)
      [] Branch(e, s) = "connect" -> ServerFrame(e, c, s, f)

-----------------------------------------------------------------------------
(* The pump: drain_datagrams, then read_streams over a snapshot of the     *)
(* streams, CONNECT streams last.                                          *)

(* read_streams: which streams this pump reads.  A CONNECT stream on which *)
(* nothing arrived is left out: reading it changes nothing.                *)
Snapshot(e, j) ==
    LET c == j.c
        ss == e.ses[c]
        live == {s \in Of(c) : net[s].q # <<>> \/ net[s].end # "open"}
        open == {s \in e.ins \cap Of(c) : IF e.cls[s] = "connect" THEN s \in live
                                           ELSE ~(e.cls[s] = "wt" /\ s \in e.paused)}
                  \cup {s \in e.own \cap Of(c) : s \notin e.paused}
    IN  [j EXCEPT !.fresh = FALSE, !.dg = FALSE, !.cids = WtConnects(ss) \cap live,
                  !.ids = (open \ WtConnects(ss)) \cup (ss.pend \cap live)]

Drive(c) == [Resting EXCEPT !.c = c, !.dg = TRUE, !.fresh = TRUE]
Woken(c, n) == [Resting EXCEPT !.c = c, !.dg = TRUE, !.wake = n]
(* resume_waiting_after_capacity_change, to run after the current step     *)
Resume == [Resting EXCEPT !.wake = WakeMax]
Idle == job = Resting

(* drain_datagrams: one datagram, or the reason to stop                    *)
DrainStops ==
    /\ job.c # None /\ job.dg
    /\ LET c == job.c
           full == ~EventSlots(ep, 1) \/ Room(ep, c, None) = 0
       IN  /\ full \/ dgs[c].wait = 0
           /\ ep' = IF full THEN WaitForCapacity(ep, c) ELSE ep
           /\ job' = Snapshot(ep', job)
    /\ UNCHANGED <<net, dgs>>

DrainDatagram ==
    /\ job.c # None /\ job.dg
    /\ LET c == job.c IN
       /\ EventSlots(ep, 1) /\ Room(ep, c, None) > 0 /\ dgs[c].wait > 0
       /\ dgs' = [dgs EXCEPT ![c].wait = @ - 1]
       /\ \/ /\ WtConnects(ep.ses[c]) = {}
             /\ UNCHANGED <<ep, job>>
          \/ /\ WtConnects(ep.ses[c]) # {}
             /\ DatagramLen <= Room(ep, c, None)
             /\ ep' = PushEvent(ep, Ev("dgram", c, None, DatagramLen))
             /\ UNCHANGED job
          \/ /\ WtConnects(ep.ses[c]) # {}
             /\ ep.server \/ DatagramLen > Room(ep, c, None)
             /\ ep' = CloseConn(ep, c)
             /\ job' = Snapshot(ep', job)
    /\ UNCHANGED net

(* The stream this pump reads now, once it has started it until it is done *)
Turn(s) ==
    /\ job.c = Info[s].c /\ ~job.dg
    /\ \/ job.cur = s
       \/ job.cur = None /\ s \in job.ids
       \/ job.cur = None /\ job.ids = {} /\ s \in job.cids

(* is_connect_stream and is_primary_connect are read before the first batch *)
WasConn(s) == IF job.cur = s THEN job.wasConn ELSE s \in WtConnects(ep.ses[job.c])
WasPrim(s) == IF job.cur = s THEN job.wasPrim ELSE s = ep.ses[job.c].primary

(* required_slots_for_in_stream of a stream whose kind is not known yet    *)
SlotsNewStream == 2
(* required_event_slots_for_read, read before the first batch too          *)
Slots(s) ==
    IF job.cur = s THEN job.slots
    ELSE CASE Branch(ep, s) = "new" -> SlotsNewStream
           [] Branch(ep, s) \in {"wt", "own"} -> 1
           [] OTHER -> 0
NoSlots(s) == Slots(s) > 0 /\ ~EventSlots(ep, Slots(s))

Again(s) == job' = [job EXCEPT !.cur = s, !.wasConn = WasConn(s), !.wasPrim = WasPrim(s),
                               !.slots = Slots(s)]
Finished(s) == job' = [job EXCEPT !.cur = None, !.wasConn = FALSE, !.wasPrim = FALSE,
                                  !.slots = 0, !.ids = @ \ {s}, !.cids = @ \ {s}]

(* A read that would need more event slots than are free parks its         *)
(* connection.                                                             *)
ReadParks(s) ==
    /\ Turn(s) /\ NoSlots(s)
    /\ ep' = WaitForCapacity(ep, job.c)
    /\ Finished(s)
    /\ UNCHANGED <<net, dgs>>

ConnectBranches == {"primary", "pending", "extra", "connect"}

(* A field section that needs table entries not yet received.              *)
Stuck(s) ==
    /\ net[s].q # <<>> /\ Head(net[s].q) = "blocked" /\ ~ep.ses[job.c].dyn
    /\ Branch(ep, s) \in {"primary", "pending", "connect"}
    /\ ~(Branch(ep, s) = "primary" /\ ep.ses[job.c].shut)

(* read_one on a CONNECT stream: one frame.  A 2xx on a pending session    *)
(* drops the bytes read behind it together with the pending entry.         *)
ReadFrame(s) ==
    /\ Turn(s) /\ ~NoSlots(s) /\ Branch(ep, s) \in ConnectBranches
    /\ net[s].q # <<>> /\ ~Stuck(s)
    /\ LET f == IF Head(net[s].q) = "blocked" THEN "ok" ELSE Head(net[s].q)
           over == Branch(ep, s) = "pending" /\ f \in {"ok", "fail"}
       IN  /\ ep' = Frame(ep, job.c, s, f)
           /\ net' = [net EXCEPT ![s].q = IF over THEN <<>> ELSE Tail(@)]
           /\ IF over THEN Finished(s) ELSE Again(s)
    /\ UNCHANGED dgs

(* The field section stays in the buffer; an end of the stream drops it.   *)
ReadBlocked(s) ==
    /\ Turn(s) /\ ~NoSlots(s) /\ Stuck(s)
    /\ ep' = NoteBlocked(ep, job.c, s)
    /\ IF net[s].end = "open" THEN UNCHANGED net /\ Finished(s)
       ELSE net' = [net EXCEPT ![s].q = <<>>] /\ Again(s)
    /\ UNCHANGED dgs

(* No more frames: the CONNECT stream is still open, or it has ended.      *)
ReadConnectEnd(s) ==
    /\ Turn(s) /\ ~NoSlots(s) /\ Branch(ep, s) \in ConnectBranches
    /\ net[s].q = <<>>
    /\ LET c == job.c IN
       IF net[s].end = "open" THEN UNCHANGED ep
       ELSE ep' = CASE Branch(ep, s) = "primary" -> ConnectEnded(ep, c, s, TRUE)
                    [] Branch(ep, s) = "pending" ->
                         SessionClosed([ep EXCEPT !.ses[c].pend = @ \ {s}], c, s)
                    [] Branch(ep, s) = "extra" -> EndWtSession(ep, c, s)
                    [] Branch(ep, s) = "connect" ->
                         IF WasConn(s) THEN ConnectEnded(RetireIn(ep, s), c, s, WasPrim(s))
                         ELSE RetireIn(ep, s)
    /\ Finished(s)
    /\ UNCHANGED <<net, dgs>>

(* The snapshot named a stream that an earlier read of this pump retired.  *)
ReadNothing(s) ==
    /\ Turn(s) /\ Branch(ep, s) = "nothing"
    /\ Finished(s)
    /\ UNCHANGED <<ep, net, dgs>>

(* RejectWt: stop the stream, drop its state.                              *)
Reject(s) ==
    /\ ep' = RetireIn(ep, s)
    /\ net' = [net EXCEPT ![s] = [@ EXCEPT !.q = <<>>, !.end = "fin"]]
    /\ Finished(s)

(* process_in_stream on a stream not classified yet                        *)
Classify(s) ==
    /\ Turn(s) /\ ~NoSlots(s) /\ Branch(ep, s) = "new"
    /\ LET c == job.c
           ss == ep.ses[c]
       IN  \/ /\ net[s].q = <<>>
              /\ ep' = IF net[s].end = "open" THEN ep ELSE RetireIn(ep, s)
              /\ Finished(s) /\ UNCHANGED net
           \/ /\ net[s].q # <<>>
              /\ Info[s].kind = "connect"
              /\ IF Cardinality(Unlatched(ep, c)) + Active(ss) >= WtMax THEN Reject(s)
                 ELSE /\ ep' = [ep EXCEPT !.cls[s] = "connect"]
                      /\ Again(s) /\ UNCHANGED net
           \/ /\ net[s].q # <<>>
              /\ Info[s].kind = "data"
              /\ Info[s].sess \in LiveConnects(ss) /\ StreamRoom(ep)
              /\ ep' = PushEvent(Register([ep EXCEPT !.cls[s] = "wt"], s,
                                          IF Info[s].bidi THEN {} ELSE {"send"}),
                                 Ev("opened", c, s, 0))
              /\ net' = [net EXCEPT ![s].q = Tail(@)]
              /\ Again(s)
           \/ /\ net[s].q # <<>>
              /\ Info[s].kind = "data"
              /\ ep.server \/ Info[s].sess \notin LiveConnects(ss) \/ ~StreamRoom(ep)
              /\ Reject(s)
    /\ UNCHANGED dgs

(* The receive half of a data stream is over: retire_in_stream or          *)
(* on_self_bidi_read_outcome.                                              *)
RecvOver(e, s) ==
    IF s \in e.ins THEN RetireIn(e, s)
    ELSE HalfDone([e EXCEPT !.own = @ \ {s}, !.paused = @ \ {s}], s, "recv")

(* read_one on a data stream: one batch, never more than the budgets allow *)
ReadPayload(s) ==
    /\ Turn(s) /\ ~NoSlots(s) /\ Branch(ep, s) \in {"wt", "own"}
    /\ LET c == job.c
           limit == Room(ep, c, s)
           q == net[s].q
           n == Min({limit, Len(q)})
           over == q = <<>> /\ net[s].end # "open"
           fin == net[s].end = "fin" /\ n = Len(q) /\ (n < limit \/ over)
           e1 == IF n > 0 \/ fin THEN PushEvent(ep, Ev("data", c, s, n)) ELSE ep
       IN  \/ /\ limit = 0 /\ ~over
              /\ ep' = WaitForCapacity(ep, c)
              /\ Finished(s) /\ UNCHANGED net
           \/ /\ limit > 0 \/ over
              /\ net' = [net EXCEPT ![s].q = SubSeq(@, n + 1, Len(@))]
              /\ ep' = CASE fin -> RecvOver(e1, s)
                          [] net[s].end = "reset" ->
                               RecvOver(PushEvent(ep, Ev("reset", c, s, 0)), s)
                          [] OTHER -> e1
              /\ IF n > 0 /\ ~fin THEN Again(s) ELSE Finished(s)
    /\ UNCHANGED dgs

(* The pump is over; a lost connection is now reported and forgotten.      *)
PumpEnds ==
    /\ job.c # None /\ ~job.dg /\ job.cur = None /\ job.ids = {} /\ job.cids = {}
    /\ ep' = CASE job.then = "lost" -> CloseConn(ep, job.c)
                [] job.then = "quiet" -> Cleanup(ep, job.c)
                [] OTHER -> ep
    /\ job' = [Resting EXCEPT !.wake = job.wake]
    /\ UNCHANGED <<net, dgs>>

(* resume_waiting_after_capacity_change: one waiter, or the end of it      *)
NextWaiter ==
    /\ job.c = None /\ job.wake > 0
    /\ IF ep.waiters = <<>> \/ (job.wake < WakeMax /\ Len(ep.events) >= EventCap)
       THEN job' = Resting /\ UNCHANGED ep
       ELSE LET c == Head(ep.waiters) IN
            /\ ep' = [ep EXCEPT !.waiters = Tail(@)]
            /\ job' = IF ep.phase[c] = "gone" THEN [job EXCEPT !.wake = @ - 1]
                      ELSE Woken(c, job.wake - 1)
    /\ UNCHANGED <<net, dgs>>

Pump ==
    \/ DrainStops \/ DrainDatagram \/ PumpEnds \/ NextWaiter
    \/ \E s \in Streams : \/ ReadFrame(s) \/ ReadBlocked(s) \/ ReadConnectEnd(s)
                           \/ ReadNothing(s) \/ ReadParks(s) \/ Classify(s) \/ ReadPayload(s)

-----------------------------------------------------------------------------
(* What quinn reports: recv and drive.                                     *)

(* A call of the host can start, or the drive of c is still polling quinn  *)
(* for events.                                                             *)
Polling(c) == Idle \/ job = Drive(c)
InTable(c) == ep.phase[c] \in {"handshake", "up", "closed"}

(* connect, or recv with a new connection: admit_new_connection, register. *)
NewConnection(c) ==
    /\ Idle /\ ep.phase[c] = "absent"
    /\ Cardinality(ep.hs) < MaxHandshakes /\ Cardinality(ep.sess) < MaxSessions
    /\ ep' = [ep EXCEPT !.phase[c] = "handshake", !.hs = @ \cup {c}, !.sess = @ \cup {c}]
    /\ UNCHANGED <<net, dgs, job>>

(* The rate limiter has no room for the source's bucket: the connection is *)
(* registered and closed at once; its two reservations were never stored.  *)
AttachRefused(c) ==
    /\ Idle /\ ep.server /\ ep.phase[c] = "absent"
    /\ Cardinality(ep.hs) < MaxHandshakes /\ Cardinality(ep.sess) < MaxSessions
    /\ ep' = CloseConn(ep, c)
    /\ UNCHANGED <<net, dgs, job>>

(* on_connected: a client opens its CONNECT stream, if quinn grants one    *)
Connected(c) ==
    /\ Idle /\ ep.phase[c] = "handshake"
    /\ \E x \in IF ep.server THEN {None} ELSE {None, First(c)} :
         ep' = PushEvent([ep EXCEPT !.phase[c] = "up", !.ses[c].primary = x],
                         Ev("connected", c, None, 0))
    /\ job' = Drive(c)
    /\ UNCHANGED <<net, dgs>>

(* The local end opened s, or the peer may.                                *)
CanCarry(s) ==
    IF Local(ep, s) THEN s \in Resolvable(ep.ses[Info[s].c]) \cup ep.own ELSE TRUE

(* Stream bytes arrive; accept_streams enters a stream the peer opened.    *)
PeerSends(s, f) ==
    LET c == Info[s].c IN
    /\ Polling(c) /\ ep.phase[c] = "up" /\ CanCarry(s)
    /\ net[s].end = "open" /\ net[s].seen < MaxFrames
    /\ net' = [net EXCEPT ![s].q = Append(@, f), ![s].seen = @ + 1]
    /\ ep' = IF Local(ep, s) \/ net[s].seen > 0 \/ ep.cls[s] # "none" THEN ep
             ELSE [ep EXCEPT !.ins = @ \cup {s}, !.cls[s] = "new"]
    /\ job' = Drive(c)
    /\ UNCHANGED dgs

PeerEnds(s, how) ==
    LET c == Info[s].c IN
    /\ Polling(c) /\ ep.phase[c] = "up" /\ net[s].end = "open"
    /\ net[s].seen > 0 \/ (Local(ep, s) /\ CanCarry(s))
    /\ net' = [net EXCEPT ![s].end = how, ![s].q = IF how = "reset" THEN <<>> ELSE @]
    /\ job' = Drive(c)
    /\ UNCHANGED <<ep, dgs>>

(* STOP_SENDING: on_stream_stopped                                         *)
PeerStops(s) ==
    LET c == Info[s].c IN
    /\ Polling(c) /\ ep.phase[c] = "up" /\ s \in ep.idx /\ ~net[s].stop
    /\ net' = [net EXCEPT ![s].stop = TRUE]
    /\ ep' = HalfDone(PushEvent(ep, Ev("stopped", c, s, 0)), s, "send")
    /\ job' = Drive(c)
    /\ UNCHANGED dgs

PeerDatagram(c) ==
    /\ Polling(c) /\ ep.phase[c] = "up" /\ dgs[c].seen < MaxDatagrams
    /\ dgs' = [dgs EXCEPT ![c] = [wait |-> @.wait + 1, seen |-> @.seen + 1]]
    /\ job' = Drive(c)
    /\ UNCHANGED <<ep, net>>

(* The peer's QPACK encoder stream: the inserts that blocked field         *)
(* sections wait for; the pump then parses those sections again.           *)
PeerInserts(c) ==
    /\ Polling(c) /\ ep.phase[c] = "up" /\ ~ep.ses[c].dyn
    /\ ep' = [ep EXCEPT !.ses[c].dyn = TRUE]
    /\ job' = Drive(c)
    /\ UNCHANGED <<net, dgs>>

(* The peer's control stream: SETTINGS (parse_control)                     *)
PeerSettings(c) ==
    /\ Polling(c) /\ ep.phase[c] = "up" /\ ~ep.ses[c].settings
    /\ ep' = [ep EXCEPT !.ses[c].settings = TRUE]
    /\ job' = Drive(c)
    /\ UNCHANGED <<net, dgs>>

(* An oversized control frame or an undecodable QPACK instruction          *)
PeerBreaksControl(c) ==
    /\ Polling(c) /\ ep.phase[c] = "up"
    /\ ep' = CloseProtocolError(ep, c)
    /\ job' = Drive(c)
    /\ UNCHANGED <<net, dgs>>

(* on_connection_lost: paused streams are read one last time               *)
ConnLost(c) ==
    /\ Idle /\ InTable(c)
    /\ ep' = [ep EXCEPT !.paused = @ \ (ep.idx \cap Of(c))]
    /\ job' = Snapshot(ep', [Resting EXCEPT !.c = c,
                 !.then = IF ep.phase[c] = "closed" THEN "quiet" ELSE "lost"])
    /\ UNCHANGED <<net, dgs>>

-----------------------------------------------------------------------------
(* Calls of the host.                                                      *)

PopEvent(e) == [e EXCEPT !.events = Tail(@)]

(* poll_event_encoded                                                      *)
Poll ==
    /\ Idle /\ ep.events # <<>>
    /\ LET ev == Head(ep.events)
           t == NextToken(ep)
       IN  \/ /\ ~Charged(ev)
              /\ ep' = PopEvent(ep)
           \/ /\ Charged(ev) /\ FreeTokens(ep) # {}
              /\ ep' = [PopEvent(ep) EXCEPT
                          !.tokens = [u \in DOMAIN @ \cup {t} |-> IF u = t THEN ev ELSE @[u]],
                          !.next = IF t = TokenCeiling THEN 1 ELSE t + 1]
           \/ /\ Charged(ev) /\ FreeTokens(ep) = {}
              /\ ep' = IF InTable(ev.c) THEN CloseConn(PopEvent(ep), ev.c)
                       ELSE PushEvent(PopEvent(ep), Ev("closed", ev.c, None, 0))
    /\ job' = Resume
    /\ UNCHANGED <<net, dgs>>

(* Without the wake-up: what a release that only freed bytes would be.     *)
ReleaseTokenSilently(t) ==
    /\ Idle /\ t \in DOMAIN ep.tokens
    /\ ep' = [ep EXCEPT !.tokens = [u \in DOMAIN @ \ {t} |-> @[u]]]
    /\ UNCHANGED <<net, dgs, job>>

(* release_host_token                                                      *)
ReleaseToken(t) ==
    /\ Idle /\ t \in DOMAIN ep.tokens
    /\ ep' = [ep EXCEPT !.tokens = [u \in DOMAIN @ \ {t} |-> @[u]]]
    /\ job' = Resume
    /\ UNCHANGED <<net, dgs>>

(* close_conn and close_all, one connection                                *)
HostCloses(c) ==
    /\ Idle /\ InTable(c)
    /\ ep' = CloseConn(ep, c)
    /\ UNCHANGED <<net, dgs, job>>

OpenStream(s) ==
    LET c == Info[s].c IN
    /\ Idle /\ Info[s].kind = "data" /\ Info[s].local
    /\ InTable(c) /\ Info[s].sess \in Resolvable(ep.ses[c]) /\ StreamRoom(ep)
    /\ ep.phase[c] = "up" /\ ep.cls[s] = "none"
    /\ ep' = [Register(ep, s, IF Info[s].bidi THEN {} ELSE {"recv"})
                EXCEPT !.own = IF Info[s].bidi THEN @ \cup {s} ELSE @, !.cls[s] = "mine"]
    /\ UNCHANGED <<net, dgs, job>>

(* open_wt_session                                                         *)
OpenWtSession(s) ==
    LET c == Info[s].c IN
    /\ Idle /\ ~ep.server /\ s \in Connects(c) /\ ep.phase[c] = "up"
    /\ ep.ses[c].est /\ ep.ses[c].settings /\ Active(ep.ses[c]) < WtMax
    /\ s # ep.ses[c].primary /\ ep.cls[s] = "none"
    /\ ep' = [ep EXCEPT !.ses[c].pend = @ \cup {s}, !.cls[s] = "mine"]
    /\ UNCHANGED <<net, dgs, job>>

(* close_wt_session: it also accepts a primary that is closed already      *)
CloseWtSession(s) ==
    LET c == Info[s].c
        e1 == [ep EXCEPT !.ses[c].shut = @ \/ s = ep.ses[c].primary,
                         !.ses[c].extras = @ \ {s}, !.ses[c].pend = @ \ {s}]
    IN
    /\ Idle /\ InTable(c) /\ s \in Resolvable(ep.ses[c])
    /\ ep' = SessionClosed(ResetSessionStreams(e1, c, s), c, s)
    /\ UNCHANGED <<net, dgs, job>>

(* stream_finish, stream_reset                                             *)
EndSend(s) ==
    /\ Idle /\ s \in ep.idx
    /\ ep' = HalfDone(ep, s, "send")
    /\ UNCHANGED <<net, dgs, job>>

(* stream_stop: quinn discards what it holds and reports the end           *)
Stop(s) ==
    /\ Idle /\ s \in ep.idx
    /\ ep' = HalfDone([ep EXCEPT !.paused = @ \ {s}], s, "recv")
    /\ net' = [net EXCEPT ![s].q = <<>>, ![s].end = "fin"]
    /\ UNCHANGED <<dgs, job>>

Pause(s) ==
    /\ Idle /\ s \in Datas /\ s \notin ep.paused
    /\ ep' = [ep EXCEPT !.paused = @ \cup {s}]
    /\ UNCHANGED <<net, dgs, job>>

(* stream_resume: read_streams, without the datagrams                      *)
ResumeStream(s) ==
    /\ Idle /\ s \in ep.paused
    /\ ep' = [ep EXCEPT !.paused = @ \ {s}]
    /\ job' = IF s \in ep.idx THEN Snapshot(ep', [Resting EXCEPT !.c = Info[s].c]) ELSE job
    /\ UNCHANGED <<net, dgs>>

(* handle_timeout: the CONNECT deadline of the connection                  *)
TimeoutPrimary(c) ==
    /\ Idle /\ ep.phase[c] \in {"handshake", "up"}
    /\ ~ep.ses[c].est /\ ~ep.ses[c].shut
    /\ ep' = FailBeforeEstablish(ep, c)
    /\ job' = Drive(c)
    /\ UNCHANGED <<net, dgs>>

(* handle_timeout: the deadline of a session opened on top                 *)
TimeoutPending(s) ==
    LET c == Info[s].c IN
    /\ Idle /\ InTable(c) /\ s \in ep.ses[c].pend
    /\ ep' = SessionClosed([ep EXCEPT !.ses[c].pend = @ \ {s}], c, s)
    /\ job' = Drive(c)
    /\ UNCHANGED <<net, dgs>>

FramesOf(s) ==
    CASE Info[s].kind = "connect" -> Frames
      [] ~Info[s].local /\ net[s].seen = 0 -> {"head"}
      [] OTHER -> {"b"}

Peer ==
    \/ \E c \in Conns : \/ NewConnection(c) \/ AttachRefused(c) \/ Connected(c)
                         \/ PeerDatagram(c) \/ PeerInserts(c) \/ PeerSettings(c)
                         \/ PeerBreaksControl(c) \/ ConnLost(c)
    \/ \E s \in Streams : \/ \E f \in FramesOf(s) : PeerSends(s, f)
                           \/ \E how \in {"fin", "reset"} : PeerEnds(s, how)
                           \/ PeerStops(s)

Calls ==
    \/ \E c \in Conns : HostCloses(c) \/ TimeoutPrimary(c)
    \/ \E s \in Streams : \/ OpenStream(s) \/ OpenWtSession(s) \/ CloseWtSession(s)
                           \/ EndSend(s) \/ Stop(s) \/ Pause(s) \/ ResumeStream(s)
                           \/ TimeoutPending(s)

Next ==
    \/ Pump /\ UNCHANGED inputs
    \/ Poll /\ UNCHANGED inputs
    \/ \E t \in 1..TokenCeiling : ReleaseToken(t) /\ UNCHANGED inputs
    \/ Peer /\ inputs < MaxInputs /\ inputs' = inputs + 1
    \/ Calls /\ inputs < MaxInputs /\ inputs' = inputs + 1

(* A call runs to completion, the host keeps polling, and it gives the     *)
(* tokens of the payload it consumed back.                                 *)
Fairness ==
    /\ WF_vars(Pump /\ UNCHANGED inputs)
    /\ WF_vars(Poll /\ UNCHANGED inputs)
    /\ WF_vars(\E t \in 1..TokenCeiling : ReleaseToken(t) /\ UNCHANGED inputs)

Spec == Init /\ [][Next]_vars /\ Fairness

(* Payload only, on connections that stay up: how they share the event     *)
(* queue and the budgets.                                                  *)
FlowNext ==
    \/ Pump /\ UNCHANGED inputs
    \/ Poll /\ UNCHANGED inputs
    \/ \E t \in 1..TokenCeiling : ReleaseToken(t) /\ UNCHANGED inputs
    \/ \E c \in Conns : PeerDatagram(c) /\ UNCHANGED inputs
    \/ \E s \in Datas : \E f \in FramesOf(s) : PeerSends(s, f) /\ UNCHANGED inputs

FlowSpec == Init /\ [][FlowNext]_vars /\ Fairness

-----------------------------------------------------------------------------
\* Type of the endpoint's tables, queues and budgets.
TypeOK ==
    /\ DOMAIN ep.phase = Conns /\ DOMAIN ep.half = Streams
    /\ ep.hs \cup ep.sess \subseteq Conns
    /\ ep.idx \cup ep.str \cup ep.ins \cup ep.own \cup ep.paused \subseteq Streams
    /\ DOMAIN ep.tokens \subseteq 1..TokenCeiling
    /\ ep.next \in 1..TokenCeiling
    /\ \A s \in Streams : ep.half[s] \in {None, {}, {"recv"}, {"send"}}
    /\ \A c \in Conns : ep.ses[c].pend \cup ep.ses[c].extras \subseteq Connects(c)

(* A stream reservation lives exactly as long as its handle on a live      *)
(* connection, and handshake and session slots only with their connection: *)
(* whichever of FIN, stop, reset, session end, protocol error, loss or     *)
(* close comes first, nothing is released twice and nothing leaks          *)
(* (mark_stream_half_done, release_connection_budget, cleanup_connection). *)
BudgetTracksStreams ==
    /\ ep.str \subseteq ep.idx
    /\ \A s \in ep.idx : ep.phase[Info[s].c] # "gone"
    /\ \A s \in ep.idx : ep.phase[Info[s].c] = "up" => s \in ep.str
    /\ ep.hs \subseteq ep.sess
    /\ \A c \in ep.sess : ep.phase[c] \in {"handshake", "up"}

(* SETTINGS_WT_MAX_SESSIONS holds on both sides although CONNECT streams   *)
(* are admitted before they are decoded and pending ones count before they *)
(* are answered (active_wt_count, count_unlatched_connect_streams).        *)
SessionsBounded ==
    \A c \in Conns :
        LET ss == ep.ses[c]
        IN  Cardinality({x \in {ss.primary} : Live(ss)} \cup ss.extras \cup ss.pend) <= WtMax

(* Bytes, datagrams and stream announcements are read from quinn only when *)
(* their event fits: push_event, which drops in silence, never drops them  *)
(* (required_slots_for_in_stream, in_stream_read_limit, drain_datagrams).  *)
NoPayloadLost == ep.lost = {}

Unread(c) ==
    \/ \E s \in Of(c) : /\ net[s].q # <<>> /\ s \notin ep.paused
                        /\ Branch(ep, s) \in {"new", "wt", "own"}
    \/ dgs[c].wait > 0

(* Between two calls of the host, a connection with something unread is in *)
(* capacity_waiters, and the host still holds an event or a token whose    *)
(* release will wake it: reading never stops for good on a capacity that   *)
(* has come back (enqueue_capacity_waiter, resume_waiting_after_...).      *)
NobodyStranded ==
    Idle => \A c \in Conns :
        ep.phase[c] = "up" /\ Unread(c) =>
            /\ Contains(ep.waiters, c)
            /\ ep.events # <<>> \/ DOMAIN ep.tokens # {}

(* What is unread is read, or its stream paused, or its connection closed, *)
(* however the connections compete for the event queue and the budgets.    *)
UnreadIsRead ==
    \A c \in Conns : (ep.phase[c] = "up" /\ Unread(c)) ~> (ep.phase[c] # "up" \/ ~Unread(c))

(* What the peer sent arrives: nothing is dropped at the event queue, and  *)
(* what is unread is read.                                                 *)
PayloadsArrive == []NoPayloadLost /\ UnreadIsRead
====
