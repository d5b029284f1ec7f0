----------------------------- MODULE StreamCaps -----------------------------
(***************************************************************************)
(* How server-side streams come and go (crates/native/src/lib.rs, the      *)
(* accept loops and create handlers of a session; session.rs, the calls    *)
(* JavaScript makes; client_stream.rs, StreamGuard).                       *)
(*                                                                         *)
(* A lane is one kind of stream (bidi or uni) of one session.  It has two  *)
(* openers, each a sequential task: the accept loop for the peer's streams *)
(* and the create handler for the application's.  An opener looks at the   *)
(* global and at the lane's count, and adds to them afterwards; the        *)
(* StreamGuard of the stream takes both back.  An accepted stream goes to  *)
(* the application through a bounded channel, or, in discard mode, to a    *)
(* task of its own that reads it to the end under a permit.                *)
(*                                                                         *)
(* Three calls wait: the accept pull, the discard drain (both need the     *)
(* channel's lock) and the wait for stream capacity.  Closing the session  *)
(* sets a flag, notifies, removes the registry entry, notifies once more   *)
(* and closes the connection.                                              *)
(***************************************************************************)
EXTENDS Integers, FiniteSets

CONSTANTS
    Sessions,
    Lanes,         \* a kind of stream of a session
    SessionOf,     \* Lanes -> Sessions
    Streams,       \* stream slots; a slot is used again after its stream is gone
    LaneOf,        \* Streams -> Lanes
    OriginOf,      \* Streams -> Origins
    MaxGlobal,     \* limits.max_streams_global
    MaxLane,       \* limits.max_streams_per_session_bidi / _uni
    ChannelCapacity,  \* STREAM_ACCEPT_CAPACITY
    MaxDrains,     \* DISCARD_DRAIN_CONCURRENCY
    Calls,         \* the calls the application makes: "pull", "discard", "wait"
    MayEnd         \* sessions that may be closed or lose their connection

Origins == {"peer", "local"}

ASSUME StreamsAssumption ==
    /\ IsFiniteSet(Streams) /\ IsFiniteSet(Lanes)
    /\ SessionOf \in [Lanes -> Sessions]
    /\ LaneOf \in [Streams -> Lanes] /\ OriginOf \in [Streams -> Origins]
ASSUME CapsAssumption ==
    /\ MaxGlobal \in Nat \ {0} /\ MaxLane \in Nat \ {0}
    /\ ChannelCapacity \in Nat \ {0} /\ MaxDrains \in Nat \ {0}
ASSUME UseAssumption == Calls \subseteq {"pull", "discard", "wait"} /\ MayEnd \subseteq Sessions

VARIABLES
    stage,     \* where each stream is
    direct,    \* streams being opened that the loop found discard mode on for
    global,    \* metrics.streams_active
    lane,      \* session_metrics.streams_bidi_active / streams_uni_active
    loopUp,    \* lanes whose accept loop is running
    discards,  \* lanes in discard mode (StreamDiscardState::enabled)
    pull,      \* accept_bidi_stream_for_session / accept_uni_stream_for_session
    disc,      \* discard_streams_for_session
    wait,      \* wait_stream_kind_capacity_with_timeout
    full,      \* the caps the waiting call's view showed exhausted
    woken,     \* <<lane, call>>: a parked call that has been notified
    expired,   \* <<lane, call>>: a call whose deadline has passed
    connUp,    \* sessions whose connection is open
    closing    \* the progress of each session's close

calls == <<pull, disc, wait, full, woken, expired>>
life  == <<loopUp, connUp, closing>>
vars  == <<stage, direct, global, lane, discards, calls, life>>

Stages == {"none", "asked", "checkGlobal", "checkLane", "opening", "addGlobal", "addLane",
           "queueing", "queued", "held", "permit", "draining", "consumed",
           "dropGlobal", "dropLane", "tell"}
\* Stages in which a stream keeps its opener busy.
Opening == {"checkGlobal", "checkLane", "opening", "addGlobal", "addLane", "queueing"}

Lanes_(s)      == {l \in Lanes : SessionOf[l] = s}
SessionFor(st) == SessionOf[LaneOf[st]]
Flagged(s)     == closing[s] # "open"                            \* datagram_lifecycle_closed
Registered(s)  == closing[s] \in {"open", "flagged", "told"}     \* the REGISTRY entry exists
Idle(l, o)     == \A st \in Streams : LaneOf[st] = l /\ OriginOf[st] = o => stage[st] \notin Opening
InLane(l, S)   == {st \in Streams : LaneOf[st] = l /\ stage[st] \in S}
\* The channel's lock is held while a call looks into the channel.
LockFree(l)    == pull[l] \in {"idle", "lock"} /\ disc[l] \notin {"drain", "consume"}
\* The receiver goes with the entry and the last call that holds it.
ReceiverGone(l) == ~Registered(SessionOf[l]) /\ pull[l] = "idle" /\ disc[l] \in {"idle", "lookup"}

Goto(st, next) == stage' = [stage EXCEPT ![st] = next]

Init ==
    /\ stage = [st \in Streams |-> "none"] /\ direct = {}
    /\ global = 0 /\ lane = [l \in Lanes |-> 0]
    /\ loopUp = Lanes /\ discards = {}
    /\ pull = [l \in Lanes |-> "idle"] /\ disc = [l \in Lanes |-> "idle"]
    /\ wait = [l \in Lanes |-> "idle"] /\ full = [l \in Lanes |-> {}]
    /\ woken = {} /\ expired = {}
    /\ connUp = Sessions /\ closing = [s \in Sessions |-> "open"]

-----------------------------------------------------------------------------
(* Opening a stream.                                                       *)

\* accept_bi / accept_uni returned; the rate limiter lets the stream pass.
Accept(st) ==
    LET l == LaneOf[st] IN
    /\ OriginOf[st] = "peer" /\ stage[st] = "none"
    /\ l \in loopUp /\ SessionOf[l] \in connUp /\ Idle(l, "peer")
    /\ Goto(st, "checkGlobal")
    /\ UNCHANGED <<direct, global, lane, discards, calls, life>>

\* create_bidi_stream_for_session: the request is in the handler's channel.
Create(st) ==
    /\ OriginOf[st] = "local" /\ stage[st] = "none" /\ Registered(SessionFor(st))
    /\ Goto(st, "asked")
    /\ UNCHANGED <<direct, global, lane, discards, calls, life>>

Handle(st) ==
    /\ OriginOf[st] = "local" /\ stage[st] = "asked" /\ Idle(LaneOf[st], "local")
    /\ Goto(st, "checkGlobal")
    /\ UNCHANGED <<direct, global, lane, discards, calls, life>>

\* At the cap: the stream is reset, or E_LIMIT_EXCEEDED.
CheckGlobal(st) ==
    /\ stage[st] = "checkGlobal"
    /\ Goto(st, IF global >= MaxGlobal THEN "none" ELSE "checkLane")
    /\ UNCHANGED <<direct, global, lane, discards, calls, life>>

\* Mutant: the lane's count may reach one more than its cap.
CheckLaneOneMore(st) ==
    LET l == LaneOf[st] IN
    /\ stage[st] = "checkLane"
    /\ \/ lane[l] > MaxLane /\ Goto(st, "none") /\ UNCHANGED direct
       \/ /\ lane[l] <= MaxLane
          /\ Goto(st, IF OriginOf[st] = "peer" THEN "addGlobal" ELSE "opening")
          /\ direct' = IF OriginOf[st] = "peer" /\ l \in discards THEN direct \cup {st}
                                                                  ELSE direct \ {st}
    /\ UNCHANGED <<global, lane, discards, calls, life>>

\* The accept loop looks at the discard mode right after the lane's cap.
CheckLane(st) ==
    LET l == LaneOf[st] IN
    /\ stage[st] = "checkLane"
    /\ \/ lane[l] >= MaxLane /\ Goto(st, "none") /\ UNCHANGED direct
       \/ /\ lane[l] < MaxLane
          /\ Goto(st, IF OriginOf[st] = "peer" THEN "addGlobal" ELSE "opening")
          /\ direct' = IF OriginOf[st] = "peer" /\ l \in discards THEN direct \cup {st}
                                                                  ELSE direct \ {st}
    /\ UNCHANGED <<global, lane, discards, calls, life>>

\* open_bi().await: the peer has to grant the stream, which may take for
\* ever; only the end of the connection fails it.
OpenOk(st) ==
    /\ stage[st] = "opening" /\ SessionFor(st) \in connUp
    /\ Goto(st, "addGlobal")
    /\ UNCHANGED <<direct, global, lane, discards, calls, life>>

OpenFails(st) ==
    /\ stage[st] = "opening" /\ SessionFor(st) \notin connUp
    /\ Goto(st, "none")
    /\ UNCHANGED <<direct, global, lane, discards, calls, life>>

AddGlobal(st) ==
    /\ stage[st] = "addGlobal"
    /\ global' = global + 1
    /\ Goto(st, "addLane")
    /\ UNCHANGED <<direct, lane, discards, calls, life>>

\* The StreamGuard exists from here on.  A created stream answers the
\* request, an accepted one goes to the channel or to a drain task.
AddLane(st) ==
    /\ stage[st] = "addLane"
    /\ lane' = [lane EXCEPT ![LaneOf[st]] = @ + 1]
    /\ Goto(st, IF OriginOf[st] = "local" THEN "held"
                ELSE IF st \in direct THEN "permit" ELSE "queueing")
    /\ UNCHANGED <<direct, global, discards, calls, life>>

Enqueue(st) ==
    LET l == LaneOf[st] IN
    /\ stage[st] = "queueing" /\ ~ReceiverGone(l)
    /\ Cardinality(InLane(l, {"queued"})) < ChannelCapacity
    /\ Goto(st, "queued")
    /\ UNCHANGED <<direct, global, lane, discards, calls, life>>

\* The channel is closed or the connection ends while the loop waits for
\* room: the handle is dropped and the loop is over.
EnqueueFails(st) ==
    LET l == LaneOf[st] IN
    /\ stage[st] = "queueing" /\ (SessionOf[l] \notin connUp \/ ReceiverGone(l))
    /\ Goto(st, "dropGlobal")
    /\ loopUp' = loopUp \ {l}
    /\ UNCHANGED <<direct, global, lane, discards, calls, connUp, closing>>

LoopEnds(l) ==
    /\ l \in loopUp /\ SessionOf[l] \notin connUp /\ Idle(l, "peer")
    /\ loopUp' = loopUp \ {l}
    /\ UNCHANGED <<stage, direct, global, lane, discards, calls, connUp, closing>>

-----------------------------------------------------------------------------
(* The end of a stream: Drop for StreamGuard.                              *)

\* run_bounded_discard: a permit first, then the drain under its deadline.
GetPermit(st) ==
    /\ stage[st] = "permit"
    /\ Cardinality(InLane(LaneOf[st], {"draining"})) < MaxDrains
    /\ Goto(st, "draining")
    /\ UNCHANGED <<direct, global, lane, discards, calls, life>>

\* End of stream, reset, DISCARD_DRAIN_STREAM_TIMEOUT or the connection's end.
DrainEnds(st) ==
    /\ stage[st] = "draining"
    /\ Goto(st, "dropGlobal")
    /\ UNCHANGED <<direct, global, lane, discards, calls, life>>

\* JavaScript is done with the stream.
Dispose(st) ==
    /\ stage[st] = "held"
    /\ Goto(st, "dropGlobal")
    /\ UNCHANGED <<direct, global, lane, discards, calls, life>>

\* The channel goes with its receiver, and with it what is queued.
DropQueued(st) ==
    /\ stage[st] = "queued" /\ ReceiverGone(LaneOf[st])
    /\ Goto(st, "dropGlobal")
    /\ UNCHANGED <<direct, global, lane, discards, calls, life>>

DropGlobal(st) ==
    /\ stage[st] = "dropGlobal"
    /\ global' = global - 1
    /\ Goto(st, "dropLane")
    /\ UNCHANGED <<direct, lane, discards, calls, life>>

\* Mutant: the guard forgets which kind of stream it stands for.
DropLaneForgotten(st) ==
    /\ stage[st] = "dropLane"
    /\ Goto(st, "tell")
    /\ UNCHANGED <<direct, global, lane, discards, calls, life>>

DropLane(st) ==
    /\ stage[st] = "dropLane"
    /\ lane' = [lane EXCEPT ![LaneOf[st]] = @ - 1]
    /\ Goto(st, "tell")
    /\ UNCHANGED <<direct, global, discards, calls, life>>

\* stream_capacity_notify of the stream's own session.
Parked(s) == {<<l, "wait">> : l \in {k \in Lanes_(s) : wait[k] = "sleep"}}
TellCapacity(st) ==
    /\ stage[st] = "tell"
    /\ woken' = woken \cup Parked(SessionFor(st))
    /\ Goto(st, "none")
    /\ UNCHANGED <<direct, global, lane, discards, pull, disc, wait, full, expired, life>>

-----------------------------------------------------------------------------
(* The accept pull.                                                        *)

\* Moving a call drops what it was notified of and, when it is over, its
\* deadline.
PullGoto(l, next) == /\ pull' = [pull EXCEPT ![l] = next]
                     /\ woken' = woken \ {<<l, "pull">>}
                     /\ UNCHANGED <<disc, wait, full, expired>>

PullStart(l) ==
    /\ "pull" \in Calls /\ pull[l] = "idle" /\ closing[SessionOf[l]] = "open"
    /\ PullGoto(l, "lock")
    /\ UNCHANGED <<stage, direct, global, lane, discards, life>>

PullLocks(l) ==
    /\ pull[l] = "lock" /\ LockFree(l)
    /\ PullGoto(l, "check")
    /\ UNCHANGED <<stage, direct, global, lane, discards, life>>

PullChecks(l) ==
    /\ pull[l] = "check"
    /\ PullGoto(l, IF Flagged(SessionOf[l]) THEN "idle" ELSE "enroll")
    /\ UNCHANGED <<stage, direct, global, lane, discards, life>>

\* select!: the Notified comes to be only now, after the flag was read.
PullEnrolls(l) ==
    /\ pull[l] = "enroll"
    /\ PullGoto(l, "wait")
    /\ UNCHANGED <<stage, direct, global, lane, discards, life>>

PullTakes(st) ==
    LET l == LaneOf[st] IN
    /\ pull[l] = "wait" /\ stage[st] = "queued"
    /\ Goto(st, "held")
    /\ PullGoto(l, "idle")
    /\ UNCHANGED <<direct, global, lane, discards, life>>

\* Mutant: recv() is taken to end only by a notification.
PullEndsWhenTold(l) ==
    /\ pull[l] = "wait" /\ <<l, "pull">> \in woken /\ Flagged(SessionOf[l]) /\ l \notin loopUp
    /\ PullGoto(l, "idle")
    /\ UNCHANGED <<stage, direct, global, lane, discards, life>>

\* recv() returns None: the accept loop dropped its sender.
PullEnds(l) ==
    /\ pull[l] = "wait" /\ l \notin loopUp /\ InLane(l, {"queued"}) = {}
    /\ PullGoto(l, "idle")
    /\ UNCHANGED <<stage, direct, global, lane, discards, life>>

PullWakes(l) ==
    /\ pull[l] = "wait" /\ <<l, "pull">> \in woken
    /\ PullGoto(l, "check")
    /\ UNCHANGED <<stage, direct, global, lane, discards, life>>

\* The notifier is datagram_capacity_notify: it also fires when queued bytes
\* are released, on which nobody may count.
PullStirred(l) ==
    /\ pull[l] = "wait"
    /\ PullGoto(l, "check")
    /\ UNCHANGED <<stage, direct, global, lane, discards, life>>

-----------------------------------------------------------------------------
(* The discard drain.                                                      *)

DiscGoto(l, next) == /\ disc' = [disc EXCEPT ![l] = next]
                     /\ expired' = IF next = "idle" THEN expired \ {<<l, "discard">>} ELSE expired
                     /\ UNCHANGED <<pull, wait, full, woken>>
Late(l) == <<l, "discard">> \in expired

\* enable_bidi_discard and the deadline.
DiscStart(l) ==
    /\ "discard" \in Calls /\ disc[l] = "idle" /\ Registered(SessionOf[l])
    /\ discards' = discards \cup {l}
    /\ DiscGoto(l, "lookup")
    /\ UNCHANGED <<stage, direct, global, lane, life>>

\* get_stream_accept_state: a second look into the registry.
DiscLooks(l) ==
    /\ disc[l] = "lookup"
    /\ DiscGoto(l, IF Registered(SessionOf[l]) THEN "lock" ELSE "idle")
    /\ UNCHANGED <<stage, direct, global, lane, discards, life>>

DiscLocks(l) ==
    /\ disc[l] = "lock"
    /\ \/ LockFree(l) /\ DiscGoto(l, "drain")
       \/ Late(l) /\ DiscGoto(l, "idle")         \* lock_with_deadline
    /\ UNCHANGED <<stage, direct, global, lane, discards, life>>

\* drain_queued_discard_streams takes the next handle ...
DiscTakes(st) ==
    LET l == LaneOf[st] IN
    /\ disc[l] = "drain" /\ ~Late(l) /\ stage[st] = "queued"
    /\ Goto(st, "consumed")
    /\ DiscGoto(l, "consume")
    /\ UNCHANGED <<direct, global, lane, discards, life>>

\* ... and reads it to the end: the peer finishes or resets it, or the
\* connection ends, which ends the drain as well.
DiscConsumed(st) ==
    LET l == LaneOf[st] IN
    /\ disc[l] = "consume" /\ stage[st] = "consumed"
    /\ Goto(st, "dropGlobal")
    /\ \/ DiscGoto(l, "drain")
       \/ SessionOf[l] \notin connUp /\ DiscGoto(l, "idle")
    /\ UNCHANGED <<direct, global, lane, discards, life>>

\* The channel was idle for STREAM_DISCARD_QUEUE_IDLE, or is closed.
DiscLeavesQueue(l) ==
    /\ disc[l] = "drain"
    /\ \/ Late(l) /\ DiscGoto(l, "idle")
       \/ ~Late(l) /\ InLane(l, {"queued"}) = {} /\ DiscGoto(l, "await")
    /\ UNCHANGED <<stage, direct, global, lane, discards, life>>

\* wait_for_stream_discard polls the closed flag and the deadline.
DiscEnds(l) ==
    /\ disc[l] = "await" /\ (Flagged(SessionOf[l]) \/ Late(l))
    /\ DiscGoto(l, "idle")
    /\ UNCHANGED <<stage, direct, global, lane, discards, life>>

-----------------------------------------------------------------------------
(* The wait for stream capacity.                                           *)

WaitGoto(l, next, caps) == /\ wait' = [wait EXCEPT ![l] = next]
                           /\ full' = [full EXCEPT ![l] = caps]
                           /\ woken' = woken \ {<<l, "wait">>}
                           /\ expired' = IF next = "idle" THEN expired \ {<<l, "wait">>}
                                                          ELSE expired
                           /\ UNCHANGED <<pull, disc>>

WaitStart(l) ==
    /\ "wait" \in Calls /\ wait[l] = "idle" /\ Registered(SessionOf[l])
    /\ WaitGoto(l, "load", {})
    /\ UNCHANGED <<stage, direct, global, lane, discards, life>>

\* load(): E_SESSION_CLOSED when the entry is gone, else one count, then the
\* other.
WaitLoads(l) ==
    /\ wait[l] = "load"
    /\ IF Registered(SessionOf[l])
       THEN WaitGoto(l, "loadLane", IF global < MaxGlobal THEN {} ELSE {"global"})
       ELSE WaitGoto(l, "idle", {})
    /\ UNCHANGED <<stage, direct, global, lane, discards, life>>

WaitLoadsLane(l) ==
    /\ wait[l] = "loadLane"
    /\ WaitGoto(l, "enroll", IF lane[l] < MaxLane THEN full[l] ELSE full[l] \cup {"lane"})
    /\ UNCHANGED <<stage, direct, global, lane, discards, life>>

\* The Notified is enabled and the view, loaded before, is judged.
WaitEnrolls(l) ==
    /\ wait[l] = "enroll"
    /\ IF full[l] = {} \/ <<l, "wait">> \in expired
       THEN WaitGoto(l, "idle", {})
       ELSE WaitGoto(l, "sleep", full[l])
    /\ UNCHANGED <<stage, direct, global, lane, discards, life>>

WaitWakes(l) ==
    /\ wait[l] = "sleep" /\ <<l, "wait">> \in woken
    /\ WaitGoto(l, "load", {})
    /\ UNCHANGED <<stage, direct, global, lane, discards, life>>

\* E_BACKPRESSURE_TIMEOUT.
WaitTimesOut(l) ==
    /\ wait[l] = "sleep" /\ <<l, "wait">> \in expired
    /\ WaitGoto(l, "idle", {})
    /\ UNCHANGED <<stage, direct, global, lane, discards, life>>

\* The deadline a discard or a wait was given.
DeadlinePasses(l, call) ==
    /\ \/ call = "discard" /\ disc[l] # "idle"
       \/ call = "wait" /\ wait[l] # "idle"
    /\ <<l, call>> \notin expired
    /\ expired' = expired \cup {<<l, call>>}
    /\ UNCHANGED <<stage, direct, global, lane, discards, pull, disc, wait, full, woken, life>>

-----------------------------------------------------------------------------
(* The end of a session.                                                   *)

CloseGoto(s, next) == closing' = [closing EXCEPT ![s] = next]
\* Everyone parked on one of the session's notifiers.
AllParked(s) == Parked(s) \cup {<<l, "pull">> : l \in {k \in Lanes_(s) : pull[k] = "wait"}}

ConnEnds(s) ==
    /\ s \in MayEnd \cap connUp
    /\ connUp' = connUp \ {s}
    /\ UNCHANGED <<stage, direct, global, lane, discards, calls, loopUp, closing>>

\* close_session by the application, or the forward task after the
\* connection ended: the sticky flag.
AppCloses(s) ==
    /\ s \in MayEnd /\ closing[s] = "open"
    /\ CloseGoto(s, "flagged")
    /\ UNCHANGED <<stage, direct, global, lane, discards, calls, loopUp, connUp>>

ForwardTaskCloses(s) ==
    /\ s \notin connUp /\ closing[s] = "open"
    /\ CloseGoto(s, "flagged")
    /\ UNCHANGED <<stage, direct, global, lane, discards, calls, loopUp, connUp>>

CloseTells(s) ==
    /\ closing[s] \in {"flagged", "removed"}
    /\ CloseGoto(s, IF closing[s] = "flagged" THEN "told" ELSE "toldTwice")
    /\ woken' = woken \cup AllParked(s)
    /\ UNCHANGED <<stage, direct, global, lane, discards, pull, disc, wait, full, expired,
                   loopUp, connUp>>

CloseRemoves(s) ==
    /\ closing[s] = "told"
    /\ CloseGoto(s, "removed")
    /\ UNCHANGED <<stage, direct, global, lane, discards, calls, loopUp, connUp>>

CloseConnection(s) ==
    /\ closing[s] = "toldTwice"
    /\ CloseGoto(s, "closed")
    /\ connUp' = connUp \ {s}
    /\ UNCHANGED <<stage, direct, global, lane, discards, calls, loopUp>>

-----------------------------------------------------------------------------
\* What the runtime's tasks do on their own.
OpenerStep(st) == \/ Handle(st) \/ CheckGlobal(st) \/ CheckLane(st) \/ OpenFails(st)
                  \/ AddGlobal(st) \/ AddLane(st) \/ Enqueue(st) \/ EnqueueFails(st)
DropStep(st) == GetPermit(st) \/ DrainEnds(st) \/ DropQueued(st) \/ DropGlobal(st) \/ DropLane(st)
                    \/ TellCapacity(st)
PullStep(l) == \/ PullLocks(l) \/ PullChecks(l) \/ PullEnrolls(l) \/ PullEnds(l) \/ PullWakes(l)
               \/ \E st \in Streams : LaneOf[st] = l /\ PullTakes(st)
DiscStep(l) == \/ DiscLooks(l) \/ DiscLocks(l) \/ DiscLeavesQueue(l) \/ DiscEnds(l)
               \/ \E st \in Streams : LaneOf[st] = l /\ DiscTakes(st)
WaitStep(l) == WaitLoads(l) \/ WaitLoadsLane(l) \/ WaitEnrolls(l) \/ WaitWakes(l)
                    \/ WaitTimesOut(l)
CloseStep(s) == ForwardTaskCloses(s) \/ CloseTells(s) \/ CloseRemoves(s) \/ CloseConnection(s)

Next ==
    \/ \E st \in Streams : Accept(st) \/ Create(st) \/ OpenerStep(st) \/ OpenOk(st) \/ DropStep(st)
                           \/ Dispose(st) \/ DiscConsumed(st)
    \/ \E l \in Lanes : \/ LoopEnds(l) \/ PullStart(l) \/ PullStep(l) \/ PullStirred(l)
                        \/ DiscStart(l) \/ DiscStep(l) \/ WaitStart(l) \/ WaitStep(l)
                        \/ \E call \in Calls : DeadlinePasses(l, call)
    \/ \E s \in Sessions : ConnEnds(s) \/ AppCloses(s) \/ CloseStep(s)

\* Tokio polls every runnable task; timers fire.  The peer owes nothing,
\* except that a read of a stream fails once its connection has ended.
Fairness ==
    /\ \A st \in Streams :
        WF_vars(OpenerStep(st) \/ DropStep(st) \/ (SessionFor(st) \notin connUp /\ DiscConsumed(st)))
    /\ \A l \in Lanes :
        /\ WF_vars(LoopEnds(l)) /\ WF_vars(PullStep(l)) /\ WF_vars(DiscStep(l))
        /\ WF_vars(WaitStep(l))
        /\ \A call \in Calls : WF_vars(DeadlinePasses(l, call))
    /\ \A s \in Sessions : WF_vars(CloseStep(s))

Spec == Init /\ [][Next]_vars
FairSpec == Spec /\ Fairness

-----------------------------------------------------------------------------
\* Every variable stays in its domain; no count goes below zero.
TypeOK ==
    /\ stage \in [Streams -> Stages] /\ direct \subseteq Streams
    /\ global \in Nat /\ lane \in [Lanes -> Nat]
    /\ loopUp \subseteq Lanes /\ discards \subseteq Lanes
    /\ pull \in [Lanes -> {"idle", "lock", "check", "enroll", "wait"}]
    /\ disc \in [Lanes -> {"idle", "lookup", "lock", "drain", "consume", "await"}]
    /\ wait \in [Lanes -> {"idle", "load", "loadLane", "enroll", "sleep"}]
    /\ full \in [Lanes -> SUBSET {"global", "lane"}]
    /\ woken \subseteq Lanes \X {"pull", "wait"}
    /\ expired \subseteq Lanes \X {"discard", "wait", "pull"}
    /\ connUp \subseteq Sessions
    /\ closing \in [Sessions -> {"open", "flagged", "told", "removed", "toldTwice", "closed"}]

Guarded     == {"queueing", "queued", "held", "permit", "draining", "consumed"}
OnLane      == Guarded \cup {"dropGlobal", "dropLane"}
OnGlobal    == Guarded \cup {"addLane", "dropGlobal"}
LaneStreams(l) == InLane(l, OnLane)
GlobalStreams  == {st \in Streams : stage[st] \in OnGlobal}

\* streams_active and the per-kind counts are exactly the streams whose
\* opener has added them and whose StreamGuard has not taken them back.
CountsExact ==
    /\ global = Cardinality(GlobalStreams)
    /\ \A l \in Lanes : lane[l] = Cardinality(LaneStreams(l))

\* The caps are checked before they are taken, by two tasks per lane: a
\* lane's count can pass its cap, but by no more than one stream, and the
\* global count by no more than one stream per opener but the last.
OvershootBounded ==
    /\ \A l \in Lanes : lane[l] <= MaxLane + 1
    /\ global <= MaxGlobal + 2 * Cardinality(Lanes) - 1

\* Whatever was going on when a session closed, every call waiting on it
\* settles: the pull although its Notified may have come too late, the
\* discard, the wait and the requests for new streams.
CallsSettle ==
    \A l \in Lanes :
        (closing[SessionOf[l]] = "closed")
            ~> (/\ pull[l] = "idle" /\ disc[l] = "idle" /\ wait[l] = "idle"
                /\ InLane(l, {"asked", "opening"}) = {})

\* And every stream of it that JavaScript does not hold is given back: from
\* the channel, from the loop's hands, from the drains waiting for a permit.
StreamsReleased ==
    \A st \in Streams :
        (closing[SessionFor(st)] = "closed") ~> (stage[st] \in {"none", "held"})

\* A closed session leaves no call waiting and no stream counted.
StreamsSettle == CallsSettle /\ StreamsReleased
=============================================================================
