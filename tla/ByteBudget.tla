----------------------------- MODULE ByteBudget -----------------------------
(***************************************************************************)
(* The queued-bytes budget of a server (crates/native/src/server_metrics.rs,*)
(* session_registry.rs, client_stream.rs, session.rs, lib.rs).             *)
(*                                                                         *)
(* Datagram sends, inbound datagrams and stream chunks all reserve their   *)
(* bytes against one global counter and one counter per session, stream    *)
(* chunks against a third one per stream.  A reservation is two or three   *)
(* independent compare-and-swaps with a rollback, a release two or three   *)
(* subtractions followed by notifications; every one of them is a step.    *)
(* Parked senders and the parked datagram-forward task rely on the         *)
(* notifications to be woken.                                              *)
(*                                                                         *)
(* A request is one slot through which payloads of a fixed size pass again *)
(* and again.  Its size is the number of elements of BytesOf[r], so that   *)
(* "the bytes reserved right now" is a set.                                *)
(***************************************************************************)
EXTENDS Integers, FiniteSets

CONSTANTS
    Requests,    \* payload slots
    Sessions,
    Streams,
    Bytes,       \* the bytes payloads are made of
    BytesOf,     \* Requests -> SUBSET Bytes
    KindOf,      \* Requests -> {"send", "trySend", "ingress", "stream"}
    SessionOf,   \* Requests -> Sessions
    StreamOf,    \* Requests -> Streams (used by "stream" requests)
    MaxGlobal,   \* limits.max_queued_bytes_global
    MaxSession,  \* limits.max_queued_bytes_per_session
    MaxStream,   \* limits.max_queued_bytes_per_stream
    MaxDatagram, \* limits.max_datagram_size
    MayClose     \* the sessions that may be closed

Kinds == {"send", "trySend", "ingress", "stream"}

ASSUME RequestsAssumption ==
    /\ IsFiniteSet(Bytes)
    /\ BytesOf \in [Requests -> SUBSET Bytes]
    /\ \A r \in Requests : BytesOf[r] # {}
    /\ \A r, q \in Requests : r # q => BytesOf[r] \cap BytesOf[q] = {}
ASSUME PlacesAssumption ==
    /\ KindOf \in [Requests -> Kinds]
    /\ SessionOf \in [Requests -> Sessions]
    /\ StreamOf \in [Requests -> Streams]
    /\ \A r, q \in Requests : StreamOf[r] = StreamOf[q] => SessionOf[r] = SessionOf[q]
    /\ Requests \cap Sessions = {}
    /\ MayClose \subseteq Sessions
ASSUME BudgetAssumption ==
    /\ MaxGlobal \in Nat \ {0} /\ MaxSession \in Nat \ {0} /\ MaxStream \in Nat \ {0}
    /\ MaxDatagram \in Nat \ {0}

VARIABLES
    stage,     \* how far each request is
    enrolled,  \* waiters registered with their Notify
    woken,     \* registered waiters a notify_waiters() has reached
    expired,   \* requests whose backpressure deadline has passed
    global,    \* metrics.queued_bytes_global
    session,   \* session_metrics.queued_bytes
    stream,    \* budget.stream_queued
    fwd,       \* the datagram-forward task of each session
    closing    \* mark_state_closed_and_notify, per session

vars == <<stage, enrolled, woken, expired, global, session, stream, fwd, closing>>
budgets == <<global, session, stream>>
waiting == <<enrolled, woken>>

-----------------------------------------------------------------------------
Stages == {"idle", "enroll", "check", "global", "session", "stream", "reserved",
           "undoSession", "undoGlobal", "refused", "parked", "held",
           "freeStream", "freeSession", "freeGlobal", "tellSession", "tellOwner", "tellStream"}
FwdStages == {"top", "enroll", "check", "parked", "recv", "busy", "gone"}
\* The waiters: requests, and the forward task of each session, which goes
\* by the name of its session.
Waiters == Requests \cup Sessions

Size(r) == Cardinality(BytesOf[r])
IsStream(r)   == KindOf[r] = "stream"
Closed(s)     == closing[s] # "open"        \* datagram_lifecycle_closed
Goto(r, next) == stage' = [stage EXCEPT ![r] = next]
FwdGoto(s, next) == fwd' = [fwd EXCEPT ![s] = next]

\* Registered with the session's notifier and with the server's.
SessionWaiters(s) == enrolled \cap ({s} \cup {r \in Requests : SessionOf[r] = s /\ ~IsStream(r)})
OwnerWaiters      == enrolled \ {r \in Requests : IsStream(r)}
\* Registered with the stream's own notifier.
StreamWaiters(t)  == enrolled \cap {r \in Requests : StreamOf[r] = t /\ IsStream(r)}

Init ==
    /\ stage = [r \in Requests |-> "idle"]
    /\ enrolled = {} /\ woken = {} /\ expired = {}
    /\ global = 0
    /\ session = [s \in Sessions |-> 0]
    /\ stream = [t \in Streams |-> 0]
    /\ fwd = [s \in Sessions |-> "top"]
    /\ closing = [s \in Sessions |-> "open"]

-----------------------------------------------------------------------------
(* Starting.  A parking send enrolls before anything else; the others go   *)
(* straight to the compare-and-swaps.                                      *)

\* send_datagram_on_state -> reserve_datagram_capacity.
StartSend(r) ==
    /\ KindOf[r] = "send" /\ stage[r] = "idle"
    /\ Goto(r, "enroll")
    /\ expired' = expired \ {r}
    /\ UNCHANGED <<waiting, budgets, fwd, closing>>

\* Both Notified futures are created and enabled; earlier ones are gone.
EnrollSend(r) ==
    /\ KindOf[r] = "send" /\ stage[r] = "enroll"
    /\ Goto(r, "check")
    /\ enrolled' = enrolled \cup {r}
    /\ woken' = woken \ {r}
    /\ UNCHANGED <<expired, budgets, fwd, closing>>

\* Leaving the wait drops the futures and with them the registration.
Leave(r) == enrolled' = enrolled \ {r} /\ woken' = woken \ {r}

\* The sticky flag is read after enrolling.
CheckOpen(r) ==
    /\ KindOf[r] = "send" /\ stage[r] = "check"
    /\ \/ Closed(SessionOf[r]) /\ Goto(r, "idle") /\ Leave(r)
       \/ ~Closed(SessionOf[r]) /\ Goto(r, "global") /\ UNCHANGED waiting
    /\ UNCHANGED <<expired, budgets, fwd, closing>>

\* try_send_datagram_on_state: the flag once, no waiting.
StartTrySend(r) ==
    /\ KindOf[r] = "trySend" /\ stage[r] = "idle" /\ ~Closed(SessionOf[r])
    /\ Goto(r, "global")
    /\ UNCHANGED <<waiting, expired, budgets, fwd, closing>>

\* StreamBudget::reserve_or_wait, first try_reserve.
StartStream(r) ==
    /\ IsStream(r) /\ stage[r] = "idle"
    /\ Goto(r, "global")
    /\ expired' = expired \ {r}
    /\ UNCHANGED <<waiting, budgets, fwd, closing>>

\* backpressure_timeout_ms after the start.
DeadlinePasses(r) ==
    /\ KindOf[r] \in {"send", "stream"} /\ stage[r] # "idle" /\ r \notin expired
    /\ expired' = expired \cup {r}
    /\ UNCHANGED <<stage, waiting, budgets, fwd, closing>>

-----------------------------------------------------------------------------
(* try_reserve_queued_bytes_with_session and StreamBudget::try_reserve.    *)

TryGlobal(r) ==
    /\ stage[r] = "global"
    /\ IF global + Size(r) <= MaxGlobal
       THEN global' = global + Size(r) /\ Goto(r, "session")
       ELSE Goto(r, "refused") /\ UNCHANGED global
    /\ UNCHANGED <<waiting, expired, session, stream, fwd, closing>>

TrySession(r) ==
    /\ stage[r] = "session"
    /\ IF session[SessionOf[r]] + Size(r) <= MaxSession
       THEN /\ session' = [session EXCEPT ![SessionOf[r]] = @ + Size(r)]
            /\ Goto(r, IF IsStream(r) THEN "stream" ELSE "reserved")
       ELSE Goto(r, "undoGlobal") /\ UNCHANGED session
    /\ UNCHANGED <<waiting, expired, global, stream, fwd, closing>>

TryStream(r) ==
    /\ stage[r] = "stream"
    /\ IF stream[StreamOf[r]] + Size(r) <= MaxStream
       THEN /\ stream' = [stream EXCEPT ![StreamOf[r]] = @ + Size(r)]
            /\ Goto(r, "held") /\ Leave(r)
       ELSE Goto(r, "undoSession") /\ UNCHANGED <<stream, waiting>>
    /\ UNCHANGED <<expired, global, session, fwd, closing>>

\* The roll-backs tell nobody.
UndoSession(r) ==
    /\ stage[r] = "undoSession"
    /\ session' = [session EXCEPT ![SessionOf[r]] = @ - Size(r)]
    /\ Goto(r, "undoGlobal")
    /\ UNCHANGED <<waiting, expired, global, stream, fwd, closing>>

UndoGlobal(r) ==
    /\ stage[r] = "undoGlobal"
    /\ global' = global - Size(r)
    /\ Goto(r, "refused")
    /\ UNCHANGED <<waiting, expired, session, stream, fwd, closing>>

-----------------------------------------------------------------------------
(* What a refusal or a reservation leads to.                               *)

\* A parking send goes to sleep, or its deadline has passed already.
SendRefused(r) ==
    /\ KindOf[r] = "send" /\ stage[r] = "refused"
    /\ IF r \in expired
       THEN Goto(r, "idle") /\ Leave(r)
       ELSE Goto(r, "parked") /\ UNCHANGED waiting
    /\ UNCHANGED <<expired, budgets, fwd, closing>>

\* A notified send starts its loop over.
SendWakes(r) ==
    /\ KindOf[r] = "send" /\ stage[r] = "parked" /\ r \in woken
    /\ Goto(r, "enroll")
    /\ UNCHANGED <<waiting, expired, budgets, fwd, closing>>

\* E_BACKPRESSURE_TIMEOUT.
SendTimesOut(r) ==
    /\ KindOf[r] = "send" /\ stage[r] = "parked" /\ r \in expired
    /\ Goto(r, "idle") /\ Leave(r)
    /\ UNCHANGED <<expired, budgets, fwd, closing>>

\* E_WOULD_BLOCK; an inbound datagram is dropped and the loop goes on.
OthersRefused(r) ==
    /\ KindOf[r] \in {"trySend", "ingress"} /\ stage[r] = "refused"
    /\ Goto(r, "idle")
    /\ IF KindOf[r] = "ingress" THEN FwdGoto(SessionOf[r], "top") ELSE UNCHANGED fwd
    /\ UNCHANGED <<waiting, expired, budgets, closing>>

\* The first refusal of a stream chunk creates its Notified and tries once
\* more, unless the deadline has passed; the second one sleeps.
StreamRefused(r) ==
    /\ IsStream(r) /\ stage[r] = "refused"
    /\ \/ r \in enrolled /\ Goto(r, "parked") /\ UNCHANGED waiting
       \/ /\ r \notin enrolled /\ r \notin expired
          /\ enrolled' = enrolled \cup {r} /\ Goto(r, "global") /\ UNCHANGED woken
       \/ r \notin enrolled /\ r \in expired /\ Goto(r, "idle") /\ UNCHANGED waiting
    /\ UNCHANGED <<expired, budgets, fwd, closing>>

\* Notified, or BUDGET_POLL_INTERVAL is over: from the top.
StreamRetries(r) ==
    /\ IsStream(r) /\ stage[r] = "parked"
    /\ Goto(r, "global") /\ Leave(r)
    /\ UNCHANGED <<expired, budgets, fwd, closing>>

\* reserve_for_recv: JavaScript stopped the stream, the wait is dropped.
StreamStopped(r) ==
    /\ IsStream(r) /\ stage[r] = "parked"
    /\ Goto(r, "idle") /\ Leave(r)
    /\ UNCHANGED <<expired, budgets, fwd, closing>>

\* A parking send looks at the flag once more and gives the bytes back when
\* the session closed meanwhile; a payload of the others is held at once.
Reserved(r) ==
    /\ stage[r] = "reserved"
    /\ Goto(r, IF KindOf[r] = "send" /\ Closed(SessionOf[r]) THEN "freeSession" ELSE "held")
    /\ Leave(r)
    /\ IF KindOf[r] = "ingress" THEN FwdGoto(SessionOf[r], "top") ELSE UNCHANGED fwd
    /\ UNCHANGED <<expired, budgets, closing>>

\* The end of a reservation: send_datagram returned, JavaScript took the
\* queued datagram or chunk, or a teardown dropped it.
Release(r) ==
    /\ stage[r] = "held"
    /\ Goto(r, IF IsStream(r) THEN "freeStream" ELSE "freeSession")
    /\ UNCHANGED <<waiting, expired, budgets, fwd, closing>>

-----------------------------------------------------------------------------
(* StreamBudget::release and release_datagram_capacity.                    *)

FreeStream(r) ==
    /\ stage[r] = "freeStream"
    /\ stream' = [stream EXCEPT ![StreamOf[r]] = @ - Size(r)]
    /\ Goto(r, "freeSession")
    /\ UNCHANGED <<waiting, expired, global, session, fwd, closing>>

\* Mutant: the global bytes are given back before the session's.
FreeSessionGlobalFirst(r) ==
    /\ stage[r] = "freeSession"
    /\ global' = global - Size(r)
    /\ Goto(r, "freeGlobal")
    /\ UNCHANGED <<waiting, expired, session, stream, fwd, closing>>

FreeSession(r) ==
    /\ stage[r] = "freeSession"
    /\ session' = [session EXCEPT ![SessionOf[r]] = @ - Size(r)]
    /\ Goto(r, "freeGlobal")
    /\ UNCHANGED <<waiting, expired, global, stream, fwd, closing>>

FreeGlobal(r) ==
    /\ stage[r] = "freeGlobal"
    /\ global' = global - Size(r)
    /\ Goto(r, IF IsStream(r) THEN "tellStream" ELSE "tellSession")
    /\ UNCHANGED <<waiting, expired, session, stream, fwd, closing>>

TellSession(r) ==
    /\ stage[r] = "tellSession"
    /\ woken' = woken \cup SessionWaiters(SessionOf[r])
    /\ Goto(r, "tellOwner")
    /\ UNCHANGED <<enrolled, expired, budgets, fwd, closing>>

\* Mutant: only the own session is told, not the sessions competing with it.
TellOwnerForgotten(r) ==
    /\ stage[r] = "tellOwner"
    /\ Goto(r, "idle")
    /\ UNCHANGED <<waiting, expired, budgets, fwd, closing>>

TellOwner(r) ==
    /\ stage[r] = "tellOwner"
    /\ woken' = woken \cup OwnerWaiters
    /\ Goto(r, "idle")
    /\ UNCHANGED <<enrolled, expired, budgets, fwd, closing>>

TellStream(r) ==
    /\ stage[r] = "tellStream"
    /\ woken' = woken \cup StreamWaiters(StreamOf[r])
    /\ Goto(r, "idle")
    /\ UNCHANGED <<enrolled, expired, budgets, fwd, closing>>

-----------------------------------------------------------------------------
(* The datagram-forward task and the session's close.                      *)

\* session_queue_cannot_fit: park only when a release could help.
session_queue_cannot_fit(s) ==
    MaxDatagram <= MaxSession /\ session[s] + MaxDatagram > MaxSession

FwdTop(s) ==
    /\ fwd[s] = "top"
    /\ FwdGoto(s, IF session_queue_cannot_fit(s) THEN "enroll" ELSE "recv")
    /\ UNCHANGED <<stage, expired, waiting, budgets, closing>>

FwdEnroll(s) ==
    /\ fwd[s] = "enroll"
    /\ FwdGoto(s, "check")
    /\ enrolled' = enrolled \cup {s} /\ woken' = woken \ {s}
    /\ UNCHANGED <<stage, expired, budgets, closing>>

\* Mutant: what was read before enrolling is not read again.
FwdCheckStale(s) ==
    /\ fwd[s] = "check"
    /\ FwdGoto(s, "parked")
    /\ UNCHANGED <<stage, expired, waiting, budgets, closing>>

FwdCheck(s) ==
    /\ fwd[s] = "check"
    /\ IF session_queue_cannot_fit(s)
       THEN FwdGoto(s, "parked") /\ UNCHANGED waiting
       ELSE FwdGoto(s, "recv") /\ Leave(s)
    /\ UNCHANGED <<stage, expired, budgets, closing>>

FwdWakes(s) ==
    /\ fwd[s] = "parked" /\ s \in woken
    /\ FwdGoto(s, "top") /\ Leave(s)
    /\ UNCHANGED <<stage, expired, budgets, closing>>

\* A datagram arrives; one the rate limit, the size limit or the reflector
\* takes out never reaches the budget.
FwdReceives(s) ==
    /\ fwd[s] = "recv"
    /\ \/ FwdGoto(s, "top") /\ UNCHANGED stage
       \/ \E r \in Requests :
             /\ KindOf[r] = "ingress" /\ SessionOf[r] = s /\ stage[r] = "idle"
             /\ Goto(r, "global") /\ FwdGoto(s, "busy")
    /\ UNCHANGED <<waiting, expired, budgets, closing>>

\* The connection is closed: every park of the task has an arm for it.
FwdEnds(s) ==
    /\ fwd[s] \in {"parked", "recv"} /\ Closed(s)
    /\ FwdGoto(s, "gone") /\ Leave(s)
    /\ UNCHANGED <<stage, expired, budgets, closing>>

\* mark_state_closed_and_notify: the sticky flag, then both notifiers.
CloseFlag(s) ==
    /\ s \in MayClose /\ closing[s] = "open"
    /\ closing' = [closing EXCEPT ![s] = "tellSession"]
    /\ UNCHANGED <<stage, expired, waiting, budgets, fwd>>

CloseTellsSession(s) ==
    /\ closing[s] = "tellSession"
    /\ closing' = [closing EXCEPT ![s] = "tellOwner"]
    /\ woken' = woken \cup SessionWaiters(s)
    /\ UNCHANGED <<stage, expired, enrolled, budgets, fwd>>

CloseTellsOwner(s) ==
    /\ closing[s] = "tellOwner"
    /\ closing' = [closing EXCEPT ![s] = "closed"]
    /\ woken' = woken \cup OwnerWaiters
    /\ UNCHANGED <<stage, expired, enrolled, budgets, fwd>>

-----------------------------------------------------------------------------
\* The steps a request takes by itself once it has started.
Progress(r) ==
    \/ EnrollSend(r) \/ CheckOpen(r)
    \/ TryGlobal(r) \/ TrySession(r) \/ TryStream(r) \/ UndoSession(r) \/ UndoGlobal(r)
    \/ SendRefused(r) \/ OthersRefused(r) \/ StreamRefused(r) \/ Reserved(r)
    \/ FreeStream(r) \/ FreeSession(r) \/ FreeGlobal(r)
    \/ TellSession(r) \/ TellOwner(r) \/ TellStream(r)

\* The timers, and the wakes that race them.
Unpark(r) == SendWakes(r) \/ SendTimesOut(r) \/ StreamRetries(r)

FwdStep(s) == FwdTop(s) \/ FwdEnroll(s) \/ FwdCheck(s) \/ FwdWakes(s) \/ FwdEnds(s)

CloseStep(s) == CloseTellsSession(s) \/ CloseTellsOwner(s)

Next ==
    \/ \E r \in Requests : \/ StartSend(r) \/ StartTrySend(r) \/ StartStream(r)
                           \/ DeadlinePasses(r)
                           \/ Progress(r) \/ Unpark(r) \/ StreamStopped(r)
                           \/ Release(r)
    \/ \E s \in Sessions : FwdStep(s) \/ FwdReceives(s) \/ CloseFlag(s) \/ CloseStep(s)

\* Tokio runs every ready task and its timers fire; a send releases as soon
\* as send_datagram returns.  Nothing obliges the application to read.
Fairness ==
    /\ \A r \in Requests :
        /\ WF_vars(Progress(r)) /\ WF_vars(Unpark(r)) /\ WF_vars(DeadlinePasses(r))
        /\ KindOf[r] \in {"send", "trySend"} => WF_vars(Release(r))
    /\ \A s \in Sessions : WF_vars(FwdStep(s)) /\ WF_vars(CloseStep(s))

Spec == Init /\ [][Next]_vars
FairSpec == Spec /\ Fairness

-----------------------------------------------------------------------------
\* The counters are natural numbers and every request is at a stage of its kind.
TypeOK ==
    /\ stage \in [Requests -> Stages]
    /\ enrolled \subseteq Waiters /\ woken \subseteq enrolled /\ expired \subseteq Requests
    /\ global \in Nat
    /\ session \in [Sessions -> Nat]
    /\ stream \in [Streams -> Nat]
    /\ fwd \in [Sessions -> FwdStages]
    /\ closing \in [Sessions -> {"open", "tellSession", "tellOwner", "closed"}]

OnStream == {"held", "freeStream"}
OnSession == OnStream \cup {"stream", "reserved", "undoSession", "freeSession"}
OnGlobal == OnSession \cup {"session", "undoGlobal", "freeGlobal"}

GlobalCharge     == {r \in Requests : stage[r] \in OnGlobal}
SessionCharge(s) == {r \in Requests : SessionOf[r] = s /\ stage[r] \in OnSession}
StreamCharge(t)  == {r \in Requests : StreamOf[r] = t /\ IsStream(r) /\ stage[r] \in OnStream}
BytesIn(S) == UNION {BytesOf[r] : r \in S}

\* Each of the three counters holds exactly the bytes of the reservations
\* that have been added to it and not yet taken back, whatever the
\* interleaving of reservations, roll-backs and releases
\* (try_reserve_queued_bytes_with_session, StreamBudget, the slots' Drop).
BudgetExact ==
    /\ global = Cardinality(BytesIn(GlobalCharge))
    /\ \A s \in Sessions : session[s] = Cardinality(BytesIn(SessionCharge(s)))
    /\ \A t \in Streams : stream[t] = Cardinality(BytesIn(StreamCharge(t)))

\* No counter ever passes its limit, not even during a roll-back.
WithinLimits ==
    /\ global <= MaxGlobal
    /\ \A s \in Sessions : session[s] <= MaxSession
    /\ \A t \in Streams : stream[t] <= MaxStream

\* Reserving goes outside in and releasing inside out, so a snapshot never
\* shows a session with more queued bytes than its server, nor a stream with
\* more than its session.
NestedBudgets ==
    /\ \A s \in Sessions : session[s] <= global
    /\ \A r \in Requests : stream[StreamOf[r]] <= session[SessionOf[r]]

Fits(r) == /\ global + Size(r) <= MaxGlobal
           /\ session[SessionOf[r]] + Size(r) <= MaxSession
\* Nobody is in the middle of a reservation, a release or a close.
Quiet == /\ \A r \in Requests : stage[r] \in {"idle", "held", "parked"}
         /\ \A s \in Sessions : closing[s] \in {"open", "closed"}

\* The comment on reserve_datagram_capacity: no capacity wake is lost.  A
\* send does not sleep beside capacity it could have.
NoLostWake ==
    Quiet => \A r \in Requests :
        KindOf[r] = "send" /\ stage[r] = "parked" /\ r \notin woken => ~Fits(r)

\* Nor is a lifecycle wake lost: when a session has been closed, every send
\* still parked on it has been woken.
CloseWakesSends ==
    \A r \in Requests :
        /\ KindOf[r] = "send" /\ stage[r] = "parked"
        /\ closing[SessionOf[r]] \in {"tellOwner", "closed"}
        => r \in woken

\* Every send settles: sent, refused, closed or timed out.
SendsSettle ==
    \A r \in Requests :
        KindOf[r] = "send" => (stage[r] # "idle" ~> stage[r] = "idle")

\* The comment on session_queue_cannot_fit: a park of the forward task is
\* deferral, not denial.  It does not stay parked beside free capacity.
ParkedIngestResumes ==
    \A s \in Sessions : []<>(fwd[s] # "parked" \/ session_queue_cannot_fit(s))

\* The queued-byte counters are exact, nested and within their limits in
\* every intermediate state of reservations, roll-backs and releases.
BudgetSafe == BudgetExact /\ WithinLimits /\ NestedBudgets

\* No parked send misses the wake it was parked for, by capacity or by close.
WakesKept == NoLostWake /\ CloseWakesSends

\* Whoever waits for capacity goes on.
WaitsEnd == SendsSettle /\ ParkedIngestResumes
=============================================================================
