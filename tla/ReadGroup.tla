------------------------------ MODULE ReadGroup ------------------------------
(***************************************************************************)
(* Read groups: many streams' receive halves cross into JavaScript through *)
(* one queue (read_group.rs) that one pump drains (read-group.ts).  Each   *)
(* stream has a native feeder that reads under the byte credit its         *)
(* readable grants per pull.  JavaScript steps are atomic; feeders and the *)
(* native half of next() interleave with them.  A stream is its key: keys  *)
(* are 32 bits wide and are not drawn twice here.                          *)
(***************************************************************************)
EXTENDS Integers, Sequences, FiniteSets, SequencesExt

CONSTANTS
    Keys,           \* streams attached to the group
    ChunkLen,       \* bytes one native read returns
    MaxCrossing,     \* readGroupMaxEntries
    CrossingBytes,  \* GROUP_CROSSING_MAX_BYTES
    MaxChunks,      \* bound: chunks a peer sends on a stream
    FeedFaults      \* what may also happen: "throws", "refused", "enqueue", "drop", "close"

ASSUME GroupAssumption == {ChunkLen, MaxCrossing, CrossingBytes} \subseteq Nat \ {0}

VARIABLES
    gqueue,    \* GroupQueue.entries: sequence of [key, what, len]
    gwoken,    \* GroupQueue.woken
    permit,    \* the permit stored in GroupShared.ready
    gclosed,   \* GroupShared.closed
    credit,    \* [Keys -> [live, avail, cancelled, claimed, permit]]
    feeder,    \* [Keys -> [pc, got]]
    next,      \* the native half of next(): "none", "check", "parked", "ready", "null"
    batch,     \* entries converted and not dispatched yet
    running,   \* ReadGroupPump.#running
    feeding,   \* ReadGroupPump.#feeding
    sink,      \* [Keys -> [state, started, granted, delivered, wake]]
    owned,     \* keys whose owner.current() is not null
    given,     \* [Keys -> chunks the peer has sent so far]
    pulls,     \* history: pulls of a readable that found it attached
    reads      \* history: native reads begun

groupVars == <<gqueue, gwoken, permit, gclosed, credit, feeder, next, batch, running, feeding,
               sink, owned, given, pulls, reads>>
nativeVars == <<gqueue, gwoken, permit, credit>>

Entry(k, what, len) == [key |-> k, what |-> what, len |-> len]
Unqueued(q, k) == SelectSeq(q, LAMBDA e : e.key # k)

\* #active
Active == {k \in Keys : sink[k].state = "attached" /\ sink[k].started}

GroupInit ==
    /\ gqueue = <<>> /\ gwoken = FALSE /\ permit = FALSE /\ gclosed = FALSE
    /\ credit = [k \in Keys |-> [live |-> FALSE, avail |-> 0, cancelled |-> FALSE,
                                 claimed |-> FALSE, permit |-> FALSE]]
    /\ feeder = [k \in Keys |-> [pc |-> "none", got |-> "nothing"]]
    /\ next = "none" /\ batch = <<>> /\ running = FALSE /\ feeding = {}
    /\ sink = [k \in Keys |-> [state |-> "attached", started |-> FALSE, granted |-> 1,
                               delivered |-> 0, wake |-> FALSE]]
    /\ owned = Keys /\ given = [k \in Keys |-> 0]
    /\ pulls = [k \in Keys |-> 0] /\ reads = [k \in Keys |-> 0]

-----------------------------------------------------------------------------
(* What JavaScript's calls change, as functions of a group state g with    *)
(* the fields queue, woken, permit, credit, sink.                          *)

G == [queue |-> gqueue, woken |-> gwoken, permit |-> permit, credit |-> credit, sink |-> sink]

Becomes(g) ==
    /\ gqueue' = g.queue /\ gwoken' = g.woken /\ permit' = g.permit
    /\ credit' = g.credit /\ sink' = g.sink

\* #cancelFeeder and GroupShared::cancel: a key that is not live needs nothing.
CancelFeeder(g, k) ==
    IF ~g.credit[k].live \/ k \notin feeding THEN g
    ELSE [g EXCEPT !.credit[k].cancelled = TRUE, !.credit[k].live = g.credit[k].claimed,
                   !.credit[k].permit = g.credit[k].claimed, !.queue = Unqueued(@, k)]

\* #detach, with wake() when no started stream is left.
Detach(g, k) ==
    LET last == g.sink[k].started
                /\ \A j \in Keys \ {k} : g.sink[j].state = "gone" \/ ~g.sink[j].started
    IN  IF g.sink[k].state # "attached" THEN g
        ELSE [g EXCEPT !.sink[k].state = "gone", !.sink[k].wake = FALSE,
                       !.woken = @ \/ last, !.permit = @ \/ last]

\* #released and the readable's cancel.
Released(g, k) == Detach(IF g.sink[k].started THEN CancelFeeder(g, k) ELSE g, k)

-----------------------------------------------------------------------------
(* The readable and its owner                                              *)

\* startFeeder: prepare, then feedReadGroup, which may throw or be refused.
StartFeeder(k, outcome) ==
    LET begun == [G EXCEPT !.sink[k].started = TRUE, !.sink[k].wake = TRUE,
                           !.credit[k] = [live |-> TRUE, avail |-> 1, cancelled |-> FALSE,
                                          claimed |-> FALSE, permit |-> FALSE]]
    IN
    IF outcome = "throws"
    THEN \* cancel forgets the prepared key; #fail detaches
         /\ Becomes(Detach([begun EXCEPT !.credit[k].live = FALSE, !.credit[k].cancelled = TRUE], k))
         /\ UNCHANGED <<feeder, feeding, next, running>>
    ELSE /\ Becomes(begun)
         /\ feeding' = feeding \cup {k}
         /\ feeder' = [feeder EXCEPT ![k].pc = IF outcome = "refused" THEN "refused" ELSE "claim"]
         /\ running' = TRUE /\ next' = IF running THEN next ELSE "check"

\* A later pull: one more read, unless the last one is still outstanding.
PullGrants(k) ==
    LET allowed == sink[k].granted - sink[k].delivered
        add == IF allowed <= 0 THEN 1 - allowed ELSE 0
    IN
    /\ sink' = [sink EXCEPT ![k].granted = @ + add, ![k].wake = TRUE]
    /\ credit' = IF add > 0 /\ credit[k].live
                 THEN [credit EXCEPT ![k].avail = @ + add, ![k].permit = TRUE] ELSE credit
    /\ UNCHANGED <<gqueue, gwoken, permit, feeder, feeding, next, running>>

\* pull: the consumer waits on an empty readable.
Pull(k) ==
    /\ sink[k].state = "attached" /\ ~sink[k].wake
    /\ pulls' = [pulls EXCEPT ![k] = @ + 1]
    /\ IF sink[k].started THEN PullGrants(k)
       ELSE IF k \notin owned
       THEN Becomes(Released(G, k)) /\ UNCHANGED <<feeder, feeding, next, running>>
       ELSE \E outcome \in {"runs"} \cup (FeedFaults \cap {"throws", "refused"}) : StartFeeder(k, outcome)
    /\ UNCHANGED <<gclosed, batch, owned, given, reads>>

\* The readable is cancelled, or the owner releases the handle.
Cancel(k) ==
    /\ sink[k].state = "attached"
    /\ Becomes(Released(G, k)) /\ owned' = owned \ {k}
    /\ UNCHANGED <<gclosed, feeder, next, batch, running, feeding, given, pulls, reads>>

\* An owner that drops its handle without the hook.
DropHandle(k) ==
    /\ "drop" \in FeedFaults /\ k \in owned
    /\ owned' = owned \ {k}
    /\ UNCHANGED <<nativeVars, gclosed, feeder, next, batch, running, feeding, sink, given, pulls, reads>>

\* The promise of feedReadGroup: an error code fails the readable.
FeedResolves(k) ==
    /\ feeder[k].pc \in {"ended", "refused"}
    /\ feeder' = [feeder EXCEPT ![k].pc = "gone"]
    /\ feeding' = feeding \ {k}
    /\ Becomes(IF feeder[k].pc = "refused" THEN Detach(G, k) ELSE G)
    /\ UNCHANGED <<gclosed, next, batch, running, owned, given, pulls, reads>>

-----------------------------------------------------------------------------
(* run_feeder                                                              *)

FeederAt(k, pc) == feeder' = [feeder EXCEPT ![k].pc = pc]
StaysJs == UNCHANGED <<next, batch, running, feeding, sink, owned, pulls>>

\* claim
Claim(k) ==
    /\ feeder[k].pc = "claim"
    /\ IF credit[k].live
       THEN credit' = [credit EXCEPT ![k].claimed = TRUE] /\ FeederAt(k, "check")
       ELSE FeederAt(k, "ended") /\ UNCHANGED credit
    /\ UNCHANGED <<gqueue, gwoken, permit, gclosed, given, reads>> /\ StaysJs

\* The inner loop: stop, read, or wait for credit.
CheckCredit(k) ==
    /\ \/ feeder[k].pc = "check"
       \/ feeder[k].pc = "parked" /\ credit[k].permit
    /\ credit' = IF feeder[k].pc = "parked" THEN [credit EXCEPT ![k].permit = FALSE] ELSE credit
    /\ IF gclosed \/ credit[k].cancelled THEN FeederAt(k, "leave") /\ UNCHANGED reads
       ELSE IF credit[k].avail > 0
       THEN FeederAt(k, "read") /\ reads' = [reads EXCEPT ![k] = @ + 1]
       ELSE FeederAt(k, "parked") /\ UNCHANGED reads
    /\ UNCHANGED <<gqueue, gwoken, permit, gclosed, given>> /\ StaysJs

\* The handle's read: the peer's next chunk, its end, or an error.
ReadReturns(k, what) ==
    /\ feeder[k].pc = "read"
    /\ IF what = "data"
       THEN /\ given[k] < MaxChunks /\ given' = [given EXCEPT ![k] = @ + 1]
            /\ credit' = [credit EXCEPT ![k].avail = @ - ChunkLen]
       ELSE UNCHANGED <<given, credit>>
    /\ feeder' = [feeder EXCEPT ![k] = [pc |-> "push", got |-> what]]
    /\ UNCHANGED <<gqueue, gwoken, permit, gclosed, reads>> /\ StaysJs

\* Mutant: the mark is looked at before the lock is taken, in the last check.
PushFedUnchecked(k) ==
    /\ feeder[k].pc = "push"
    /\ gqueue' = Append(gqueue, Entry(k, feeder[k].got, IF feeder[k].got = "data" THEN ChunkLen ELSE 0))
    /\ FeederAt(k, "notify")
    /\ UNCHANGED <<gwoken, permit, gclosed, credit, given, reads>> /\ StaysJs

\* push_fed under the queue lock.
PushFed(k) ==
    /\ feeder[k].pc = "push"
    /\ IF gclosed \/ credit[k].cancelled
       THEN /\ FeederAt(k, IF feeder[k].got = "data" THEN "check" ELSE "leave") /\ UNCHANGED gqueue
       ELSE /\ gqueue' = Append(gqueue, Entry(k, feeder[k].got,
                                              IF feeder[k].got = "data" THEN ChunkLen ELSE 0))
            /\ FeederAt(k, "notify")
    /\ UNCHANGED <<gwoken, permit, gclosed, credit, given, reads>> /\ StaysJs

\* push_fed: notify_one behind the lock.
PushNotify(k) ==
    /\ feeder[k].pc = "notify"
    /\ permit' = TRUE
    /\ FeederAt(k, IF feeder[k].got = "data" THEN "check" ELSE "leave")
    /\ UNCHANGED <<gqueue, gwoken, gclosed, credit, given, reads>> /\ StaysJs

\* unregister
Unregister(k) ==
    /\ feeder[k].pc = "leave"
    /\ credit' = [credit EXCEPT ![k].live = FALSE]
    /\ FeederAt(k, "ended")
    /\ UNCHANGED <<gqueue, gwoken, permit, gclosed, given, reads>> /\ StaysJs

FeederStep(k) ==
    \/ Claim(k) \/ CheckCredit(k) \/ PushFed(k) \/ PushNotify(k) \/ Unregister(k)
    \/ \E what \in {"data", "end", "error"} : ReadReturns(k, what)

-----------------------------------------------------------------------------
(* next() and the pump                                                     *)

\* StreamReadGroup::next
NextCheck ==
    /\ next = "check" \/ (next = "parked" /\ permit)
    /\ permit' = IF next = "parked" THEN FALSE ELSE permit
    /\ next' = IF gclosed THEN "null" ELSE IF gqueue # <<>> \/ gwoken THEN "ready" ELSE "parked"
    /\ UNCHANGED <<gqueue, gwoken, gclosed, credit, feeder, batch, running, feeding, sink, owned,
                   given, pulls, reads>>

\* take_for_crossing, until it refuses: how many entries cross.
Crossing(q) ==
    LET bytes[i \in 0..Len(q)] == IF i = 0 THEN 0 ELSE bytes[i - 1] + q[i].len
        fits(n) == \A i \in 2..n : q[i].len = 0 \/ bytes[i] <= CrossingBytes
    IN  CHOOSE n \in 0..Len(q) :
            /\ n <= MaxCrossing /\ fits(n)
            /\ n < Len(q) /\ n < MaxCrossing => ~fits(n + 1)

\* GroupBatch::to_napi_value, on the JavaScript thread.
Cross ==
    /\ next = "ready" /\ next' = "converted"
    /\ gwoken' = FALSE
    /\ batch' = SubSeq(gqueue, 1, Crossing(gqueue))
    /\ gqueue' = SubSeq(gqueue, Crossing(gqueue) + 1, Len(gqueue))
    /\ UNCHANGED <<permit, gclosed, credit, feeder, running, feeding, sink, owned, given, pulls, reads>>

\* #dispatch of one entry; a delivery that throws fails its own stream.
Dispatched(g, e, throws) ==
    IF g.sink[e.key].state # "attached" THEN g
    ELSE IF e.key \notin owned THEN Released(g, e.key)
    ELSE IF e.what # "data" THEN Detach(g, e.key)
    ELSE IF throws THEN Released(g, e.key)
    ELSE [g EXCEPT !.sink[e.key].delivered = @ + e.len, !.sink[e.key].wake = FALSE]

\* The condition of #run's loop, asked again in its finally.
GoesOn(g) == g.queue # <<>> \/ \E k \in Keys : g.sink[k].state = "attached" /\ g.sink[k].started

\* One turn of #run behind the await.
PumpTurn ==
    \E bad \in SUBSET (IF "enqueue" \in FeedFaults THEN DOMAIN batch ELSE {}) :
        LET upTo[i \in 0..Len(batch)] ==
                IF i = 0 THEN G ELSE Dispatched(upTo[i - 1], batch[i], i \in bad)
            g == upTo[Len(batch)]
        IN
        /\ next = "converted"
        /\ Becomes(g) /\ batch' = <<>>
        /\ running' = GoesOn(g) /\ next' = IF GoesOn(g) THEN "check" ELSE "none"
        /\ UNCHANGED <<gclosed, feeder, feeding, owned, given, pulls, reads>>

\* next() answered null: the loop ends, and its finally starts it again while
\* streams are attached.
PumpNull ==
    /\ next = "null"
    /\ running' = GoesOn(G) /\ next' = IF GoesOn(G) THEN "check" ELSE "none"
    /\ UNCHANGED <<nativeVars, gclosed, feeder, batch, feeding, sink, owned, given, pulls, reads>>

\* StreamReadGroup::close
CloseGroup ==
    /\ "close" \in FeedFaults /\ ~gclosed
    /\ gclosed' = TRUE /\ gqueue' = <<>> /\ permit' = TRUE
    /\ credit' = [k \in Keys |-> [credit[k] EXCEPT !.permit = @ \/ credit[k].live]]
    /\ UNCHANGED <<gwoken, feeder, next, batch, running, feeding, sink, owned, given, pulls, reads>>

GroupNext ==
    \/ \E k \in Keys : Pull(k) \/ Cancel(k) \/ DropHandle(k) \/ FeedResolves(k) \/ FeederStep(k)
    \/ NextCheck \/ Cross \/ PumpTurn \/ PumpNull \/ CloseGroup

GroupSpec == GroupInit /\ [][GroupNext]_groupVars

-----------------------------------------------------------------------------
(* Properties                                                              *)

\* The state keeps its type.
GroupTypeOK ==
    /\ gqueue \in Seq([key: Keys, what: {"data", "end", "error"}, len: {0, ChunkLen}])
    /\ {gwoken, permit, gclosed, running} \subseteq BOOLEAN
    /\ credit \in [Keys -> [live: BOOLEAN, avail: Int, cancelled: BOOLEAN, claimed: BOOLEAN, permit: BOOLEAN]]
    /\ feeder \in [Keys -> [pc: {"none", "claim", "refused", "check", "parked", "read", "push",
                                 "notify", "leave", "ended", "gone"},
                            got: {"nothing", "data", "end", "error"}]]
    /\ next \in {"none", "check", "parked", "ready", "converted", "null"}
    /\ running = (next # "none") /\ feeding \subseteq Keys /\ owned \subseteq Keys
    /\ sink \in [Keys -> [state: {"attached", "gone"}, started: BOOLEAN, granted: Nat,
                          delivered: Nat, wake: BOOLEAN]]

\* A cancelled key never has an entry in the queue, whatever its feeder's
\* read returns afterwards (comment on StreamReadGroup::cancel).
CancelSilences == \A k \in Keys : credit[k].cancelled => \A i \in DOMAIN gqueue : gqueue[i].key # k

\* Nothing is read ahead of the consumer: no feeder has begun more reads than
\* its readable made pulls, so unasked bytes stay under the receive budgets.
NothingReadAhead == \A k \in Keys : reads[k] <= pulls[k]

\* A readable whose pull is pending has somebody at work for it: its feeder,
\* an entry on its way, or the promise that will fail it.
PullHasWorker ==
    ~gclosed => \A k \in Keys :
        sink[k].state = "attached" /\ sink[k].wake =>
            \/ feeder[k].pc \in {"claim", "check", "read", "push", "notify", "refused"}
            \/ feeder[k].pc = "parked" /\ credit[k].permit
            \/ \E i \in DOMAIN gqueue : gqueue[i].key = k
            \/ \E i \in DOMAIN batch : batch[i].key = k

\* Whatever is queued has a pump that will take it: next() is not parked
\* unless its permit is stored or the feeder that pushed is about to store it.
QueueHasPump ==
    gqueue # <<>> =>
        /\ running
        /\ next = "parked" => permit \/ \E k \in Keys : feeder[k].pc = "notify"

\* A pump with nothing attached is not left waiting, which would hold the
\* event loop open.
PumpNotPinned == next = "parked" /\ Active = {} => permit

\* A feeder whose readable is gone is not left parked on credit, which would
\* pin its handle.
FeederNotPinned ==
    \A k \in Keys : feeder[k].pc = "parked" /\ sink[k].state = "gone" => credit[k].permit

\* A crossing carries at most its bytes, or one entry.
CrossingBounded ==
    LET bytes[i \in 0..Len(batch)] == IF i = 0 THEN 0 ELSE bytes[i - 1] + batch[i].len
    IN  bytes[Len(batch)] > CrossingBytes => Cardinality({i \in DOMAIN batch : batch[i].what = "data"}) = 1

\* A read group delivers within its credit, silences what was cancelled, and
\* leaves neither a pump nor a feeder waiting for nobody.
GroupSafe ==
    /\ GroupTypeOK /\ CancelSilences /\ NothingReadAhead /\ PullHasWorker
    /\ QueueHasPump /\ PumpNotPinned /\ FeederNotPinned /\ CrossingBounded
=============================================================================
