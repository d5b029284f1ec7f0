------------------------------ MODULE TaskDrain ------------------------------
(***************************************************************************)
(* What close() waits for: the tracked tasks of one server                 *)
(* (spawn_tracked.rs), the N-API operations it counts (async_ops.rs) and   *)
(* the drain loop that reads their gauges one after the other              *)
(* (server.rs: wait_for_server_drain).                                     *)
(*                                                                         *)
(* A task is counted, spawned, and only then entered into OWNER_ABORTS, by *)
(* a parent that may already be aborted.  The drain holds no lock: between *)
(* any two of its loads every task, watcher and operation may step.        *)
(***************************************************************************)
EXTENDS Integers, Sequences, FiniteSets, FiniteSetsExt

CONSTANTS
    MaxTasks,   \* bound: tasks ever spawned; task 1 is the accept loop
    MaxOps,     \* bound: operations JavaScript may start
    ShardOf,    \* [Tasks -> shard of OWNER_ABORTS the key hashes to]
    Grace,      \* CloseDrainTiming.grace_period in polls
    Abort,      \* CloseDrainTiming.abort_period in polls
    TaskFaults      \* subset of {"panic", "stall"}: what tasks may do

ASSUME DrainAssumption ==
    /\ MaxTasks \in Nat \ {0} /\ MaxOps \in Nat /\ Grace \in Nat /\ Abort \in Nat
    /\ DOMAIN ShardOf = 1..MaxTasks
    /\ TaskFaults \subseteq {"panic", "stall"}

Tasks == 1..MaxTasks
Kinds == {"accept", "session", "stream"}
Ops == 1..MaxOps
Shards == {ShardOf[t] : t \in Tasks}

\* Who spawns what: the endpoint loop spawns session tasks, these spawn the
\* stream acceptors and the forwarder, and these spawn discard tasks.
ChildKind(k) == IF k = "accept" THEN "session" ELSE "stream"

VARIABLES
    life,      \* [Tasks -> "free" | "counted" | "running" | "ended"]
    kind,      \* [Tasks -> Kinds]
    spawning,  \* [Tasks -> the child being spawned, 0 if none]
    holds,     \* [Tasks -> "no" | "hand" | "unpolled" | "guard"]: who gives sessions_active back
    stalled,   \* tasks that stopped at an await that nothing wakes
    doomed,    \* tasks whose AbortHandle was used
    panicked,  \* tasks that ended by a panic
    torn,      \* panicked tasks whose scope was torn down
    gauge,     \* [Kinds -> ServerMetrics.*_tasks_active]
    active,    \* ServerMetrics.sessions_active
    aborts,    \* the keys of OWNER_ABORTS
    watched,   \* tasks whose watcher awaits the JoinHandle
    shutdown,  \* the watch channel fired
    ops,       \* [op -> "idle" | "pending" | "late" | "settled"]; late: begun after close() resolved
    ownerOps,  \* the pending count of this owner's block in OWNERS
    entry,     \* OWNERS holds the block this server's handles count into
    closer,    \* the drain: "open", the next load, "decide", "abort", "sleep", "ok", "timeout"
    shard,     \* the next shard server_task_count visits
    seenIdle,  \* every value read so far in this poll was 0
    polls,     \* polls left until phase_deadline
    abortTried,\* abort_attempted
    toAbort,   \* keys abort_server_tasks collected and has not aborted yet
    work,      \* history: session and stream tasks live when this poll began, and their children
    opsThen    \* history: operations in flight when this poll began

taskVars  == <<life, kind, spawning, holds, stalled, doomed, panicked, torn>>
gaugeVars == <<gauge, active, aborts, watched>>
opVars    == <<ops, ownerOps, entry>>
closeVars == <<shutdown, closer, shard, seenIdle, polls, abortTried, toAbort>>
drainVars == <<taskVars, gaugeVars, opVars, closeVars, work, opsThen>>

Live(t) == life[t] = "running"
Polled(t) == Live(t) /\ t \notin stalled
\* An aborted task goes on until its next await; a spawn has none.
CanRun(t) == Polled(t) /\ (t \notin doomed \/ spawning[t] # 0)
Free == {t \in Tasks : life[t] = "free"}

\* Type of the tasks, their gauges and abort handles, and of the drain.
DrainTypeOK ==
    /\ life \in [Tasks -> {"free", "counted", "running", "ended"}]
    /\ kind \in [Tasks -> Kinds] /\ spawning \in [Tasks -> 0..MaxTasks]
    /\ holds \in [Tasks -> {"no", "hand", "unpolled", "guard"}]
    /\ stalled \subseteq Tasks /\ doomed \subseteq Tasks
    /\ torn \subseteq panicked /\ panicked \subseteq Tasks
    /\ gauge \in [Kinds -> 0..MaxTasks] /\ active \in 0..MaxTasks
    /\ aborts \subseteq Tasks /\ watched \subseteq Tasks
    /\ ops \in [Ops -> {"idle", "pending", "late", "settled"}] /\ opsThen \subseteq Ops
    /\ ownerOps \in 0..MaxOps /\ entry \in BOOLEAN
    /\ polls \in 0..Grace + Abort /\ toAbort \subseteq Tasks /\ work \subseteq Tasks

DrainInit ==
    /\ life = [t \in Tasks |-> IF t = 1 THEN "running" ELSE "free"]
    /\ kind = [t \in Tasks |-> IF t = 1 THEN "accept" ELSE "stream"]
    /\ spawning = [t \in Tasks |-> 0] /\ holds = [t \in Tasks |-> "no"]
    /\ stalled = {} /\ doomed = {} /\ panicked = {} /\ torn = {}
    /\ gauge = [k \in Kinds |-> IF k = "accept" THEN 1 ELSE 0] /\ active = 0
    /\ aborts = {1} /\ watched = {1}
    /\ ops = [o \in Ops |-> "idle"] /\ ownerOps = 0 /\ entry = TRUE
    /\ shutdown = FALSE /\ closer = "open" /\ seenIdle = TRUE /\ polls = 0
    /\ abortTried = FALSE /\ toAbort = {} /\ work = {}
    /\ opsThen = {} /\ shard = Min(Shards)

-----------------------------------------------------------------------------
(* spawn_tracked: the parent counts, spawns and registers, in that order.  *)

CountChild(t) ==
    /\ CanRun(t) /\ spawning[t] = 0 /\ Free # {}
    /\ LET c == Min(Free) IN
         /\ life' = [life EXCEPT ![c] = "counted"]
         /\ kind' = [kind EXCEPT ![c] = ChildKind(kind[t])]
         /\ spawning' = [spawning EXCEPT ![t] = c]
         /\ gauge' = [gauge EXCEPT ![ChildKind(kind[t])] = @ + 1]
         /\ work' = IF t \in work THEN work \cup {c} ELSE work
    /\ UNCHANGED <<holds, stalled, doomed, panicked, torn, active, aborts, watched, opVars,
                   closeVars, opsThen>>

\* tokio::task::spawn: the child may run, and end, from here on.  A session
\* task that counted itself in sessions_active leaves that to its forwarder.
SpawnChild(t) ==
    /\ CanRun(t) /\ spawning[t] # 0
    /\ LET c == spawning[t] IN
         /\ life[c] = "counted"
         /\ life' = [life EXCEPT ![c] = "running"]
         /\ holds' = IF holds[t] = "hand" THEN [holds EXCEPT ![t] = "no", ![c] = "unpolled"]
                     ELSE holds
    /\ UNCHANGED <<kind, spawning, stalled, doomed, panicked, torn, gaugeVars, opVars, closeVars,
                   work, opsThen>>

\* OWNER_ABORTS.insert and the watcher, when the child may long be over.
RegisterChild(t) ==
    /\ CanRun(t) /\ spawning[t] # 0
    /\ LET c == spawning[t] IN
         /\ life[c] \in {"running", "ended"}
         /\ aborts' = aborts \cup {c}
         /\ watched' = watched \cup {c}
    /\ spawning' = [spawning EXCEPT ![t] = 0]
    /\ UNCHANGED <<life, kind, holds, stalled, doomed, panicked, torn, gauge, active, opVars,
                   closeVars, work, opsThen>>

\* A session task counts its session; the forwarder builds SessionCounters
\* when it is first polled.
CountSession(t) ==
    /\ CanRun(t) /\ spawning[t] = 0 /\ kind[t] = "session" /\ holds[t] = "no"
    /\ \A c \in Tasks : holds[c] \notin {"hand", "unpolled", "guard"}
    /\ holds' = [holds EXCEPT ![t] = "hand"]
    /\ active' = active + 1
    /\ UNCHANGED <<life, kind, spawning, stalled, doomed, panicked, torn, gauge, aborts, watched,
                   opVars, closeVars, work, opsThen>>

FirstPoll(t) ==
    /\ CanRun(t) /\ holds[t] = "unpolled"
    /\ holds' = [holds EXCEPT ![t] = "guard"]
    /\ UNCHANGED <<life, kind, spawning, stalled, doomed, panicked, torn, gaugeVars, opVars,
                   closeVars, work, opsThen>>

\* The DropGuard runs however the future goes away.
Leaves(t, returned) ==
    /\ life' = [life EXCEPT ![t] = "ended"]
    /\ gauge' = [gauge EXCEPT ![kind[t]] = @ - 1]
    /\ active' = IF holds[t] = "guard" \/ (returned /\ holds[t] = "hand") THEN active - 1
                 ELSE active
    /\ holds' = [holds EXCEPT ![t] = "no"]
    /\ UNCHANGED <<kind, spawning, stalled, aborts, watched, opVars, closeVars, work, opsThen>>

\* A task returns.  The accept loop returns on shutdown only.
Finish(t) ==
    /\ CanRun(t) /\ spawning[t] = 0 /\ holds[t] # "unpolled"
    /\ kind[t] = "accept" => shutdown
    /\ Leaves(t, TRUE)
    /\ UNCHANGED <<doomed, panicked, torn>>

\* An aborted future is dropped at the await it stands at.
Cancelled(t) ==
    /\ Live(t) /\ t \in doomed /\ spawning[t] = 0
    /\ Leaves(t, FALSE)
    /\ UNCHANGED <<doomed, panicked, torn>>

Panic(t) ==
    /\ "panic" \in TaskFaults /\ CanRun(t) /\ spawning[t] = 0 /\ panicked = {}
    /\ Leaves(t, FALSE)
    /\ panicked' = panicked \cup {t}
    /\ UNCHANGED <<doomed, torn>>

\* maybe_stall_task_exit, or any await that is never woken.
Stall(t) ==
    /\ "stall" \in TaskFaults /\ CanRun(t) /\ spawning[t] = 0 /\ kind[t] # "accept"
    /\ holds[t] # "unpolled" /\ stalled = {}
    /\ stalled' = {t}
    /\ UNCHANGED <<life, kind, spawning, holds, doomed, panicked, torn, gaugeVars, opVars,
                   closeVars, work, opsThen>>

\* spawn_tracked_watcher: forget the key, tear the panicked task's scope down.
Watch(t) ==
    /\ t \in watched /\ life[t] = "ended"
    /\ watched' = watched \ {t} /\ aborts' = aborts \ {t}
    /\ torn' = torn \cup ({t} \cap panicked)
    /\ UNCHANGED <<life, kind, spawning, holds, stalled, doomed, panicked, gauge, active, opVars,
                   closeVars, work, opsThen>>

-----------------------------------------------------------------------------
(* async_ops.rs.  A handle keeps the Arc it got from owner_ops.            *)

\* SessionHandle::spawn_counted.
BeginOp(o) ==
    /\ ops[o] = "idle" /\ \A p \in 1..o - 1 : ops[p] # "idle"
    /\ ops' = [ops EXCEPT ![o] = IF closer = "ok" THEN "late" ELSE "pending"]
    /\ ownerOps' = ownerOps + 1
    /\ UNCHANGED <<taskVars, gaugeVars, entry, closeVars, work, opsThen>>

\* The guard is dropped with the future.
SettleOp(o) ==
    /\ ops[o] \in {"pending", "late"}
    /\ ops' = [ops EXCEPT ![o] = "settled"]
    /\ ownerOps' = Max({0, ownerOps - 1})
    /\ UNCHANGED <<taskVars, gaugeVars, entry, closeVars, work, opsThen>>

forget_owner == entry' = (entry /\ ownerOps # 0)

-----------------------------------------------------------------------------
(* ServerHandle::close and wait_for_server_drain.                          *)

BeginPoll ==
    /\ closer' = "session" /\ seenIdle' = TRUE /\ shard' = Min(Shards)
    /\ work' = {t \in Tasks : life[t] \in {"counted", "running"} /\ kind[t] # "accept"}
    /\ opsThen' = {o \in Ops : ops[o] = "pending"}

close ==
    /\ closer = "open"
    /\ shutdown' = TRUE /\ polls' = Grace
    /\ BeginPoll
    /\ UNCHANGED <<taskVars, gaugeVars, opVars, abortTried, toAbort>>

Load(at, value, next) ==
    /\ closer = at /\ closer' = next
    /\ seenIdle' = (seenIdle /\ value = 0)
    /\ UNCHANGED <<taskVars, gaugeVars, opVars, shutdown, shard, polls, abortTried, toAbort, work, opsThen>>

\* server_task_count visits the shards of the map one by one.
CountShard ==
    /\ closer = "tracked"
    /\ seenIdle' = (seenIdle /\ {t \in aborts : ShardOf[t] = shard} = {})
    /\ IF shard = Max(Shards) THEN closer' = "ops" /\ UNCHANGED shard
       ELSE shard' = Min({x \in Shards : x > shard}) /\ UNCHANGED closer
    /\ UNCHANGED <<taskVars, gaugeVars, opVars, shutdown, polls, abortTried, toAbort, work, opsThen>>

\* owner_pending: 0 when OWNERS has no block for this server.
owner_pending == IF entry THEN ownerOps ELSE 0

\* Mutant: the tracked map is left out, and streams are loaded before sessions.
StreamsFirst ==
    \/ Load("session", gauge["stream"], "stream")
    \/ Load("stream", gauge["session"], "active")
    \/ Load("active", active, "ops")
    \/ Load("ops", owner_pending, "decide")

\* The loads of one poll, in the code's order.
LoadGauges ==
    \/ Load("session", gauge["session"], "stream")
    \/ Load("stream", gauge["stream"], "active")
    \/ Load("active", active, "tracked")
    \/ CountShard
    \/ Load("ops", owner_pending, "decide")

\* server_runtime_is_idle held: the owner's block goes, close() resolves.
DrainIdle ==
    /\ closer = "decide" /\ seenIdle
    /\ closer' = "ok" /\ forget_owner
    /\ UNCHANGED <<taskVars, gaugeVars, ops, ownerOps, shutdown, shard, seenIdle, polls, abortTried,
                   toAbort, work, opsThen>>

\* Mutant: every missed deadline starts the abort again.
DeadlineForever ==
    /\ closer = "decide" /\ ~seenIdle /\ polls = 0
    /\ closer' = "abort" /\ toAbort' = aborts /\ polls' = Abort
    /\ UNCHANGED <<taskVars, gaugeVars, opVars, shutdown, shard, seenIdle, abortTried, work, opsThen>>

\* phase_deadline: the first time abort_server_tasks collects the handles,
\* the second time close() rejects.
Deadline ==
    /\ closer = "decide" /\ ~seenIdle /\ polls = 0
    /\ IF abortTried
       THEN closer' = "timeout" /\ UNCHANGED <<toAbort, polls>>
       ELSE closer' = "abort" /\ toAbort' = aborts /\ polls' = Abort
    /\ UNCHANGED <<taskVars, gaugeVars, opVars, shutdown, shard, seenIdle, abortTried, work, opsThen>>

\* One collected entry: its key goes, its task is cancelled.
AbortOne ==
    /\ closer = "abort" /\ toAbort # {}
    /\ \E t \in toAbort :
         /\ aborts' = aborts \ {t} /\ toAbort' = toAbort \ {t}
         /\ doomed' = IF life[t] = "ended" THEN doomed ELSE doomed \cup {t}
    /\ UNCHANGED <<life, kind, spawning, holds, stalled, panicked, torn, gauge, active, watched,
                   opVars, shutdown, closer, shard, seenIdle, polls, abortTried, work, opsThen>>

\* After the last one the sessions are closed again and the loop sleeps.
AbortDone ==
    /\ closer = "abort" /\ toAbort = {}
    /\ closer' = "sleep" /\ abortTried' = TRUE
    /\ UNCHANGED <<taskVars, gaugeVars, opVars, shutdown, shard, seenIdle, polls, toAbort, work, opsThen>>

NotYet ==
    /\ closer = "decide" /\ ~seenIdle /\ polls > 0
    /\ closer' = "sleep" /\ polls' = polls - 1
    /\ UNCHANGED <<taskVars, gaugeVars, opVars, shutdown, shard, seenIdle, abortTried, toAbort, work, opsThen>>

PollAgain ==
    /\ closer = "sleep"
    /\ BeginPoll
    /\ UNCHANGED <<taskVars, gaugeVars, opVars, shutdown, polls, abortTried, toAbort>>

Drain == LoadGauges \/ DrainIdle \/ Deadline \/ AbortOne \/ AbortDone \/ NotYet \/ PollAgain

Spawning(t) == SpawnChild(t) \/ RegisterChild(t)
TaskStep(t) ==
    \/ CountChild(t) \/ Spawning(t) \/ CountSession(t) \/ FirstPoll(t) \/ Finish(t) \/ Cancelled(t)
    \/ Panic(t) \/ Stall(t) \/ Watch(t)

DrainNext ==
    \/ \E t \in Tasks : TaskStep(t)
    \/ \E o \in Ops : BeginOp(o) \/ SettleOp(o)
    \/ close \/ Drain

\* tokio runs ready tasks, drops aborted ones and wakes watchers; the drain's
\* sleep ends.  Once the endpoint is closed every task's connection is, so a
\* task that is not stalled returns.  JavaScript owes nothing.
Duty(t) == Spawning(t) \/ FirstPoll(t) \/ Cancelled(t) \/ Watch(t) \/ (shutdown /\ Finish(t))
DrainFairness == WF_drainVars(Drain) /\ \A t \in Tasks : WF_drainVars(Duty(t))

DrainSpec == DrainInit /\ [][DrainNext]_drainVars /\ DrainFairness

-----------------------------------------------------------------------------
(* Properties                                                              *)

\* The gauges never drift: each counts exactly its live or counted tasks,
\* through aborts before the first poll, panics and cancellations.
GaugesExact ==
    \A k \in Kinds :
        gauge[k] = Cardinality({t \in Tasks : kind[t] = k /\ life[t] \in {"counted", "running"}})

\* Session and stream work that existed when the last poll of a resolved
\* close() began, everything it spawned since, and every operation that was
\* in flight then is over: handing a session over to a stream task between
\* two loads hides nothing (server.rs:302-307).
DrainWaitsForWork ==
    closer = "ok" => /\ \A t \in work : life[t] = "ended"
                     /\ \A o \in opsThen : ops[o] = "settled"

\* An operation in flight stays in the count a metrics snapshot or a second
\* close() reads; only one begun after the close() resolved may count into a
\* block OWNERS no longer holds (async_ops.rs:117-122).
OpsVisible ==
    /\ ownerOps = Cardinality({o \in Ops : ops[o] \in {"pending", "late"}})
    /\ (\E o \in Ops : ops[o] = "pending") => entry

\* The abort misses nothing: when the loop goes back to sleep after it, every
\* session or stream task that was tracked and not over is cancelled, or was
\* not yet entered when the handles were collected.
NoTaskForgotten ==
    abortTried => \A t \in Tasks : Live(t) => t \in doomed \/ t \in aborts
                                        \/ \E p \in Tasks : spawning[p] = t

\* close() settles whatever tasks and operations do: both periods are finite.
CloseSettles == (closer # "open") ~> (closer \in {"ok", "timeout"})

\* A contained panic is always followed by the teardown of its scope.
PanicTornDown == (panicked # {}) ~> (torn = panicked)

\* Tasks that cannot finish by themselves are gone once the abort has hit
\* them: nothing tracked survives a close() for good.
AbortedEnd == (doomed # {}) ~> (\A t \in doomed : life[t] = "ended")

\* The drain can believe what it reads: gauges and operations are exact, idle
\* means idle, and the abort misses no task.
DrainSafe == DrainTypeOK /\ GaugesExact /\ DrainWaitsForWork /\ OpsVisible /\ NoTaskForgotten

\* close() settles, a panic is torn down, an aborted task ends.
DrainSettles == CloseSettles /\ PanicTornDown /\ AbortedEnd
=============================================================================
