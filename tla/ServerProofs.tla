---------------------------- MODULE ServerProofs -----------------------------
(***************************************************************************)
(* TLAPS proofs about TaskDrain, for any number of tasks and operations,   *)
(* any sharding and any periods.                                           *)
(*                                                                         *)
(* That a resolved close() leaves no work behind is an argument about the  *)
(* order of the loads, and WorkOver is that argument: behind the load of   *)
(* the session gauge no session task of the poll's work is left, so what   *)
(* the work spawns from there on are stream tasks only; behind the load of *)
(* the stream gauge none of them is left either, and nobody of the work    *)
(* can spawn any more.  It needs the gauges to be exact in every           *)
(* intermediate state (GaugesExact), which is why a task is counted before *)
(* it is spawned.                                                          *)
(***************************************************************************)
EXTENDS TaskDrain, ServerSetup, TLAPS, FiniteSetTheorems, WellFoundedInduction

-----------------------------------------------------------------------------
(* The invariant. *)

DrainTypes ==
    /\ life \in [Tasks -> {"free", "counted", "running", "ended"}]
    /\ kind \in [Tasks -> Kinds] /\ spawning \in [Tasks -> 0..MaxTasks]
    /\ holds \in [Tasks -> {"no", "hand", "unpolled", "guard"}]
    /\ stalled \subseteq Tasks /\ doomed \subseteq Tasks
    /\ torn \subseteq panicked /\ panicked \subseteq Tasks
    /\ gauge \in [Kinds -> Int] /\ active \in Int
    /\ aborts \subseteq Tasks /\ watched \subseteq Tasks
    /\ ops \in [Ops -> {"idle", "pending", "late", "settled"}] /\ opsThen \subseteq Ops
    /\ ownerOps \in Int /\ entry \in BOOLEAN
    /\ polls \in 0..Grace + Abort /\ toAbort \subseteq Tasks /\ work \subseteq Tasks

InGauge(k) == {t \in Tasks : kind[t] = k /\ life[t] \in {"counted", "running"}}
InFlight == {o \in Ops : ops[o] \in {"pending", "late"}}
Holders == {t \in Tasks : holds[t] # "no"}
Used == {t \in Tasks : life[t] = "ended" \/ holds[t] # "no"}

\* A session is counted by one task at most, which runs; a task that was
\* dropped with it leaves the count behind, so the ended ones bound it too.
ActiveBounded ==
    /\ \A t \in Holders : life[t] = "running" /\ active >= 1
    /\ \A t, u \in Holders : t = u
    /\ active >= 0 /\ active <= Cardinality(Used)

OpsCounted ==
    /\ OpsVisible
    /\ closer # "ok" => entry
    /\ \A o \in opsThen : ops[o] \in {"pending", "settled"}
    /\ closer \in {"decide", "ok"} /\ seenIdle => \A o \in opsThen : ops[o] = "settled"

WorkOver ==
    /\ \A t \in work : life[t] # "free" /\ kind[t] # "accept"
    /\ closer \in {"stream", "active", "tracked", "ops", "decide", "ok"} /\ seenIdle =>
          \A t \in work : kind[t] = "session" => life[t] = "ended"
    /\ closer \in {"active", "tracked", "ops", "decide", "ok"} /\ seenIdle =>
          \A t \in work : life[t] = "ended"
    /\ closer = "ok" => seenIdle

\* At every moment, not only after the abort.
Tracked ==
    \A t \in Tasks : Live(t) => t \in doomed \/ t \in aborts \/ \E p \in Tasks : spawning[p] = t

DrainInvariant == DrainTypes /\ GaugesExact /\ ActiveBounded /\ OpsCounted /\ WorkOver /\ Tracked

-----------------------------------------------------------------------------
(* Sets of tasks and of operations. *)

LEMMA TaskSets ==
    ASSUME NEW S \in SUBSET Tasks
    PROVE  IsFiniteSet(S) /\ Cardinality(S) \in 0..MaxTasks
  <1>1. IsFiniteSet(Tasks) /\ Cardinality(Tasks) = MaxTasks
    BY FS_Interval, DrainAssumption DEF Tasks
  <1>2. IsFiniteSet(S) /\ Cardinality(S) <= Cardinality(Tasks)
    BY <1>1, FS_Subset
  <1> QED
    BY <1>1, <1>2, FS_CardinalityType, DrainAssumption

LEMMA OpSets ==
    ASSUME NEW S \in SUBSET Ops
    PROVE  IsFiniteSet(S) /\ Cardinality(S) \in 0..MaxOps
  <1>1. IsFiniteSet(Ops) /\ Cardinality(Ops) = MaxOps
    BY FS_Interval, DrainAssumption DEF Ops
  <1>2. IsFiniteSet(S) /\ Cardinality(S) <= Cardinality(Ops)
    BY <1>1, FS_Subset
  <1> QED
    BY <1>1, <1>2, FS_CardinalityType, DrainAssumption

LEMMA OneMore ==
    ASSUME NEW S, IsFiniteSet(S), NEW x, x \notin S
    PROVE  Cardinality(S \cup {x}) = Cardinality(S) + 1
  BY FS_AddElement

LEMMA OneLess ==
    ASSUME NEW S, IsFiniteSet(S), NEW x \in S
    PROVE  Cardinality(S \ {x}) = Cardinality(S) - 1 /\ Cardinality(S) >= 1
  <1>1. Cardinality(S \ {x}) = Cardinality(S) - 1
    BY FS_RemoveElement
  <1>2. IsFiniteSet(S \ {x})
    BY FS_RemoveElement
  <1>3. Cardinality(S \ {x}) \in Nat /\ Cardinality(S) \in Nat
    BY <1>2, FS_CardinalityType
  <1> QED
    BY <1>1, <1>3

LEMMA NothingThere ==
    ASSUME NEW S, IsFiniteSet(S), Cardinality(S) = 0
    PROVE  S = {}
  BY FS_EmptySet

LEMMA LeastOne ==
    ASSUME NEW S \in SUBSET Nat, S # {}
    PROVE  Min(S) \in S
  <1> DEFINE R == {ss \in Nat \X Nat : ss[1] < ss[2]}
  <1>1. IsWellFoundedOn(R, Nat)
    BY NatLessThanWellFounded, Zenon DEF OpToRel
  <1>2. PICK x \in S : \A y \in S : ~(<<y, x>> \in R)
    <2> HIDE DEF R
    <2> QED
      BY <1>1, WFMin, Zenon
  <1>3. ASSUME NEW y \in S
        PROVE  x <= y
    <2>1. x \in Nat /\ y \in Nat /\ ~(<<y, x>> \in R)
      BY <1>2
    <2>2. y < x => <<y, x>> \in R
      BY <2>1
    <2> QED
      BY <2>1, <2>2
  <1> QED
    BY <1>3 DEF Min

\* The child a spawn counts.
LEMMA NextFree ==
    ASSUME DrainTypes, Free # {}
    PROVE  Min(Free) \in Tasks /\ life[Min(Free)] = "free"
  <1>1. Free \in SUBSET Nat
    BY DrainAssumption DEF Free, Tasks
  <1>2. Min(Free) \in Free
    BY <1>1, LeastOne
  <1> QED
    BY <1>2 DEF Free

-----------------------------------------------------------------------------
(* What the longer actions do. *)

LEMMA CountChildDoes ==
    ASSUME DrainTypes, NEW t \in Tasks, CountChild(t)
    PROVE  \E c \in Tasks, n \in Kinds :
             /\ life[c] = "free" /\ n = ChildKind(kind[t]) /\ life[t] = "running" /\ spawning[t] = 0
             /\ life' = [life EXCEPT ![c] = "counted"] /\ kind' = [kind EXCEPT ![c] = n]
             /\ spawning' = [spawning EXCEPT ![t] = c] /\ gauge' = [gauge EXCEPT ![n] = gauge[n] + 1]
             /\ work' \subseteq work \cup {c} /\ (t \notin work => work' = work)
             /\ UNCHANGED <<holds, stalled, doomed, panicked, torn, active, aborts, watched, opVars, closeVars, opsThen>>
  <1>1. PICK c \in Tasks : c = Min(Free) /\ life[c] = "free"
    BY NextFree DEF CountChild
  <1>2. PICK n \in Kinds : n = ChildKind(kind[t])
    BY DEF ChildKind, Kinds
  <1>3. /\ life[t] = "running" /\ spawning[t] = 0
        /\ life' = [life EXCEPT ![c] = "counted"] /\ kind' = [kind EXCEPT ![c] = n]
        /\ spawning' = [spawning EXCEPT ![t] = c] /\ gauge' = [gauge EXCEPT ![n] = gauge[n] + 1]
        /\ work' = IF t \in work THEN work \cup {c} ELSE work
        /\ UNCHANGED <<holds, stalled, doomed, panicked, torn, active, aborts, watched, opVars, closeVars, opsThen>>
    BY <1>1, <1>2 DEF CountChild, CanRun, Polled, Live
  <1> QED
    BY <1>1, <1>2, <1>3

\* A task returns, is dropped, or panics.
LEMMA EndingDoes ==
    ASSUME NEW t \in Tasks, Finish(t) \/ Cancelled(t) \/ Panic(t)
    PROVE  \E returned \in BOOLEAN :
             /\ Leaves(t, returned) /\ life[t] = "running" /\ spawning[t] = 0
             /\ doomed' = doomed /\ torn' = torn /\ panicked' \in {panicked, panicked \cup {t}}
  BY DEF Finish, Cancelled, Panic, CanRun, Polled, Live

\* The steps that leave the tasks' lives and their gauges alone.
LEMMA OtherSteps ==
    ASSUME NEW t \in Tasks, RegisterChild(t) \/ CountSession(t) \/ FirstPoll(t) \/ Stall(t) \/ Watch(t)
    PROVE  UNCHANGED <<life, kind, gauge, work, opVars, closeVars, opsThen>>
  BY DEF RegisterChild, CountSession, FirstPoll, Stall, Watch, gaugeVars

LEMMA NobodySpawned ==
    ASSUME close \/ Drain \/ (\E o \in Ops : BeginOp(o) \/ SettleOp(o)) \/ UNCHANGED drainVars
    PROVE  UNCHANGED <<life, kind, spawning, holds, gauge, active>>
  BY DEF close, Drain, LoadGauges, Load, CountShard, DrainIdle, Deadline, AbortOne, AbortDone, NotYet,
         PollAgain, BeginOp, SettleOp, taskVars, gaugeVars, drainVars

-----------------------------------------------------------------------------
(* Types. *)

LEMMA TaskTypes ==
    ASSUME DrainTypes, NEW t \in Tasks, TaskStep(t)
    PROVE  DrainTypes'
  <1> USE DEF DrainTypes
  <1>0. kind[t] \in Kinds /\ ChildKind(kind[t]) \in Kinds /\ 0 \in 0..MaxTasks
    BY DrainAssumption DEF ChildKind, Kinds
  <1>1. CASE CountChild(t)
    <2>4. PICK c \in Tasks, n \in Kinds :
            /\ life' = [life EXCEPT ![c] = "counted"] /\ kind' = [kind EXCEPT ![c] = n]
            /\ spawning' = [spawning EXCEPT ![t] = c] /\ gauge' = [gauge EXCEPT ![n] = gauge[n] + 1]
            /\ work' \subseteq work \cup {c}
            /\ UNCHANGED <<holds, stalled, doomed, panicked, torn, active, aborts, watched, opVars, closeVars, opsThen>>
      BY <1>1, CountChildDoes
    <2>2. c \in 0..MaxTasks
      BY DrainAssumption DEF Tasks
    <2>5. gauge' \in [Kinds -> Int] /\ kind' \in [Tasks -> Kinds]
      BY <2>4
    <2>6. spawning' \in [Tasks -> 0..MaxTasks] /\ life' \in [Tasks -> {"free", "counted", "running", "ended"}]
      BY <2>2, <2>4
    <2> QED
      BY <2>4, <2>5, <2>6 DEF opVars, closeVars
  <1>2. CASE SpawnChild(t)
    <2>1. spawning[t] \in Tasks
      BY <1>2, DrainAssumption DEF SpawnChild, Tasks
    <2>2. holds' \in [Tasks -> {"no", "hand", "unpolled", "guard"}]
      BY <1>2, <2>1 DEF SpawnChild
    <2> QED
      BY <1>2, <2>1, <2>2 DEF SpawnChild, gaugeVars, opVars, closeVars
  <1>3. CASE RegisterChild(t)
    <2>1. spawning[t] \in Tasks
      BY <1>3, DrainAssumption DEF RegisterChild, Tasks
    <2> QED
      BY <1>0, <1>3, <2>1 DEF RegisterChild, opVars, closeVars
  <1>4. CASE CountSession(t) \/ FirstPoll(t)
    BY <1>4 DEF CountSession, FirstPoll, gaugeVars, opVars, closeVars
  <1>6. CASE Finish(t) \/ Cancelled(t) \/ Panic(t)
    <2>1. PICK returned \in BOOLEAN :
            /\ Leaves(t, returned)
            /\ doomed' = doomed /\ torn' = torn /\ panicked' \in {panicked, panicked \cup {t}}
      BY <1>6, EndingDoes
    <2> QED
      BY <1>0, <2>1 DEF Leaves, opVars, closeVars
  <1>7. CASE Stall(t) \/ Watch(t)
    BY <1>7 DEF Stall, Watch, gaugeVars, opVars, closeVars
  <1> QED
    BY <1>1, <1>2, <1>3, <1>4, <1>6, <1>7 DEF TaskStep, Spawning

LEMMA DrainTypesStep ==
    ASSUME DrainTypes, close \/ Drain
    PROVE  DrainTypes'
  <1> USE DEF DrainTypes
  <1>1. CASE close \/ PollAgain
    <2>1. polls' \in 0..Grace + Abort
      BY <1>1, DrainAssumption DEF close, PollAgain
    <2> QED
      BY <1>1, <2>1 DEF close, PollAgain, BeginPoll, taskVars, gaugeVars, opVars
  <1>2. CASE LoadGauges
    BY <1>2 DEF LoadGauges, Load, CountShard, taskVars, gaugeVars, opVars
  <1>3. CASE DrainIdle
    BY <1>3 DEF DrainIdle, forget_owner, taskVars, gaugeVars
  <1>4. CASE Deadline
    <2>1. polls' \in 0..Grace + Abort /\ toAbort' \subseteq Tasks
      BY <1>4, DrainAssumption DEF Deadline
    <2> QED
      BY <1>4, <2>1 DEF Deadline, taskVars, gaugeVars, opVars
  <1>5. CASE AbortOne
    BY <1>5 DEF AbortOne, opVars
  <1>6. CASE AbortDone
    BY <1>6 DEF AbortDone, taskVars, gaugeVars, opVars
  <1>7. CASE NotYet
    <2>1. polls' \in 0..Grace + Abort
      BY <1>7, DrainAssumption DEF NotYet
    <2> QED
      BY <1>7, <2>1 DEF NotYet, taskVars, gaugeVars, opVars
  <1> QED
    BY <1>1, <1>2, <1>3, <1>4, <1>5, <1>6, <1>7 DEF Drain

LEMMA OpTypes ==
    ASSUME DrainTypes, NEW o \in Ops, BeginOp(o) \/ SettleOp(o)
    PROVE  DrainTypes' /\ (SettleOp(o) /\ ownerOps >= 1 => ownerOps' = ownerOps - 1)
  <1>1. Max({0, ownerOps - 1}) \in Int /\ (ownerOps >= 1 => Max({0, ownerOps - 1}) = ownerOps - 1)
    <2>1. PICK n \in Int : n = ownerOps - 1
      BY DEF DrainTypes
    <2>2. \E x \in {0, n} : \A y \in {0, n} : x >= y
      OBVIOUS
    <2>3. Max({0, n}) \in {0, n} /\ \A y \in {0, n} : Max({0, n}) >= y
      BY <2>2 DEF Max
    <2> QED
      BY <2>1, <2>3 DEF DrainTypes
  <1> QED
    BY <1>1 DEF DrainTypes, BeginOp, SettleOp, taskVars, gaugeVars, closeVars

-----------------------------------------------------------------------------
(* The gauges. *)

LEMMA GaugesSuffice ==
    ASSUME GaugesExact, NEW k \in Kinds
    PROVE  gauge[k] = Cardinality(InGauge(k))
  BY DEF GaugesExact, InGauge

LEMMA GaugesStep ==
    ASSUME DrainTypes, GaugesExact, [DrainNext]_drainVars
    PROVE  GaugesExact'
  <1> SUFFICES ASSUME NEW k \in Kinds
               PROVE  gauge'[k] = Cardinality(InGauge(k)')
    BY DEF GaugesExact, InGauge
  <1>0. gauge[k] = Cardinality(InGauge(k)) /\ gauge \in [Kinds -> Int]
        /\ life \in [Tasks -> {"free", "counted", "running", "ended"}] /\ kind \in [Tasks -> Kinds]
    BY GaugesSuffice DEF DrainTypes
  <1>a. InGauge(k) \in SUBSET Tasks /\ IsFiniteSet(InGauge(k))
    BY TaskSets DEF InGauge
  <1>1. CASE UNCHANGED <<life, kind, gauge>>
    <2>1. InGauge(k)' = InGauge(k)
      BY <1>1 DEF InGauge
    <2> QED
      BY <1>0, <1>1, <2>1
  <1>2. ASSUME NEW t \in Tasks, CountChild(t)
        PROVE  gauge'[k] = Cardinality(InGauge(k)')
    <2>1. PICK c \in Tasks, n \in Kinds :
             /\ life[c] = "free"
             /\ life' = [life EXCEPT ![c] = "counted"] /\ kind' = [kind EXCEPT ![c] = n]
             /\ gauge' = [gauge EXCEPT ![n] = gauge[n] + 1]
      BY <1>2, CountChildDoes
    <2>2. CASE n = k
      <3>1. InGauge(k)' = InGauge(k) \cup {c} /\ c \notin InGauge(k)
        BY <1>0, <2>1, <2>2 DEF InGauge
      <3> QED
        BY <1>0, <1>a, <2>1, <2>2, <3>1, OneMore
    <2>3. CASE n # k
      <3>1. InGauge(k)' = InGauge(k)
        BY <1>0, <2>1, <2>3 DEF InGauge
      <3> QED
        BY <1>0, <2>1, <2>3, <3>1
    <2> QED
      BY <2>2, <2>3
  <1>3. ASSUME NEW t \in Tasks, SpawnChild(t)
        PROVE  gauge'[k] = Cardinality(InGauge(k)')
    <2>1. PICK c : c = spawning[t] /\ life[c] = "counted" /\ life' = [life EXCEPT ![c] = "running"]
                   /\ kind' = kind /\ gauge' = gauge
      BY <1>3 DEF SpawnChild, gaugeVars
    <2>2. InGauge(k)' = InGauge(k)
      BY <1>0, <2>1 DEF InGauge
    <2> QED
      BY <1>0, <2>1, <2>2
  <1>4. ASSUME NEW t \in Tasks, Finish(t) \/ Cancelled(t) \/ Panic(t)
        PROVE  gauge'[k] = Cardinality(InGauge(k)')
    <2>1. /\ life[t] = "running" /\ life' = [life EXCEPT ![t] = "ended"] /\ kind' = kind
          /\ gauge' = [gauge EXCEPT ![kind[t]] = @ - 1]
      BY <1>4, EndingDoes DEF Leaves
    <2>2. CASE kind[t] = k
      <3>1. InGauge(k)' = InGauge(k) \ {t} /\ t \in InGauge(k)
        BY <1>0, <2>1, <2>2 DEF InGauge
      <3> QED
        BY <1>0, <1>a, <2>1, <2>2, <3>1, OneLess
    <2>3. CASE kind[t] # k
      <3>1. InGauge(k)' = InGauge(k)
        BY <1>0, <2>1, <2>3 DEF InGauge
      <3> QED
        BY <1>0, <2>1, <2>3, <3>1
    <2> QED
      BY <2>2, <2>3
  <1>5. ASSUME NEW t \in Tasks, TaskStep(t)
        PROVE  gauge'[k] = Cardinality(InGauge(k)')
    BY <1>1, <1>2, <1>3, <1>4, <1>5, OtherSteps DEF TaskStep, Spawning
  <1>6. CASE close \/ Drain \/ (\E o \in Ops : BeginOp(o) \/ SettleOp(o)) \/ UNCHANGED drainVars
    BY <1>1, <1>6, NobodySpawned
  <1> QED
    BY <1>5, <1>6 DEF DrainNext

-----------------------------------------------------------------------------
(* sessions_active. *)

LEMMA ActiveStep ==
    ASSUME DrainTypes, ActiveBounded, [DrainNext]_drainVars
    PROVE  ActiveBounded'
  <1>0. /\ life \in [Tasks -> {"free", "counted", "running", "ended"}]
        /\ holds \in [Tasks -> {"no", "hand", "unpolled", "guard"}] /\ active \in Int
    BY DEF DrainTypes
  <1>a. IsFiniteSet(Used) /\ Cardinality(Used) \in Nat
    BY TaskSets DEF Used
  <1>1. CASE UNCHANGED <<life, holds, active>>
    <2>1. Used' = Used /\ Holders' = Holders
      BY <1>1 DEF Used, Holders
    <2> QED
      BY <1>1, <2>1 DEF ActiveBounded
  <1>2. ASSUME NEW t \in Tasks, CountChild(t)
        PROVE  ActiveBounded'
    <2>1. PICK c \in Tasks : life[c] = "free" /\ life' = [life EXCEPT ![c] = "counted"] /\ holds' = holds
                             /\ active' = active
      BY <1>2, CountChildDoes
    <2>2. Used' = Used /\ Holders' = Holders
      BY <1>0, <2>1 DEF Used, Holders
    <2>3. c \notin Holders
      BY <2>1 DEF ActiveBounded
    <2> QED
      BY <1>0, <2>1, <2>2, <2>3 DEF ActiveBounded, Holders
  <1>3. ASSUME NEW t \in Tasks, SpawnChild(t)
        PROVE  ActiveBounded'
    <2>1. PICK c \in Tasks :
            /\ c = spawning[t] /\ life[c] = "counted" /\ life[t] = "running"
            /\ life' = [life EXCEPT ![c] = "running"] /\ active' = active
            /\ holds' = IF holds[t] = "hand" THEN [holds EXCEPT ![t] = "no", ![c] = "unpolled"] ELSE holds
      BY <1>3, DrainAssumption DEF SpawnChild, gaugeVars, CanRun, Polled, Live, DrainTypes, Tasks
    <2>2. c \notin Holders /\ c # t /\ c \notin Used /\ t \notin Used \ Holders
      BY <1>0, <2>1 DEF ActiveBounded, Holders, Used
    <2>3. CASE holds[t] = "hand"
      <3>1. Holders = {t} /\ t \in Used
        BY <2>3 DEF ActiveBounded, Holders, Used
      <3>2. Holders' = {c} /\ Used' = (Used \ {t}) \cup {c}
        BY <1>0, <2>1, <2>2, <2>3, <3>1 DEF Holders, Used
      <3>3. Cardinality(Used \ {t}) = Cardinality(Used) - 1 /\ IsFiniteSet(Used \ {t})
        BY <1>a, <3>1, OneLess, FS_RemoveElement
      <3>4. Cardinality(Used') = Cardinality(Used)
        BY <1>a, <2>2, <3>2, <3>3, OneMore
      <3> QED
        BY <1>0, <2>1, <3>1, <3>2, <3>4 DEF ActiveBounded
    <2>4. CASE holds[t] # "hand"
      <3>1. Holders' = Holders /\ Used' = Used
        BY <1>0, <2>1, <2>2, <2>4 DEF Holders, Used
      <3> QED
        BY <1>0, <2>1, <2>2, <3>1 DEF ActiveBounded, Holders
    <2> QED
      BY <2>3, <2>4
  <1>4. ASSUME NEW t \in Tasks, CountSession(t)
        PROVE  ActiveBounded'
    <2>1. /\ holds[t] = "no" /\ life[t] = "running" /\ holds' = [holds EXCEPT ![t] = "hand"]
          /\ active' = active + 1 /\ life' = life
      BY <1>4 DEF CountSession, CanRun, Polled, Live
    <2>2. Holders = {}
      BY <1>0, <1>4 DEF CountSession, Holders
    <2>3. Holders' = {t} /\ Used' = Used \cup {t} /\ t \notin Used
      BY <1>0, <2>1, <2>2 DEF Holders, Used
    <2>4. Cardinality(Used') = Cardinality(Used) + 1
      BY <1>a, <2>3, OneMore
    <2> QED
      BY <1>0, <1>a, <2>1, <2>3, <2>4 DEF ActiveBounded
  <1>5. ASSUME NEW t \in Tasks, FirstPoll(t)
        PROVE  ActiveBounded'
    <2>1. holds[t] = "unpolled" /\ holds' = [holds EXCEPT ![t] = "guard"] /\ life' = life /\ active' = active
      BY <1>5 DEF FirstPoll, gaugeVars
    <2>2. Holders' = Holders /\ Used' = Used
      BY <1>0, <2>1 DEF Holders, Used
    <2> QED
      BY <2>1, <2>2 DEF ActiveBounded
  <1>6. ASSUME NEW t \in Tasks, Finish(t) \/ Cancelled(t) \/ Panic(t)
        PROVE  ActiveBounded'
    <2>1. /\ life[t] = "running" /\ life' = [life EXCEPT ![t] = "ended"]
          /\ holds' = [holds EXCEPT ![t] = "no"]
          /\ active' \in {active, active - 1}
          /\ active' = active - 1 => holds[t] # "no"
      <3>1. PICK returned \in BOOLEAN : Leaves(t, returned) /\ life[t] = "running"
        BY <1>6, EndingDoes
      <3> QED
        BY <1>0, <3>1 DEF Leaves
    <2>2. Used' = Used \cup {t} /\ Holders' = Holders \ {t}
      BY <1>0, <2>1 DEF Used, Holders
    <2>3. CASE holds[t] = "no"
      <3>1. t \notin Used
        BY <2>1, <2>3 DEF Used
      <3>2. Cardinality(Used') = Cardinality(Used) + 1
        BY <1>a, <2>2, <3>1, OneMore
      <3>3. active' = active
        BY <1>0, <2>1, <2>3
      <3>4. t \notin Holders
        BY <2>3 DEF Holders
      <3>5. \A u \in Holders' : life'[u] = "running" /\ active' >= 1
        BY <1>0, <2>1, <2>2, <3>3 DEF ActiveBounded, Holders
      <3> QED
        BY <1>0, <1>a, <2>2, <3>2, <3>3, <3>5 DEF ActiveBounded
    <2>4. CASE holds[t] # "no"
      <3>1. t \in Holders /\ t \in Used
        BY <2>4 DEF Holders, Used
      <3>2. Used' = Used /\ Holders' = {}
        BY <2>2, <3>1 DEF ActiveBounded
      <3>3. active >= 1 /\ active' >= 0 /\ active' <= active
        BY <1>0, <2>1, <3>1 DEF ActiveBounded
      <3> QED
        BY <1>0, <1>a, <2>1, <3>2, <3>3 DEF ActiveBounded
    <2> QED
      BY <2>3, <2>4
  <1>7. ASSUME NEW t \in Tasks, RegisterChild(t) \/ Stall(t) \/ Watch(t)
        PROVE  UNCHANGED <<life, holds, active>>
    BY <1>7 DEF RegisterChild, Stall, Watch, gaugeVars
  <1>8. ASSUME NEW t \in Tasks, TaskStep(t)
        PROVE  ActiveBounded'
    BY <1>1, <1>2, <1>3, <1>4, <1>5, <1>6, <1>7, <1>8 DEF TaskStep, Spawning
  <1>9. CASE close \/ Drain \/ (\E o \in Ops : BeginOp(o) \/ SettleOp(o)) \/ UNCHANGED drainVars
    BY <1>1, <1>9, NobodySpawned
  <1> QED
    BY <1>8, <1>9 DEF DrainNext

-----------------------------------------------------------------------------
(* Operations. *)

\* What a step of the drain may change of what the operations' part looks at.
LEMMA TasksLeaveOps ==
    ASSUME DrainTypes, NEW t \in Tasks, TaskStep(t)
    PROVE  UNCHANGED <<opVars, closeVars, opsThen>>
  <1>1. CASE CountChild(t)
    BY <1>1 DEF CountChild
  <1>2. CASE SpawnChild(t)
    BY <1>2 DEF SpawnChild
  <1>3. CASE Finish(t) \/ Cancelled(t) \/ Panic(t)
    BY <1>3, EndingDoes DEF Leaves
  <1> QED
    BY <1>1, <1>2, <1>3, OtherSteps DEF TaskStep, Spawning

LEMMA OpsStep ==
    ASSUME DrainTypes, OpsCounted, [DrainNext]_drainVars
    PROVE  OpsCounted'
  <1> USE DEF OpsCounted
  <1>0. /\ ops \in [Ops -> {"idle", "pending", "late", "settled"}] /\ opsThen \subseteq Ops
        /\ ownerOps = Cardinality(InFlight) /\ ownerOps \in Nat /\ IsFiniteSet(InFlight)
        /\ entry \in BOOLEAN
        /\ (\E o \in Ops : ops[o] = "pending") => entry
    BY OpSets DEF DrainTypes, OpsVisible, InFlight
  <1>1. ASSUME ops' = ops, ownerOps' = ownerOps
        PROVE  /\ InFlight' = InFlight
               /\ ownerOps' = Cardinality({o \in Ops : ops'[o] \in {"pending", "late"}})
    BY <1>0, <1>1 DEF InFlight
  <1>2. CASE UNCHANGED <<opVars, closeVars, opsThen>>
    BY <1>0, <1>1, <1>2 DEF opVars, closeVars, OpsVisible
  <1>3. ASSUME NEW o \in Ops, BeginOp(o)
        PROVE  OpsCounted'
    <2>1. /\ ops[o] = "idle" /\ ownerOps' = ownerOps + 1
          /\ ops' = [ops EXCEPT ![o] = IF closer = "ok" THEN "late" ELSE "pending"]
          /\ UNCHANGED <<entry, closer, seenIdle, opsThen>>
      BY <1>3 DEF BeginOp, closeVars
    <2>2. InFlight' = InFlight \cup {o} /\ o \notin InFlight
      BY <1>0, <2>1 DEF InFlight
    <2>3. ownerOps' = Cardinality(InFlight')
      BY <1>0, <2>1, <2>2, OneMore
    <2>4. OpsVisible'
      BY <1>0, <2>1, <2>3 DEF OpsVisible, InFlight
    <2>5. o \notin opsThen
      BY <2>1
    <2> QED
      BY <1>0, <2>1, <2>4, <2>5
  <1>4. ASSUME NEW o \in Ops, SettleOp(o)
        PROVE  OpsCounted'
    <2>1. /\ ops[o] \in {"pending", "late"} /\ ops' = [ops EXCEPT ![o] = "settled"]
          /\ UNCHANGED <<entry, closer, seenIdle, opsThen>>
      BY <1>4 DEF SettleOp, closeVars
    <2>2. InFlight' = InFlight \ {o} /\ o \in InFlight
      BY <1>0, <2>1 DEF InFlight
    <2>3. Cardinality(InFlight') = Cardinality(InFlight) - 1 /\ ownerOps >= 1
      BY <1>0, <2>2, OneLess
    <2>4. ownerOps' = Cardinality(InFlight')
      BY <1>0, <1>4, <2>3, OpTypes
    <2>5. OpsVisible'
      BY <1>0, <2>1, <2>4 DEF OpsVisible, InFlight
    <2> QED
      BY <1>0, <2>1, <2>5
  <1>5. CASE close \/ PollAgain
    <2>1. /\ UNCHANGED opVars /\ closer' = "session" /\ closer # "ok"
          /\ opsThen' = {o \in Ops : ops[o] = "pending"}
      BY <1>5 DEF close, PollAgain, BeginPoll
    <2> QED
      BY <1>0, <1>1, <2>1 DEF opVars, OpsVisible
  <1>6. CASE LoadGauges
    <2>1. /\ UNCHANGED <<opVars, opsThen>> /\ closer # "ok" /\ closer' # "ok"
          /\ (seenIdle' => seenIdle) /\ closer # "decide"
          /\ closer' = "decide" => seenIdle' = (seenIdle /\ owner_pending = 0)
      BY <1>6 DEF LoadGauges, Load, CountShard
    <2>2. ASSUME closer' = "decide", seenIdle'
          PROVE  \A o \in opsThen : ops[o] = "settled"
      <3>1. entry /\ ownerOps = 0
        BY <2>1, <2>2 DEF owner_pending
      <3>2. InFlight = {}
        BY <1>0, <3>1, NothingThere
      <3> QED
        BY <1>0, <3>2 DEF InFlight
    <2> QED
      BY <1>0, <1>1, <2>1, <2>2 DEF opVars, OpsVisible
  <1>7. CASE DrainIdle
    <2>1. /\ closer = "decide" /\ seenIdle /\ seenIdle' = seenIdle /\ closer' = "ok"
          /\ UNCHANGED <<ops, ownerOps, opsThen>> /\ entry' = (entry /\ ownerOps # 0)
      BY <1>7 DEF DrainIdle, forget_owner
    <2>2. ownerOps = 0 => ~\E o \in Ops : ops[o] = "pending"
      BY <1>0, NothingThere DEF InFlight
    <2> QED
      BY <1>0, <1>1, <2>1, <2>2 DEF OpsVisible
  <1>8. CASE Deadline \/ NotYet \/ AbortDone \/ AbortOne
    <2>1. /\ UNCHANGED <<opVars, opsThen, seenIdle>> /\ closer # "ok" /\ closer' # "ok"
          /\ closer' # "decide"
      BY <1>8 DEF Deadline, NotYet, AbortDone, AbortOne
    <2> QED
      BY <1>0, <1>1, <2>1 DEF opVars, OpsVisible
  <1>9. CASE UNCHANGED drainVars
    BY <1>2, <1>9 DEF drainVars
  <1>10. ASSUME NEW t \in Tasks, TaskStep(t)
         PROVE  OpsCounted'
    BY <1>2, <1>10, TasksLeaveOps
  <1> QED
    BY <1>3, <1>4, <1>5, <1>6, <1>7, <1>8, <1>9, <1>10 DEF DrainNext, Drain

-----------------------------------------------------------------------------
(* The work. *)

LEMMA WorkStep ==
    ASSUME DrainTypes, GaugesExact, WorkOver, [DrainNext]_drainVars
    PROVE  WorkOver'
  <1> USE DEF WorkOver
  <1>0. /\ life \in [Tasks -> {"free", "counted", "running", "ended"}] /\ kind \in [Tasks -> Kinds]
        /\ work \subseteq Tasks
    BY DEF DrainTypes
  <1>1. CASE UNCHANGED <<life, kind, work, closer, seenIdle>>
    BY <1>1
  <1>2. ASSUME NEW t \in Tasks, CountChild(t)
        PROVE  WorkOver'
    <2>1. PICK c \in Tasks, n \in Kinds :
             /\ life[c] = "free" /\ n = ChildKind(kind[t]) /\ life[t] = "running"
             /\ life' = [life EXCEPT ![c] = "counted"] /\ kind' = [kind EXCEPT ![c] = n]
             /\ work' \subseteq work \cup {c} /\ (t \notin work => work' = work)
             /\ UNCHANGED <<closer, seenIdle>>
      BY <1>2, CountChildDoes DEF closeVars
    <2>2. c \notin work /\ n # "accept" /\ (kind[t] # "accept" => n = "stream")
      BY <2>1 DEF ChildKind
    <2>3. \A u \in work : life'[u] = life[u] /\ kind'[u] = kind[u]
      BY <1>0, <2>1, <2>2
    <2>4. life'[c] = "counted" /\ kind'[c] = n
      BY <1>0, <2>1
    <2>5. CASE t \in work
      BY <2>1, <2>2, <2>3, <2>4, <2>5
    <2>6. CASE t \notin work
      BY <2>1, <2>3, <2>6
    <2> QED
      BY <2>5, <2>6
  <1>3. ASSUME NEW t \in Tasks, SpawnChild(t) \/ Finish(t) \/ Cancelled(t) \/ Panic(t)
        PROVE  WorkOver'
    <2>1. PICK u : /\ life[u] \in {"counted", "running"}
                   /\ life' = [life EXCEPT ![u] = "running"] \/ life' = [life EXCEPT ![u] = "ended"]
                   /\ UNCHANGED <<kind, work, closer, seenIdle>>
      <3>1. CASE SpawnChild(t)
        <4>1. /\ life[spawning[t]] = "counted" /\ life' = [life EXCEPT ![spawning[t]] = "running"]
              /\ UNCHANGED <<kind, work, closer, seenIdle>>
          BY <3>1 DEF SpawnChild, closeVars
        <4> WITNESS spawning[t]
        <4> QED
          BY <4>1
      <3>2. CASE Finish(t) \/ Cancelled(t) \/ Panic(t)
        BY <3>2, EndingDoes DEF Leaves, closeVars
      <3> QED
        BY <1>3, <3>1, <3>2
    <2>2. \A x \in work : life'[x] # "free" /\ (life[x] = "ended" => life'[x] = "ended")
      BY <1>0, <2>1
    <2> QED
      BY <2>1, <2>2
  <1>4. ASSUME NEW t \in Tasks, TaskStep(t)
        PROVE  WorkOver'
    <2>1. ASSUME RegisterChild(t) \/ CountSession(t) \/ FirstPoll(t) \/ Stall(t) \/ Watch(t)
          PROVE  UNCHANGED <<life, kind, work, closer, seenIdle>>
      BY <2>1, OtherSteps DEF closeVars
    <2> QED
      BY <1>1, <1>2, <1>3, <1>4, <2>1 DEF TaskStep, Spawning
  <1>5. CASE close \/ PollAgain
    <2>1. /\ UNCHANGED <<life, kind>> /\ closer' = "session"
          /\ work' = {t \in Tasks : life[t] \in {"counted", "running"} /\ kind[t] # "accept"}
      BY <1>5 DEF close, PollAgain, BeginPoll, taskVars
    <2> QED
      BY <2>1
  <1>6. CASE LoadGauges
    <2>1. /\ UNCHANGED <<life, kind, work>> /\ closer # "ok" /\ closer' # "ok" /\ (seenIdle' => seenIdle)
      BY <1>6 DEF LoadGauges, Load, CountShard, taskVars
    <2>2. /\ closer' \in {"stream", "active", "tracked", "ops", "decide"}
          /\ closer' = "stream" => closer = "session" /\ (seenIdle' => gauge["session"] = 0)
          /\ closer' = "active" => closer = "stream" /\ (seenIdle' => gauge["stream"] = 0)
          /\ closer' \in {"tracked", "ops", "decide"} => closer \in {"active", "tracked", "ops"}
      BY <1>6 DEF LoadGauges, Load, CountShard
    <2>3. ASSUME NEW k \in Kinds, gauge[k] = 0, NEW t \in work, kind[t] = k
          PROVE  life[t] = "ended"
      <3>1. Cardinality(InGauge(k)) = 0 /\ IsFiniteSet(InGauge(k))
        BY <2>3, GaugesSuffice, TaskSets DEF InGauge
      <3>2. InGauge(k) = {}
        BY <3>1, NothingThere
      <3> QED
        BY <1>0, <2>3, <3>2 DEF InGauge
    <2>4. \A t \in work : kind[t] \in {"session", "stream"}
      BY <1>0 DEF Kinds
    <2>5. closer' = "stream" /\ seenIdle' => \A t \in work : kind[t] = "session" => life[t] = "ended"
      BY <2>2, <2>3 DEF Kinds
    <2>6. closer' = "active" /\ seenIdle' => \A t \in work : life[t] = "ended"
      BY <2>1, <2>2, <2>3, <2>4 DEF Kinds
    <2> QED
      BY <2>1, <2>2, <2>5, <2>6
  <1>7. CASE DrainIdle
    <2>1. closer = "decide" /\ seenIdle /\ closer' = "ok" /\ UNCHANGED <<life, kind, work, seenIdle>>
      BY <1>7 DEF DrainIdle, taskVars
    <2> QED
      BY <2>1
  <1>8. CASE Deadline \/ NotYet \/ AbortDone \/ AbortOne
    <2>1. UNCHANGED <<life, kind, work, seenIdle>> /\ closer' \in {"timeout", "abort", "sleep"}
      BY <1>8 DEF Deadline, NotYet, AbortDone, AbortOne, taskVars
    <2> QED
      BY <2>1
  <1>9. ASSUME NEW o \in Ops, BeginOp(o) \/ SettleOp(o)
        PROVE  WorkOver'
    BY <1>1, <1>9 DEF BeginOp, SettleOp, taskVars, closeVars
  <1>10. CASE UNCHANGED drainVars
    BY <1>1, <1>10 DEF drainVars, taskVars, closeVars
  <1> QED
    BY <1>4, <1>5, <1>6, <1>7, <1>8, <1>9, <1>10 DEF DrainNext, Drain

-----------------------------------------------------------------------------
(* The abort handles. *)

LEMMA TrackedStep ==
    ASSUME DrainTypes, Tracked, [DrainNext]_drainVars
    PROVE  Tracked'
  <1> SUFFICES ASSUME NEW x \in Tasks, life'[x] = "running"
               PROVE  x \in doomed' \/ x \in aborts' \/ \E p \in Tasks : spawning'[p] = x
    BY DEF Tracked, Live
  <1> DEFINE Before == x \in doomed \/ x \in aborts \/ \E p \in Tasks : spawning[p] = x
  <1>0. /\ life \in [Tasks -> {"free", "counted", "running", "ended"}]
        /\ spawning \in [Tasks -> 0..MaxTasks] /\ x # 0
        /\ life[x] = "running" => Before
    BY DrainAssumption DEF DrainTypes, Tracked, Live, Tasks
  <1>1. CASE UNCHANGED <<life, spawning, doomed, aborts>>
    BY <1>0, <1>1
  <1>2. ASSUME NEW t \in Tasks, CountChild(t)
        PROVE  Before'
    <2>1. PICK c \in Tasks :
             /\ spawning[t] = 0 /\ life' = [life EXCEPT ![c] = "counted"]
             /\ spawning' = [spawning EXCEPT ![t] = c] /\ UNCHANGED <<doomed, aborts>>
      BY <1>2, CountChildDoes
    <2>2. life[x] = "running"
      BY <1>0, <2>1
    <2>3. \A p \in Tasks : spawning[p] = x => spawning'[p] = x
      BY <1>0, <2>1
    <2> QED
      BY <1>0, <2>1, <2>2, <2>3
  <1>3. ASSUME NEW t \in Tasks, SpawnChild(t)
        PROVE  Before'
    <2>1. /\ life' = [life EXCEPT ![spawning[t]] = "running"] /\ UNCHANGED <<spawning, doomed, aborts>>
      BY <1>3 DEF SpawnChild, gaugeVars
    <2>2. x = spawning[t] \/ life[x] = "running"
      BY <1>0, <2>1
    <2> QED
      BY <1>0, <2>1, <2>2
  <1>4. ASSUME NEW t \in Tasks, RegisterChild(t)
        PROVE  Before'
    <2>1. /\ life' = life /\ aborts' = aborts \cup {spawning[t]}
          /\ spawning' = [spawning EXCEPT ![t] = 0] /\ doomed' = doomed
      BY <1>4 DEF RegisterChild
    <2>2. \A p \in Tasks : spawning[p] = x => p = t \/ spawning'[p] = x
      BY <1>0, <2>1
    <2> QED
      BY <1>0, <2>1, <2>2
  <1>5. ASSUME NEW t \in Tasks, Finish(t) \/ Cancelled(t) \/ Panic(t)
        PROVE  Before'
    <2>1. /\ life' = [life EXCEPT ![t] = "ended"] /\ UNCHANGED <<spawning, doomed, aborts>>
      BY <1>5, EndingDoes DEF Leaves
    <2>2. life[x] = "running"
      BY <1>0, <2>1
    <2> QED
      BY <1>0, <2>1, <2>2
  <1>6. ASSUME NEW t \in Tasks, Watch(t)
        PROVE  Before'
    <2>1. life[t] = "ended" /\ life' = life /\ aborts' = aborts \ {t} /\ UNCHANGED <<spawning, doomed>>
      BY <1>6 DEF Watch
    <2>2. x # t
      BY <2>1
    <2> QED
      BY <1>0, <2>1, <2>2
  <1>7. ASSUME NEW t \in Tasks, CountSession(t) \/ FirstPoll(t) \/ Stall(t)
        PROVE  Before'
    BY <1>1, <1>7 DEF CountSession, FirstPoll, Stall, gaugeVars
  <1>8. ASSUME NEW t \in Tasks, TaskStep(t)
        PROVE  Before'
    BY <1>2, <1>3, <1>4, <1>5, <1>6, <1>7, <1>8 DEF TaskStep, Spawning
  <1>9. CASE AbortOne
    <2>1. PICK t \in toAbort :
             /\ aborts' = aborts \ {t}
             /\ doomed' = IF life[t] = "ended" THEN doomed ELSE doomed \cup {t}
      BY <1>9 DEF AbortOne
    <2>2. UNCHANGED <<life, spawning>>
      BY <1>9 DEF AbortOne
    <2> QED
      BY <1>0, <2>1, <2>2
  <1>10. CASE \/ close \/ LoadGauges \/ DrainIdle \/ Deadline \/ AbortDone \/ NotYet \/ PollAgain
              \/ UNCHANGED drainVars
    BY <1>1, <1>10 DEF close, LoadGauges, Load, CountShard, DrainIdle, Deadline, AbortDone, NotYet,
                       PollAgain, taskVars, gaugeVars, drainVars
  <1>11. ASSUME NEW o \in Ops, BeginOp(o) \/ SettleOp(o)
         PROVE  Before'
    BY <1>1, <1>11 DEF BeginOp, SettleOp, taskVars, gaugeVars
  <1> QED
    BY <1>8, <1>9, <1>10, <1>11 DEF DrainNext, Drain

-----------------------------------------------------------------------------
(* The invariant holds. *)

LEMMA DrainStarts ==
    ASSUME DrainInit
    PROVE  DrainInvariant
  <1> USE DEF DrainInit
  <1>0. 1 \in Tasks
    BY DrainAssumption DEF Tasks
  <1>1. DrainTypes
    BY <1>0, DrainAssumption DEF DrainTypes, Kinds
  <1>2. GaugesExact
    <2> SUFFICES ASSUME NEW k \in Kinds
                 PROVE  gauge[k] = Cardinality(InGauge(k))
      BY DEF GaugesExact, InGauge
    <2>1. CASE k = "accept"
      <3>1. InGauge(k) = {1}
        BY <1>0, <2>1 DEF InGauge
      <3> QED
        BY <2>1, <3>1, FS_Singleton
    <2>2. CASE k # "accept"
      <3>1. InGauge(k) = {}
        BY <2>2 DEF InGauge
      <3> QED
        BY <2>2, <3>1, FS_EmptySet
    <2> QED
      BY <2>1, <2>2
  <1>3. ActiveBounded
    <2>1. Holders = {} /\ Used = {}
      BY DEF Holders, Used
    <2> QED
      BY <2>1, FS_EmptySet DEF ActiveBounded
  <1>4. OpsCounted
    <2>1. InFlight = {}
      BY DEF InFlight
    <2>2. ownerOps = Cardinality({o \in Ops : ops[o] \in {"pending", "late"}})
      BY <2>1, FS_EmptySet DEF InFlight
    <2> QED
      BY <2>2 DEF OpsCounted, OpsVisible
  <1>5. WorkOver
    BY DEF WorkOver
  <1>6. Tracked
    BY DEF Tracked, Live
  <1> QED
    BY <1>1, <1>2, <1>3, <1>4, <1>5, <1>6 DEF DrainInvariant

LEMMA DrainGoesOn ==
    ASSUME DrainInvariant, [DrainNext]_drainVars
    PROVE  DrainInvariant'
  <1> USE DEF DrainInvariant
  <1>1. DrainTypes'
    <2>1. CASE UNCHANGED drainVars
      BY <2>1 DEF DrainTypes, drainVars, taskVars, gaugeVars, opVars, closeVars
    <2> QED
      BY <2>1, TaskTypes, OpTypes, DrainTypesStep DEF DrainNext
  <1> QED
    BY <1>1, GaugesStep, ActiveStep, OpsStep, WorkStep, TrackedStep

LEMMA DrainFollows ==
    ASSUME DrainInvariant
    PROVE  DrainSafe
  <1> USE DEF DrainInvariant
  <1>1. gauge \in [Kinds -> 0..MaxTasks]
    <2>1. \A k \in Kinds : InGauge(k) \in SUBSET Tasks
      BY DEF InGauge
    <2> QED
      BY <2>1, GaugesSuffice, TaskSets DEF DrainTypes
  <1>2. active \in 0..MaxTasks
    <2>1. Used \in SUBSET Tasks
      BY DEF Used
    <2>2. Cardinality(Used) \in 0..MaxTasks
      BY <2>1, TaskSets
    <2> QED
      BY <2>2, DrainAssumption DEF ActiveBounded, DrainTypes
  <1>3. ownerOps \in 0..MaxOps
    <2>1. InFlight \in SUBSET Ops /\ ownerOps = Cardinality(InFlight)
      BY DEF InFlight, OpsCounted, OpsVisible
    <2> QED
      BY <2>1, OpSets
  <1>4. DrainTypeOK
    BY <1>1, <1>2, <1>3 DEF DrainTypeOK, DrainTypes
  <1>5. DrainWaitsForWork
    BY DEF DrainWaitsForWork, WorkOver, OpsCounted
  <1>6. OpsVisible /\ NoTaskForgotten
    BY DEF OpsCounted, NoTaskForgotten, Tracked
  <1> QED
    BY <1>4, <1>5, <1>6 DEF DrainSafe

\* The drain can believe what it reads, for any number of tasks, operations
\* and polls: the gauges are exact in every state although tasks are aborted,
\* dropped unpolled and panicking (spawn_tracked.rs), a resolved close() has
\* left no work and no operation of its last poll (server.rs:
\* wait_for_server_drain), and every running task can be aborted.
THEOREM DrainCorrect == DrainSpec => []DrainSafe
  <1>1. DrainInvariant /\ [DrainNext]_drainVars => DrainInvariant'
    BY DrainGoesOn
  <1> QED
    BY <1>1, DrainStarts, DrainFollows, PTL DEF DrainSpec

-----------------------------------------------------------------------------
(* Starting.  What makes an instance that is up hold its slot is a chain:  *)
(* the constructor believes an "ok" that only a task past all its steps    *)
(* sends; that task keeps its socket until the shutdown signal, which the  *)
(* constructor holds as long as it has not failed; and the kernel frees    *)
(* only the slots of closed sockets.                                       *)

Bound == {"steer", "attach", "runtime", "report", "spawn", "accepting"}
Slotted == Bound \ {"steer"}
Steered == Slotted \ {"attach"}

Standing(i) ==
    /\ ctor[i] = "new" => attempt[i] = 0
    /\ ctor[i] \in {"wait", "pacer", "up"} => signal[i] = "held"
    /\ ctor[i] = "wait" /\ reply[i] = "ok" => boot[i] \in {"spawn", "accepting"}
    /\ ctor[i] \in {"pacer", "up"} => boot[i] \in {"spawn", "accepting"}
    /\ boot[i] \in Bound => i \in sockets
    /\ OptionsOf[i].steering =>
          /\ boot[i] \in Slotted => slot[OptionsOf[i].key] = i
          /\ boot[i] \in Steered /\ OptionsOf[i].attach => program

StartInvariant == StartTypeOK /\ \A i \in Instances : Standing(i)

\* The steps of the constructor's thread and of the start-up task.
Constructing(i) == Construct(i) \/ Answered(i) \/ TimedOut(i) \/ InstallPacer(i) \/ CloseServer(i)

LEMMA ConstructingTypes ==
    ASSUME StartInvariant, NEW i \in Instances, Constructing(i)
    PROVE  /\ StartTypeOK' /\ UNCHANGED <<sockets, slot, program, readers>>
           /\ \A j \in Instances \ {i} : /\ ctor'[j] = ctor[j] /\ attempt'[j] = attempt[j] /\ reply'[j] = reply[j]
                                         /\ signal'[j] = signal[j] /\ boot'[j] = boot[j]
  <1> USE DEF StartInvariant, StartTypeOK, Boots
  <1>0. Standing(i) /\ Retries \in Nat \ {0}
    BY StartAssumption
  <1>1. ASSUME Attempt(i), attempt[i] < Retries, ctor' \in {ctor, [ctor EXCEPT ![i] = "wait"]},
               UNCHANGED <<sockets, slot, program, readers>>
        PROVE  /\ StartTypeOK'
               /\ \A j \in Instances \ {i} : /\ ctor'[j] = ctor[j] /\ attempt'[j] = attempt[j]
                                             /\ reply'[j] = reply[j] /\ signal'[j] = signal[j] /\ boot'[j] = boot[j]
    <2>1. attempt[i] + 1 \in 0..Retries
      BY <1>0, <1>1
    <2> QED
      BY <1>1, <2>1 DEF Attempt
  <1>2. CASE Construct(i)
    <2>1. attempt[i] < Retries
      BY <1>0, <1>2 DEF Construct, Standing
    <2> QED
      BY <1>1, <1>2, <2>1 DEF Construct
  <1>3. CASE Answered(i)
    <2>1. CASE reply[i] = "ok"
      BY <1>3, <2>1 DEF Answered
    <2>2. CASE reply[i] = "inUse" /\ attempt[i] < Retries
      BY <1>1, <1>3, <2>2 DEF Answered
    <2>3. CASE ~(reply[i] = "ok") /\ ~(reply[i] = "inUse" /\ attempt[i] < Retries)
      BY <1>3, <2>3 DEF Answered, GiveUp
    <2> QED
      BY <2>1, <2>2, <2>3
  <1>4. CASE TimedOut(i)
    BY <1>4 DEF TimedOut, GiveUp
  <1>5. CASE InstallPacer(i)
    BY <1>5 DEF InstallPacer
  <1>6. CASE CloseServer(i)
    BY <1>6 DEF CloseServer
  <1> QED
    BY <1>2, <1>3, <1>4, <1>5, <1>6 DEF Constructing

LEMMA ConstructingStands ==
    ASSUME StartInvariant, NEW i \in Instances, Constructing(i)
    PROVE  Standing(i)'
  <1>0. /\ Standing(i) /\ boot \in [Instances -> Boots]
        /\ ctor \in [Instances -> {"new", "wait", "pacer", "up", "closed", "error"}]
        /\ attempt \in [Instances -> 0..Retries]
        /\ reply \in [Instances -> {"none", "ok", "inUse", "err"}]
        /\ signal \in [Instances -> {"held", "fired"}]
        /\ UNCHANGED <<sockets, slot, program, readers>>
    BY ConstructingTypes DEF StartInvariant, StartTypeOK
  <1>1. ASSUME Attempt(i), ctor'[i] = "wait"
        PROVE  Standing(i)'
    <2>1. boot'[i] = "bind" /\ reply'[i] = "none" /\ signal'[i] = "held"
      BY <1>0, <1>1 DEF Attempt
    <2> QED
      BY <1>1, <2>1 DEF Standing, Bound, Slotted, Steered
  <1>2. ASSUME ctor'[i] \in {"error", "closed"}, UNCHANGED boot
        PROVE  Standing(i)'
    BY <1>0, <1>2 DEF Standing
  <1>3. CASE Construct(i)
    <2>1. CASE Refused(OptionsOf[i])
      BY <1>0, <1>2, <1>3, <2>1 DEF Construct
    <2>2. CASE ~Refused(OptionsOf[i])
      BY <1>0, <1>1, <1>3, <2>2 DEF Construct
    <2> QED
      BY <2>1, <2>2
  <1>4. CASE Answered(i)
    <2>1. CASE reply[i] = "ok"
      <3>1. /\ ctor[i] = "wait" /\ ctor' = [ctor EXCEPT ![i] = "pacer"] /\ UNCHANGED <<attempt, reply, signal, boot>>
        BY <1>4, <2>1 DEF Answered
      <3> QED
        BY <1>0, <2>1, <3>1 DEF Standing
    <2>2. CASE reply[i] = "inUse" /\ attempt[i] < Retries
      BY <1>0, <1>1, <1>4, <2>2 DEF Answered
    <2>3. CASE ~(reply[i] = "ok") /\ ~(reply[i] = "inUse" /\ attempt[i] < Retries)
      BY <1>0, <1>2, <1>4, <2>3 DEF Answered, GiveUp
    <2> QED
      BY <2>1, <2>2, <2>3
  <1>5. CASE TimedOut(i)
    BY <1>0, <1>2, <1>5 DEF TimedOut, GiveUp
  <1>6. CASE InstallPacer(i)
    <2>1. CASE ctor'[i] = "up"
      <3>1. ctor[i] = "pacer" /\ UNCHANGED <<signal, attempt, reply, boot>>
        BY <1>0, <1>6, <2>1 DEF InstallPacer
      <3> QED
        BY <1>0, <2>1, <3>1 DEF Standing
    <2>2. CASE ctor'[i] = "error"
      BY <1>2, <1>6, <2>2 DEF InstallPacer
    <2> QED
      BY <1>0, <1>6, <2>1, <2>2 DEF InstallPacer
  <1>7. CASE CloseServer(i)
    BY <1>0, <1>2, <1>7 DEF CloseServer
  <1> QED
    BY <1>3, <1>4, <1>5, <1>6, <1>7 DEF Constructing

\* A step of the start-up task: where it goes from where, and what it leaves.
LEMMA BootTypes ==
    ASSUME StartInvariant, NEW i \in Instances, Boot(i)
    PROVE  /\ StartTypeOK' /\ UNCHANGED <<ctor, attempt, heard, signal>>
           /\ \A j \in Instances \ {i} : /\ boot'[j] = boot[j] /\ reply'[j] = reply[j]
                                         /\ (j \in sockets' <=> j \in sockets)
           /\ \A k \in Slots : slot[k] # NoOne => slot'[k] = slot[k]
           /\ program => program'
  <1> USE DEF StartInvariant, StartTypeOK, Boots, Goto, Fails
  <1>1. CASE Bind(i)
    <2>1. boot' \in [Instances -> Boots]
      BY <1>1 DEF Bind
    <2> QED
      BY <1>1, <2>1 DEF Bind
  <1>2. CASE Steer(i)
    <2>1. boot' \in [Instances -> Boots] /\ OptionsOf[i].key \in Slots
      BY <1>2, StartAssumption DEF Steer
    <2> QED
      BY <1>2, <2>1 DEF Steer
  <1>3. CASE Attach(i)
    <2>1. program' \in BOOLEAN /\ (program => program')
      BY <1>3 DEF Attach
    <2>2. boot' \in [Instances -> Boots] /\ sockets' \subseteq Instances /\ readers' \subseteq Instances
          /\ reply' \in [Instances -> {"none", "ok", "inUse", "err"}]
      BY <1>3 DEF Attach
    <2>3. \A j \in Instances \ {i} : /\ boot'[j] = boot[j] /\ reply'[j] = reply[j]
                                      /\ (j \in sockets' <=> j \in sockets)
      BY <1>3 DEF Attach
    <2> QED
      BY <1>3, <2>1, <2>2, <2>3 DEF Attach
  <1>4. CASE Runtime(i)
    BY <1>4 DEF Runtime
  <1>5. CASE Report(i)
    BY <1>5 DEF Report
  <1>6. CASE SpawnAccept(i)
    BY <1>6 DEF SpawnAccept
  <1>7. CASE AcceptStops(i)
    BY <1>7 DEF AcceptStops
  <1> QED
    BY <1>1, <1>2, <1>3, <1>4, <1>5, <1>6, <1>7 DEF Boot

LEMMA BootStands ==
    ASSUME StartInvariant, NEW i \in Instances, Boot(i)
    PROVE  Standing(i)'
  <1>0. /\ Standing(i) /\ boot \in [Instances -> Boots] /\ UNCHANGED <<ctor, attempt, heard, signal>>
        /\ reply \in [Instances -> {"none", "ok", "inUse", "err"}]
        /\ slot \in [Slots -> Instances \cup {NoOne}]
    BY BootTypes DEF StartInvariant, StartTypeOK
  <1> USE DEF Bound, Slotted, Steered
  \* It fails: it was not past its report, so nobody believes it is up.
  <1>1. ASSUME NEW why \in {"inUse", "err"}, Fails(i, why), boot[i] \in {"bind", "steer", "attach", "runtime"}
        PROVE  Standing(i)'
    <2>1. boot'[i] = "over" /\ reply'[i] \in {why, reply[i]}
      BY <1>0, <1>1 DEF Fails
    <2>2. ctor[i] \notin {"pacer", "up"} /\ ~(ctor[i] = "wait" /\ reply[i] = "ok")
      BY <1>0, <1>1 DEF Standing
    <2> QED
      BY <1>0, <2>1, <2>2 DEF Standing
  \* It goes on, and has what the next place asks for.
  <1>2. ASSUME NEW b \in Bound, Goto(i, b), UNCHANGED reply, i \in sockets',
               boot[i] \in {"bind", "steer", "attach", "runtime"},
               OptionsOf[i].steering /\ b \in Slotted => slot'[OptionsOf[i].key] = i,
               OptionsOf[i].steering /\ b \in Steered /\ OptionsOf[i].attach => program'
        PROVE  Standing(i)'
    <2>1. boot'[i] = b
      BY <1>0, <1>2 DEF Goto
    <2>2. ctor[i] \notin {"pacer", "up"} /\ ~(ctor[i] = "wait" /\ reply[i] = "ok")
      BY <1>0, <1>2 DEF Standing
    <2> QED
      BY <1>0, <1>2, <2>1, <2>2 DEF Standing
  <1>3. CASE Bind(i)
    <2>1. CASE Fails(i, "inUse") \/ Fails(i, "err")
      BY <1>1, <1>3, <2>1 DEF Bind
    <2>2. CASE sockets' = sockets \cup {i} /\ UNCHANGED reply
               /\ Goto(i, IF OptionsOf[i].steering THEN "steer" ELSE "runtime")
      BY <1>2, <1>3, <2>2 DEF Bind
    <2> QED
      BY <1>3, <2>1, <2>2 DEF Bind
  <1>4. CASE Steer(i)
    <2>1. CASE Fails(i, "inUse")
      BY <1>1, <1>4, <2>1 DEF Steer
    <2>2. CASE /\ slot' = [slot EXCEPT ![OptionsOf[i].key] = i] /\ UNCHANGED <<sockets, reply>>
               /\ Goto(i, IF OptionsOf[i].attach THEN "attach" ELSE "runtime")
      <3>1. boot[i] = "steer" /\ i \in sockets' /\ slot'[OptionsOf[i].key] = i
        BY <1>0, <1>4, <2>2, StartAssumption DEF Steer, Standing
      <3> QED
        BY <1>2, <2>2, <3>1
    <2> QED
      BY <1>4, <2>1, <2>2 DEF Steer
  <1>5. CASE Attach(i)
    <2>1. CASE Fails(i, "err")
      BY <1>1, <1>5, <2>1 DEF Attach
    <2>2. CASE program' = TRUE /\ Goto(i, "runtime") /\ UNCHANGED <<sockets, reply>>
      <3>1. boot[i] = "attach" /\ i \in sockets' /\ slot' = slot
        BY <1>0, <1>5, <2>2 DEF Attach, Standing
      <3>2. OptionsOf[i].steering => slot'[OptionsOf[i].key] = i
        BY <1>0, <3>1 DEF Standing
      <3> QED
        BY <1>2, <2>2, <3>1, <3>2
    <2> QED
      BY <1>5, <2>1, <2>2 DEF Attach
  <1>6. CASE Runtime(i)
    <2>1. CASE Fails(i, "err")
      BY <1>1, <1>6, <2>1 DEF Runtime
    <2>2. CASE Goto(i, "report") /\ UNCHANGED <<sockets, reply>>
      <3>1. boot[i] = "runtime" /\ i \in sockets' /\ slot' = slot /\ program' = program
        BY <1>0, <1>6, <2>2 DEF Runtime, Standing
      <3>2. OptionsOf[i].steering => slot'[OptionsOf[i].key] = i /\ (OptionsOf[i].attach => program')
        BY <1>0, <3>1 DEF Standing
      <3> QED
        BY <1>2, <2>2, <3>1, <3>2
    <2> QED
      BY <1>6, <2>1, <2>2 DEF Runtime
  <1>7. CASE Report(i) \/ SpawnAccept(i)
    <2>1. /\ boot[i] \in {"report", "spawn"} /\ boot'[i] \in {"spawn", "accepting"}
          /\ UNCHANGED <<sockets, slot, program>>
      BY <1>0, <1>7 DEF Report, SpawnAccept, Goto
    <2> QED
      BY <1>0, <2>1 DEF Standing
  <1>8. CASE AcceptStops(i)
    <2>1. signal[i] = "fired" /\ boot'[i] = "over" /\ UNCHANGED reply
      BY <1>0, <1>8 DEF AcceptStops, Goto
    <2> QED
      BY <1>0, <2>1 DEF Standing
  <1> QED
    BY <1>3, <1>4, <1>5, <1>6, <1>7, <1>8 DEF Boot

LEMMA StartGoesOn ==
    ASSUME StartInvariant, [StartNext]_startVars
    PROVE  StartInvariant'
  <1> USE DEF StartInvariant
  <1>1. ASSUME NEW i \in Instances, Constructing(i)
        PROVE  StartInvariant'
    <2>1. ASSUME NEW j \in Instances \ {i}
          PROVE  Standing(j)'
      <3>1. /\ ctor'[j] = ctor[j] /\ attempt'[j] = attempt[j] /\ reply'[j] = reply[j] /\ signal'[j] = signal[j]
            /\ boot'[j] = boot[j] /\ UNCHANGED <<sockets, slot, program>>
        BY <1>1, ConstructingTypes
      <3> QED
        BY <3>1 DEF Standing
    <2> QED
      BY <1>1, <2>1, ConstructingTypes, ConstructingStands
  <1>2. ASSUME NEW i \in Instances, Boot(i)
        PROVE  StartInvariant'
    <2>1. ASSUME NEW j \in Instances \ {i}
          PROVE  Standing(j)'
      <3>1. /\ boot'[j] = boot[j] /\ reply'[j] = reply[j] /\ (j \in sockets' <=> j \in sockets)
            /\ UNCHANGED <<ctor, attempt, signal>> /\ (program => program')
        BY <1>2, BootTypes
      <3>2. slot[OptionsOf[j].key] = j => slot'[OptionsOf[j].key] = j
        BY <1>2, BootTypes, StartAssumption
      <3>3. Standing(j)
        OBVIOUS
      <3>4. OptionsOf[j].steering =>
              /\ boot'[j] \in Slotted => slot'[OptionsOf[j].key] = j
              /\ boot'[j] \in Steered /\ OptionsOf[j].attach => program'
        BY <3>1, <3>2, <3>3 DEF Standing
      <3> QED
        BY <3>1, <3>3, <3>4 DEF Standing
    <2> QED
      BY <1>2, <2>1, BootTypes, BootStands
  <1>3. ASSUME NEW k \in Slots, SlotFreed(k)
        PROVE  StartInvariant'
    <2>1. /\ slot[k] \notin sockets /\ slot' = [slot EXCEPT ![k] = NoOne]
          /\ program' = (program /\ sockets # {})
          /\ UNCHANGED <<ctor, attempt, reply, heard, signal, boot, sockets, readers>>
      BY <1>3 DEF SlotFreed
    <2>2. StartTypeOK'
      BY <2>1 DEF StartTypeOK
    <2>3. ASSUME NEW j \in Instances
          PROVE  Standing(j)'
      <3>1. boot[j] \in Slotted => j \in sockets
        BY DEF Standing, Slotted
      <3>2. boot[j] \in Slotted /\ slot[OptionsOf[j].key] = j => slot'[OptionsOf[j].key] = j
        BY <2>1, <3>1, StartAssumption DEF StartTypeOK
      <3>3. boot[j] \in Steered /\ program => program'
        BY <2>1, <3>1 DEF Steered
      <3> QED
        BY <2>1, <3>2, <3>3 DEF Standing, Steered
    <2> QED
      BY <2>2, <2>3
  <1>4. CASE UNCHANGED startVars
    BY <1>4 DEF startVars, StartTypeOK, Standing
  <1> QED
    BY <1>1, <1>2, <1>3, <1>4 DEF StartNext, Constructing

LEMMA StartStarts ==
    ASSUME StartInit
    PROVE  StartInvariant
  <1>1. StartTypeOK
    <2>1. heard \in [Instances -> BOOLEAN] /\ program \in BOOLEAN
      BY Zenon DEF StartInit
    <2>2. 0 \in 0..Retries
      BY StartAssumption
    <2>3. /\ ctor \in [Instances -> {"new", "wait", "pacer", "up", "closed", "error"}]
          /\ reply \in [Instances -> {"none", "ok", "inUse", "err"}]
          /\ signal \in [Instances -> {"held", "fired"}]
          /\ boot \in [Instances -> Boots]
      BY DEF StartInit, Boots
    <2>4. attempt \in [Instances -> 0..Retries] /\ slot \in [Slots -> Instances \cup {NoOne}]
      BY <2>2 DEF StartInit
    <2> QED
      BY <2>1, <2>3, <2>4 DEF StartInit, StartTypeOK
  <1>2. ASSUME NEW i \in Instances
        PROVE  Standing(i)
    <2>1. ctor[i] = "new" /\ attempt[i] = 0 /\ boot[i] = "none"
      BY DEF StartInit
    <2> QED
      BY <2>1 DEF Standing, Bound, Slotted, Steered
  <1> QED
    BY <1>1, <1>2 DEF StartInvariant

\* Fail closed, for any instances, options and steering slots: an instance
\* that is up and asked to be steered holds its slot, with the program
\* attached if that was its task (reuseport_steering.rs:8-11, lib.rs).
THEOREM SteeredCorrect == StartSpec => [](StartTypeOK /\ SteeredOrFailed)
  <1>1. StartInvariant /\ [StartNext]_startVars => StartInvariant'
    BY StartGoesOn
  <1>2. StartInvariant => StartTypeOK /\ SteeredOrFailed
    BY DEF StartInvariant, SteeredOrFailed, Standing, Slotted, Steered, Bound
  <1> QED
    BY <1>1, <1>2, StartStarts, PTL DEF StartSpec

\* A sibling with the same key never takes the slot of a live instance:
\* BPF_NOEXIST on one side, the kernel's own removal on the other.
THEOREM NobodyEvicted == StartInit /\ [][StartNext]_startVars => NoEviction
  <1>1. ASSUME StartInvariant, [StartNext]_startVars, NEW k \in Slots, slot[k] \in sockets
        PROVE  slot'[k] = slot[k]
    <2>1. slot[k] # NoOne /\ slot \in [Slots -> Instances \cup {NoOne}]
      BY <1>1, StartAssumption DEF StartInvariant, StartTypeOK
    <2>2. ASSUME NEW i \in Instances, Constructing(i)
          PROVE  slot' = slot
      BY <1>1, <2>2, ConstructingTypes
    <2>3. ASSUME NEW i \in Instances, Boot(i)
          PROVE  slot'[k] = slot[k]
      BY <1>1, <2>1, <2>3, BootTypes
    <2>4. ASSUME NEW q \in Slots, SlotFreed(q)
          PROVE  slot'[k] = slot[k]
      BY <1>1, <2>1, <2>4 DEF SlotFreed
    <2> QED
      BY <1>1, <2>2, <2>3, <2>4 DEF StartNext, Constructing, startVars
  <1>2. StartInvariant /\ [StartNext]_startVars
          => [\A k \in Slots : slot[k] \in sockets /\ slot[k] \in sockets' => slot'[k] = slot[k]]_startVars
    BY <1>1
  <1>3. StartInvariant /\ [StartNext]_startVars => StartInvariant'
    BY StartGoesOn
  <1> QED
    BY <1>2, <1>3, StartStarts, PTL DEF StartSpec, NoEviction

-----------------------------------------------------------------------------
(* Certificates. *)

\* SNI entries were only ever accepted beside an explicit default, and an
\* explicit default is never taken back.
TlsInvariant == TlsTypeOK /\ (explicit => default # "dev") /\ (byName # NoMap => explicit)

\* What each entry point may do to the certificates.
Accepted ==
    /\ open /\ outcome' = "ok" /\ UNCHANGED <<open, hello, counts>>
    /\ default' \in Certs \/ (default' = default /\ explicit)
    /\ explicit' = TRUE
    /\ byName' \in [Names -> Certs \cup {NoCert}] /\ policy' \in Policies

LEMMA GoodList ==
    ASSUME NEW list \in SniLists, Parses(list)
    PROVE  MapOf(list) \in [Names -> Certs \cup {NoCert}]
  <1>1. \A i \in DOMAIN list : list[i].pem \in Certs
    BY TlsAssumption DEF Parses
  <1>2. ASSUME NEW n \in Names, \E i \in DOMAIN list : Canon[list[i].name] = n
        PROVE  list[CHOOSE i \in DOMAIN list : Canon[list[i].name] = n].pem \in Certs
    <2>1. (CHOOSE i \in DOMAIN list : Canon[list[i].name] = n) \in DOMAIN list
      BY <1>2
    <2> QED
      BY <1>1, <2>1
  <1> QED
    BY <1>2 DEF MapOf

LEMMA RotateDoes ==
    ASSUME TlsTypeOK, Rotate
    PROVE  Accepted \/ Refuse
  <1> USE DEF TlsTypeOK
  <1>0. NoCert \in Certs \cup {NoCert}
    OBVIOUS
  <1>1. ASSUME NEW pem \in Pems, UpdateCert(pem)
        PROVE  Accepted \/ Refuse
    BY <1>1 DEF UpdateCert, Accepted, Answer, Pems
  <1>2. ASSUME NEW pem \in Pems, NEW list \in SniLists, NEW p \in Policies, UpdateTls(pem, list, p)
        PROVE  Accepted \/ Refuse
    BY <1>2, GoodList DEF UpdateTls, Accepted, Answer, Pems
  <1>3. ASSUME NEW list \in SniLists, ReplaceSni(list)
        PROVE  Accepted \/ Refuse
    BY <1>3, GoodList DEF ReplaceSni, Accepted, Answer
  <1>4. ASSUME NEW name \in Spelled, NEW pem \in Pems, UpsertSni(name, pem)
        PROVE  Accepted \/ Refuse
    BY <1>4 DEF UpsertSni, Accepted, Answer, Pems
  <1>5. ASSUME NEW name \in Spelled, RemoveSni(name)
        PROVE  Accepted \/ Refuse
    BY <1>0, <1>5 DEF RemoveSni, Accepted, Answer
  <1>6. ASSUME NEW p \in Policies, SetPolicy(p)
        PROVE  Accepted \/ Refuse
    BY <1>6 DEF SetPolicy, Accepted, Answer
  <1> QED
    BY <1>1, <1>2, <1>3, <1>4, <1>5, <1>6 DEF Rotate

\* A handshake counts itself and touches nothing else.
LEMMA HelloDoes ==
    ASSUME TlsTypeOK, NEW name \in Spelled \cup {"none"}, Hello(name)
    PROVE  /\ counts' \in [{"sni", "default", "rejected", "malformed"} -> 0..MaxHellos]
           /\ UNCHANGED <<default, byName, policy, explicit, open, outcome>>
  <1> DEFINE Reasons == {"sni", "default", "rejected", "malformed"}
  <1>1. PICK why \in Reasons : counts' = [counts EXCEPT ![why] = counts[why] + 1]
    BY DEF Hello
  <1>2. counts[why] + 1 \in 0..MaxHellos
    <2>1. /\ counts["sni"] \in 0..MaxHellos /\ counts["default"] \in 0..MaxHellos
          /\ counts["rejected"] \in 0..MaxHellos /\ counts["malformed"] \in 0..MaxHellos
      BY DEF TlsTypeOK
    <2>2. counts["sni"] + counts["default"] + counts["rejected"] + counts["malformed"] < MaxHellos
      BY DEF Hello
    <2> QED
      BY <2>1, <2>2, TlsAssumption
  <1> QED
    BY <1>1, <1>2 DEF Hello, TlsTypeOK

LEMMA TlsGoesOn ==
    ASSUME TlsInvariant, [TlsNext]_tlsVars
    PROVE  TlsInvariant'
  <1> USE DEF TlsInvariant
  <1>1. CASE Accepted
    <2>1. TlsTypeOK' /\ explicit'
      BY <1>1 DEF Accepted, TlsTypeOK
    <2>2. default' # "dev"
      BY <1>1, TlsAssumption DEF Accepted
    <2> QED
      BY <2>1, <2>2
  <1>2. CASE Refuse
    BY <1>2 DEF Refuse, Answer, TlsTypeOK
  <1>3. CASE CloseTls
    BY <1>3 DEF CloseTls, TlsTypeOK
  <1>4. ASSUME NEW name \in Spelled \cup {"none"}, Hello(name)
        PROVE  TlsInvariant'
    BY <1>4, HelloDoes DEF TlsTypeOK
  <1>5. CASE UNCHANGED tlsVars
    BY <1>5 DEF tlsVars, TlsTypeOK
  <1> QED
    BY <1>1, <1>2, <1>3, <1>4, <1>5, RotateDoes DEF TlsNext

LEMMA TlsStarts ==
    ASSUME TlsInit
    PROVE  TlsInvariant
  <1>1. counts \in [{"sni", "default", "rejected", "malformed"} -> 0..MaxHellos]
    BY TlsAssumption DEF TlsInit
  <1>2. byName \in [Names -> Certs \cup {NoCert}] /\ byName = NoMap
    BY DEF TlsInit, NoMap
  <1>3. explicit \in BOOLEAN /\ open \in BOOLEAN /\ default \in Certs \cup {"dev"}
    BY DEF TlsInit
  <1>4. explicit => default # "dev"
    BY TlsAssumption DEF TlsInit
  <1> QED
    BY <1>1, <1>2, <1>3, <1>4 DEF TlsInit, TlsInvariant, TlsTypeOK, Policies

\* SNI entries never stand beside the self-signed development certificate
\* (SPEC.md:246), through any sequence of rotations, for any names, lists and
\* certificates (server.rs: the rotation functions).
THEOREM CertificatesCorrect == TlsSpec => [](TlsTypeOK /\ SniNeedsDefault)
  <1>1. TlsInvariant /\ [TlsNext]_tlsVars => TlsInvariant'
    BY TlsGoesOn
  <1>2. TlsInvariant => TlsTypeOK /\ SniNeedsDefault
    BY DEF TlsInvariant, SniNeedsDefault
  <1> QED
    BY <1>1, <1>2, TlsStarts, PTL DEF TlsSpec

\* A refused rotation changes nothing, and nothing changes after close().
THEOREM RotationsWhole == TlsSpec => RefusedChangesNothing /\ ClosedFrozen
  <1>1. TlsInvariant /\ [TlsNext]_tlsVars => TlsInvariant'
    BY TlsGoesOn
  <1>2. ASSUME TlsInvariant, [TlsNext]_tlsVars
        PROVE  (outcome' = "error" \/ ~open => UNCHANGED <<resolver, explicit>>) \/ UNCHANGED tlsVars
    <2>1. CASE Accepted
      BY <2>1 DEF Accepted
    <2>2. CASE Refuse
      BY <2>2 DEF Refuse, resolver
    <2>3. CASE CloseTls
      BY <2>3 DEF CloseTls, resolver
    <2>4. ASSUME NEW name \in Spelled \cup {"none"}, Hello(name)
          PROVE  UNCHANGED <<resolver, explicit>>
      BY <2>4 DEF Hello, resolver
    <2> QED
      BY <1>2, <2>1, <2>2, <2>3, <2>4, RotateDoes DEF TlsNext, TlsInvariant
  <1>3. TlsInvariant /\ [TlsNext]_tlsVars
          => /\ [outcome' = "error" => UNCHANGED <<resolver, explicit>>]_tlsVars
             /\ [~open => UNCHANGED <<resolver, explicit>>]_tlsVars
    BY <1>2
  <1> QED
    BY <1>1, <1>3, TlsStarts, PTL DEF TlsSpec, RefusedChangesNothing, ClosedFrozen

\* A client is given the certificate of the most specific entry that covers
\* its name, none if the policy is to reject, the default otherwise
\* (server_tls.rs: resolve).
THEOREM ClientsSeeTheMap == TlsSpec => HelloHonest
  <1>1. TlsInvariant /\ [TlsNext]_tlsVars => TlsInvariant'
    BY TlsGoesOn
  <1>2. ASSUME TlsInvariant, NEW name \in Spelled \cup {"none"}, Hello(name), NEW n \in Names,
               hello' = [name |-> n, got |-> hello'.got]
        PROVE  Deserved(n, hello'.got)
    <2>1. name # "none" /\ Canon[name] = n /\ n # Invalid /\ hello'.got = Resolve(n)
      BY <1>2, TlsAssumption DEF Hello
    <2>2. /\ byName \in [Names -> Certs \cup {NoCert}] /\ default # NoCert
          /\ WildcardOf[n] \in Names \cup {Invalid} /\ Invalid \notin Names
      BY <1>2, TlsAssumption DEF TlsInvariant, TlsTypeOK, NoCert
    <2>3. CASE byName[n] # NoCert
      BY <2>1, <2>3 DEF Resolve, Deserved, Best, Covering
    <2>4. CASE byName[n] = NoCert /\ WildcardOf[n] # Invalid /\ byName[WildcardOf[n]] # NoCert
      <3>1. hello'.got = byName[WildcardOf[n]] /\ WildcardOf[n] \in Covering(n) /\ n \notin Covering(n)
        BY <2>1, <2>2, <2>4 DEF Resolve, Covering
      <3> QED
        BY <3>1 DEF Deserved, Best
    <2>5. CASE byName[n] = NoCert /\ ~(WildcardOf[n] # Invalid /\ byName[WildcardOf[n]] # NoCert)
      <3>1. Best(n) = {}
        BY <2>2, <2>5 DEF Best, Covering
      <3>2. hello'.got = IF byName # NoMap /\ policy = "reject" THEN NoCert ELSE default
        BY <2>1, <2>5 DEF Resolve
      <3>3. byName # NoMap <=> \E m \in Names : byName[m] # NoCert
        BY <2>2 DEF NoMap
      <3> QED
        BY <2>2, <3>1, <3>2, <3>3 DEF Deserved
    <2> QED
      BY <2>3, <2>4, <2>5
  <1>3. ASSUME TlsInvariant, [TlsNext]_tlsVars, NEW n \in Names,
               hello' = [name |-> n, got |-> hello'.got], counts' # counts
        PROVE  Deserved(n, hello'.got)
    <2>1. Accepted \/ Refuse \/ CloseTls \/ UNCHANGED tlsVars => counts' = counts
      BY DEF Accepted, Refuse, Answer, CloseTls, tlsVars
    <2>2. \E name \in Spelled \cup {"none"} : Hello(name)
      BY <1>3, <2>1, RotateDoes DEF TlsNext, TlsInvariant
    <2> QED
      BY <1>2, <1>3, <2>2
  <1>4. TlsInvariant /\ [TlsNext]_tlsVars
          => [\A n \in Names : hello' = [name |-> n, got |-> hello'.got] /\ counts' # counts => Deserved(n, hello'.got)]_tlsVars
    <2> QED
      BY <1>3
  <1> QED
    BY <1>1, <1>4, TlsStarts, PTL DEF TlsSpec, HelloHonest

-----------------------------------------------------------------------------
(* Connection ids, and the server set up. *)

LEMMA CidShape ==
    ASSUME NEW id \in Seq(Nat), NEW nonce \in Seq(Nat), NEW x \in Nat, NEW cid,
           cid = <<x>> \o id \o nonce
    PROVE  /\ cid \in Seq(Nat) /\ Len(cid) = 1 + Len(id) + Len(nonce) /\ cid[1] = x
           /\ \A i \in 1..Len(id) : cid[i + 1] = id[i]
  <1>1. /\ <<x>> \o id \in Seq(Nat) /\ Len(<<x>> \o id) = 1 + Len(id) /\ (<<x>> \o id)[1] = x
        /\ \A i \in 1..Len(id) : (<<x>> \o id)[i + 1] = id[i]
    OBVIOUS
  <1> QED
    BY <1>1

LEMMA ServerIdBack ==
    ASSUME NEW id \in Seq(Nat), NEW cid \in Seq(Nat), Len(id) > 0, Len(cid) >= Len(id) + 1,
           \A i \in 1..Len(id) : cid[i + 1] = id[i]
    PROVE  decode_server_id(cid, Len(id)) = id
  <1>1. SubSeq(cid, 2, Len(id) + 1) \in Seq(Nat) /\ Len(SubSeq(cid, 2, Len(id) + 1)) = Len(id)
    OBVIOUS
  <1>2. \A i \in 1..Len(id) : SubSeq(cid, 2, Len(id) + 1)[i] = id[i]
    OBVIOUS
  <1>3. SubSeq(cid, 2, Len(id) + 1) = id
    BY <1>1, <1>2
  <1> QED
    BY <1>3 DEF decode_server_id

LEMMA Rotations ==
    ASSUME NEW a \in Nat, NEW b \in Nat
    PROVE  a * 32 + (b % 32) \in Nat /\ (a * 32 + (b % 32)) \div 32 = a
  OBVIOUS

LEMMA IdsRoute ==
    ASSUME NEW issuer \in LbConfigs, NEW other \in LbConfigs, NEW first \in Octets, NEW random \in Octets
    PROVE  RoutesHome(issuer, other, first, random)
  <1> PICK cid : cid = generate_cid(issuer, first, random)
    OBVIOUS
  <1> SUFFICES ASSUME Accepts(issuer), Accepts(other)
               PROVE  /\ decode_server_id(cid, Len(issuer.id)) = issuer.id
                      /\ decode_config_rotation(cid) = issuer.rotation
                      /\ Len(cid) <= 20
                      /\ validates(issuer, cid)
                      /\ validates(other, cid) =>
                           other.rotation = issuer.rotation /\ cid_len(other) = cid_len(issuer)
                           /\ (Len(other.id) = Len(issuer.id) => other.id = issuer.id)
    BY DEF RoutesHome
  <1>1. PICK id, n, rotation : id = issuer.id /\ n = issuer.nonce /\ rotation = issuer.rotation
    OBVIOUS
  <1>2. id \in Seq(Nat) /\ n \in Nat /\ rotation \in Nat /\ first \in Nat /\ random \in Nat
    BY <1>1, SetupAssumption
  <1>3. Len(id) >= 1 /\ Len(id) + n <= 19
    BY <1>1, <1>2 DEF Accepts, MIN_SERVER_ID_LEN, MAX_PLAINTEXT_BLOCK_LEN
  <1>4. cid = <<rotation * 32 + (first % 32)>> \o id \o [i \in 1..n |-> random]
    BY <1>1 DEF generate_cid
  <1>5. /\ decode_server_id(cid, Len(id)) = id /\ decode_config_rotation(cid) = rotation
        /\ Len(cid) = 1 + Len(id) + n /\ Len(cid) <= 20
    <2>1. rotation * 32 + (first % 32) \in Nat
      BY <1>2, Rotations
    <2>2. /\ cid \in Seq(Nat) /\ Len(cid) = 1 + Len(id) + n
          /\ cid[1] = rotation * 32 + (first % 32)
          /\ \A i \in 1..Len(id) : cid[i + 1] = id[i]
      <3>1. PICK x \in Nat : x = rotation * 32 + (first % 32)
        BY <2>1
      <3>2. PICK nonce : nonce = [i \in 1..n |-> random]
        OBVIOUS
      <3>3. nonce \in Seq(Nat) /\ Len(nonce) = n
        BY <1>2, <3>2
      <3>4. cid = <<x>> \o id \o nonce
        BY <1>4, <3>1, <3>2
      <3> QED
        BY <1>2, <3>1, <3>3, <3>4, CidShape
    <2>3. Len(id) > 0 /\ Len(cid) >= Len(id) + 1 /\ Len(cid) <= 20
      BY <1>2, <1>3, <2>2
    <2>4. decode_server_id(cid, Len(id)) = id
      BY <1>2, <2>2, <2>3, ServerIdBack, Zenon
    <2>5. decode_config_rotation(cid) = rotation
      BY <1>2, <2>2, Rotations DEF decode_config_rotation
    <2> QED
      BY <2>2, <2>3, <2>4, <2>5
  <1>6. cid_len(issuer) = 1 + Len(id) + n
    BY <1>1 DEF cid_len
  <1>7. validates(issuer, cid)
    BY <1>1, <1>5, <1>6, Zenon DEF validates
  <1>8. ASSUME validates(other, cid)
        PROVE  /\ other.rotation = issuer.rotation /\ cid_len(other) = cid_len(issuer)
               /\ (Len(other.id) = Len(issuer.id) => other.id = issuer.id)
    BY <1>1, <1>5, <1>6, <1>8, Zenon DEF validates
  <1> QED
    BY <1>1, <1>5, <1>7, <1>8, Zenon

LEMMA SetupIsBoth ==
    /\ SetupInit => StartInit /\ TlsInit
    /\ [SetupNext]_setupVars => [StartNext]_startVars /\ [TlsNext]_tlsVars /\ lb' = lb
  BY DEF SetupInit, SetupNext, setupVars

\* For any instances, options, certificates and identities: what is up is
\* steered as asked, SNI entries stand beside a given certificate only, and
\* every connection id routes home (lib.rs, server_tls.rs, quic_lb.rs).
THEOREM SetupCorrect == SetupSpec => []SetupSafe
  <1> DEFINE Inv == StartInvariant /\ TlsInvariant
                    /\ lb \in [issuer : LbConfigs, other : LbConfigs, first : Octets, random : Octets]
  <1>1. SetupInit => Inv
    BY StartStarts, TlsStarts DEF SetupInit, LbInit
  <1>2. Inv /\ [SetupNext]_setupVars => Inv'
    BY SetupIsBoth, StartGoesOn, TlsGoesOn
  <1>3. Inv => SetupSafe
    <2>1. Inv => CidRoutes
      BY IdsRoute DEF CidRoutes
    <2>2. StartInvariant => StartTypeOK /\ SteeredOrFailed
      BY DEF StartInvariant, SteeredOrFailed, Standing, Slotted, Steered, Bound
    <2>3. TlsInvariant => TlsTypeOK /\ SniNeedsDefault
      BY DEF TlsInvariant, SniNeedsDefault
    <2> QED
      BY <2>1, <2>2, <2>3 DEF SetupSafe
  <1> HIDE DEF Inv
  <1> QED
    BY <1>1, <1>2, <1>3, PTL DEF SetupSpec

\* No step of starting or rotating certificates evicts a live instance from
\* its slot, applies a refused or late update, or shows a client another
\* certificate than the map's (reuseport_steering.rs, server.rs).
THEOREM SetupStepsCorrect == SetupSpec => SetupSteps
  <1>1. SetupSpec => TlsSpec
    BY SetupIsBoth, PTL DEF SetupSpec, TlsSpec
  <1>2. SetupSpec => StartInit /\ [][StartNext]_startVars
    BY SetupIsBoth, PTL DEF SetupSpec
  <1> QED
    BY <1>1, <1>2, NobodyEvicted, RotationsWhole, ClientsSeeTheMap, PTL DEF SetupSteps
=============================================================================
