---------------------------- MODULE BudgetProofs ----------------------------
(***************************************************************************)
(* TLAPS proofs about the two places that count what is queued: ByteBudget *)
(* for any number of requests, sessions and streams, any payload sizes and *)
(* any limits, and EgressPacer (from `Sums as cardinalities' on).          *)
(*                                                                         *)
(* That a counter never goes below zero is a consequence of its being      *)
(* exact, so types and exactness are proved together.  StageKinds is the   *)
(* strengthening: only stream chunks pass through the stream counter.      *)
(***************************************************************************)
EXTENDS ByteBudget, EgressPacer, FiniteSetTheorems, TLAPS

\* The bytes of a set of requests are finitely many.
LEMMA BytesFinite ==
    ASSUME NEW S \in SUBSET Requests
    PROVE  IsFiniteSet(BytesIn(S)) /\ Cardinality(BytesIn(S)) \in Nat
  <1>1. BytesIn(S) \subseteq Bytes
    BY RequestsAssumption DEF BytesIn
  <1> QED BY <1>1, RequestsAssumption, FS_Subset, FS_CardinalityType

LEMMA SizeType ==
    ASSUME NEW r \in Requests
    PROVE  IsFiniteSet(BytesOf[r]) /\ Size(r) \in Nat
  <1>1. BytesOf[r] \subseteq Bytes
    BY RequestsAssumption
  <1> QED BY <1>1, RequestsAssumption, FS_Subset, FS_CardinalityType DEF Size

\* A further request adds its size, because no two requests share a byte.
LEMMA BytesAdded ==
    ASSUME NEW S \in SUBSET Requests, NEW r \in Requests, r \notin S
    PROVE  Cardinality(BytesIn(S \cup {r})) = Cardinality(BytesIn(S)) + Size(r)
  <1>1. BytesIn(S \cup {r}) = BytesIn(S) \cup BytesOf[r]
    BY DEF BytesIn
  <1>2. BytesIn(S) \cap BytesOf[r] = {}
    BY RequestsAssumption DEF BytesIn
  <1>3. Cardinality(BytesIn(S) \cup BytesOf[r])
          = Cardinality(BytesIn(S)) + Size(r) - Cardinality(BytesIn(S) \cap BytesOf[r])
    BY BytesFinite, SizeType, FS_Union DEF Size
  <1>4. Cardinality(BytesIn(S) \cap BytesOf[r]) = 0
    BY <1>2, FS_EmptySet
  <1>5. Cardinality(BytesIn(S)) \in Nat /\ Size(r) \in Nat
    BY BytesFinite, SizeType
  <1>6. Cardinality(BytesIn(S) \cup BytesOf[r]) = Cardinality(BytesIn(S)) + Size(r)
    BY <1>3, <1>4, <1>5
  <1> QED BY <1>1, <1>6

LEMMA BytesRemoved ==
    ASSUME NEW S \in SUBSET Requests, NEW r \in S
    PROVE  Cardinality(BytesIn(S \ {r})) = Cardinality(BytesIn(S)) - Size(r)
  <1>1. S = (S \ {r}) \cup {r}
    OBVIOUS
  <1>2. Cardinality(BytesIn(S)) = Cardinality(BytesIn(S \ {r})) + Size(r)
    BY <1>1, BytesAdded
  <1> QED BY <1>2, BytesFinite, SizeType

LEMMA MoreBytes ==
    ASSUME NEW S \in SUBSET Requests, NEW T \in SUBSET S
    PROVE  Cardinality(BytesIn(T)) <= Cardinality(BytesIn(S))
  <1>1. BytesIn(T) \subseteq BytesIn(S)
    BY DEF BytesIn
  <1> QED BY <1>1, BytesFinite, FS_Subset

-----------------------------------------------------------------------------
(* What one step of request r may do to a counter and to the set of        *)
(* requests charged to it.                                                 *)

\* n and S before the step, m and T after it, max the limit of the counter.
Charge(r, n, m, S, T, max) ==
    \/ m = n /\ T = S
    \/ r \notin S /\ T = S \cup {r} /\ m = n + Size(r) /\ m <= max
    \/ r \in S /\ T = S \ {r} /\ m = n - Size(r)

\* A counter that was exact and within its limit stays so.
LEMMA ChargeExact ==
    ASSUME NEW S \in SUBSET Requests, NEW T \in SUBSET Requests, NEW r \in Requests,
           NEW n, NEW m, NEW max \in Nat, n = Cardinality(BytesIn(S)), Charge(r, n, m, S, T, max)
    PROVE  m = Cardinality(BytesIn(T)) /\ m \in Nat /\ (n <= max => m <= max)
  <1>1. n \in Nat /\ Cardinality(BytesIn(T)) \in Nat /\ Size(r) \in Nat
    BY BytesFinite, SizeType
  <1>2. CASE m = n /\ T = S
    BY <1>1, <1>2
  <1>3. CASE r \notin S /\ T = S \cup {r} /\ m = n + Size(r) /\ m <= max
    BY <1>1, <1>3, BytesAdded
  <1>4. CASE r \in S /\ T = S \ {r} /\ m = n - Size(r)
    BY <1>1, <1>4, BytesRemoved
  <1> QED BY <1>2, <1>3, <1>4 DEF Charge

\* A step of request r charges the three counters consistently.
Effect(r) ==
    /\ Charge(r, global, global', GlobalCharge, GlobalCharge', MaxGlobal)
    /\ \A s \in Sessions : Charge(r, session[s], session'[s], SessionCharge(s), SessionCharge(s)', MaxSession)
    /\ \A t \in Streams : Charge(r, stream[t], stream'[t], StreamCharge(t), StreamCharge(t)', MaxStream)

\* Only stream chunks reach the stream's counter.
StageKinds ==
    \A r \in Requests :
        /\ stage[r] \in {"stream", "undoSession", "freeStream", "tellStream"} => IsStream(r)
        /\ stage[r] \in {"reserved", "tellSession", "tellOwner"} => ~IsStream(r)

\* The type of everything but the counters.
OtherTypes ==
    /\ stage \in [Requests -> Stages]
    /\ enrolled \subseteq Waiters /\ woken \subseteq enrolled /\ expired \subseteq Requests
    /\ fwd \in [Sessions -> FwdStages]
    /\ closing \in [Sessions -> {"open", "tellSession", "tellOwner", "closed"}]
CounterShape == session = [s \in Sessions |-> session[s]] /\ stream = [t \in Streams |-> stream[t]]

\* The steps that leave the counters alone.
Neutral(r) ==
    \/ StartSend(r) \/ EnrollSend(r) \/ CheckOpen(r) \/ StartTrySend(r) \/ StartStream(r)
    \/ SendRefused(r) \/ SendWakes(r) \/ SendTimesOut(r) \/ OthersRefused(r) \/ StreamRefused(r)
    \/ StreamRetries(r) \/ StreamStopped(r) \/ Reserved(r) \/ Release(r)
    \/ TellSession(r) \/ TellOwner(r) \/ TellStream(r)
Counting(r) ==
    \/ TryGlobal(r) \/ TrySession(r) \/ TryStream(r) \/ UndoSession(r) \/ UndoGlobal(r)
    \/ FreeStream(r) \/ FreeSession(r) \/ FreeGlobal(r)
\* The steps that leave the requests alone, too.
Aside(s) ==
    \/ FwdStep(s) \/ CloseFlag(s) \/ CloseStep(s)

LEMMA NextCases ==
    ASSUME Next
    PROVE  \/ \E r \in Requests : Neutral(r) \/ Counting(r) \/ DeadlinePasses(r)
           \/ \E s \in Sessions : Aside(s) \/ FwdReceives(s)
  BY DEF Next, Progress, Unpark, Neutral, Counting, Aside

-----------------------------------------------------------------------------
(* The effect of each kind of step. *)

\* A step that only moves request r along charges nothing.
LEMMA NeutralEffect ==
    ASSUME OtherTypes, StageKinds, NEW r \in Requests, Neutral(r)
    PROVE  Effect(r) /\ UNCHANGED budgets
  <1> USE DEF OtherTypes, StageKinds, Effect, Charge, GlobalCharge, SessionCharge, StreamCharge,
            OnGlobal, OnSession, OnStream, Goto, budgets, IsStream
  <1>1. CASE StartSend(r)
    BY <1>1 DEF StartSend
  <1>2. CASE EnrollSend(r)
    BY <1>2 DEF EnrollSend
  <1>3. CASE CheckOpen(r)
    BY <1>3 DEF CheckOpen
  <1>4. CASE StartTrySend(r)
    BY <1>4 DEF StartTrySend
  <1>5. CASE StartStream(r)
    BY <1>5 DEF StartStream
  <1>6. CASE SendRefused(r)
    BY <1>6 DEF SendRefused
  <1>7. CASE SendWakes(r)
    BY <1>7 DEF SendWakes
  <1>8. CASE SendTimesOut(r)
    BY <1>8 DEF SendTimesOut
  <1>9. CASE OthersRefused(r)
    BY <1>9 DEF OthersRefused
  <1>10. CASE StreamRefused(r)
    BY <1>10 DEF StreamRefused
  <1>11. CASE StreamRetries(r)
    BY <1>11 DEF StreamRetries
  <1>12. CASE StreamStopped(r)
    BY <1>12 DEF StreamStopped
  <1>13. CASE Reserved(r)
    BY <1>13 DEF Reserved
  <1>14. CASE Release(r)
    BY <1>14 DEF Release
  <1>15. CASE TellSession(r)
    BY <1>15 DEF TellSession
  <1>16. CASE TellOwner(r)
    BY <1>16 DEF TellOwner
  <1>17. CASE TellStream(r)
    BY <1>17 DEF TellStream
  <1> QED BY <1>1, <1>2, <1>3, <1>4, <1>5, <1>6, <1>7, <1>8, <1>9, <1>10, <1>11, <1>12,
             <1>13, <1>14, <1>15, <1>16, <1>17 DEF Neutral

\* A compare-and-swap or a subtraction charges what its stage says.
LEMMA CountingEffect ==
    ASSUME OtherTypes, CounterShape, StageKinds, NEW r \in Requests, Counting(r)
    PROVE  Effect(r) /\ CounterShape'
  <1> USE PlacesAssumption DEF OtherTypes, CounterShape, StageKinds, Effect, Charge, GlobalCharge,
            SessionCharge, StreamCharge, OnGlobal, OnSession, OnStream, Goto, IsStream
  <1>1. CASE TryGlobal(r)
    BY <1>1 DEF TryGlobal
  <1>2. CASE TrySession(r)
    BY <1>2 DEF TrySession
  <1>3. CASE TryStream(r)
    BY <1>3 DEF TryStream
  <1>4. CASE UndoSession(r)
    BY <1>4 DEF UndoSession
  <1>5. CASE UndoGlobal(r)
    BY <1>5 DEF UndoGlobal
  <1>6. CASE FreeStream(r)
    BY <1>6 DEF FreeStream
  <1>7. CASE FreeSession(r)
    BY <1>7 DEF FreeSession
  <1>8. CASE FreeGlobal(r)
    BY <1>8 DEF FreeGlobal
  <1> QED BY <1>1, <1>2, <1>3, <1>4, <1>5, <1>6, <1>7, <1>8 DEF Counting

\* So does the arrival of a datagram.
LEMMA ReceiveEffect ==
    ASSUME OtherTypes, NEW s \in Sessions, FwdReceives(s)
    PROVE  (\E r \in Requests : Effect(r)) \/ stage' = stage
  <1>1. CASE stage' = stage
    BY <1>1
  <1>2. ASSUME NEW r \in Requests, stage[r] = "idle", Goto(r, "global")
        PROVE  Effect(r)
    BY <1>2 DEF FwdReceives, OtherTypes, Effect, Charge, GlobalCharge, SessionCharge, StreamCharge,
                OnGlobal, OnSession, OnStream, Goto, budgets
  <1> QED BY <1>1, <1>2 DEF FwdReceives

-----------------------------------------------------------------------------
(* Types and stages. *)

LEMMA NeutralTypes ==
    ASSUME OtherTypes, StageKinds, NEW r \in Requests, Neutral(r)
    PROVE  OtherTypes' /\ StageKinds'
  <1> USE PlacesAssumption DEF OtherTypes, StageKinds, Stages, FwdStages, Waiters, Kinds, Goto, FwdGoto,
            Leave, waiting, IsStream, SessionWaiters, OwnerWaiters, StreamWaiters
  <1>1. CASE StartSend(r)
    BY <1>1 DEF StartSend
  <1>2. CASE EnrollSend(r)
    BY <1>2 DEF EnrollSend
  <1>3. CASE CheckOpen(r)
    BY <1>3 DEF CheckOpen
  <1>4. CASE StartTrySend(r)
    BY <1>4 DEF StartTrySend
  <1>5. CASE StartStream(r)
    BY <1>5 DEF StartStream
  <1>6. CASE SendRefused(r)
    BY <1>6 DEF SendRefused
  <1>7. CASE SendWakes(r)
    BY <1>7 DEF SendWakes
  <1>8. CASE SendTimesOut(r)
    BY <1>8 DEF SendTimesOut
  <1>9. CASE OthersRefused(r)
    BY <1>9 DEF OthersRefused
  <1>10. CASE StreamRefused(r)
    BY <1>10 DEF StreamRefused
  <1>11. CASE StreamRetries(r)
    BY <1>11 DEF StreamRetries
  <1>12. CASE StreamStopped(r)
    BY <1>12 DEF StreamStopped
  <1>13. CASE Reserved(r)
    BY <1>13 DEF Reserved
  <1>14. CASE Release(r)
    BY <1>14 DEF Release
  <1>15. CASE TellSession(r)
    BY <1>15 DEF TellSession
  <1>16. CASE TellOwner(r)
    BY <1>16 DEF TellOwner
  <1>17. CASE TellStream(r)
    BY <1>17 DEF TellStream
  <1> QED BY <1>1, <1>2, <1>3, <1>4, <1>5, <1>6, <1>7, <1>8, <1>9, <1>10, <1>11, <1>12,
             <1>13, <1>14, <1>15, <1>16, <1>17 DEF Neutral

LEMMA CountingTypes ==
    ASSUME OtherTypes, StageKinds, NEW r \in Requests, Counting(r)
    PROVE  OtherTypes' /\ StageKinds'
  <1> USE PlacesAssumption DEF OtherTypes, StageKinds, Stages, Waiters, Kinds, Goto, Leave, waiting,
            IsStream
  <1>1. CASE TryGlobal(r)
    BY <1>1 DEF TryGlobal
  <1>2. CASE TrySession(r)
    BY <1>2 DEF TrySession
  <1>3. CASE TryStream(r)
    BY <1>3 DEF TryStream
  <1>4. CASE UndoSession(r)
    BY <1>4 DEF UndoSession
  <1>5. CASE UndoGlobal(r)
    BY <1>5 DEF UndoGlobal
  <1>6. CASE FreeStream(r)
    BY <1>6 DEF FreeStream
  <1>7. CASE FreeSession(r)
    BY <1>7 DEF FreeSession
  <1>8. CASE FreeGlobal(r)
    BY <1>8 DEF FreeGlobal
  <1> QED BY <1>1, <1>2, <1>3, <1>4, <1>5, <1>6, <1>7, <1>8 DEF Counting

LEMMA AsideTypes ==
    ASSUME OtherTypes, StageKinds,
           \/ \E r \in Requests : DeadlinePasses(r)
           \/ \E s \in Sessions : Aside(s) \/ FwdReceives(s)
    PROVE  OtherTypes' /\ StageKinds' /\ UNCHANGED budgets
  <1> USE DEF OtherTypes, StageKinds, Stages, FwdStages, Waiters, Goto, FwdGoto, Leave, waiting,
            budgets, IsStream, SessionWaiters, OwnerWaiters
  <1>1. ASSUME NEW r \in Requests, DeadlinePasses(r)
        PROVE  OtherTypes' /\ StageKinds' /\ UNCHANGED budgets
    BY <1>1 DEF DeadlinePasses
  <1>2. ASSUME NEW s \in Sessions, FwdReceives(s)
        PROVE  OtherTypes' /\ StageKinds' /\ UNCHANGED budgets
    BY <1>2 DEF FwdReceives
  <1>3. ASSUME NEW s \in Sessions, FwdStep(s)
        PROVE  OtherTypes' /\ StageKinds' /\ UNCHANGED budgets
    BY <1>3 DEF FwdStep, FwdTop, FwdEnroll, FwdCheck, FwdWakes, FwdEnds
  <1>4. ASSUME NEW s \in Sessions, CloseFlag(s) \/ CloseStep(s)
        PROVE  OtherTypes' /\ StageKinds' /\ UNCHANGED budgets
    BY <1>4 DEF CloseFlag, CloseStep, CloseTellsSession, CloseTellsOwner
  <1> QED BY <1>1, <1>2, <1>3, <1>4 DEF Aside

-----------------------------------------------------------------------------
(* Theorems. *)

BudgetInvariant == TypeOK /\ StageKinds /\ BudgetExact /\ WithinLimits

\* A consistent step keeps the counters exact and within their limits.
LEMMA EffectSuffices ==
    ASSUME BudgetExact, WithinLimits, NEW r \in Requests, Effect(r)
    PROVE  /\ BudgetExact' /\ WithinLimits'
           /\ global' \in Nat
           /\ \A s \in Sessions : session'[s] \in Nat
           /\ \A t \in Streams : stream'[t] \in Nat
  <1>1. /\ global' = Cardinality(BytesIn(GlobalCharge')) /\ global' \in Nat
        /\ global' <= MaxGlobal
    <2>1. GlobalCharge \in SUBSET Requests /\ GlobalCharge' \in SUBSET Requests
      BY DEF GlobalCharge
    <2> QED BY <2>1, ChargeExact, BudgetAssumption DEF Effect, BudgetExact, WithinLimits
  <1>2. ASSUME NEW s \in Sessions
        PROVE  /\ session'[s] = Cardinality(BytesIn(SessionCharge(s)')) /\ session'[s] \in Nat
               /\ session'[s] <= MaxSession
    <2>1. SessionCharge(s) \in SUBSET Requests /\ SessionCharge(s)' \in SUBSET Requests
      BY DEF SessionCharge
    <2>2. /\ session[s] = Cardinality(BytesIn(SessionCharge(s))) /\ session[s] <= MaxSession
          /\ Charge(r, session[s], session'[s], SessionCharge(s), SessionCharge(s)', MaxSession)
      BY DEF Effect, BudgetExact, WithinLimits
    <2> QED BY <2>1, <2>2, ChargeExact, BudgetAssumption
  <1>3. ASSUME NEW t \in Streams
        PROVE  /\ stream'[t] = Cardinality(BytesIn(StreamCharge(t)')) /\ stream'[t] \in Nat
               /\ stream'[t] <= MaxStream
    <2>1. StreamCharge(t) \in SUBSET Requests /\ StreamCharge(t)' \in SUBSET Requests
      BY DEF StreamCharge
    <2>2. /\ stream[t] = Cardinality(BytesIn(StreamCharge(t))) /\ stream[t] <= MaxStream
          /\ Charge(r, stream[t], stream'[t], StreamCharge(t), StreamCharge(t)', MaxStream)
      BY DEF Effect, BudgetExact, WithinLimits
    <2> QED BY <2>1, <2>2, ChargeExact, BudgetAssumption
  <1>4. BytesIn(GlobalCharge)' = BytesIn(GlobalCharge')
    BY DEF BytesIn
  <1>5. \A s \in Sessions : BytesIn(SessionCharge(s))' = BytesIn(SessionCharge(s)')
    BY DEF BytesIn
  <1>6. \A t \in Streams : BytesIn(StreamCharge(t))' = BytesIn(StreamCharge(t)')
    BY DEF BytesIn
  <1>7. BudgetExact'
    BY <1>1, <1>2, <1>3, <1>4, <1>5, <1>6 DEF BudgetExact
  <1>8. WithinLimits'
    BY <1>1, <1>2, <1>3 DEF WithinLimits
  <1> QED BY <1>1, <1>2, <1>3, <1>7, <1>8

LEMMA IdleSuffices ==
    ASSUME BudgetExact, WithinLimits, stage' = stage, UNCHANGED budgets
    PROVE  BudgetExact' /\ WithinLimits'
  BY DEF BudgetExact, WithinLimits, budgets, BytesIn, GlobalCharge, SessionCharge, StreamCharge

\* No step disturbs the invariant.
LEMMA BudgetStep ==
    ASSUME BudgetInvariant, [Next]_vars
    PROVE  BudgetInvariant'
  <1>1. OtherTypes /\ CounterShape /\ StageKinds /\ BudgetExact /\ WithinLimits
    BY DEF BudgetInvariant, TypeOK, OtherTypes, CounterShape
  <1>2. ASSUME OtherTypes', StageKinds', CounterShape', NEW r \in Requests, Effect(r)
        PROVE  BudgetInvariant'
    <2>1. session' \in [Sessions -> Nat] /\ stream' \in [Streams -> Nat]
      BY <1>1, <1>2, EffectSuffices DEF CounterShape
    <2> QED BY <1>1, <1>2, <2>1, EffectSuffices DEF BudgetInvariant, TypeOK, OtherTypes
  <1>3. ASSUME OtherTypes', StageKinds', UNCHANGED budgets, stage' = stage
        PROVE  BudgetInvariant'
    BY <1>1, <1>3, IdleSuffices DEF BudgetInvariant, TypeOK, OtherTypes, budgets
  <1>4. CASE UNCHANGED vars
    BY <1>1, <1>3, <1>4 DEF vars, OtherTypes, StageKinds, budgets
  <1>5. ASSUME NEW r \in Requests, Neutral(r)
        PROVE  BudgetInvariant'
    BY <1>1, <1>2, <1>5, NeutralEffect, NeutralTypes DEF CounterShape, budgets
  <1>6. ASSUME NEW r \in Requests, Counting(r)
        PROVE  BudgetInvariant'
    BY <1>1, <1>2, <1>6, CountingEffect, CountingTypes
  <1>7. ASSUME NEW s \in Sessions, FwdReceives(s)
        PROVE  BudgetInvariant'
    <2>1. OtherTypes' /\ StageKinds' /\ UNCHANGED budgets
      BY <1>1, <1>7, AsideTypes
    <2>2. CounterShape'
      BY <1>1, <2>1 DEF CounterShape, budgets
    <2> QED BY <1>1, <1>2, <1>3, <1>7, <2>1, <2>2, ReceiveEffect
  <1>8. ASSUME NEW r \in Requests, DeadlinePasses(r)
        PROVE  BudgetInvariant'
    BY <1>1, <1>3, <1>8, AsideTypes DEF DeadlinePasses
  <1>9. ASSUME NEW s \in Sessions, Aside(s)
        PROVE  BudgetInvariant'
    <2>1. stage' = stage
      BY <1>9 DEF Aside, FwdStep, FwdTop, FwdEnroll, FwdCheck, FwdWakes, FwdEnds, CloseFlag,
                  CloseStep, CloseTellsSession, CloseTellsOwner
    <2> QED BY <1>1, <1>3, <1>9, <2>1, AsideTypes
  <1> QED BY <1>4, <1>5, <1>6, <1>7, <1>8, <1>9, NextCases

LEMMA BudgetInit ==
    ASSUME Init
    PROVE  BudgetInvariant
  <1>1. TypeOK /\ StageKinds
    BY DEF Init, TypeOK, StageKinds, Stages, FwdStages, Waiters
  <1>2. GlobalCharge = {} /\ BytesIn({}) = {} /\ Cardinality({}) = 0
    BY FS_EmptySet DEF Init, GlobalCharge, BytesIn, OnGlobal, OnSession, OnStream
  <1>3. \A s \in Sessions : SessionCharge(s) = {}
    BY DEF Init, SessionCharge, OnSession, OnStream
  <1>4. \A t \in Streams : StreamCharge(t) = {}
    BY DEF Init, StreamCharge, OnStream
  <1>5. BudgetExact
    BY <1>2, <1>3, <1>4 DEF Init, BudgetExact
  <1>6. WithinLimits
    BY BudgetAssumption DEF Init, WithinLimits
  <1> QED BY <1>1, <1>5, <1>6 DEF BudgetInvariant

LEMMA BudgetHolds == Spec => []BudgetInvariant
  BY BudgetInit, BudgetStep, PTL DEF Spec

\* Every variable keeps its type; the wrapping subtractions of a release
\* never take a counter below zero.
THEOREM BudgetTypeCorrect == Spec => []TypeOK
  <1>1. BudgetInvariant => TypeOK
    BY DEF BudgetInvariant
  <1> QED BY <1>1, BudgetHolds, PTL

\* The three byte counters are exact at every instant of every interleaving.
THEOREM BudgetCorrect == Spec => []BudgetExact
  <1>1. BudgetInvariant => BudgetExact
    BY DEF BudgetInvariant
  <1> QED BY <1>1, BudgetHolds, PTL

\* No counter ever passes its limit.
THEOREM LimitsCorrect == Spec => []WithinLimits
  <1>1. BudgetInvariant => WithinLimits
    BY DEF BudgetInvariant
  <1> QED BY <1>1, BudgetHolds, PTL

\* A snapshot never shows a session above its server, or a stream above its
\* session: each inner charge is part of the outer one.
THEOREM NestingCorrect == Spec => []NestedBudgets
  <1>1. BudgetInvariant => NestedBudgets
    <2> SUFFICES ASSUME BudgetInvariant PROVE NestedBudgets
      OBVIOUS
    <2>1. ASSUME NEW s \in Sessions PROVE session[s] <= global
      <3>1. SessionCharge(s) \in SUBSET GlobalCharge /\ GlobalCharge \in SUBSET Requests
        BY DEF SessionCharge, GlobalCharge, OnGlobal
      <3>2. session[s] = Cardinality(BytesIn(SessionCharge(s)))
            /\ global = Cardinality(BytesIn(GlobalCharge))
        BY DEF BudgetInvariant, BudgetExact
      <3> QED BY <3>1, <3>2, MoreBytes
    <2>2. ASSUME NEW r \in Requests PROVE stream[StreamOf[r]] <= session[SessionOf[r]]
      <3>1. StreamCharge(StreamOf[r]) \in SUBSET SessionCharge(SessionOf[r])
            /\ SessionCharge(SessionOf[r]) \in SUBSET Requests
        BY PlacesAssumption DEF StreamCharge, SessionCharge, OnSession
      <3>2. stream[StreamOf[r]] = Cardinality(BytesIn(StreamCharge(StreamOf[r])))
            /\ session[SessionOf[r]] = Cardinality(BytesIn(SessionCharge(SessionOf[r])))
        BY PlacesAssumption DEF BudgetInvariant, BudgetExact
      <3> QED BY <3>1, <3>2, MoreBytes
    <2> QED BY <2>1, <2>2 DEF NestedBudgets
  <1> QED BY <1>1, BudgetHolds, PTL

\* The three tiers of the byte budget are exact, bounded and nested.
THEOREM BudgetIsSafe == Spec => []BudgetSafe
  BY BudgetCorrect, LimitsCorrect, NestingCorrect, PTL DEF BudgetSafe

-----------------------------------------------------------------------------
(* Wakes.  A parking send is registered from before its checks until it    *)
(* leaves, so a notification after what it saw cannot pass it by.          *)

Waiting == {"check", "global", "session", "undoGlobal", "refused", "parked"}
Checked == Waiting \ {"check"}

\* A registered send that passed the check of the flag has been woken once
\* its session's close has told the session's waiters.
Hears(r) ==
    KindOf[r] = "send" =>
        /\ stage[r] \in Waiting => r \in enrolled
        /\ stage[r] \in Checked /\ closing[SessionOf[r]] \in {"tellOwner", "closed"} => r \in woken
CloseHeard == \A r \in Requests : Hears(r)

\* What the step of another request, or of a session, leaves of a send.
Undisturbed(r) ==
    /\ stage'[r] = stage[r] /\ closing' = closing
    /\ r \in enrolled => r \in enrolled'
    /\ r \in woken => r \in woken'

LEMMA OthersNeutral ==
    ASSUME OtherTypes, NEW r \in Requests, NEW q \in Requests \ {r}, Neutral(q)
    PROVE  Undisturbed(r)
  <1> USE DEF Undisturbed, OtherTypes, Goto, Leave, waiting
  <1>1. CASE StartSend(q) \/ EnrollSend(q) \/ CheckOpen(q) \/ StartTrySend(q) \/ StartStream(q)
    BY <1>1 DEF StartSend, EnrollSend, CheckOpen, StartTrySend, StartStream
  <1>2. CASE SendRefused(q) \/ SendWakes(q) \/ SendTimesOut(q) \/ OthersRefused(q)
    BY <1>2 DEF SendRefused, SendWakes, SendTimesOut, OthersRefused
  <1>3. CASE StreamRefused(q) \/ StreamRetries(q) \/ StreamStopped(q) \/ Reserved(q) \/ Release(q)
    BY <1>3 DEF StreamRefused, StreamRetries, StreamStopped, Reserved, Release
  <1>4. CASE TellSession(q) \/ TellOwner(q) \/ TellStream(q)
    BY <1>4 DEF TellSession, TellOwner, TellStream
  <1> QED
    BY <1>1, <1>2, <1>3, <1>4 DEF Neutral

LEMMA OthersCounting ==
    ASSUME OtherTypes, NEW r \in Requests, NEW q \in Requests \ {r}, Counting(q)
    PROVE  Undisturbed(r)
  <1> USE DEF Undisturbed, OtherTypes, Goto, Leave, waiting
  <1>1. CASE TryGlobal(q) \/ TrySession(q) \/ TryStream(q)
    BY <1>1 DEF TryGlobal, TrySession, TryStream
  <1>2. CASE UndoSession(q) \/ UndoGlobal(q) \/ FreeStream(q) \/ FreeSession(q) \/ FreeGlobal(q)
    BY <1>2 DEF UndoSession, UndoGlobal, FreeStream, FreeSession, FreeGlobal
  <1> QED
    BY <1>1, <1>2 DEF Counting

\* The forward tasks, the deadlines and an arriving datagram.
LEMMA AsideLeaves ==
    ASSUME OtherTypes, NEW r \in Requests, KindOf[r] = "send",
           \/ \E q \in Requests : DeadlinePasses(q)
           \/ \E s \in Sessions : FwdStep(s) \/ FwdReceives(s)
           \/ UNCHANGED vars
    PROVE  Undisturbed(r) /\ (stage' = stage \/ \E q \in Requests : stage[q] = "idle" /\ Goto(q, "global"))
  <1> USE DEF Undisturbed, OtherTypes, Leave, waiting
  <1>1. ASSUME NEW q \in Requests, DeadlinePasses(q)
        PROVE  Undisturbed(r) /\ stage' = stage
    BY <1>1 DEF DeadlinePasses
  <1>2. ASSUME NEW s \in Sessions, FwdStep(s)
        PROVE  Undisturbed(r) /\ stage' = stage
    BY <1>2, PlacesAssumption DEF FwdStep, FwdTop, FwdEnroll, FwdCheck, FwdWakes, FwdEnds
  <1>3. ASSUME NEW s \in Sessions, FwdReceives(s)
        PROVE  Undisturbed(r) /\ (stage' = stage \/ \E q \in Requests : stage[q] = "idle" /\ Goto(q, "global"))
    <2>1. UNCHANGED <<waiting, closing>>
      BY <1>3 DEF FwdReceives
    <2>2. CASE stage' = stage
      BY <2>1, <2>2
    <2>3. ASSUME NEW q \in Requests, KindOf[q] = "ingress", stage[q] = "idle", Goto(q, "global")
          PROVE  Undisturbed(r)
      BY <2>1, <2>3 DEF Goto
    <2> QED
      BY <1>3, <2>2, <2>3 DEF FwdReceives
  <1>4. CASE UNCHANGED vars
    BY <1>4 DEF vars
  <1> QED
    BY <1>1, <1>2, <1>3, <1>4

LEMMA HearsNeutral ==
    ASSUME OtherTypes, StageKinds, NEW r \in Requests, Hears(r), Neutral(r), KindOf[r] = "send"
    PROVE  Hears(r)'
  <1> USE PlacesAssumption DEF OtherTypes, Hears, Goto, Leave, waiting, Waiting, Checked, Closed, IsStream
  <1>1. CASE StartSend(r) \/ EnrollSend(r)
    BY <1>1 DEF StartSend, EnrollSend
  <1>2. CASE CheckOpen(r)
    BY <1>2 DEF CheckOpen
  <1>3. CASE SendRefused(r)
    BY <1>3 DEF SendRefused
  <1>4. CASE SendWakes(r) \/ SendTimesOut(r)
    BY <1>4 DEF SendWakes, SendTimesOut
  <1>5. CASE Reserved(r) \/ Release(r)
    BY <1>5 DEF Reserved, Release
  <1>6. CASE TellSession(r) \/ TellOwner(r) \/ TellStream(r)
    BY <1>6 DEF TellSession, TellOwner, TellStream
  <1>7. ~(StartTrySend(r) \/ StartStream(r) \/ OthersRefused(r) \/ StreamRefused(r) \/ StreamRetries(r)
          \/ StreamStopped(r))
    BY DEF StartTrySend, StartStream, OthersRefused, StreamRefused, StreamRetries, StreamStopped
  <1> QED
    BY <1>1, <1>2, <1>3, <1>4, <1>5, <1>6, <1>7 DEF Neutral

LEMMA HearsCounting ==
    ASSUME OtherTypes, StageKinds, NEW r \in Requests, Hears(r), Counting(r), KindOf[r] = "send"
    PROVE  Hears(r)'
  <1> USE DEF OtherTypes, StageKinds, Hears, Goto, Leave, waiting, Waiting, Checked, IsStream
  <1>1. CASE TryGlobal(r)
    BY <1>1 DEF TryGlobal
  <1>2. CASE TrySession(r)
    BY <1>2 DEF TrySession
  <1>3. CASE UndoGlobal(r)
    BY <1>3 DEF UndoGlobal
  <1>4. CASE FreeSession(r) \/ FreeGlobal(r)
    BY <1>4 DEF FreeSession, FreeGlobal
  <1>5. ~(TryStream(r) \/ UndoSession(r) \/ FreeStream(r))
    BY DEF TryStream, UndoSession, FreeStream
  <1> QED
    BY <1>1, <1>2, <1>3, <1>4, <1>5 DEF Counting

LEMMA HearsClose ==
    ASSUME OtherTypes, NEW r \in Requests, Hears(r), KindOf[r] = "send",
           NEW s \in Sessions, CloseFlag(s) \/ CloseStep(s)
    PROVE  Hears(r)'
  <1>1. /\ enrolled' = enrolled /\ stage' = stage /\ woken \subseteq woken'
        /\ closing \in [Sessions -> {"open", "tellSession", "tellOwner", "closed"}]
        /\ SessionOf[r] \in Sessions /\ ~IsStream(r)
    BY PlacesAssumption DEF CloseFlag, CloseStep, CloseTellsSession, CloseTellsOwner, waiting, OtherTypes, IsStream
  <1>2. CASE CloseFlag(s)
    BY <1>1, <1>2 DEF CloseFlag, Hears
  <1>3. CASE CloseTellsSession(s)
    <2>1. /\ closing' = [closing EXCEPT ![s] = "tellOwner"] /\ woken' = woken \cup SessionWaiters(s)
      BY <1>3 DEF CloseTellsSession
    <2>2. SessionOf[r] = s /\ r \in enrolled => r \in woken'
      BY <1>1, <2>1 DEF SessionWaiters
    <2> QED
      BY <1>1, <2>1, <2>2 DEF Hears, Checked
  <1>4. CASE CloseTellsOwner(s)
    <2>1. /\ closing[s] = "tellOwner" /\ closing' = [closing EXCEPT ![s] = "closed"]
      BY <1>4 DEF CloseTellsOwner
    <2> QED
      BY <1>1, <2>1 DEF Hears
  <1> QED
    BY <1>2, <1>3, <1>4 DEF CloseStep

LEMMA HeardStep ==
    ASSUME OtherTypes, StageKinds, CloseHeard, [Next]_vars
    PROVE  CloseHeard'
  <1> SUFFICES ASSUME NEW r \in Requests, KindOf[r] = "send"
               PROVE  Hears(r)'
    BY DEF CloseHeard, Hears
  <1>0. Hears(r)
    BY DEF CloseHeard
  <1>1. Undisturbed(r) => Hears(r)'
    BY <1>0 DEF Undisturbed, Hears
  <1>2. ASSUME NEW q \in Requests, Neutral(q) \/ Counting(q)
        PROVE  Hears(r)'
    BY <1>0, <1>1, <1>2, OthersNeutral, OthersCounting, HearsNeutral, HearsCounting
  <1>3. ASSUME NEW s \in Sessions, CloseFlag(s) \/ CloseStep(s)
        PROVE  Hears(r)'
    BY <1>0, <1>3, HearsClose
  <1> QED
    BY <1>1, <1>2, <1>3, AsideLeaves, NextCases DEF Aside

\* No lifecycle wake is lost: when a session has been closed every send still
\* parked on it has been woken, whatever else waits, sends and closes
\* (mark_state_closed_and_notify against reserve_datagram_capacity).
THEOREM CloseWakes == Spec => []CloseWakesSends
  <1>1. Init => CloseHeard
    BY DEF Init, CloseHeard, Hears, Waiting, Checked
  <1>2. BudgetInvariant /\ CloseHeard /\ [Next]_vars => CloseHeard'
    BY HeardStep DEF BudgetInvariant, TypeOK, OtherTypes
  <1>3. CloseHeard => CloseWakesSends
    BY DEF CloseHeard, Hears, CloseWakesSends, Waiting, Checked
  <1> QED
    BY <1>1, <1>2, <1>3, BudgetHolds, PTL DEF Spec

-----------------------------------------------------------------------------
(* Capacity wakes.  The notifications that capacity sends are those of the *)
(* datagram releases; a roll-back and the release of a stream chunk tell   *)
(* parked sends nothing.  So the promise is proved for servers that do     *)
(* neither: no stream chunks, and no session that its own limit refuses,   *)
(* because the server's limit or all its requests together are within it.  *)

NoSilentRelease ==
    /\ \A r \in Requests : ~IsStream(r)
    /\ \A s \in Sessions :
          \/ MaxGlobal <= MaxSession
          \/ Cardinality(BytesIn({r \in Requests : SessionOf[r] = s})) <= MaxSession

Telling == {q \in Requests : stage[q] \in {"tellSession", "tellOwner"}}

\* A refused send that has not been woken does not fit, or somebody is about
\* to tell it.
Sleeps(r) ==
    KindOf[r] = "send" /\ stage[r] \in {"refused", "parked"} /\ r \notin woken =>
        global + Size(r) > MaxGlobal \/ Telling # {}
NoRollBack == \A r \in Requests : stage[r] # "undoGlobal"
CapacityHeard == NoRollBack /\ \A r \in Requests : Sleeps(r)

\* What a session was charged and is about to be fits below its limit.
LEMMA SessionAccepts ==
    ASSUME NoSilentRelease, BudgetInvariant, NEW r \in Requests, stage[r] = "session"
    PROVE  session[SessionOf[r]] + Size(r) <= MaxSession
  <1>1. PICK s \in Sessions : s = SessionOf[r]
    BY PlacesAssumption
  <1> DEFINE S == SessionCharge(s)
             T == {q \in Requests : SessionOf[q] = s}
  <1>2. S \in SUBSET Requests /\ r \notin S /\ S \cup {r} \in SUBSET GlobalCharge
        /\ GlobalCharge \in SUBSET Requests /\ S \cup {r} \in SUBSET T /\ T \in SUBSET Requests
    BY <1>1 DEF SessionCharge, GlobalCharge, OnGlobal, OnSession, OnStream
  <1>3. session[s] = Cardinality(BytesIn(S)) /\ global = Cardinality(BytesIn(GlobalCharge)) /\ global <= MaxGlobal
    BY DEF BudgetInvariant, BudgetExact, WithinLimits
  <1>4. Cardinality(BytesIn(S \cup {r})) = session[s] + Size(r)
    BY <1>2, <1>3, BytesAdded
  <1>5. Cardinality(BytesIn(S \cup {r})) <= global
    BY <1>2, <1>3, MoreBytes
  <1>6. Cardinality(BytesIn(S \cup {r})) <= Cardinality(BytesIn(T))
    BY <1>2, MoreBytes
  <1>7. session[s] \in Nat /\ Size(r) \in Nat /\ global \in Nat /\ Cardinality(BytesIn(T)) \in Nat
    BY <1>2, <1>3, BytesFinite, SizeType
  <1> HIDE DEF S
  <1>8. CASE MaxGlobal <= MaxSession
    BY <1>1, <1>3, <1>4, <1>5, <1>7, <1>8, BudgetAssumption
  <1>9. CASE Cardinality(BytesIn(T)) <= MaxSession
    BY <1>1, <1>4, <1>6, <1>7, <1>9, BudgetAssumption
  <1> QED
    BY <1>8, <1>9 DEF NoSilentRelease

\* A step of request q: the stage it leaves and the one it enters.
LEMMA NoRollBackStep ==
    ASSUME NoSilentRelease, BudgetInvariant, NoRollBack, [Next]_vars
    PROVE  NoRollBack'
  <1>0. OtherTypes /\ StageKinds /\ \A r \in Requests : ~IsStream(r)
    BY DEF BudgetInvariant, TypeOK, OtherTypes, NoSilentRelease
  <1> SUFFICES ASSUME NEW r \in Requests, stage'[r] = "undoGlobal"
               PROVE  FALSE
    BY DEF NoRollBack
  <1>1. stage[r] # "undoGlobal" /\ stage \in [Requests -> Stages]
    BY <1>0 DEF NoRollBack, OtherTypes
  <1>2. ASSUME NEW q \in Requests, Neutral(q)
        PROVE  FALSE
    <2>1. CASE q = r
      BY <1>1, <1>2, <2>1 DEF Neutral, StartSend, EnrollSend, CheckOpen, StartTrySend, StartStream,
          SendRefused, SendWakes, SendTimesOut, OthersRefused, StreamRefused, StreamRetries, StreamStopped,
          Reserved, Release, TellSession, TellOwner, TellStream, Goto
    <2>2. CASE q # r
      BY <1>0, <1>1, <1>2, <2>2, OthersNeutral DEF Undisturbed
    <2> QED
      BY <2>1, <2>2
  <1>3. ASSUME NEW q \in Requests, Counting(q)
        PROVE  FALSE
    <2>1. CASE q = r
      <3>1. CASE TrySession(r)
        BY <1>1, <3>1, SessionAccepts DEF TrySession, Goto
      <3>2. CASE TryGlobal(r) \/ TryStream(r) \/ UndoGlobal(r)
        BY <1>1, <3>2 DEF TryGlobal, TryStream, UndoGlobal, Goto
      <3>3. CASE FreeStream(r) \/ FreeSession(r) \/ FreeGlobal(r)
        BY <1>1, <3>3 DEF FreeStream, FreeSession, FreeGlobal, Goto
      <3>4. ~UndoSession(r)
        BY <1>0 DEF UndoSession, StageKinds
      <3> QED
        BY <1>3, <2>1, <3>1, <3>2, <3>3, <3>4 DEF Counting
    <2>2. CASE q # r
      BY <1>0, <1>1, <1>3, <2>2, OthersCounting DEF Undisturbed
    <2> QED
      BY <2>1, <2>2
  <1>4. ASSUME NEW s \in Sessions, CloseFlag(s) \/ CloseStep(s)
        PROVE  FALSE
    BY <1>1, <1>4 DEF CloseFlag, CloseStep, CloseTellsSession, CloseTellsOwner
  <1>5. ASSUME NEW s \in Sessions, FwdStep(s)
        PROVE  FALSE
    BY <1>1, <1>5 DEF FwdStep, FwdTop, FwdEnroll, FwdCheck, FwdWakes, FwdEnds
  <1>6. ASSUME NEW s \in Sessions, FwdReceives(s)
        PROVE  FALSE
    BY <1>1, <1>6 DEF FwdReceives, Goto
  <1>7. CASE (\E q \in Requests : DeadlinePasses(q)) \/ UNCHANGED vars
    BY <1>1, <1>7 DEF DeadlinePasses, vars
  <1> QED
    BY <1>2, <1>3, <1>4, <1>5, <1>6, <1>7, NextCases DEF Aside

\* The step of r itself, which comes to be refused only when it does not fit.
LEMMA SleepsOwn ==
    ASSUME NoSilentRelease, BudgetInvariant, NoRollBack, NEW r \in Requests, Sleeps(r), KindOf[r] = "send",
           Neutral(r) \/ Counting(r), stage'[r] \in {"refused", "parked"}, r \notin woken'
    PROVE  global' + Size(r) > MaxGlobal \/ Telling' # {}
  <1>0. /\ stage \in [Requests -> Stages] /\ global \in Nat /\ ~IsStream(r) /\ stage[r] # "undoGlobal"
        /\ Size(r) \in Nat /\ MaxGlobal \in Nat
    BY SizeType, BudgetAssumption DEF BudgetInvariant, TypeOK, NoSilentRelease, NoRollBack
  <1>1. CASE TryGlobal(r)
    <2>1. global' = global /\ ~(global + Size(r) <= MaxGlobal)
      BY <1>0, <1>1 DEF TryGlobal, Goto
    <2> QED
      BY <1>0, <2>1
  <1>2. CASE SendRefused(r)
    <2>1. stage[r] = "refused" /\ global' = global /\ stage' = [stage EXCEPT ![r] = "parked"] /\ woken' = woken
      BY <1>0, <1>2 DEF SendRefused, Goto, budgets, waiting
    <2>2. Telling \subseteq Telling'
      BY <1>0, <2>1 DEF Telling
    <2> QED
      BY <2>1, <2>2 DEF Sleeps
  <1>3. CASE Counting(r) /\ ~TryGlobal(r)
    <2>1. stage'[r] \notin {"refused", "parked"}
      BY <1>0, <1>3 DEF Counting, TrySession, TryStream, UndoSession, UndoGlobal, FreeStream, FreeSession,
          FreeGlobal, Goto
    <2> QED
      BY <2>1
  <1>4. CASE Neutral(r) /\ ~SendRefused(r)
    <2>1. stage'[r] \notin {"refused", "parked"}
      BY <1>0, <1>4 DEF Neutral, StartSend, EnrollSend, CheckOpen, StartTrySend, StartStream,
          SendWakes, SendTimesOut, OthersRefused, StreamRefused, StreamRetries, StreamStopped,
          Reserved, Release, TellSession, TellOwner, TellStream, Goto, IsStream
    <2> QED
      BY <2>1
  <1> QED
    BY <1>1, <1>2, <1>3, <1>4

\* The step of another request: it takes capacity, or frees it and is about
\* to tell, or tells.
LEMMA SleepsOthers ==
    ASSUME NoSilentRelease, BudgetInvariant, NoRollBack, CloseHeard, NEW r \in Requests, Sleeps(r),
           KindOf[r] = "send", NEW q \in Requests \ {r}, Neutral(q) \/ Counting(q),
           stage[r] \in {"refused", "parked"}, r \notin woken'
    PROVE  global' + Size(r) > MaxGlobal \/ Telling' # {}
  <1>0. /\ stage \in [Requests -> Stages] /\ global \in Nat /\ ~IsStream(r) /\ ~IsStream(q)
        /\ stage[q] # "undoGlobal" /\ r \in enrolled /\ r \in Requests
        /\ Size(r) \in Nat /\ Size(q) \in Nat /\ MaxGlobal \in Nat /\ r \notin woken
        /\ stage[q] \notin {"stream", "undoSession", "freeStream", "tellStream"}
    <2>1. r \in woken => r \in woken'
      BY OthersNeutral, OthersCounting DEF Undisturbed, BudgetInvariant, TypeOK, OtherTypes
    <2> QED
      BY <2>1, SizeType, BudgetAssumption
         DEF BudgetInvariant, TypeOK, NoSilentRelease, NoRollBack, CloseHeard, Hears, Waiting, StageKinds
  <1>1. global + Size(r) > MaxGlobal \/ Telling # {}
    BY <1>0 DEF Sleeps
  \* Whoever is telling goes on doing so, unless it is q.
  <1>2. \A p \in Telling : p = q \/ stage'[p] = stage[p]
    BY <1>0, OthersNeutral, OthersCounting DEF Telling, Undisturbed, BudgetInvariant, TypeOK, OtherTypes
  <1>3. CASE TellOwner(q)
    <2>1. r \in OwnerWaiters
      BY <1>0 DEF OwnerWaiters
    <2> QED
      BY <1>3, <2>1 DEF TellOwner
  <1>4. CASE TellSession(q) \/ FreeGlobal(q)
    <2>1. stage'[q] \in {"tellSession", "tellOwner"}
      BY <1>0, <1>4 DEF TellSession, FreeGlobal, Goto
    <2> QED
      BY <2>1 DEF Telling
  <1>5. CASE ~(TellOwner(q) \/ TellSession(q) \/ FreeGlobal(q))
    <2>1. q \notin Telling /\ global' >= global
      <3>1. CASE Counting(q)
        BY <1>0, <1>5, <3>1 DEF Counting, TryGlobal, TrySession, TryStream, UndoSession, UndoGlobal,
            FreeStream, FreeSession, FreeGlobal, Telling
      <3>2. CASE Neutral(q)
        <4>1. global' = global
          BY <3>2, NeutralEffect DEF BudgetInvariant, TypeOK, OtherTypes, budgets
        <4>2. q \notin Telling
          BY <1>0, <1>5, <3>2 DEF Neutral, StartSend, EnrollSend, CheckOpen, StartTrySend, StartStream,
              SendRefused, SendWakes, SendTimesOut, OthersRefused, StreamRefused, StreamRetries, StreamStopped,
              Reserved, Release, TellStream, Telling
        <4> QED
          BY <1>0, <4>1, <4>2
      <3> QED
        BY <3>1, <3>2
    <2>2. Telling \subseteq Telling'
      BY <1>2, <2>1 DEF Telling
    <2>3. global' \in Nat
      BY BudgetStep, NextCases DEF BudgetInvariant, TypeOK, Next, Neutral, Counting, Progress, Unpark
    <2> QED
      BY <1>0, <1>1, <2>1, <2>2, <2>3
  <1> QED
    BY <1>3, <1>4, <1>5

LEMMA SleepsStep ==
    ASSUME NoSilentRelease, BudgetInvariant, CloseHeard, CapacityHeard, [Next]_vars
    PROVE  CapacityHeard'
  <1>0. OtherTypes /\ StageKinds /\ NoRollBack /\ global \in Nat
    BY DEF BudgetInvariant, TypeOK, OtherTypes, CapacityHeard
  <1> SUFFICES ASSUME NEW r \in Requests, KindOf[r] = "send", stage'[r] \in {"refused", "parked"}, r \notin woken'
               PROVE  global' + Size(r) > MaxGlobal \/ Telling' # {}
    BY <1>0, NoRollBackStep DEF CapacityHeard, Sleeps, Size
  <1>1. Sleeps(r)
    BY DEF CapacityHeard
  <1>2. ASSUME NEW q \in Requests, Neutral(q) \/ Counting(q)
        PROVE  global' + Size(r) > MaxGlobal \/ Telling' # {}
    <2>1. q # r => stage'[r] = stage[r]
      BY <1>0, <1>2, OthersNeutral, OthersCounting DEF Undisturbed
    <2> QED
      BY <1>0, <1>1, <1>2, <2>1, SleepsOwn, SleepsOthers
  <1>3. ASSUME Undisturbed(r), stage' = stage \/ (\E q \in Requests : stage[q] = "idle" /\ Goto(q, "global")),
               global' = global
        PROVE  global' + Size(r) > MaxGlobal \/ Telling' # {}
    <2>1. Telling \subseteq Telling'
      BY <1>0, <1>3 DEF Telling, Goto, OtherTypes
    <2> QED
      BY <1>1, <1>3, <2>1 DEF Sleeps, Undisturbed
  <1>4. ASSUME NEW s \in Sessions, CloseFlag(s) \/ CloseStep(s)
        PROVE  global' + Size(r) > MaxGlobal \/ Telling' # {}
    <2>1. UNCHANGED <<stage, global>> /\ woken \subseteq woken'
      BY <1>4 DEF CloseFlag, CloseStep, CloseTellsSession, CloseTellsOwner, waiting, budgets
    <2>2. Telling' = Telling
      BY <2>1 DEF Telling
    <2> QED
      BY <1>1, <2>1, <2>2 DEF Sleeps
  <1>5. CASE \/ \E q \in Requests : DeadlinePasses(q)
             \/ \E s \in Sessions : FwdStep(s) \/ FwdReceives(s)
             \/ UNCHANGED vars
    <2>1. global' = global
      BY <1>0, <1>5, AsideTypes DEF vars, budgets, Aside
    <2> QED
      BY <1>0, <1>3, <1>5, <2>1, AsideLeaves
  <1> QED
    BY <1>2, <1>4, <1>5, NextCases DEF Aside

\* Neither a capacity wake nor a lifecycle wake of a parked send is lost
\* (the comment on reserve_datagram_capacity), for any number of sends and
\* sessions, where nobody frees capacity silently.
THEOREM WakesCorrect == ASSUME NoSilentRelease PROVE Spec => []WakesKept
  <1>1. Init => CloseHeard /\ CapacityHeard
    BY DEF Init, CloseHeard, Hears, Waiting, Checked, CapacityHeard, NoRollBack, Sleeps
  <1>2. BudgetInvariant /\ CloseHeard /\ CapacityHeard /\ [Next]_vars => CloseHeard' /\ CapacityHeard'
    BY HeardStep, SleepsStep, NoSilentRelease DEF BudgetInvariant, TypeOK, OtherTypes
  <1>3. BudgetInvariant /\ CapacityHeard => NoLostWake
    <2> SUFFICES ASSUME BudgetInvariant, CapacityHeard, Quiet, NEW r \in Requests,
                        KindOf[r] = "send", stage[r] = "parked", r \notin woken
                 PROVE  ~Fits(r)
      BY DEF NoLostWake
    <2>1. Telling = {}
      BY DEF Telling, Quiet
    <2>2. global + Size(r) > MaxGlobal
      BY <2>1 DEF CapacityHeard, Sleeps
    <2> QED
      BY <2>2, SizeType, BudgetAssumption DEF Fits, BudgetInvariant, TypeOK
  <1> QED
    BY <1>1, <1>2, <1>3, BudgetHolds, CloseWakes, PTL DEF Spec, WakesKept

-----------------------------------------------------------------------------
(* Sums as cardinalities. *)

Slice(f, i) == {i} \X (1..f[i])

LEMMA Matches ==
    ASSUME NEW S, NEW T, NEW h \in [S -> T], IsFiniteSet(S),
           \A a, b \in S : h[a] = h[b] => a = b,
           \A t \in T : \E a \in S : h[a] = t
    PROVE  IsFiniteSet(T) /\ Cardinality(T) = Cardinality(S)
  <1>1. h \in Bijection(S, T)
    BY Zenon DEF Bijection, Injection, Surjection, IsInjective
  <1>2. ExistsBijection(S, T)
    BY <1>1, Zenon DEF ExistsBijection
  <1>. QED BY <1>2, FS_Bijection

\* What one index contributes.
LEMMA SliceSize ==
    ASSUME NEW D, NEW f \in [D -> Nat], NEW i \in D
    PROVE  IsFiniteSet(Slice(f, i)) /\ Cardinality(Slice(f, i)) = f[i]
  <1>. DEFINE S == 1..f[i]
              T == Slice(f, i)
              h == [b \in S |-> <<i, b>>]
  <1>1. IsFiniteSet(S) /\ Cardinality(S) = f[i]
    BY FS_Interval
  <1>2. h \in [S -> T]
    BY DEF Slice
  <1>3. \A a, b \in S : h[a] = h[b] => a = b
    OBVIOUS
  <1>4. \A p \in T : \E b \in S : h[b] = p
    BY DEF Slice
  <1>. HIDE DEF h, S, T
  <1>5. IsFiniteSet(T) /\ Cardinality(T) = f[i]
    BY <1>1, <1>2, <1>3, <1>4, Matches
  <1>. QED BY <1>5 DEF T

LEMMA UnitsFinite ==
    ASSUME NEW D, IsFiniteSet(D), NEW f \in [D -> Nat]
    PROVE  IsFiniteSet(Units(f)) /\ Total(f) \in Nat
  <1>. DEFINE h == [i \in D |-> Slice(f, i)]
              S == {Slice(f, i) : i \in D}
  <1>1. IsFiniteSet(S)
    <2>1. h \in Surjection(D, S)
      BY DEF Surjection
    <2>. QED BY <2>1, FS_Surjection
  <1>2. \A T \in S : IsFiniteSet(T)
    BY SliceSize
  <1>3. IsFiniteSet(UNION S)
    BY <1>1, <1>2, FS_UNION
  <1>4. Units(f) = UNION S
    BY DEF Units, Slice
  <1>. QED BY <1>3, <1>4, FS_CardinalityType DEF Total

\* Who is a unit.
LEMMA UnitsMembers ==
    ASSUME NEW D, NEW f \in [D -> Nat], NEW p
    PROVE  p \in Units(f) <=> \E i \in D : \E b \in 1..f[i] : p = <<i, b>>
  BY DEF Units

LEMMA TotalZero ==
    ASSUME NEW D, NEW f \in [D -> Nat], \A i \in D : f[i] = 0
    PROVE  Total(f) = 0
  <1>1. Units(f) = {}
    BY UnitsMembers
  <1>. QED BY <1>1, FS_EmptySet DEF Total

\* One index more.
LEMMA TotalAdd ==
    ASSUME NEW D, IsFiniteSet(D), NEW f \in [D -> Nat], NEW E, NEW g \in [E -> Nat],
           NEW d \in E, d \notin D, \A e \in D : e \in E /\ g[e] = f[e], \A e \in E : e \in D \/ e = d
    PROVE  Total(g) = Total(f) + g[d]
  <1>1. Units(g) = Units(f) \cup Slice(g, d)
    <2>. SUFFICES ASSUME NEW p PROVE p \in Units(g) <=> p \in Units(f) \/ p \in Slice(g, d)
      OBVIOUS
    <2>1. p \in Units(f) <=> \E i \in D : \E b \in 1..f[i] : p = <<i, b>>
      BY UnitsMembers
    <2>2. p \in Units(g) <=> \E i \in E : \E b \in 1..g[i] : p = <<i, b>>
      BY UnitsMembers
    <2>3. p \in Slice(g, d) <=> \E b \in 1..g[d] : p = <<d, b>>
      BY DEF Slice
    <2>. QED BY <2>1, <2>2, <2>3
  <1>2. Units(f) \cap Slice(g, d) = {}
    BY UnitsMembers DEF Slice
  <1>3. IsFiniteSet(Units(f)) /\ Cardinality(Units(f)) \in Nat
    BY UnitsFinite DEF Total
  <1>4. IsFiniteSet(Slice(g, d)) /\ Cardinality(Slice(g, d)) = g[d] /\ g[d] \in Nat
    BY SliceSize
  <1>5. Cardinality(Units(f) \cap Slice(g, d)) = 0
    BY <1>2, FS_EmptySet
  <1>6. Cardinality(Units(g)) = Cardinality(Units(f)) + g[d] - 0
    BY <1>1, <1>3, <1>4, <1>5, FS_Union
  <1>. QED BY <1>3, <1>4, <1>6 DEF Total

\* The sum changes by what one index changes.
LEMMA TotalUpdate ==
    ASSUME NEW D, IsFiniteSet(D), NEW f \in [D -> Nat], NEW g \in [D -> Nat], NEW d \in D,
           \A e \in D : e # d => g[e] = f[e]
    PROVE  Total(g) = Total(f) - f[d] + g[d]
  <1>. DEFINE E == D \ {d}
              r == [e \in E |-> f[e]]
  <1>1. IsFiniteSet(E)
    BY FS_RemoveElement
  <1>2. /\ r \in [E -> Nat] /\ d \notin E /\ \A e \in D : e \in E \/ e = d
        /\ \A e \in E : e \in D /\ f[e] = r[e] /\ g[e] = r[e]
    OBVIOUS
  <1>. HIDE DEF E, r
  <1>4. Total(f) = Total(r) + f[d]
    BY <1>1, <1>2, TotalAdd
  <1>5. Total(g) = Total(r) + g[d]
    BY <1>1, <1>2, TotalAdd
  <1>6. Total(r) \in Nat
    BY <1>1, <1>2, UnitsFinite
  <1>. QED BY <1>4, <1>5, <1>6

Varies(D, f, g, d) ==
    /\ IsFiniteSet(D) /\ f \in [D -> Nat] /\ g \in [D -> Nat] /\ d \in D
    /\ \A e \in D : e # d => g[e] = f[e]

LEMMA TotalVaries ==
    ASSUME NEW D, NEW f, NEW g, NEW d, Varies(D, f, g, d)
    PROVE  Total(g) = Total(f) - f[d] + g[d]
  BY TotalUpdate DEF Varies

\* The indices may be renamed.
Renames(m, E, D, f, g) ==
    /\ f \in [D -> Nat] /\ g \in [E -> Nat] /\ m \in [E -> D] /\ IsFiniteSet(E)
    /\ \A a, b \in E : m[a] = m[b] => a = b
    /\ \A d \in D : \E e \in E : m[e] = d
    /\ \A e \in E : g[e] = f[m[e]]

LEMMA TotalMove ==
    ASSUME NEW D, NEW E, NEW f, NEW g, NEW m, Renames(m, E, D, f, g)
    PROVE  Total(g) = Total(f)
  <1>0. /\ f \in [D -> Nat] /\ g \in [E -> Nat] /\ m \in [E -> D] /\ IsFiniteSet(E)
        /\ \A a, b \in E : m[a] = m[b] => a = b
        /\ \A d \in D : \E e \in E : m[e] = d
        /\ \A e \in E : g[e] = f[m[e]]
    BY DEF Renames
  <1>. DEFINE S == Units(g)
              T == Units(f)
              h == [p \in S |-> <<m[p[1]], p[2]>>]
  <1>1. ASSUME NEW p PROVE p \in S <=> \E i \in E : \E b \in 1..g[i] : p = <<i, b>>
    BY <1>0, UnitsMembers
  <1>2. ASSUME NEW p PROVE p \in T <=> \E i \in D : \E b \in 1..f[i] : p = <<i, b>>
    BY <1>0, UnitsMembers
  <1>3. IsFiniteSet(S)
    BY <1>0, UnitsFinite
  <1>. HIDE DEF S, T
  <1>4. h \in [S -> T]
    <2>. SUFFICES ASSUME NEW p \in S PROVE <<m[p[1]], p[2]>> \in T
      OBVIOUS
    <2>1. PICK i \in E : \E b \in 1..g[i] : p = <<i, b>>
      BY <1>1
    <2>2. PICK b \in 1..g[i] : p = <<i, b>>
      BY <2>1
    <2>3. m[i] \in D /\ b \in 1..f[m[i]]
      BY <1>0
    <2>4. <<m[i], b>> \in T
      BY <1>2, <2>3
    <2>. QED BY <2>2, <2>4
  <1>5. \A p, q \in S : h[p] = h[q] => p = q
    <2>. SUFFICES ASSUME NEW p \in S, NEW q \in S, h[p] = h[q] PROVE p = q
      OBVIOUS
    <2>1. PICK i \in E : \E b \in 1..g[i] : p = <<i, b>>
      BY <1>1
    <2>2. PICK j \in E : \E b \in 1..g[j] : q = <<j, b>>
      BY <1>1
    <2>3. m[i] = m[j]
      BY <2>1, <2>2
    <2>. QED BY <1>0, <2>1, <2>2, <2>3
  <1>6. \A q \in T : \E p \in S : h[p] = q
    <2>. SUFFICES ASSUME NEW q \in T PROVE \E p \in S : h[p] = q
      OBVIOUS
    <2>1. PICK i \in D : \E b \in 1..f[i] : q = <<i, b>>
      BY <1>2
    <2>2. PICK b \in 1..f[i] : q = <<i, b>>
      BY <2>1
    <2>3. PICK e \in E : m[e] = i
      BY <1>0
    <2>4. <<e, b>> \in S
      BY <1>0, <1>1, <2>3
    <2>. QED BY <2>2, <2>3, <2>4
  <1>. HIDE DEF h
  <1>7. Cardinality(T) = Cardinality(S)
    BY <1>3, <1>4, <1>5, <1>6, Matches
  <1>. QED BY <1>7 DEF S, T, Total

-----------------------------------------------------------------------------
(* Sums over a queue of jobs. *)

LEMMA SumType ==
    ASSUME NEW R, NEW jobs \in Seq(R), NEW field, \A r \in R : r[field] \in Nat
    PROVE  SumOf(jobs, field) \in Nat
  <1>. DEFINE D == 1..Len(jobs)
              f == [i \in D |-> jobs[i][field]]
  <1>1. f \in [D -> Nat]
    OBVIOUS
  <1>2. IsFiniteSet(D)
    BY FS_Interval
  <1>3. SumOf(jobs, field) = Total(f)
    BY DEF SumOf
  <1>. HIDE DEF f, D
  <1>. QED BY <1>1, <1>2, <1>3, UnitsFinite

LEMMA SumEmpty == \A field : SumOf(<<>>, field) = 0
  <1>. TAKE field
  <1>. DEFINE D == 1..Len(<<>>)
              f == [i \in D |-> <<>>[i][field]]
  <1>1. D = {}
    OBVIOUS
  <1>2. SumOf(<<>>, field) = Total(f)
    BY DEF SumOf
  <1>. HIDE DEF D
  <1>3. f \in [D -> Nat] /\ \A i \in D : f[i] = 0
    BY <1>1
  <1>. HIDE DEF f
  <1>. QED BY <1>2, <1>3, TotalZero

LEMMA SumAppend ==
    ASSUME NEW R, NEW jobs \in Seq(R), NEW field, \A r \in R : r[field] \in Nat, NEW job \in R
    PROVE  SumOf(Append(jobs, job), field) = SumOf(jobs, field) + job[field]
  <1>. DEFINE D == 1..Len(jobs)
              E == 1..Len(Append(jobs, job))
              d == Len(jobs) + 1
              f == [i \in D |-> jobs[i][field]]
              g == [i \in E |-> Append(jobs, job)[i][field]]
  <1>1. SumOf(jobs, field) = Total(f) /\ SumOf(Append(jobs, job), field) = Total(g)
    BY DEF SumOf
  <1>2. IsFiniteSet(D)
    BY FS_Interval
  <1>3. f \in [D -> Nat] /\ g \in [E -> Nat]
    OBVIOUS
  <1>4. d \notin D /\ d \in E /\ \A e \in E : e \in D \/ e = d
    OBVIOUS
  <1>5. g[d] = job[field] /\ \A e \in D : e \in E /\ g[e] = f[e]
    OBVIOUS
  <1>. HIDE DEF f, g, D, E, d
  <1>6. Total(g) = Total(f) + g[d]
    BY <1>2, <1>3, <1>4, <1>5, TotalAdd
  <1>. QED BY <1>1, <1>5, <1>6

LEMMA SumTail ==
    ASSUME NEW R, NEW jobs \in Seq(R), NEW field, \A r \in R : r[field] \in Nat, jobs # <<>>
    PROVE  SumOf(jobs, field) = Head(jobs)[field] + SumOf(Tail(jobs), field)
  <1>. DEFINE d == 1
              D == 2..Len(jobs)
              E == 1..Len(Tail(jobs))
              N == 1..Len(jobs)
              w == [i \in D |-> jobs[i][field]]
              f == [i \in N |-> jobs[i][field]]
              g == [i \in E |-> Tail(jobs)[i][field]]
              m == [i \in E |-> i + 1]
  <1>1. SumOf(jobs, field) = Total(f) /\ SumOf(Tail(jobs), field) = Total(g)
    BY DEF SumOf
  <1>2. Len(jobs) \in Nat /\ Len(jobs) >= 1 /\ Len(Tail(jobs)) = Len(jobs) - 1
    OBVIOUS
  <1>3. IsFiniteSet(D) /\ IsFiniteSet(E)
    BY <1>2, FS_Interval
  <1>4. w \in [D -> Nat] /\ f \in [N -> Nat]
    OBVIOUS
  <1>5. d \notin D /\ d \in N /\ \A e \in N : e \in D \/ e = d
    BY <1>2
  <1>6. \A e \in D : e \in N /\ f[e] = w[e]
    OBVIOUS
  <1>7. g \in [E -> Nat] /\ m \in [E -> D] /\ \A e \in E : g[e] = w[m[e]]
    <2>1. \A i \in E : i + 1 \in D /\ Tail(jobs)[i] = jobs[i + 1] /\ jobs[i + 1] \in R
      BY <1>2
    <2>. QED BY <2>1
  <1>8. \A a, b \in E : m[a] = m[b] => a = b
    OBVIOUS
  <1>9. \A a \in D : \E e \in E : m[e] = a
    <2>1. \A a \in D : a - 1 \in E /\ m[a - 1] = a
      BY <1>2
    <2>. QED BY <2>1
  <1>10. f[d] = Head(jobs)[field] /\ f[d] \in Nat
    BY <1>2
  <1>. HIDE DEF f, g, w, m, d, D, E, N
  <1>11. Total(f) = Total(w) + f[d]
    BY <1>3, <1>4, <1>5, <1>6, TotalAdd
  <1>12. Total(g) = Total(w)
    <2>1. Renames(m, E, D, w, g)
      BY <1>3, <1>4, <1>7, <1>8, <1>9, Zenon DEF Renames
    <2>. QED BY <2>1, TotalMove
  <1>13. Total(w) \in Nat
    BY <1>3, <1>4, UnitsFinite
  <1>. QED BY <1>1, <1>10, <1>11, <1>12, <1>13

\* One job of a queue is changed.
Swaps(jobs, new, d) ==
    d \in 1..Len(jobs) /\ Len(new) = Len(jobs) /\ \A i \in 1..Len(jobs) : i # d => new[i] = jobs[i]

LEMMA SumChange ==
    ASSUME NEW R, NEW jobs \in Seq(R), NEW new \in Seq(R), NEW field, \A r \in R : r[field] \in Nat,
           NEW d, Swaps(jobs, new, d)
    PROVE  SumOf(new, field) = SumOf(jobs, field) - jobs[d][field] + new[d][field]
  <1>. DEFINE D == 1..Len(jobs)
              f == [i \in D |-> jobs[i][field]]
              g == [i \in D |-> new[i][field]]
  <1>0. d \in 1..Len(jobs) /\ Len(new) = Len(jobs) /\ \A i \in 1..Len(jobs) : i # d => new[i] = jobs[i]
    BY DEF Swaps
  <1>1. SumOf(jobs, field) = Total(f) /\ SumOf(new, field) = Total(g)
    BY <1>0 DEF SumOf
  <1>2. IsFiniteSet(D)
    BY FS_Interval
  <1>3. f \in [D -> Nat] /\ g \in [D -> Nat] /\ d \in D
    BY <1>0
  <1>4. f[d] = jobs[d][field] /\ g[d] = new[d][field] /\ \A e \in D : e # d => g[e] = f[e]
    BY <1>0
  <1>. HIDE DEF f, g, D
  <1>5. Total(g) = Total(f) - f[d] + g[d]
    <2>1. Varies(D, f, g, d)
      BY <1>2, <1>3, <1>4, Zenon DEF Varies
    <2>. QED BY <2>1, TotalVaries
  <1>. QED BY <1>1, <1>4, <1>5

-----------------------------------------------------------------------------
(* The invariant. *)

Job == [owner : Servers, left : Nat \ {0}, bytes : Nat]
Pacer == [pc : {"none", "take", "clump", "wait", "send", "done", "bytes"},
          job : [owner : Servers \cup {"none"}, left : Nat, bytes : Nat],
          clump : Nat, sent : Nat, cursor : Int, tx : Nat, since : Nat]
Counts == [submits : Nat, admitted : Nat, clumps : Nat, starts : Nat, deferred : Nat, dropped : Nat,
           drained : Nat, delivered : Nat, panics : Nat, lost : Nat, leakedBytes : Nat, leaked : Nat]

PacerShape ==
    /\ queue \in Seq(Job) /\ orphans \in Seq(Job) /\ \E R : reports \in Seq(R)
    /\ pending \in [targets : Nat, bytes : Nat] /\ running \in BOOLEAN
    /\ thread \in [Threads -> Pacer] /\ now \in Nat /\ count \in Counts

\* What a thread has in hand at each of its steps.
InHand(t) ==
    /\ t.pc \in {"none", "take"} => t.job.left = 0 /\ t.job.bytes = 0
    /\ t.pc \in {"none", "take", "clump", "bytes"} => t.clump = 0 /\ t.sent = 0
    /\ t.pc \in {"clump", "wait", "send", "done"} => t.job.left > 0
    /\ t.pc \in {"wait", "send", "done"} => t.clump > 0 /\ t.clump <= t.job.left
    /\ t.pc = "wait" => t.sent = 0
    /\ t.pc = "send" => t.sent < t.clump
    /\ t.pc = "done" => t.sent = t.clump
    /\ t.pc = "bytes" => t.job.left = 0

Hands == \A k \in Threads : InHand(thread[k])

\* One thread, and the flag says whether there is one.
OneRuns ==
    /\ \A k \in Threads : thread[k].pc # "none" => running
    /\ \A j, k \in Threads : thread[j].pc # "none" /\ thread[k].pc # "none" => j = k
    /\ running => \E k \in Threads : thread[k].pc # "none"
    /\ queue # <<>> => running \/ count.panics > 0

\* Before its first clump a thread has one in reserve; a clump that waits has
\* its place in the schedule; the last clump left no earlier than its place.
OnTime(t) ==
    \/ t.cursor = -1 /\ t.pc \in {"take", "clump"} /\ count.clumps < (now \div Interval) + count.starts
    \/ t.cursor = t.tx + Interval /\ t.pc = "wait" /\ count.clumps < (t.tx \div Interval) + count.starts
    \/ /\ t.cursor = t.tx + Interval /\ t.pc # "wait" /\ t.tx <= now
       /\ count.clumps <= (t.tx \div Interval) + count.starts

Paced == PaceKept /\ \A k \in Threads : thread[k].pc # "none" => OnTime(thread[k])

Within == pending.targets <= MaxPending /\ pending.bytes <= MaxQueued /\ Len(reports) <= ReportsCap

PacerCore == PacerShape /\ Hands /\ OneRuns /\ Paced /\ Within /\ PendingExact /\ TargetsSettled

LEMMA JobFields == \A r \in Job : r["left"] \in Nat /\ r["bytes"] \in Nat /\ r["left"] = r.left /\ r["bytes"] = r.bytes
  BY DEF Job

LEMMA SumsAreNats ==
    ASSUME NEW jobs \in Seq(Job)
    PROVE  SumOf(jobs, "left") \in Nat /\ SumOf(jobs, "bytes") \in Nat
  BY JobFields, SumType

LEMMA ThreadSums ==
    ASSUME NEW th \in [Threads -> Pacer]
    PROVE  /\ [k \in Threads |-> th[k].job["left"]] \in [Threads -> Nat]
           /\ [k \in Threads |-> th[k].job["bytes"]] \in [Threads -> Nat]
           /\ [k \in Threads |-> th[k].sent] \in [Threads -> Nat]
  BY DEF Pacer

LEMMA HeldNats ==
    ASSUME thread \in [Threads -> Pacer]
    PROVE  Held("left") \in Nat /\ Held("bytes") \in Nat /\ SentNow \in Nat
  BY PacerAssumption, ThreadSums, UnitsFinite DEF Held, SentNow

\* A step of one thread moves the sums by what it moves.
LEMMA HeldStep ==
    ASSUME thread \in [Threads -> Pacer], NEW k \in Threads, NEW new \in Pacer,
           thread' = [thread EXCEPT ![k] = new]
    PROVE  /\ thread' \in [Threads -> Pacer]
           /\ Held("left")' = Held("left") - thread[k].job.left + new.job.left
           /\ Held("bytes")' = Held("bytes") - thread[k].job.bytes + new.job.bytes
           /\ SentNow' = SentNow - thread[k].sent + new.sent
  <1>. DEFINE F(th, f) == [j \in Threads |-> th[j].job[f]]
              S(th) == [j \in Threads |-> th[j].sent]
  <1>1. thread' \in [Threads -> Pacer]
    OBVIOUS
  <1>2. IsFiniteSet(Threads)
    BY PacerAssumption
  <1>3. /\ F(thread, "left") \in [Threads -> Nat] /\ F(thread', "left") \in [Threads -> Nat]
        /\ F(thread, "bytes") \in [Threads -> Nat] /\ F(thread', "bytes") \in [Threads -> Nat]
        /\ S(thread) \in [Threads -> Nat] /\ S(thread') \in [Threads -> Nat]
    BY <1>1, ThreadSums
  <1>4. \A j \in Threads : j # k => thread'[j] = thread[j]
    OBVIOUS
  <1>5. thread'[k] = new
    OBVIOUS
  <1>6. /\ \A j \in Threads : j # k => F(thread', "left")[j] = F(thread, "left")[j]
        /\ \A j \in Threads : j # k => F(thread', "bytes")[j] = F(thread, "bytes")[j]
        /\ \A j \in Threads : j # k => S(thread')[j] = S(thread)[j]
    BY <1>4
  <1>7. /\ F(thread', "left")[k] = new.job.left /\ F(thread, "left")[k] = thread[k].job.left
        /\ F(thread', "bytes")[k] = new.job.bytes /\ F(thread, "bytes")[k] = thread[k].job.bytes
        /\ S(thread')[k] = new.sent /\ S(thread)[k] = thread[k].sent
    BY <1>5 DEF Pacer
  <1>8. /\ Held("left") = Total(F(thread, "left")) /\ Held("left")' = Total(F(thread', "left"))
        /\ Held("bytes") = Total(F(thread, "bytes")) /\ Held("bytes")' = Total(F(thread', "bytes"))
        /\ SentNow = Total(S(thread)) /\ SentNow' = Total(S(thread'))
    BY DEF Held, SentNow, Total, Units
  <1>. HIDE DEF F, S
  <1>9. Total(F(thread', "left")) = Total(F(thread, "left")) - F(thread, "left")[k] + F(thread', "left")[k]
    <2>1. Varies(Threads, F(thread, "left"), F(thread', "left"), k)
      BY <1>2, <1>3, <1>6, Zenon DEF Varies
    <2>. QED BY <2>1, TotalVaries
  <1>10. Total(F(thread', "bytes")) = Total(F(thread, "bytes")) - F(thread, "bytes")[k] + F(thread', "bytes")[k]
    <2>1. Varies(Threads, F(thread, "bytes"), F(thread', "bytes"), k)
      BY <1>2, <1>3, <1>6, Zenon DEF Varies
    <2>. QED BY <2>1, TotalVaries
  <1>11. Total(S(thread')) = Total(S(thread)) - S(thread)[k] + S(thread')[k]
    <2>1. Varies(Threads, S(thread), S(thread'), k)
      BY <1>2, <1>3, <1>6, Zenon DEF Varies
    <2>. QED BY <2>1, TotalVaries
  <1>. QED BY <1>1, <1>7, <1>8, <1>9, <1>10, <1>11

\* Threads that hold nothing.
LEMMA HeldNothing ==
    ASSUME thread \in [Threads -> Pacer],
           \A k \in Threads : thread[k].job.left = 0 /\ thread[k].job.bytes = 0 /\ thread[k].sent = 0
    PROVE  Held("left") = 0 /\ Held("bytes") = 0 /\ SentNow = 0
  <1>. DEFINE F(f) == [j \in Threads |-> thread[j].job[f]]
              S == [j \in Threads |-> thread[j].sent]
  <1>1. F("left") \in [Threads -> Nat] /\ F("bytes") \in [Threads -> Nat] /\ S \in [Threads -> Nat]
    BY ThreadSums
  <1>2. \A j \in Threads : F("left")[j] = 0 /\ F("bytes")[j] = 0 /\ S[j] = 0
    OBVIOUS
  <1>3. Held("left") = Total(F("left")) /\ Held("bytes") = Total(F("bytes")) /\ SentNow = Total(S)
    BY DEF Held, SentNow
  <1>. HIDE DEF F, S
  <1>. QED BY <1>1, <1>2, <1>3, TotalZero

\* What one division says about the next.
LEMMA Divisions ==
    ASSUME NEW a \in Nat, NEW b \in Nat, NEW i \in Nat \ {0}
    PROVE  /\ a \div i \in Nat /\ (a + i) \div i = (a \div i) + 1
           /\ a <= b => a \div i <= b \div i
  OBVIOUS

-----------------------------------------------------------------------------
(* The thread's steps. *)

\* The parts that speak of the threads, after a step of thread k that starts or
\* stops none.
LEMMA StillOne ==
    ASSUME PacerShape, OneRuns, Hands, NEW k \in Threads, NEW new \in Pacer,
           thread' = [thread EXCEPT ![k] = new], thread[k].pc # "none", new.pc # "none", InHand(new),
           running' = running, queue' # <<>> => queue # <<>> \/ running', count'.panics = count.panics
    PROVE  OneRuns' /\ Hands'
  BY DEF PacerShape, OneRuns, Hands

LEMMA StillPaced ==
    ASSUME PacerShape, OneRuns, Paced, NEW k \in Threads, NEW new \in Pacer,
           thread' = [thread EXCEPT ![k] = new], thread[k].pc # "none",
           OnTime(new)', PaceKept'
    PROVE  Paced'
  <1>1. \A j \in Threads : thread'[j].pc # "none" => j = k /\ thread'[j] = new
    BY DEF PacerShape, OneRuns
  <1>. QED BY <1>1 DEF Paced, OnTime

\* On time stays on time when the counts and the clock stay.
LEMMA OnTimeKept ==
    ASSUME NEW t \in Pacer, NEW new \in Pacer, OnTime(t), count'.clumps = count.clumps, count'.starts = count.starts,
           now' = now, new.cursor = t.cursor, new.tx = t.tx, t.pc # "wait", new.pc # "wait",
           t.cursor = -1 => new.pc \in {"take", "clump"}
    PROVE  OnTime(new)'
  BY DEF OnTime, Pacer

\* The numbers of the state.
Sums ==
    /\ SumOf(queue, "left") \in Nat /\ SumOf(queue, "bytes") \in Nat /\ SumOf(orphans, "left") \in Nat
    /\ Held("left") \in Nat /\ Held("bytes") \in Nat /\ SentNow \in Nat
Tallies ==
    /\ count.leaked \in Nat /\ count.leakedBytes \in Nat /\ count.admitted \in Nat
    /\ count.delivered \in Nat /\ count.deferred \in Nat /\ count.lost \in Nat
    /\ count.dropped \in Nat /\ count.drained \in Nat /\ Len(reports) \in Nat

LEMMA SumsHold == PacerShape => Sums
  BY SumsAreNats, HeldNats DEF PacerShape, Sums

LEMMA TalliesHold == PacerShape => Tallies
  BY DEF PacerShape, Counts, Tallies

\* The ledgers: what is reserved, what is owed, what is settled.
Left == SumOf(queue, "left") + Held("left")
Costs == SumOf(queue, "bytes") + Held("bytes")
Owed == Left + SumOf(orphans, "left") - SentNow
Settled == count.delivered + count.deferred + count.lost
Told == Len(reports) + count.dropped + count.drained

LEMMA LedgerNats ==
    ASSUME PacerShape
    PROVE  Left \in Nat /\ Costs \in Nat /\ Owed \in Int /\ Settled \in Nat /\ Told \in Nat
  <1>1. Sums /\ Tallies
    BY SumsHold, TalliesHold
  <1>2. Left \in Nat /\ Costs \in Nat
    BY <1>1 DEF Sums, Left, Costs
  <1>3. Owed \in Int
    BY <1>1, <1>2 DEF Sums, Owed
  <1>4. Settled \in Nat
    <2>1. count.delivered + count.deferred \in Nat /\ count.lost \in Nat
      BY <1>1 DEF Tallies
    <2>. QED BY <2>1 DEF Settled
  <1>5. Told \in Nat
    <2>1. Len(reports) + count.dropped \in Nat /\ count.drained \in Nat
      BY <1>1 DEF Tallies
    <2>. QED BY <2>1 DEF Told
  <1>. QED BY <1>2, <1>3, <1>4, <1>5

LEMMA Regroup ==
    /\ \A a, b, c \in Int : a + (b - c) = (a + b) - c
    /\ \A a, b \in Int : a + (b - a) = b
  OBVIOUS

LEMMA Cancels == ASSUME NEW a \in Int, NEW b \in Int, NEW c \in Int, NEW d \in Int, b = c + d
                 PROVE  a = a + d + (c - b)
  OBVIOUS

LEMMA LedgerMeaning ==
    ASSUME PacerShape
    PROVE  /\ PendingExact <=> /\ pending.targets = Left + count.leaked
                               /\ pending.bytes = Costs + count.leakedBytes
           /\ TargetsSettled <=> /\ count.admitted = Settled + Owed
                                 /\ count.deferred = Told
  <1>1. Sums /\ Tallies
    BY SumsHold, TalliesHold
  <1>2. InFlight = Left + SumOf(orphans, "left") /\ InFlight \in Nat
    BY <1>1 DEF Sums, InFlight, OrphanTargets, Left
  <1>3. Settled \in Nat /\ Settled = count.delivered + count.deferred + count.lost
    BY LedgerNats DEF Settled
  <1>4. Settled + Owed = Settled + InFlight - SentNow
    <2>1. Owed = InFlight - SentNow
      <3>1. Left \in Int /\ SumOf(orphans, "left") \in Int /\ SentNow \in Int
        BY <1>1, LedgerNats DEF Sums
      <3>. QED BY <1>2, <3>1, Regroup, Zenon DEF Owed
    <2>2. SentNow \in Nat
      BY <1>1 DEF Sums
    <2>. QED BY <1>2, <1>3, <2>1, <2>2
  <1>5. TargetsSettled <=> count.admitted = Settled + InFlight - SentNow /\ count.deferred = Told
    BY <1>3 DEF TargetsSettled, Told
  <1>. QED BY <1>4, <1>5 DEF PendingExact, Left, Costs

Books ==
    /\ pending.targets = Left + count.leaked /\ pending.bytes = Costs + count.leakedBytes
    /\ count.admitted = Settled + Owed /\ count.deferred = Told
Numbers ==
    /\ Left \in Nat /\ Costs \in Nat /\ Owed \in Int /\ Settled \in Nat /\ Told \in Nat
    /\ pending.targets \in Nat /\ pending.bytes \in Nat
    /\ count.leaked \in Nat /\ count.leakedBytes \in Nat /\ count.admitted \in Nat /\ count.deferred \in Nat

LEMMA Ledger == PacerShape => /\ Numbers
                              /\ PendingExact /\ TargetsSettled <=> Books
  <1>. SUFFICES ASSUME PacerShape PROVE Numbers /\ (PendingExact /\ TargetsSettled <=> Books)
    OBVIOUS
  <1>1. Tallies /\ pending.targets \in Nat /\ pending.bytes \in Nat
    BY TalliesHold DEF PacerShape
  <1>. QED BY <1>1, LedgerMeaning, LedgerNats DEF Books, Numbers, Tallies

LEMMA LedgerNext == PacerShape' => /\ Numbers'
                                   /\ PendingExact' /\ TargetsSettled' <=> Books'
  BY Ledger, PTL

\* A step that moves targets, bytes and reports keeps the books when it enters
\* both sides.
LEMMA BooksKept ==
    ASSUME PacerCore, PacerShape', NEW dl \in Int, NEW db \in Int, NEW d \in Int,
           Left' = Left + dl, pending'.targets = pending.targets + dl + (count'.leaked - count.leaked),
           Costs' = Costs + db, pending'.bytes = pending.bytes + db + (count'.leakedBytes - count.leakedBytes),
           Owed' = Owed + d, count'.admitted = count.admitted + d + (Settled' - Settled),
           count'.deferred = count.deferred + (Told' - Told)
    PROVE  PendingExact' /\ TargetsSettled'
  <1>1. Numbers /\ Numbers' /\ Books
    BY Ledger, LedgerNext DEF PacerCore
  <1>2. pending'.targets = Left' + count'.leaked
    BY <1>1 DEF Numbers, Books
  <1>3. pending'.bytes = Costs' + count'.leakedBytes
    BY <1>1 DEF Numbers, Books
  <1>4. count'.admitted = Settled' + Owed'
    <2>1. count.admitted = Settled + Owed
      BY <1>1 DEF Books
    <2>2. Settled \in Nat /\ Settled' \in Nat /\ Owed \in Int
      BY <1>1 DEF Numbers
    <2>. QED BY <2>1, <2>2
  <1>5. count'.deferred = Told'
    <2>1. count.deferred = Told
      BY <1>1 DEF Books
    <2>2. Told \in Int /\ Told' \in Int
      BY <1>1 DEF Numbers
    <2>. QED BY <2>1, <2>2, Regroup, Zenon
  <1>. QED BY <1>2, <1>3, <1>4, <1>5, LedgerNext DEF Books

LEMMA TakeJobCore ==
    ASSUME PacerCore, NEW k \in Threads, TakeJob(k) PROVE PacerCore'
  <1>. DEFINE t == thread[k]
  <1>0. PICK new : new = [t EXCEPT !.pc = "clump", !.job = Head(queue)]
    OBVIOUS
  <1>1. /\ t \in Pacer /\ t.pc = "take" /\ queue # <<>> /\ queue' = Tail(queue)
        /\ thread' = [thread EXCEPT ![k] = new]
        /\ UNCHANGED <<pending, running, reports, orphans, now, count>>
    BY <1>0 DEF PacerCore, PacerShape, TakeJob, Sets
  <1>2. Head(queue) \in Job /\ queue' \in Seq(Job)
    BY <1>1 DEF PacerCore, PacerShape
  <1>3. /\ new \in Pacer /\ new.pc = "clump" /\ new.job.left = Head(queue).left /\ new.job.bytes = Head(queue).bytes
        /\ new.sent = t.sent /\ new.clump = t.clump /\ new.cursor = t.cursor /\ new.tx = t.tx
        /\ Head(queue).left \in Nat \ {0} /\ Head(queue).bytes \in Nat
    BY <1>0, <1>1, <1>2 DEF Pacer, Job
  <1>4. InHand(t) /\ OnTime(t)
    BY <1>1 DEF PacerCore, Hands, Paced
  <1>5. InHand(new)
    BY <1>1, <1>3, <1>4 DEF InHand
  <1>6. OnTime(new)'
    BY <1>1, <1>3, <1>4, OnTimeKept
  <1>7. PacerShape'
    BY <1>1, <1>2, <1>3 DEF PacerCore, PacerShape
  <1>8. OneRuns' /\ Hands' /\ Paced' /\ Within'
    <2>1. OneRuns' /\ Hands'
      BY <1>1, <1>3, <1>5, StillOne DEF PacerCore
    <2>2. PaceKept'
      BY <1>1 DEF PacerCore, Paced, PaceKept
    <2>3. Paced'
      BY <1>1, <1>3, <1>6, <2>2, StillPaced DEF PacerCore
    <2>. QED BY <1>1, <2>1, <2>3 DEF PacerCore, Within
  <1>9. /\ Held("left")' = Held("left") - t.job.left + new.job.left
        /\ Held("bytes")' = Held("bytes") - t.job.bytes + new.job.bytes
        /\ SentNow' = SentNow - t.sent + new.sent
    BY <1>1, <1>3, HeldStep DEF PacerCore, PacerShape
  <1>10. /\ SumOf(queue, "left") = Head(queue).left + SumOf(queue', "left")
         /\ SumOf(queue, "bytes") = Head(queue).bytes + SumOf(queue', "bytes")
    BY <1>1, <1>2, JobFields, SumTail DEF PacerCore, PacerShape
  <1>11. /\ SumOf(queue, "left") \in Nat /\ SumOf(queue', "left") \in Nat
         /\ SumOf(queue, "bytes") \in Nat /\ SumOf(queue', "bytes") \in Nat
    BY <1>2, SumsAreNats DEF PacerCore, PacerShape
  <1>12. Held("left") \in Nat /\ Held("bytes") \in Nat /\ SentNow \in Nat
    BY HeldNats DEF PacerCore, PacerShape
  <1>13. t.job.left = 0 /\ t.job.bytes = 0 /\ t.sent \in Nat
    BY <1>1, <1>4 DEF InHand, Pacer
  <1>. HIDE DEF t
  <1>14. PendingExact' /\ TargetsSettled'
    <2>1. Left' = Left + 0
      BY <1>3, <1>9, <1>10, <1>11, <1>12, <1>13 DEF Left
    <2>2. Costs' = Costs + 0
      BY <1>3, <1>9, <1>10, <1>11, <1>12, <1>13 DEF Costs
    <2>3. SentNow' = SentNow
      BY <1>3, <1>9, <1>12, <1>13
    <2>4. Numbers
      BY Ledger DEF PacerCore
    <2>5. Owed' = Owed + 0 /\ Settled' = Settled /\ Told' = Told
      BY <1>1, <2>1, <2>3, <2>4 DEF Owed, Settled, Told, Numbers
    <2>. QED BY <1>1, <1>7, <2>1, <2>2, <2>4, <2>5, BooksKept DEF Numbers
  <1>. QED BY <1>7, <1>8, <1>14 DEF PacerCore

\* No index has more than the sum.
LEMMA TotalCovers ==
    ASSUME NEW D, IsFiniteSet(D), NEW f \in [D -> Nat], NEW d \in D
    PROVE  f[d] <= Total(f)
  <1>0. PICK g : g = [f EXCEPT ![d] = 0]
    OBVIOUS
  <1>1. g \in [D -> Nat] /\ g[d] = 0 /\ \A e \in D : e # d => g[e] = f[e]
    BY <1>0
  <1>2. Total(g) = Total(f) - f[d] + g[d]
    <2>1. Varies(D, f, g, d)
      BY <1>1, Zenon DEF Varies
    <2>. QED BY <2>1, TotalVaries
  <1>3. Total(f) \in Nat /\ Total(g) \in Nat /\ f[d] \in Nat
    BY <1>1, UnitsFinite
  <1>. QED BY <1>1, <1>2, <1>3

LEMMA HeldCovers ==
    ASSUME thread \in [Threads -> Pacer], NEW k \in Threads
    PROVE  thread[k].job.left <= Held("left") /\ thread[k].job.bytes <= Held("bytes")
  <1>. DEFINE F(f) == [j \in Threads |-> thread[j].job[f]]
  <1>1. F("left") \in [Threads -> Nat] /\ F("bytes") \in [Threads -> Nat]
    BY ThreadSums
  <1>2. F("left")[k] = thread[k].job.left /\ F("bytes")[k] = thread[k].job.bytes
    BY DEF Pacer
  <1>3. Held("left") = Total(F("left")) /\ Held("bytes") = Total(F("bytes"))
    BY DEF Held
  <1>4. IsFiniteSet(Threads)
    BY PacerAssumption
  <1>. HIDE DEF F
  <1>5. F("left")[k] <= Total(F("left")) /\ F("bytes")[k] <= Total(F("bytes"))
    BY <1>1, <1>4, TotalCovers
  <1>. QED BY <1>2, <1>3, <1>5

\* A thread step that takes nothing off the queue.
Turns(k, new) ==
    /\ thread' = [thread EXCEPT ![k] = new]
    /\ thread[k].pc # "none" /\ new.pc # "none" /\ InHand(new) /\ OnTime(new)' /\ PaceKept'
    /\ queue' = queue /\ running' = running /\ orphans' = orphans /\ now' = now
    /\ pending' \in [targets : Nat, bytes : Nat] /\ count' \in Counts /\ (\E R : reports' \in Seq(R)) /\ Within'
    /\ count'.panics = count.panics /\ count'.admitted = count.admitted
    /\ count'.leaked = count.leaked /\ count'.leakedBytes = count.leakedBytes

Balances(k, new) ==
    /\ pending'.targets = pending.targets + (new.job.left - thread[k].job.left)
    /\ pending'.bytes = pending.bytes + (new.job.bytes - thread[k].job.bytes)
    /\ Settled = Settled' + ((new.job.left - thread[k].job.left) - (new.sent - thread[k].sent))
    /\ count'.deferred = count.deferred + (Told' - Told)

LEMMA ThreadMoves ==
    ASSUME PacerCore, NEW k \in Threads, NEW new \in Pacer, Turns(k, new), Balances(k, new)
    PROVE  PacerCore'
  <1>. DEFINE t == thread[k]
  <1>1. t \in Pacer
    BY DEF PacerCore, PacerShape
  <1>2. PacerShape'
    BY DEF PacerCore, PacerShape, Turns
  <1>3. OneRuns' /\ Hands'
    BY StillOne DEF PacerCore, Turns
  <1>4. Paced'
    BY StillPaced DEF PacerCore, Turns
  <1>5. /\ Held("left")' = Held("left") - t.job.left + new.job.left
        /\ Held("bytes")' = Held("bytes") - t.job.bytes + new.job.bytes
        /\ SentNow' = SentNow - t.sent + new.sent
    BY HeldStep DEF PacerCore, PacerShape, Turns
  <1>6. /\ t.job.left \in Nat /\ t.job.bytes \in Nat /\ t.sent \in Nat
        /\ new.job.left \in Nat /\ new.job.bytes \in Nat /\ new.sent \in Nat
    BY <1>1 DEF Pacer
  <1>7. Sums /\ Numbers /\ Numbers'
    BY <1>2, SumsHold, Ledger, LedgerNext DEF PacerCore
  <1>8. /\ SumOf(queue', "left") = SumOf(queue, "left") /\ SumOf(queue', "bytes") = SumOf(queue, "bytes")
        /\ SumOf(orphans', "left") = SumOf(orphans, "left")
    BY DEF Turns
  <1>. DEFINE dl == new.job.left - t.job.left
              db == new.job.bytes - t.job.bytes
              ds == new.sent - t.sent
  <1>9. dl \in Int /\ db \in Int /\ ds \in Int /\ dl - ds \in Int
    BY <1>6
  <1>10. Held("left")' = Held("left") + dl /\ Held("bytes")' = Held("bytes") + db /\ SentNow' = SentNow + ds
    BY <1>5, <1>6, <1>7 DEF Sums
  <1>11. /\ pending'.targets = pending.targets + dl /\ pending'.bytes = pending.bytes + db
         /\ Settled = Settled' + (dl - ds) /\ count'.deferred = count.deferred + (Told' - Told)
    BY DEF Balances
  <1>. HIDE DEF dl, db, ds, t
  <1>12. SumOf(queue, "left") \in Int /\ Held("left") \in Int /\ SumOf(queue, "bytes") \in Int /\ Held("bytes") \in Int
    BY <1>7 DEF Sums
  <1>13. Left' = Left + dl
    BY <1>8, <1>9, <1>10, <1>12 DEF Left
  <1>14. Costs' = Costs + db
    BY <1>8, <1>9, <1>10, <1>12 DEF Costs
  <1>15. Left \in Int /\ SumOf(orphans, "left") \in Int /\ SentNow \in Int /\ Settled \in Int /\ Settled' \in Int
    BY <1>7 DEF Sums, Numbers
  <1>16. Owed' = Owed + (dl - ds)
    BY <1>8, <1>9, <1>10, <1>13, <1>15 DEF Owed
  <1>17. /\ count'.leaked = count.leaked /\ count'.leakedBytes = count.leakedBytes /\ count'.admitted = count.admitted
         /\ count.leaked \in Int /\ count.leakedBytes \in Int /\ count.admitted \in Int
         /\ pending.targets \in Int /\ pending.bytes \in Int
    <2>1. count'.leaked = count.leaked /\ count'.leakedBytes = count.leakedBytes /\ count'.admitted = count.admitted
      BY DEF Turns
    <2>. QED BY <1>7, <2>1 DEF Numbers
  <1>18. /\ pending'.targets = pending.targets + dl + (count'.leaked - count.leaked)
         /\ pending'.bytes = pending.bytes + db + (count'.leakedBytes - count.leakedBytes)
    BY <1>9, <1>11, <1>17
  <1>19. count'.admitted = count.admitted + (dl - ds) + (Settled' - Settled)
    BY <1>9, <1>11, <1>15, <1>17, Cancels
  <1>20. PendingExact' /\ TargetsSettled'
    BY <1>2, <1>9, <1>13, <1>14, <1>16, <1>11, <1>18, <1>19, BooksKept
  <1>. QED BY <1>2, <1>3, <1>4, <1>20 DEF PacerCore, Turns

\* What every step of a thread knows of it.
LEMMA Known ==
    ASSUME PacerCore, NEW k \in Threads
    PROVE  /\ thread[k] \in Pacer /\ InHand(thread[k])
           /\ thread[k].pc # "none" => OnTime(thread[k])
           /\ count \in Counts /\ pending \in [targets : Nat, bytes : Nat] /\ (\E R : reports \in Seq(R))
           /\ now \in Nat /\ Interval \in Nat \ {0} /\ Settled \in Nat /\ Told \in Nat
  BY PacerAssumption, LedgerNats DEF PacerCore, PacerShape, Hands, Paced

LEMMA StartClumpCore ==
    ASSUME PacerCore, NEW k \in Threads, StartClump(k) PROVE PacerCore'
  <1>. DEFINE t == thread[k]
  <1>0. PICK tx : tx = NextTx(t.cursor)
    OBVIOUS
  <1>1. PICK new : new = [t EXCEPT !.pc = "wait", !.tx = tx, !.cursor = tx + Interval,
                                   !.clump = Least(Clump, t.job.left), !.sent = 0]
    OBVIOUS
  <1>2. /\ t \in Pacer /\ InHand(t) /\ OnTime(t) /\ t.pc = "clump" /\ now \in Nat /\ Interval \in Nat \ {0}
        /\ count \in Counts /\ pending \in [targets : Nat, bytes : Nat] /\ (\E R : reports \in Seq(R))
    BY Known DEF StartClump
  <1>3. /\ thread' = [thread EXCEPT ![k] = new]
        /\ queue' = queue /\ pending' = pending /\ running' = running /\ reports' = reports
        /\ orphans' = orphans /\ now' = now /\ count' = count
    BY <1>0, <1>1 DEF StartClump, Sets
  <1>4. tx \in Nat
    BY <1>0, <1>2 DEF NextTx, Pacer
  <1>5. Least(Clump, t.job.left) \in Nat \ {0} /\ Least(Clump, t.job.left) <= t.job.left /\ t.job.left > 0
    <2>1. Clump \in Nat \ {0}
      BY PacerAssumption
    <2>2. t.job.left \in Nat /\ t.job.left > 0
      BY <1>2 DEF InHand, Pacer
    <2>. QED BY <2>1, <2>2 DEF Least
  <1>6. /\ new \in Pacer /\ new.pc = "wait" /\ new.tx = tx /\ new.cursor = tx + Interval /\ new.job = t.job
        /\ new.clump = Least(Clump, t.job.left) /\ new.sent = 0
    <2>1. PICK c : c = tx + Interval /\ c \in Int
      BY <1>2, <1>4
    <2>2. PICK n : n = Least(Clump, t.job.left) /\ n \in Nat
      BY <1>5
    <2>3. new = [t EXCEPT !.pc = "wait", !.tx = tx, !.cursor = c, !.clump = n, !.sent = 0]
      BY <1>1, <2>1, <2>2
    <2>4. /\ new \in Pacer /\ new.pc = "wait" /\ new.tx = tx /\ new.cursor = c /\ new.job = t.job
          /\ new.clump = n /\ new.sent = 0
      BY <1>2, <1>4, <2>1, <2>2, <2>3 DEF Pacer
    <2>. QED BY <2>1, <2>2, <2>4
  <1>7. t.sent = 0 /\ t.job.left \in Nat /\ t.job.bytes \in Nat
    BY <1>2 DEF InHand, Pacer
  <1>8. InHand(new)
    BY <1>5, <1>6, <1>7 DEF InHand
  <1>9. count.clumps < (tx \div Interval) + count.starts
    <2>1. count.clumps \in Nat /\ count.starts \in Nat /\ t.tx \in Nat /\ Catchup \in Nat
      BY <1>2, PacerAssumption DEF Counts, Pacer
    <2>2. CASE t.cursor = -1
      <3>1. tx = now
        BY <1>0, <2>2 DEF NextTx
      <3>2. count.clumps < (now \div Interval) + count.starts
        BY <1>2, <2>1, <2>2 DEF OnTime
      <3>. QED BY <3>1, <3>2
    <2>3. CASE /\ t.cursor = t.tx + Interval /\ t.tx <= now
               /\ count.clumps <= (t.tx \div Interval) + count.starts
      <3>1. (t.tx + Interval) \div Interval = (t.tx \div Interval) + 1 /\ t.tx \div Interval \in Nat
        BY <1>2, <2>1, Divisions
      <3>2. tx = t.tx + Interval \/ tx >= t.tx + Interval
        <4>1. PICK h \in Nat : h = Catchup * Interval
          BY <1>2, <2>1
        <4>2. PICK c \in Nat : c = t.tx + Interval
          BY <1>2, <2>1
        <4>3. tx = IF c >= 0 /\ c + h >= now THEN c ELSE now
          BY <1>0, <2>3, <4>1, <4>2 DEF NextTx
        <4>4. tx >= c
          BY <1>2, <4>3
        <4>. QED BY <4>2, <4>4
      <3>3. (t.tx + Interval) \div Interval <= tx \div Interval /\ tx \div Interval \in Nat
        <4>1. PICK c \in Nat : c = t.tx + Interval
          BY <1>2, <2>1
        <4>2. c <= tx
          BY <1>4, <3>2, <4>1
        <4>3. c \div Interval <= tx \div Interval /\ tx \div Interval \in Nat
          BY <1>2, <1>4, <4>2, Divisions
        <4>. QED BY <4>1, <4>3
      <3>. QED BY <2>1, <2>3, <3>1, <3>3
    <2>. QED BY <1>2, <2>2, <2>3 DEF OnTime
  <1>10. OnTime(new)'
    BY <1>3, <1>6, <1>9 DEF OnTime
  <1>11. Turns(k, new)
    BY <1>2, <1>3, <1>6, <1>8, <1>10 DEF Turns, PacerCore, Paced, PaceKept, Within
  <1>12. Balances(k, new)
    <2>1. new.job.left - t.job.left = 0 /\ new.job.bytes - t.job.bytes = 0 /\ new.sent - t.sent = 0
      BY <1>6, <1>7
    <2>2. Settled' = Settled /\ Told' = Told /\ Settled \in Nat /\ Told \in Nat
      BY <1>3, Known DEF Settled, Told
    <2>3. pending.targets \in Nat /\ pending.bytes \in Nat /\ count.deferred \in Nat
      BY <1>2 DEF Counts
    <2>. QED BY <1>3, <2>1, <2>2, <2>3 DEF Balances
  <1>. QED BY <1>6, <1>11, <1>12, ThreadMoves

LEMMA WaitUntilCore ==
    ASSUME PacerCore, NEW k \in Threads, WaitUntil(k) PROVE PacerCore'
  <1>. DEFINE t == thread[k]
  <1>1. PICK new : new = [t EXCEPT !.pc = "send"]
    OBVIOUS
  <1>2. /\ t \in Pacer /\ InHand(t) /\ OnTime(t) /\ t.pc = "wait" /\ now \in Nat /\ Interval \in Nat \ {0}
        /\ count \in Counts /\ pending \in [targets : Nat, bytes : Nat] /\ (\E R : reports \in Seq(R))
    BY Known DEF WaitUntil
  <1>3. /\ thread' = [thread EXCEPT ![k] = new] /\ count' = [count EXCEPT !.clumps = @ + 1]
        /\ queue' = queue /\ pending' = pending /\ running' = running /\ reports' = reports
        /\ orphans' = orphans /\ now' = now /\ now >= t.tx
    BY <1>1 DEF WaitUntil, Sets
  <1>4. /\ new \in Pacer /\ new.pc = "send" /\ new.tx = t.tx /\ new.cursor = t.cursor /\ new.job = t.job
        /\ new.clump = t.clump /\ new.sent = t.sent
    BY <1>1, <1>2 DEF Pacer
  <1>5. /\ count' \in Counts /\ count'.clumps = count.clumps + 1 /\ count'.starts = count.starts
        /\ count'.panics = count.panics /\ count'.admitted = count.admitted
        /\ count'.leaked = count.leaked /\ count'.leakedBytes = count.leakedBytes
        /\ count'.delivered = count.delivered /\ count'.deferred = count.deferred /\ count'.lost = count.lost
        /\ count'.dropped = count.dropped /\ count'.drained = count.drained
        /\ count.clumps \in Nat /\ count.starts \in Nat
    <2>1. PICK n : n = count.clumps + 1 /\ n \in Nat
      BY <1>2 DEF Counts
    <2>2. count' = [count EXCEPT !.clumps = n]
      BY <1>3, <2>1
    <2>3. count' \in Counts
      BY <1>2, <2>1, <2>2 DEF Counts
    <2>. QED BY <1>2, <2>1, <2>2, <2>3 DEF Counts
  <1>6. t.sent = 0 /\ t.job.left \in Nat /\ t.job.bytes \in Nat /\ t.clump \in Nat /\ t.tx \in Nat
    BY <1>2 DEF InHand, Pacer
  <1>7. InHand(new)
    BY <1>2, <1>4, <1>6 DEF InHand
  <1>8. t.cursor = t.tx + Interval /\ count.clumps < (t.tx \div Interval) + count.starts
    BY <1>2 DEF OnTime
  <1>9. t.tx \div Interval \in Nat /\ now \div Interval \in Nat /\ t.tx \div Interval <= now \div Interval
    BY <1>2, <1>3, <1>6, Divisions
  <1>10. OnTime(new)' /\ PaceKept'
    BY <1>3, <1>4, <1>5, <1>8, <1>9 DEF OnTime, PaceKept
  <1>11. Turns(k, new)
    BY <1>2, <1>3, <1>4, <1>5, <1>7, <1>10 DEF Turns, PacerCore, Within
  <1>12. Balances(k, new)
    <2>1. new.job.left - t.job.left = 0 /\ new.job.bytes - t.job.bytes = 0 /\ new.sent - t.sent = 0
      BY <1>4, <1>6
    <2>2. Settled' = Settled /\ Told' = Told /\ Settled \in Nat /\ Told \in Nat
      BY <1>3, <1>5, Known DEF Settled, Told
    <2>3. pending.targets \in Nat /\ pending.bytes \in Nat /\ count.deferred \in Nat
      BY <1>2 DEF Counts
    <2>. QED BY <1>3, <1>5, <2>1, <2>2, <2>3 DEF Balances
  <1>. QED BY <1>4, <1>11, <1>12, ThreadMoves

\* The counts a report leaves alone.
SameCounts ==
    /\ count'.submits = count.submits /\ count'.clumps = count.clumps /\ count'.starts = count.starts
    /\ count'.panics = count.panics /\ count'.admitted = count.admitted
    /\ count'.leaked = count.leaked /\ count'.leakedBytes = count.leakedBytes

LEMMA RingRoom ==
    ASSUME NEW r \in Nat, NEW h \in Nat, NEW d \in Nat, NEW e \in Nat
    PROVE  (h + 1) + (d + (r - h)) + e = (r + d + e) + 1
  OBVIOUS

\* One target settled: by a report, which makes room for itself.
LEMMA ReportedTells ==
    ASSUME PacerShape, Len(reports) <= ReportsCap, NEW owner, Reported(reports, count, owner)
    PROVE  /\ count' \in Counts /\ SameCounts /\ (\E R : reports' \in Seq(R)) /\ Len(reports') <= ReportsCap
           /\ Settled' = Settled + 1 /\ Told' = Told + 1 /\ count'.deferred = count.deferred + 1
  <1>0. PICK R : reports \in Seq(R)
    BY DEF PacerShape
  <1>1. PICK kept : kept = IF Len(reports) >= ReportsCap THEN Tail(reports) ELSE reports
    OBVIOUS
  <1>2. ReportsCap \in Nat /\ ReportsCap > 0
    BY PacerAssumption
  <1>3. kept \in Seq(R) /\ Len(kept) <= Len(reports) /\ Len(kept) < ReportsCap /\ Len(kept) \in Nat /\ Len(reports) \in Nat
    <2>1. CASE Len(reports) >= ReportsCap
      <3>1. reports # <<>> /\ kept = Tail(reports)
        BY <1>0, <1>1, <1>2, <2>1
      <3>2. Tail(reports) \in Seq(R) /\ Len(Tail(reports)) = Len(reports) - 1 /\ Len(reports) \in Nat
        BY <1>0, <3>1
      <3>. QED BY <1>2, <3>1, <3>2
    <2>2. CASE ~(Len(reports) >= ReportsCap)
      BY <1>0, <1>1, <1>2, <2>2
    <2>. QED BY <2>1, <2>2
  <1>4. reports' = Append(kept, owner)
    BY <1>1 DEF Reported
  <1>5. reports' \in Seq(R \cup {owner}) /\ Len(reports') = Len(kept) + 1
    <2>1. kept \in Seq(R \cup {owner})
      BY <1>3
    <2>. QED BY <1>4, <2>1
  <1>6. /\ count.deferred \in Nat /\ count.dropped \in Nat /\ count.delivered \in Nat /\ count.lost \in Nat
        /\ count.drained \in Nat
    BY DEF PacerShape, Counts
  <1>7. PICK n \in Nat : n = count.deferred + 1
    BY <1>6
  <1>8. PICK m \in Nat : m = count.dropped + (Len(reports) - Len(kept))
    BY <1>3, <1>6
  <1>9. count' = [count EXCEPT !.deferred = n, !.dropped = m]
    BY <1>1, <1>7, <1>8 DEF Reported
  <1>10. count' \in Counts
    BY <1>9 DEF PacerShape, Counts
  <1>11. /\ count'.deferred = n /\ count'.dropped = m /\ count'.delivered = count.delivered
         /\ count'.lost = count.lost /\ count'.drained = count.drained
    BY <1>9 DEF PacerShape, Counts
  <1>12. SameCounts
    BY <1>9 DEF PacerShape, Counts, SameCounts
  <1>13. Settled' = Settled + 1
    <2>1. PICK d \in Nat : d = count.delivered
      BY <1>6
    <2>2. PICK f \in Nat : f = count.deferred
      BY <1>6
    <2>3. PICK l \in Nat : l = count.lost
      BY <1>6
    <2>4. Settled = d + f + l /\ Settled' = d + (f + 1) + l
      BY <1>7, <1>11, <2>1, <2>2, <2>3 DEF Settled
    <2>. QED BY <2>4
  <1>14. Told' = Told + 1
    <2>1. /\ Told = Len(reports) + count.dropped + count.drained
          /\ Told' = (Len(kept) + 1) + (count.dropped + (Len(reports) - Len(kept))) + count.drained
      BY <1>5, <1>8, <1>11 DEF Told
    <2>2. PICK r \in Nat : r = Len(reports)
      BY <1>3
    <2>3. PICK h \in Nat : h = Len(kept)
      BY <1>3
    <2>4. PICK d \in Nat : d = count.dropped
      BY <1>6
    <2>5. PICK e \in Nat : e = count.drained
      BY <1>6
    <2>6. Told = r + d + e /\ Told' = (h + 1) + (d + (r - h)) + e
      BY <2>1, <2>2, <2>3, <2>4, <2>5
    <2>. QED BY <2>6, RingRoom
  <1>. QED BY <1>2, <1>3, <1>5, <1>7, <1>10, <1>11, <1>12, <1>13, <1>14

\* Or by its delivery.
LEMMA DeliveredTells ==
    ASSUME PacerShape, count' = [count EXCEPT !.delivered = @ + 1], reports' = reports
    PROVE  /\ count' \in Counts /\ SameCounts /\ (\E R : reports' \in Seq(R)) /\ Len(reports') = Len(reports)
           /\ Settled' = Settled + 1 /\ Told' = Told /\ count'.deferred = count.deferred
  <1>1. /\ count.deferred \in Nat /\ count.delivered \in Nat /\ count.lost \in Nat /\ count \in Counts
    BY DEF PacerShape, Counts
  <1>2. PICK n \in Nat : n = count.delivered + 1
    BY <1>1
  <1>3. count' = [count EXCEPT !.delivered = n]
    BY <1>2
  <1>4. count' \in Counts
    BY <1>1, <1>3 DEF Counts
  <1>5. /\ count'.deferred = count.deferred /\ count'.dropped = count.dropped /\ count'.delivered = n
        /\ count'.lost = count.lost /\ count'.drained = count.drained
    BY <1>1, <1>3 DEF Counts
  <1>6. SameCounts
    BY <1>1, <1>3 DEF Counts, SameCounts
  <1>7. Settled' = Settled + 1
    BY <1>1, <1>2, <1>5 DEF Settled
  <1>8. Told' = Told
    BY <1>5 DEF Told
  <1>. QED BY <1>4, <1>5, <1>6, <1>7, <1>8 DEF PacerShape

LEMMA SendOneCore ==
    ASSUME PacerCore, NEW k \in Threads, SendOne(k) PROVE PacerCore'
  <1>. DEFINE t == thread[k]
  <1>1. /\ t \in Pacer /\ InHand(t) /\ OnTime(t) /\ t.pc = "send" /\ now \in Nat
        /\ count \in Counts /\ pending \in [targets : Nat, bytes : Nat]
        /\ Settled \in Nat /\ Told \in Nat /\ count.deferred \in Nat
    BY Known DEF SendOne, Counts
  <1>2. PICK n \in Nat : n = t.sent + 1
    BY <1>1 DEF Pacer
  <1>3. PICK new : new = [t EXCEPT !.sent = n, !.pc = IF n = t.clump THEN "done" ELSE "send"]
    OBVIOUS
  <1>4. /\ thread' = [thread EXCEPT ![k] = new]
        /\ queue' = queue /\ pending' = pending /\ running' = running
        /\ orphans' = orphans /\ now' = now
    BY <1>2, <1>3 DEF SendOne, Sets
  <1>5. /\ new \in Pacer /\ new.pc = (IF n = t.clump THEN "done" ELSE "send") /\ new.tx = t.tx /\ new.cursor = t.cursor
        /\ new.job = t.job /\ new.clump = t.clump /\ new.sent = n
    BY <1>1, <1>3 DEF Pacer
  <1>6. /\ count' \in Counts /\ SameCounts /\ (\E R : reports' \in Seq(R)) /\ Len(reports') <= ReportsCap
        /\ Settled' = Settled + 1 /\ count'.deferred = count.deferred + (Told' - Told)
    <2>1. CASE count' = [count EXCEPT !.delivered = @ + 1] /\ reports' = reports
      BY <1>1, <2>1, DeliveredTells DEF PacerCore, Within
    <2>2. CASE Reported(reports, count, t.job.owner)
      BY <1>1, <2>2, ReportedTells DEF PacerCore, Within
    <2>. QED BY <2>1, <2>2 DEF SendOne
  <1>7. /\ t.sent \in Nat /\ t.job.left \in Nat /\ t.job.bytes \in Nat /\ t.clump \in Nat
        /\ t.sent < t.clump /\ t.clump <= t.job.left
    BY <1>1 DEF InHand, Pacer
  <1>8. InHand(new)
    BY <1>2, <1>5, <1>7 DEF InHand
  <1>9. OnTime(new)'
    BY <1>1, <1>4, <1>5, <1>6, OnTimeKept DEF SameCounts, OnTime
  <1>10. PaceKept'
    BY <1>4, <1>6 DEF PaceKept, PacerCore, Paced, SameCounts
  <1>11. Turns(k, new)
    BY <1>1, <1>4, <1>5, <1>6, <1>8, <1>10, <1>9 DEF Turns, PacerCore, Within, SameCounts
  <1>12. Balances(k, new)
    <2>1. new.job.left - t.job.left = 0 /\ new.job.bytes - t.job.bytes = 0 /\ new.sent - t.sent = 1
      BY <1>2, <1>5, <1>7
    <2>2. pending.targets \in Nat /\ pending.bytes \in Nat
      BY <1>1
    <2>3. /\ pending'.targets = pending.targets + (new.job.left - t.job.left)
          /\ pending'.bytes = pending.bytes + (new.job.bytes - t.job.bytes)
      BY <1>4, <2>1, <2>2
    <2>4. Settled = Settled' + ((new.job.left - t.job.left) - (new.sent - t.sent))
      <3>1. Settled \in Nat /\ Settled' = Settled + 1
        BY <1>1, <1>6
      <3>. QED BY <2>1, <3>1
    <2>. QED BY <1>6, <2>3, <2>4 DEF Balances
  <1>. QED BY <1>5, <1>11, <1>12, ThreadMoves

\* The reserved numbers cover what a thread holds.
LEMMA Covered ==
    ASSUME PacerCore, NEW k \in Threads
    PROVE  /\ thread[k].job.left <= pending.targets /\ thread[k].job.bytes <= pending.bytes
           /\ pending.targets \in Nat /\ pending.bytes \in Nat
  <1>1. Sums /\ Numbers /\ Books
    BY SumsHold, Ledger DEF PacerCore
  <1>2. thread[k].job.left <= Held("left") /\ thread[k].job.bytes <= Held("bytes")
    BY HeldCovers DEF PacerCore, PacerShape
  <1>3. thread[k].job.left \in Nat /\ thread[k].job.bytes \in Nat
    BY Known DEF Pacer
  <1>4. thread[k].job.left <= Left /\ thread[k].job.bytes <= Costs
    BY <1>1, <1>2, <1>3 DEF Sums, Left, Costs
  <1>. QED BY <1>1, <1>3, <1>4 DEF Numbers, Books

LEMMA ClumpDoneCore ==
    ASSUME PacerCore, NEW k \in Threads, ClumpDone(k) PROVE PacerCore'
  <1>. DEFINE t == thread[k]
  <1>1. /\ t \in Pacer /\ InHand(t) /\ OnTime(t) /\ t.pc = "done" /\ now \in Nat
        /\ count \in Counts /\ pending \in [targets : Nat, bytes : Nat]
        /\ Settled \in Nat /\ Told \in Nat /\ count.deferred \in Nat /\ (\E R : reports \in Seq(R))
    BY Known DEF ClumpDone, Counts
  <1>2. /\ t.sent \in Nat /\ t.job.left \in Nat /\ t.job.bytes \in Nat /\ t.clump \in Nat
        /\ t.sent = t.clump /\ t.clump <= t.job.left /\ t.job.left > 0
    BY <1>1 DEF InHand, Pacer
  <1>3. PICK left \in Nat : left = t.job.left - t.clump
    BY <1>2
  <1>4. PICK new : new = [t EXCEPT !.job.left = left, !.clump = 0, !.sent = 0,
                                   !.pc = IF left = 0 THEN "bytes" ELSE "clump"]
    OBVIOUS
  <1>5. /\ thread' = [thread EXCEPT ![k] = new] /\ pending' = [pending EXCEPT !.targets = Monus(@, t.clump)]
        /\ queue' = queue /\ running' = running /\ reports' = reports /\ count' = count
        /\ orphans' = orphans /\ now' = now
    BY <1>3, <1>4 DEF ClumpDone, Sets
  <1>6. t.job.left <= pending.targets /\ pending.targets \in Nat /\ pending.bytes \in Nat
    BY Covered
  <1>7. PICK n \in Nat : n = pending.targets - t.clump
    BY <1>2, <1>6
  <1>8. /\ pending' \in [targets : Nat, bytes : Nat] /\ pending'.targets = n
        /\ pending'.bytes = pending.bytes
    <2>1. Monus(pending.targets, t.clump) = n
      BY <1>2, <1>6, <1>7 DEF Monus
    <2>. QED BY <1>1, <1>5, <2>1
  <1>9. /\ new \in Pacer /\ new.pc = (IF left = 0 THEN "bytes" ELSE "clump") /\ new.tx = t.tx /\ new.cursor = t.cursor
        /\ new.job.left = left /\ new.job.bytes = t.job.bytes /\ new.clump = 0 /\ new.sent = 0
    BY <1>1, <1>4 DEF Pacer
  <1>10. InHand(new)
    BY <1>9 DEF InHand
  <1>11. OnTime(new)'
    BY <1>1, <1>5, <1>9, OnTimeKept DEF OnTime
  <1>12. n <= pending.targets
    BY <1>2, <1>6, <1>7
  <1>13. Within'
    <2>1. MaxPending \in Nat /\ pending.targets <= MaxPending /\ pending.bytes <= MaxQueued /\ Len(reports) <= ReportsCap
      BY PacerAssumption DEF PacerCore, Within
    <2>2. n <= MaxPending
      BY <1>6, <1>12, <2>1
    <2>. QED BY <1>5, <1>8, <2>1, <2>2 DEF Within
  <1>14. Turns(k, new)
    BY <1>1, <1>5, <1>8, <1>9, <1>10, <1>11, <1>13 DEF Turns, PacerCore, Paced, PaceKept
  <1>15. Balances(k, new)
    <2>1. /\ new.job.left - t.job.left = 0 - t.clump /\ new.job.bytes - t.job.bytes = 0
          /\ new.sent - t.sent = 0 - t.clump
      BY <1>2, <1>3, <1>9
    <2>2. Settled' = Settled /\ Told' = Told
      BY <1>5 DEF Settled, Told
    <2>3. n = pending.targets + (0 - t.clump) /\ (0 - t.clump) - (0 - t.clump) = 0
      BY <1>2, <1>6, <1>7
    <2>. QED BY <1>1, <1>5, <1>6, <1>8, <2>1, <2>2, <2>3 DEF Balances
  <1>. QED BY <1>9, <1>14, <1>15, ThreadMoves

LEMMA JobDoneCore ==
    ASSUME PacerCore, NEW k \in Threads, JobDone(k) PROVE PacerCore'
  <1>. DEFINE t == thread[k]
  <1>1. /\ t \in Pacer /\ InHand(t) /\ OnTime(t) /\ t.pc = "bytes" /\ now \in Nat
        /\ count \in Counts /\ pending \in [targets : Nat, bytes : Nat]
        /\ Settled \in Nat /\ Told \in Nat /\ count.deferred \in Nat /\ (\E R : reports \in Seq(R))
    BY Known DEF JobDone, Counts
  <1>2. t.sent = 0 /\ t.clump = 0 /\ t.job.left = 0 /\ t.job.bytes \in Nat
    BY <1>1 DEF InHand, Pacer
  <1>3. PICK new : new = [t EXCEPT !.pc = "take", !.job = Dead.job, !.since = now]
    OBVIOUS
  <1>4. /\ thread' = [thread EXCEPT ![k] = new] /\ pending' = [pending EXCEPT !.bytes = Monus(@, t.job.bytes)]
        /\ queue' = queue /\ running' = running /\ reports' = reports /\ count' = count
        /\ orphans' = orphans /\ now' = now
    BY <1>3 DEF JobDone, Sets
  <1>5. t.job.bytes <= pending.bytes /\ pending.targets \in Nat /\ pending.bytes \in Nat
    BY Covered
  <1>6. PICK n \in Nat : n = pending.bytes - t.job.bytes
    BY <1>2, <1>5
  <1>7. /\ pending' \in [targets : Nat, bytes : Nat] /\ pending'.bytes = n
        /\ pending'.targets = pending.targets
    <2>1. Monus(pending.bytes, t.job.bytes) = n
      BY <1>2, <1>5, <1>6 DEF Monus
    <2>. QED BY <1>1, <1>4, <2>1
  <1>8. /\ new \in Pacer /\ new.pc = "take" /\ new.tx = t.tx /\ new.cursor = t.cursor
        /\ new.job.left = 0 /\ new.job.bytes = 0 /\ new.clump = t.clump /\ new.sent = t.sent
    BY <1>1, <1>3 DEF Pacer, Dead
  <1>9. InHand(new)
    BY <1>2, <1>8 DEF InHand
  <1>10. OnTime(new)'
    BY <1>1, <1>4, <1>8, OnTimeKept DEF OnTime
  <1>11. n <= pending.bytes
    BY <1>2, <1>5, <1>6
  <1>12. Within'
    <2>1. MaxQueued \in Nat /\ pending.targets <= MaxPending /\ pending.bytes <= MaxQueued /\ Len(reports) <= ReportsCap
      BY PacerAssumption DEF PacerCore, Within
    <2>2. n <= MaxQueued
      BY <1>5, <1>11, <2>1
    <2>. QED BY <1>4, <1>7, <2>1, <2>2 DEF Within
  <1>13. Turns(k, new)
    BY <1>1, <1>4, <1>7, <1>8, <1>9, <1>10, <1>12 DEF Turns, PacerCore, Paced, PaceKept
  <1>14. Balances(k, new)
    <2>1. /\ new.job.left - t.job.left = 0 /\ new.job.bytes - t.job.bytes = 0 - t.job.bytes
          /\ new.sent - t.sent = 0
      BY <1>2, <1>8
    <2>2. Settled' = Settled /\ Told' = Told
      BY <1>4 DEF Settled, Told
    <2>3. n = pending.bytes + (0 - t.job.bytes)
      BY <1>2, <1>5, <1>6
    <2>. QED BY <1>1, <1>4, <1>5, <1>7, <2>1, <2>2, <2>3 DEF Balances
  <1>. QED BY <1>8, <1>13, <1>14, ThreadMoves

LEMMA DeadThread ==
    /\ Dead \in Pacer /\ InHand(Dead) /\ Dead.pc = "none" /\ Dead.job.left = 0 /\ Dead.job.bytes = 0 /\ Dead.sent = 0
  BY DEF Dead, Pacer, InHand

\* The only thread ends.
LEMMA NoneRuns ==
    ASSUME PacerCore, NEW k \in Threads, thread[k].pc # "none", thread' = [thread EXCEPT ![k] = Dead],
           running' = FALSE, queue' # <<>> => count'.panics > 0, PaceKept'
    PROVE  OneRuns' /\ Hands' /\ Paced'
  <1>1. \A j \in Threads : thread'[j].pc = "none"
    BY DeadThread DEF PacerCore, PacerShape, OneRuns
  <1>2. \A j \in Threads : InHand(thread'[j])
    BY DeadThread DEF PacerCore, PacerShape, Hands
  <1>. QED BY <1>1, <1>2 DEF OneRuns, Hands, Paced

LEMMA IdleExitsCore ==
    ASSUME PacerCore, NEW k \in Threads, IdleExits(k) PROVE PacerCore'
  <1>. DEFINE t == thread[k]
  <1>1. /\ t \in Pacer /\ InHand(t) /\ t.pc = "take" /\ thread' = [thread EXCEPT ![k] = Dead]
        /\ running' = FALSE /\ queue = <<>> /\ UNCHANGED <<queue, pending, reports, orphans, now, count>>
    BY Known DEF IdleExits, Sets
  <1>2. t.job.left = 0 /\ t.job.bytes = 0 /\ t.sent = 0
    BY <1>1 DEF InHand, Pacer
  <1>3. PaceKept'
    BY <1>1 DEF PacerCore, Paced, PaceKept
  <1>4. OneRuns' /\ Hands' /\ Paced'
    BY <1>1, <1>3, NoneRuns
  <1>5. PacerShape' /\ Within'
    BY <1>1, DeadThread DEF PacerCore, PacerShape, Within
  <1>6. /\ Held("left")' = Held("left") - 0 + 0 /\ Held("bytes")' = Held("bytes") - 0 + 0
        /\ SentNow' = SentNow - 0 + 0
    BY <1>1, <1>2, DeadThread, HeldStep DEF PacerCore, PacerShape
  <1>7. Held("left") \in Nat /\ Held("bytes") \in Nat /\ SentNow \in Nat
    BY HeldNats DEF PacerCore, PacerShape
  <1>8. Held("left")' = Held("left") /\ Held("bytes")' = Held("bytes") /\ SentNow' = SentNow
    BY <1>6, <1>7
  <1>9. PendingExact' /\ TargetsSettled'
    <2>1. SumOf(queue', "left") = SumOf(queue, "left") /\ SumOf(queue', "bytes") = SumOf(queue, "bytes")
          /\ SumOf(orphans', "left") = SumOf(orphans, "left")
      BY <1>1
    <2>2. pending' = pending /\ count' = count /\ reports' = reports
      BY <1>1
    <2>. QED BY <1>8, <2>1, <2>2, Zenon DEF PacerCore, PendingExact, TargetsSettled, InFlight, OrphanTargets
  <1>. QED BY <1>4, <1>5, <1>9 DEF PacerCore

LEMMA PanicCore ==
    ASSUME PacerCore, NEW k \in Threads, Panic(k) PROVE PacerCore'
  <1>. DEFINE t == thread[k]
  <1>1. /\ t \in Pacer /\ InHand(t) /\ t.pc = "send" /\ thread' = [thread EXCEPT ![k] = Dead] /\ count \in Counts
        /\ running' = FALSE /\ queue' = queue /\ pending' = pending /\ reports' = reports /\ orphans' = orphans
        /\ now' = now
    BY Known DEF Panic, Sets
  <1>2. /\ t.sent \in Nat /\ t.job.left \in Nat /\ t.job.bytes \in Nat /\ t.clump \in Nat
        /\ t.sent < t.clump /\ t.clump <= t.job.left
    BY <1>1 DEF InHand, Pacer
  <1>3. /\ count.panics \in Nat /\ count.lost \in Nat /\ count.leaked \in Nat /\ count.leakedBytes \in Nat
        /\ count.delivered \in Nat /\ count.deferred \in Nat /\ count.admitted \in Nat
    BY <1>1 DEF Counts
  <1>4. PICK p \in Nat : p = count.panics + 1
    BY <1>3
  <1>5. PICK l \in Nat : l = count.lost + (t.job.left - t.sent)
    BY <1>2, <1>3
  <1>6. PICK kt \in Nat : kt = count.leaked + t.job.left
    BY <1>2, <1>3
  <1>7. PICK kb \in Nat : kb = count.leakedBytes + t.job.bytes
    BY <1>2, <1>3
  <1>8. count' = [count EXCEPT !.panics = p, !.lost = l, !.leaked = kt, !.leakedBytes = kb]
    BY <1>4, <1>5, <1>6, <1>7 DEF Panic
  <1>9. count' \in Counts
    BY <1>1, <1>8 DEF Counts
  <1>10. /\ count'.panics = p /\ count'.lost = l /\ count'.leaked = kt /\ count'.leakedBytes = kb
         /\ count'.clumps = count.clumps /\ count'.starts = count.starts /\ count'.admitted = count.admitted
         /\ count'.delivered = count.delivered /\ count'.deferred = count.deferred
         /\ count'.dropped = count.dropped /\ count'.drained = count.drained
    BY <1>1, <1>8 DEF Counts
  <1>11. PaceKept'
    BY <1>1, <1>10 DEF PacerCore, Paced, PaceKept
  <1>12. OneRuns' /\ Hands' /\ Paced'
    <2>1. count'.panics > 0
      BY <1>3, <1>4, <1>10
    <2>. QED BY <1>1, <1>11, <2>1, NoneRuns
  <1>13. PacerShape' /\ Within'
    BY <1>1, <1>9, DeadThread DEF PacerCore, PacerShape, Within
  <1>14. /\ Held("left")' = Held("left") - t.job.left + 0 /\ Held("bytes")' = Held("bytes") - t.job.bytes + 0
         /\ SentNow' = SentNow - t.sent + 0
    BY <1>1, DeadThread, HeldStep DEF PacerCore, PacerShape
  <1>15. Sums /\ Numbers /\ Numbers'
    BY <1>13, SumsHold, Ledger, LedgerNext DEF PacerCore
  <1>16. PICK dl \in Int : dl = 0 - t.job.left
    BY <1>2
  <1>17. PICK db \in Int : db = 0 - t.job.bytes
    BY <1>2
  <1>18. PICK d \in Int : d = t.sent - t.job.left
    BY <1>2
  <1>19. /\ SumOf(queue', "left") = SumOf(queue, "left") /\ SumOf(queue', "bytes") = SumOf(queue, "bytes")
         /\ SumOf(orphans', "left") = SumOf(orphans, "left")
    BY <1>1
  <1>20. /\ SumOf(queue, "left") \in Nat /\ SumOf(queue, "bytes") \in Nat /\ SumOf(orphans, "left") \in Nat
         /\ Held("left") \in Nat /\ Held("bytes") \in Nat /\ SentNow \in Nat
    BY <1>15 DEF Sums
  <1>. HIDE DEF t
  <1>21. Left' = Left + dl
    BY <1>2, <1>14, <1>16, <1>19, <1>20 DEF Left
  <1>22. Costs' = Costs + db
    BY <1>2, <1>14, <1>17, <1>19, <1>20 DEF Costs
  <1>23. Owed' = Owed + d
    <2>1. Left \in Nat
      BY <1>15 DEF Numbers
    <2>2. SentNow' = SentNow - t.sent
      BY <1>2, <1>14, <1>20
    <2>. QED BY <1>2, <1>16, <1>18, <1>19, <1>20, <1>21, <2>1, <2>2 DEF Owed
  <1>24. /\ pending'.targets = pending.targets + dl + (count'.leaked - count.leaked)
         /\ pending'.bytes = pending.bytes + db + (count'.leakedBytes - count.leakedBytes)
    <2>1. pending.targets \in Nat /\ pending.bytes \in Nat
      BY <1>15 DEF Numbers
    <2>. QED BY <1>1, <1>2, <1>3, <1>6, <1>7, <1>10, <1>16, <1>17, <2>1
  <1>25. count'.admitted = count.admitted + d + (Settled' - Settled)
    <2>1. /\ Settled = count.delivered + count.deferred + count.lost
          /\ Settled' = count.delivered + count.deferred + (count.lost + (t.job.left - t.sent))
      BY <1>5, <1>10 DEF Settled
    <2>2. Settled' - Settled = t.job.left - t.sent
      BY <1>2, <1>3, <2>1
    <2>. QED BY <1>2, <1>3, <1>10, <1>18, <2>2
  <1>26. count'.deferred = count.deferred + (Told' - Told)
    <2>1. Told' = Told /\ Told \in Nat
      BY <1>1, <1>10, <1>15 DEF Told, Numbers
    <2>. QED BY <1>3, <1>10, <2>1
  <1>27. PendingExact' /\ TargetsSettled'
    BY <1>13, <1>21, <1>22, <1>23, <1>24, <1>25, <1>26, BooksKept
  <1>. QED BY <1>12, <1>13, <1>27 DEF PacerCore

-----------------------------------------------------------------------------
(* The submissions. *)

\* What is admitted fits under both bounds.
LEMMA AdmittedFits ==
    ASSUME pending \in [targets : Nat, bytes : Nat], NEW n \in Sizes
    PROVE  /\ Admitted(n) \in Nat /\ Admitted(n) <= n /\ n \in Nat
           /\ Admitted(n) > 0 => /\ pending.targets + Admitted(n) <= MaxPending
                                 /\ pending.bytes + (PayloadSize + Admitted(n)) <= MaxQueued
  <1>1. n \in Nat /\ MirrorMax \in Nat /\ MaxPending \in Nat /\ MaxQueued \in Nat /\ PayloadSize \in Nat
    BY PacerAssumption
  <1>2. pending.targets \in Nat /\ pending.bytes \in Nat
    OBVIOUS
  <1>3. PICK a \in Nat : a = Least(n, MirrorMax) /\ a <= n
    BY <1>1 DEF Least
  <1>4. PICK b \in Nat : b = AdmitCount(a) /\ b <= a /\ (b > 0 => pending.targets + b <= MaxPending)
    BY <1>1, <1>2, <1>3 DEF AdmitCount, Least, Monus
  <1>5. PICK c \in Nat : c = AdmitBytes(b) /\ c <= b /\ (c > 0 => pending.bytes + (PayloadSize + c) <= MaxQueued)
    BY <1>1, <1>2, <1>4 DEF AdmitBytes, Least, Monus
  <1>6. Admitted(n) = c
    BY <1>3, <1>4, <1>5 DEF Admitted
  <1>. QED BY <1>1, <1>2, <1>3, <1>4, <1>5, <1>6

\* A submission that is queued enters the books on both sides.
Enqueues(s, a) ==
    /\ queue' = Append(queue, [owner |-> s, left |-> a, bytes |-> PayloadSize + a])
    /\ pending' = [targets |-> pending.targets + a, bytes |-> pending.bytes + (PayloadSize + a)]
    /\ count'.admitted = count.admitted + a
    /\ count'.leaked = count.leaked /\ count'.leakedBytes = count.leakedBytes
    /\ count'.delivered = count.delivered /\ count'.deferred = count.deferred /\ count'.lost = count.lost
    /\ count'.dropped = count.dropped /\ count'.drained = count.drained
    /\ orphans' = orphans /\ reports' = reports

LEMMA Enqueued ==
    ASSUME PacerCore, NEW s \in Servers, NEW a \in Nat, a > 0, Enqueues(s, a), count' \in Counts,
           thread' \in [Threads -> Pacer], running' \in BOOLEAN, now' = now,
           Held("left")' = Held("left"), Held("bytes")' = Held("bytes"), SentNow' = SentNow
    PROVE  PacerShape' /\ PendingExact' /\ TargetsSettled'
  <1>0. PayloadSize \in Nat
    BY PacerAssumption
  <1>1. PICK bytes \in Nat : bytes = PayloadSize + a
    BY <1>0
  <1>2. PICK job : job = [owner |-> s, left |-> a, bytes |-> bytes]
    OBVIOUS
  <1>3. job \in Job /\ job["left"] = a /\ job["bytes"] = bytes
    BY <1>2 DEF Job
  <1>4. queue \in Seq(Job) /\ orphans \in Seq(Job) /\ (\E R : reports \in Seq(R)) /\ now \in Nat
        /\ pending \in [targets : Nat, bytes : Nat]
    BY DEF PacerCore, PacerShape
  <1>5. /\ queue' = Append(queue, job) /\ pending' = [targets |-> pending.targets + a, bytes |-> pending.bytes + bytes]
        /\ orphans' = orphans /\ reports' = reports
    BY <1>1, <1>2 DEF Enqueues
  <1>6. queue' \in Seq(Job)
    BY <1>3, <1>4, <1>5
  <1>7. pending.targets \in Nat /\ pending.bytes \in Nat
    BY <1>4
  <1>8. /\ pending' \in [targets : Nat, bytes : Nat] /\ pending'.targets = pending.targets + a
        /\ pending'.bytes = pending.bytes + bytes
    BY <1>5, <1>7
  <1>9. PacerShape'
    BY <1>4, <1>5, <1>6, <1>8 DEF PacerShape
  <1>10. SumOf(queue', "left") = SumOf(queue, "left") + a /\ SumOf(queue', "bytes") = SumOf(queue, "bytes") + bytes
    <2>1. SumOf(Append(queue, job), "left") = SumOf(queue, "left") + job["left"]
      BY <1>3, <1>4, JobFields, SumAppend
    <2>2. SumOf(Append(queue, job), "bytes") = SumOf(queue, "bytes") + job["bytes"]
      BY <1>3, <1>4, JobFields, SumAppend
    <2>. QED BY <1>3, <1>5, <2>1, <2>2
  <1>11. Sums /\ Numbers
    BY SumsHold, Ledger DEF PacerCore
  <1>12. /\ SumOf(queue, "left") \in Nat /\ SumOf(queue, "bytes") \in Nat /\ SumOf(orphans, "left") \in Nat
         /\ Held("left") \in Nat /\ Held("bytes") \in Nat /\ SentNow \in Nat
    BY <1>11 DEF Sums
  <1>13. Left' = Left + a
    BY <1>10, <1>12 DEF Left
  <1>14. Costs' = Costs + bytes
    BY <1>10, <1>12 DEF Costs
  <1>15. Left \in Nat /\ Settled \in Nat /\ Told \in Nat
    BY <1>11 DEF Numbers
  <1>16. Owed' = Owed + a
    <2>1. SumOf(orphans', "left") = SumOf(orphans, "left")
      BY <1>5
    <2>. QED BY <1>12, <1>13, <1>15, <2>1 DEF Owed
  <1>17. Settled' = Settled /\ Told' = Told
    <2>1. /\ count'.delivered = count.delivered /\ count'.deferred = count.deferred /\ count'.lost = count.lost
          /\ count'.dropped = count.dropped /\ count'.drained = count.drained
      BY DEF Enqueues
    <2>. QED BY <1>5, <2>1, Zenon DEF Settled, Told
  <1>18. /\ count'.admitted = count.admitted + a /\ count'.leaked = count.leaked
         /\ count'.leakedBytes = count.leakedBytes /\ count'.deferred = count.deferred
    BY DEF Enqueues
  <1>19. count.admitted \in Nat /\ count.leaked \in Nat /\ count.leakedBytes \in Nat /\ count.deferred \in Nat
    BY <1>11 DEF Numbers
  <1>20. /\ pending'.targets = pending.targets + a + (count'.leaked - count.leaked)
         /\ pending'.bytes = pending.bytes + bytes + (count'.leakedBytes - count.leakedBytes)
    BY <1>7, <1>8, <1>18, <1>19
  <1>21. count'.admitted = count.admitted + a + (Settled' - Settled)
    BY <1>15, <1>17, <1>18, <1>19
  <1>22. count'.deferred = count.deferred + (Told' - Told)
    BY <1>15, <1>17, <1>18, <1>19
  <1>23. PendingExact' /\ TargetsSettled'
    BY <1>9, <1>13, <1>14, <1>16, <1>20, <1>21, <1>22, BooksKept
  <1>. QED BY <1>9, <1>23

LEMMA EnqueuedWithin ==
    ASSUME PacerCore, NEW s \in Servers, NEW n \in Sizes, Admitted(n) > 0, Enqueues(s, Admitted(n))
    PROVE  Within'
  <1>1. PICK a : a = Admitted(n)
    OBVIOUS
  <1>2. pending.targets + a <= MaxPending /\ pending.bytes + (PayloadSize + a) <= MaxQueued
    BY <1>1, AdmittedFits DEF PacerCore, PacerShape
  <1>3. pending'.targets = pending.targets + a /\ pending'.bytes = pending.bytes + (PayloadSize + a) /\ reports' = reports
    BY <1>1 DEF Enqueues
  <1>. QED BY <1>2, <1>3 DEF Within, PacerCore

Submits(c, d, a, b) == d = [c EXCEPT !.submits = @ + 1, !.admitted = a, !.starts = b]

LEMMA SubmitCounts ==
    ASSUME NEW c \in Counts, NEW d, NEW a \in Nat, NEW b \in Nat, Submits(c, d, a, b)
    PROVE  /\ d \in Counts /\ d.admitted = a /\ d.starts = b /\ d.clumps = c.clumps /\ d.panics = c.panics
           /\ d.leaked = c.leaked /\ d.leakedBytes = c.leakedBytes
           /\ d.delivered = c.delivered /\ d.deferred = c.deferred /\ d.lost = c.lost
           /\ d.dropped = c.dropped /\ d.drained = c.drained
  <1>1. PICK n \in Nat : n = c.submits + 1
    BY DEF Counts
  <1>2. d = [c EXCEPT !.submits = n, !.admitted = a, !.starts = b]
    BY <1>1 DEF Submits
  <1>3. d \in Counts
    BY <1>2 DEF Counts
  <1>. QED BY <1>2, <1>3 DEF Counts

\* No target admitted: the call is counted.
LEMMA SubmitNone ==
    ASSUME PacerCore, UNCHANGED <<queue, pending, running, thread, reports, orphans, now>>,
           count' = [count EXCEPT !.submits = @ + 1]
    PROVE  PacerCore'
  <1>1. count \in Counts
    BY DEF PacerCore, PacerShape
  <1>2. PICK a \in Nat : a = count.admitted
    BY <1>1 DEF Counts
  <1>3. PICK b \in Nat : b = count.starts
    BY <1>1 DEF Counts
  <1>4. Submits(count, count', a, b)
    BY <1>1, <1>2, <1>3 DEF Counts, Submits
  <1>5. /\ count' \in Counts /\ count'.admitted = count.admitted /\ count'.starts = count.starts
        /\ count'.clumps = count.clumps /\ count'.panics = count.panics
        /\ count'.leaked = count.leaked /\ count'.leakedBytes = count.leakedBytes
        /\ count'.delivered = count.delivered /\ count'.deferred = count.deferred /\ count'.lost = count.lost
        /\ count'.dropped = count.dropped /\ count'.drained = count.drained
    BY <1>1, <1>2, <1>3, <1>4, SubmitCounts
  <1>6. PacerShape' /\ Hands' /\ OneRuns' /\ Paced' /\ Within'
    BY <1>5 DEF PacerCore, PacerShape, Hands, OneRuns, Paced, PaceKept, OnTime, Within
  <1>7. Held("left")' = Held("left") /\ Held("bytes")' = Held("bytes") /\ SentNow' = SentNow
    BY DEF Held, SentNow
  <1>8. /\ SumOf(queue', "left") = SumOf(queue, "left") /\ SumOf(queue', "bytes") = SumOf(queue, "bytes")
        /\ SumOf(orphans', "left") = SumOf(orphans, "left") /\ pending' = pending /\ reports' = reports
    OBVIOUS
  <1>9. PendingExact' /\ TargetsSettled'
    BY <1>5, <1>7, <1>8, Zenon DEF PacerCore, PendingExact, TargetsSettled, InFlight, OrphanTargets
  <1>. QED BY <1>6, <1>9 DEF PacerCore

\* Queued for the thread that runs.
LEMMA SubmitQueued ==
    ASSUME PacerCore, NEW s \in Servers, NEW n \in Sizes, NEW a \in Nat, a = Admitted(n), a > 0, running,
           queue' = Append(queue, [owner |-> s, left |-> a, bytes |-> PayloadSize + a]),
           pending' = [targets |-> pending.targets + a, bytes |-> pending.bytes + (PayloadSize + a)],
           Submits(count, count', count.admitted + a, count.starts),
           UNCHANGED <<running, thread, reports, orphans, now>>
    PROVE  PacerCore'
  <1>1. count \in Counts
    BY DEF PacerCore, PacerShape
  <1>2. PICK c \in Nat : c = count.admitted + a
    BY <1>1 DEF Counts
  <1>3. PICK b \in Nat : b = count.starts
    BY <1>1 DEF Counts
  <1>4. Submits(count, count', c, b)
    BY <1>2, <1>3
  <1>5. /\ count' \in Counts /\ count'.admitted = c /\ count'.starts = count.starts
        /\ count'.clumps = count.clumps /\ count'.panics = count.panics
        /\ count'.leaked = count.leaked /\ count'.leakedBytes = count.leakedBytes
        /\ count'.delivered = count.delivered /\ count'.deferred = count.deferred /\ count'.lost = count.lost
        /\ count'.dropped = count.dropped /\ count'.drained = count.drained
    BY <1>1, <1>3, <1>4, SubmitCounts
  <1>6. Enqueues(s, a)
    BY <1>2, <1>5 DEF Enqueues
  <1>7. Held("left")' = Held("left") /\ Held("bytes")' = Held("bytes") /\ SentNow' = SentNow
    BY DEF Held, SentNow
  <1>8. thread' \in [Threads -> Pacer] /\ running' \in BOOLEAN
    BY DEF PacerCore, PacerShape
  <1>9. PacerShape' /\ PendingExact' /\ TargetsSettled'
    BY <1>5, <1>6, <1>7, <1>8, Enqueued
  <1>10. Within'
    BY <1>6, EnqueuedWithin
  <1>11. Hands' /\ OneRuns' /\ Paced'
    BY <1>5 DEF PacerCore, Hands, OneRuns, Paced, PaceKept, OnTime
  <1>. QED BY <1>9, <1>10, <1>11 DEF PacerCore

LEMMA CountNats == \A c \in Counts : c.admitted \in Nat /\ c.starts \in Nat
  BY DEF Counts

LEMMA FreshThread ==
    ASSUME NEW since \in Nat, NEW new, new = [Dead EXCEPT !.pc = "take", !.since = since]
    PROVE  /\ new \in Pacer /\ new.pc = "take" /\ new.job.left = 0 /\ new.job.bytes = 0 /\ new.sent = 0
           /\ new.clump = 0 /\ new.cursor = -1
  <1>1. Dead \in Pacer /\ Dead.job.left = 0 /\ Dead.job.bytes = 0 /\ Dead.sent = 0 /\ Dead.clump = 0 /\ Dead.cursor = -1
    BY DEF Dead, Pacer
  <1>. QED BY <1>1 DEF Pacer

\* Queued, and a thread started for it.
LEMMA SubmitStarts ==
    ASSUME PacerCore, NEW s \in Servers, NEW n \in Sizes, NEW a \in Nat, a = Admitted(n), a > 0, ~running,
           NEW k \in Threads, thread[k].pc = "none",
           thread' = [thread EXCEPT ![k] = [Dead EXCEPT !.pc = "take", !.since = now]], running' = TRUE,
           queue' = Append(queue, [owner |-> s, left |-> a, bytes |-> PayloadSize + a]),
           pending' = [targets |-> pending.targets + a, bytes |-> pending.bytes + (PayloadSize + a)],
           Submits(count, count', count.admitted + a, count.starts + 1),
           UNCHANGED <<reports, orphans, now>>
    PROVE  PacerCore'
  <1>1. count \in Counts /\ now \in Nat /\ thread \in [Threads -> Pacer]
    BY DEF PacerCore, PacerShape
  <1>0. count.admitted \in Nat /\ count.starts \in Nat
    BY <1>1, CountNats
  <1>2. PICK c \in Nat : c = count.admitted + a
    BY <1>0
  <1>3. PICK b \in Nat : b = count.starts + 1
    BY <1>0
  <1>4. Submits(count, count', c, b)
    BY <1>2, <1>3
  <1>5. /\ count' \in Counts /\ count'.admitted = c /\ count'.starts = b
        /\ count'.clumps = count.clumps /\ count'.panics = count.panics
        /\ count'.leaked = count.leaked /\ count'.leakedBytes = count.leakedBytes
        /\ count'.delivered = count.delivered /\ count'.deferred = count.deferred /\ count'.lost = count.lost
        /\ count'.dropped = count.dropped /\ count'.drained = count.drained
    BY <1>1, <1>4, SubmitCounts
  <1>6. Enqueues(s, a)
    BY <1>2, <1>5 DEF Enqueues
  <1>7. PICK new : new = [Dead EXCEPT !.pc = "take", !.since = now]
    OBVIOUS
  <1>8. /\ new \in Pacer /\ new.pc = "take" /\ new.job.left = 0 /\ new.job.bytes = 0 /\ new.sent = 0
        /\ new.clump = 0 /\ new.cursor = -1
    BY <1>1, <1>7, FreshThread
  <1>9. thread[k] \in Pacer /\ thread[k].job.left = 0 /\ thread[k].job.bytes = 0 /\ thread[k].sent = 0
    BY Known DEF InHand
  <1>10. /\ thread' \in [Threads -> Pacer]
         /\ Held("left")' = Held("left") - 0 + 0 /\ Held("bytes")' = Held("bytes") - 0 + 0
         /\ SentNow' = SentNow - 0 + 0
    BY <1>1, <1>7, <1>8, <1>9, HeldStep
  <1>11. Held("left") \in Nat /\ Held("bytes") \in Nat /\ SentNow \in Nat
    BY <1>1, HeldNats
  <1>12. Held("left")' = Held("left") /\ Held("bytes")' = Held("bytes") /\ SentNow' = SentNow
    BY <1>10, <1>11
  <1>13. PacerShape' /\ PendingExact' /\ TargetsSettled'
    BY <1>5, <1>6, <1>10, <1>12, Enqueued
  <1>14. Within'
    BY <1>6, EnqueuedWithin
  <1>15. \A j \in Threads : IF j = k THEN thread'[j] = new ELSE thread'[j].pc = "none" /\ thread'[j] = thread[j]
    BY <1>1, <1>7 DEF PacerCore, OneRuns
  <1>16. OneRuns'
    BY <1>8, <1>15 DEF OneRuns
  <1>17. Hands'
    <2>1. InHand(new)
      BY <1>8 DEF InHand
    <2>. QED BY <1>15, <2>1 DEF Hands, PacerCore
  <1>18. Paced'
    <2>1. count.clumps \in Nat /\ count.starts \in Nat /\ now \div Interval \in Nat
          /\ count.clumps <= (now \div Interval) + count.starts
      BY <1>1, PacerAssumption, Divisions DEF PacerCore, Paced, PaceKept, Counts
    <2>2. count'.clumps < (now \div Interval) + count'.starts
      BY <1>3, <1>5, <2>1
    <2>3. OnTime(new)' /\ PaceKept'
      BY <1>3, <1>5, <1>8, <2>1, <2>2 DEF OnTime, PaceKept
    <2>4. \A j \in Threads : thread'[j].pc # "none" => thread'[j] = new
      BY <1>15
    <2>. QED BY <2>3, <2>4 DEF Paced, OnTime
  <1>. QED BY <1>13, <1>14, <1>16, <1>17, <1>18 DEF PacerCore

LEMMA RolledCounts ==
    ASSUME NEW c \in Counts, NEW d, d = [c EXCEPT !.submits = @ + 1, !.leaked = 0, !.leakedBytes = 0]
    PROVE  /\ d \in Counts
           /\ d.leaked = 0 /\ d.leakedBytes = 0 /\ d.clumps = c.clumps /\ d.starts = c.starts
           /\ d.admitted = c.admitted /\ d.panics = c.panics
           /\ d.delivered = c.delivered /\ d.deferred = c.deferred /\ d.lost = c.lost
           /\ d.dropped = c.dropped /\ d.drained = c.drained
  <1>1. c.submits + 1 \in Nat
    BY DEF Counts
  <1>. QED BY <1>1 DEF Counts

\* No thread can be started: the queue is released for its reports.
LEMMA SubmitRolled ==
    ASSUME PacerCore, ~running, orphans = <<>>, orphans' = queue, queue' = <<>>,
           pending' = [targets |-> 0, bytes |-> 0],
           count' = [count EXCEPT !.submits = @ + 1, !.leaked = 0, !.leakedBytes = 0],
           UNCHANGED <<running, thread, reports, now>>
    PROVE  PacerCore'
  <1>1. count \in Counts /\ thread \in [Threads -> Pacer] /\ queue \in Seq(Job)
    BY DEF PacerCore, PacerShape
  <1>4. count' \in Counts
    BY <1>1, RolledCounts
  <1>5. /\ count'.leaked = 0 /\ count'.leakedBytes = 0 /\ count'.clumps = count.clumps /\ count'.starts = count.starts
        /\ count'.admitted = count.admitted /\ count'.panics = count.panics
        /\ count'.delivered = count.delivered /\ count'.deferred = count.deferred /\ count'.lost = count.lost
        /\ count'.dropped = count.dropped /\ count'.drained = count.drained
    BY <1>1, RolledCounts
  <1>6. \A k \in Threads : thread[k].job.left = 0 /\ thread[k].job.bytes = 0 /\ thread[k].sent = 0
    BY Known DEF PacerCore, OneRuns, InHand
  <1>7. Held("left") = 0 /\ Held("bytes") = 0 /\ SentNow = 0
    BY <1>1, <1>6, HeldNothing
  <1>8. Held("left")' = 0 /\ Held("bytes")' = 0 /\ SentNow' = 0
    <2>1. Held("left")' = Held("left") /\ Held("bytes")' = Held("bytes") /\ SentNow' = SentNow
      BY DEF Held, SentNow
    <2>. QED BY <1>7, <2>1
  <1>9. <<>> \in Seq(Job) /\ Len(reports') = Len(reports)
    OBVIOUS
  <1>10. pending' \in [targets : Nat, bytes : Nat] /\ pending'.targets = 0 /\ pending'.bytes = 0
    OBVIOUS
  <1>11. PacerShape' /\ Within'
    BY <1>4, <1>9, <1>10, PacerAssumption DEF PacerCore, PacerShape, Within
  <1>12. Hands' /\ OneRuns' /\ Paced'
    BY <1>5 DEF PacerCore, Hands, OneRuns, Paced, PaceKept, OnTime
  <1>13. /\ SumOf(queue', "left") = 0 /\ SumOf(queue', "bytes") = 0 /\ SumOf(orphans, "left") = 0
         /\ SumOf(orphans', "left") = SumOf(queue, "left") /\ SumOf(queue, "left") \in Nat
    BY <1>1, SumEmpty, SumsAreNats
  <1>14. Books'
    <2>1. Left = SumOf(queue, "left") /\ Left' = 0 /\ Costs' = 0
      BY <1>7, <1>8, <1>13 DEF Left, Costs
    <2>2. Owed' = Owed
      BY <1>7, <1>8, <1>13, <2>1 DEF Owed
    <2>3. Settled' = Settled /\ Told' = Told
      BY <1>5, Zenon DEF Settled, Told
    <2>4. Books
      BY Ledger DEF PacerCore
    <2>. QED BY <1>5, <1>10, <2>1, <2>2, <2>3, <2>4 DEF Books
  <1>15. PendingExact' /\ TargetsSettled'
    BY <1>11, <1>14, LedgerNext
  <1>. QED BY <1>11, <1>12, <1>15 DEF PacerCore

LEMMA SubmitCore ==
    ASSUME PacerCore, NEW s \in Servers, NEW n \in Sizes, Submit(s, n) PROVE PacerCore'
  <1>1. PICK a : a = Admitted(n)
    OBVIOUS
  <1>2. a \in Nat
    BY <1>1, AdmittedFits DEF PacerCore, PacerShape
  <1>3. PICK job : job = [owner |-> s, left |-> a, bytes |-> PayloadSize + a]
    OBVIOUS
  <1>4. job.bytes = PayloadSize + a
    BY <1>3
  <1>5. orphans = <<>> /\ UNCHANGED <<reports, now>>
    BY DEF Submit
  <1>6. CASE /\ a = 0 \/ running
             /\ IF a = 0 THEN UNCHANGED <<queue, pending>>
                ELSE /\ queue' = Append(queue, job)
                     /\ pending' = [targets |-> pending.targets + a, bytes |-> pending.bytes + job.bytes]
             /\ count' = [count EXCEPT !.submits = @ + 1, !.admitted = @ + a]
             /\ UNCHANGED <<running, thread, orphans>>
    <2>1. CASE a = 0
      <3>1. count' = [count EXCEPT !.submits = @ + 1]
        <4>1. count \in Counts
          BY DEF PacerCore, PacerShape
        <4>2. count.admitted + a = count.admitted
          BY <2>1, <4>1 DEF Counts
        <4>. QED BY <1>6, <4>1, <4>2 DEF Counts
      <3>. QED BY <1>5, <1>6, <2>1, <3>1, SubmitNone
    <2>2. CASE a # 0
      <3>1. /\ running /\ a > 0 /\ UNCHANGED <<running, thread, reports, orphans, now>>
        BY <1>2, <1>5, <1>6, <2>2
      <3>2. /\ queue' = Append(queue, [owner |-> s, left |-> a, bytes |-> PayloadSize + a])
            /\ pending' = [targets |-> pending.targets + a, bytes |-> pending.bytes + (PayloadSize + a)]
        BY <1>3, <1>4, <1>6, <2>2
      <3>3. Submits(count, count', count.admitted + a, count.starts)
        <4>1. count \in Counts
          BY DEF PacerCore, PacerShape
        <4>. QED BY <1>6, <4>1 DEF Submits, Counts
      <3>. QED BY <1>1, <1>2, <3>1, <3>2, <3>3, SubmitQueued
    <2>. QED BY <2>1, <2>2
  <1>7. CASE /\ a > 0 /\ ~running
             /\ \E k \in Threads :
                  /\ thread[k].pc = "none"
                  /\ thread' = [thread EXCEPT ![k] = [Dead EXCEPT !.pc = "take", !.since = now]]
             /\ running' = TRUE
             /\ queue' = Append(queue, job)
             /\ pending' = [targets |-> pending.targets + a, bytes |-> pending.bytes + job.bytes]
             /\ count' = [count EXCEPT !.submits = @ + 1, !.admitted = @ + a, !.starts = @ + 1]
             /\ UNCHANGED orphans
    <2>1. PICK k \in Threads : /\ thread[k].pc = "none"
                               /\ thread' = [thread EXCEPT ![k] = [Dead EXCEPT !.pc = "take", !.since = now]]
      BY <1>7
    <2>2. Submits(count, count', count.admitted + a, count.starts + 1)
      BY <1>7 DEF Submits
    <2>3. /\ queue' = Append(queue, [owner |-> s, left |-> a, bytes |-> PayloadSize + a])
          /\ pending' = [targets |-> pending.targets + a, bytes |-> pending.bytes + (PayloadSize + a)]
      BY <1>3, <1>4, <1>7
    <2>4. a > 0 /\ ~running /\ running' = TRUE /\ UNCHANGED <<reports, orphans, now>>
      BY <1>5, <1>7
    <2>. QED BY <1>1, <1>2, <2>1, <2>2, <2>3, <2>4, SubmitStarts
  <1>8. CASE /\ a > 0 /\ ~running
             /\ orphans' = queue /\ queue' = <<>>
             /\ pending' = [targets |-> 0, bytes |-> 0]
             /\ count' = [count EXCEPT !.submits = @ + 1, !.leaked = 0, !.leakedBytes = 0]
             /\ UNCHANGED <<running, thread>>
    BY <1>5, <1>8, SubmitRolled
  <1>. QED BY <1>1, <1>3, <1>6, <1>7, <1>8 DEF Submit

-----------------------------------------------------------------------------
(* The reports and the clock. *)

LEMMA LeftChange ==
    ASSUME NEW jobs \in Seq(Job), NEW new \in Seq(Job), NEW d, Swaps(jobs, new, d)
    PROVE  SumOf(new, "left") = SumOf(jobs, "left") - jobs[d]["left"] + new[d]["left"]
  <1>1. \A r \in Job : r["left"] \in Nat
    BY JobFields
  <1>. QED BY <1>1, SumChange

LEMMA OrphanShrinks ==
    ASSUME NEW jobs \in Seq(Job), jobs # <<>>, NEW job \in Job, jobs[1].left = job.left + 1,
           NEW new, new = [jobs EXCEPT ![1] = job]
    PROVE  new \in Seq(Job) /\ SumOf(jobs, "left") = SumOf(new, "left") + 1
  <1>1. PICK d : d = 1
    OBVIOUS
  <1>2. /\ new \in Seq(Job) /\ Len(new) = Len(jobs) /\ 1 \in 1..Len(jobs) /\ new[1] = job /\ jobs[1] \in Job
        /\ \A i \in 1..Len(jobs) : i # 1 => new[i] = jobs[i]
    OBVIOUS
  <1>3. Swaps(jobs, new, d)
    BY <1>1, <1>2 DEF Swaps
  <1>4. SumOf(new, "left") = SumOf(jobs, "left") - jobs[d]["left"] + new[d]["left"]
    BY <1>2, <1>3, LeftChange
  <1>5. jobs[d]["left"] = jobs[1].left /\ new[d]["left"] = job.left /\ job.left \in Nat
    BY <1>1, <1>2, JobFields
  <1>6. SumOf(jobs, "left") \in Nat /\ SumOf(new, "left") \in Nat
    BY <1>2, SumsAreNats
  <1>. QED BY <1>2, <1>4, <1>5, <1>6

Gives(jobs, new) == new = IF Head(jobs).left = 1 THEN Tail(jobs) ELSE [jobs EXCEPT ![1].left = @ - 1]

\* A released job gives up one target, or with its last target the queue.
LEMMA OrphanGoes ==
    ASSUME NEW jobs \in Seq(Job), jobs # <<>>, NEW new, Gives(jobs, new)
    PROVE  new \in Seq(Job) /\ SumOf(jobs, "left") = SumOf(new, "left") + 1
  <1>1. Head(jobs) \in Job /\ jobs[1] = Head(jobs) /\ Len(jobs) \in Nat /\ Len(jobs) >= 1
    OBVIOUS
  <1>2. Head(jobs).left \in Nat \ {0} /\ Head(jobs)["left"] = Head(jobs).left
    BY <1>1 DEF Job
  <1>3. CASE Head(jobs).left = 1
    <2>0. new = Tail(jobs)
      BY <1>3 DEF Gives
    <2>1. new \in Seq(Job)
      BY <2>0
    <2>2. SumOf(jobs, "left") = Head(jobs)["left"] + SumOf(new, "left")
      BY <2>0, JobFields, SumTail
    <2>3. SumOf(new, "left") \in Nat
      BY <2>1, SumsAreNats
    <2>. QED BY <1>2, <1>3, <2>1, <2>2, <2>3
  <1>4. CASE Head(jobs).left # 1
    <2>1. PICK n : n = Head(jobs).left - 1 /\ n \in Nat \ {0}
      BY <1>2, <1>4
    <2>2. PICK job : job = [jobs[1] EXCEPT !.left = n]
      OBVIOUS
    <2>3. job \in Job /\ job["left"] = n
      BY <1>1, <2>1, <2>2 DEF Job
    <2>4. new = [jobs EXCEPT ![1] = job]
      <3>1. new = [jobs EXCEPT ![1] = [jobs[1] EXCEPT !.left = jobs[1].left - 1]]
        BY <1>4 DEF Gives
      <3>2. jobs[1].left - 1 = n
        BY <1>1, <2>1
      <3>. QED BY <2>2, <3>1, <3>2
    <2>5. job.left = n /\ jobs[1].left = n + 1
      BY <1>1, <2>1, <2>2, <2>3 DEF Job
    <2>6. jobs[1].left = job.left + 1
      BY <2>5
    <2>. QED BY <2>3, <2>4, <2>6, OrphanShrinks
  <1>. QED BY <1>3, <1>4

LEMMA ReportOrphanCore ==
    ASSUME PacerCore, ReportOrphan PROVE PacerCore'
  <1>1. /\ orphans \in Seq(Job) /\ orphans # <<>> /\ count \in Counts
        /\ UNCHANGED <<queue, pending, running, thread, now>>
        /\ Reported(reports, count, Head(orphans).owner)
        /\ orphans' = IF Head(orphans).left = 1 THEN Tail(orphans) ELSE [orphans EXCEPT ![1].left = @ - 1]
    BY DEF PacerCore, PacerShape, ReportOrphan, queueVars
  <1>2. PICK new : new = IF Head(orphans).left = 1 THEN Tail(orphans) ELSE [orphans EXCEPT ![1].left = @ - 1]
    OBVIOUS
  <1>3. new \in Seq(Job) /\ SumOf(orphans, "left") = SumOf(new, "left") + 1 /\ orphans' = new
    BY <1>1, <1>2, OrphanGoes DEF Gives
  <1>4. /\ count' \in Counts /\ SameCounts /\ (\E R : reports' \in Seq(R)) /\ Len(reports') <= ReportsCap
        /\ Settled' = Settled + 1 /\ Told' = Told + 1 /\ count'.deferred = count.deferred + 1
    BY <1>1, ReportedTells DEF PacerCore, Within
  <1>5. PacerShape' /\ Within'
    BY <1>1, <1>3, <1>4 DEF PacerCore, PacerShape, Within
  <1>6. Hands' /\ OneRuns' /\ Paced'
    BY <1>1, <1>4 DEF PacerCore, Hands, OneRuns, Paced, PaceKept, OnTime, SameCounts
  <1>7. Held("left")' = Held("left") /\ Held("bytes")' = Held("bytes") /\ SentNow' = SentNow
    BY <1>1 DEF Held, SentNow
  <1>8. Sums /\ Numbers /\ Books
    BY SumsHold, Ledger DEF PacerCore
  <1>9. SumOf(new, "left") \in Nat /\ SumOf(orphans, "left") \in Nat /\ SentNow \in Nat /\ Left \in Nat
    BY <1>3, <1>8, SumsAreNats DEF Sums, Numbers
  <1>10. Left' = Left /\ Costs' = Costs
    BY <1>1, <1>7 DEF Left, Costs
  <1>11. Owed' = Owed - 1
    BY <1>3, <1>7, <1>9, <1>10 DEF Owed
  <1>12. Books'
    <2>1. /\ Settled \in Nat /\ Told \in Nat /\ Owed \in Int /\ count.admitted = Settled + Owed /\ count.deferred = Told
          /\ pending.targets = Left + count.leaked /\ pending.bytes = Costs + count.leakedBytes
      BY <1>8 DEF Books, Numbers
    <2>2. count'.admitted = count.admitted /\ count'.leaked = count.leaked /\ count'.leakedBytes = count.leakedBytes
      BY <1>4 DEF SameCounts
    <2>3. count'.admitted = Settled' + Owed'
      BY <1>4, <1>11, <2>1, <2>2
    <2>4. count'.deferred = Told'
      BY <1>4, <2>1
    <2>. QED BY <1>1, <1>10, <2>1, <2>2, <2>3, <2>4 DEF Books
  <1>13. PendingExact' /\ TargetsSettled'
    BY <1>5, <1>12, LedgerNext
  <1>. QED BY <1>5, <1>6, <1>13 DEF PacerCore

LEMMA IntervalSize == \A n \in Nat : IsFiniteSet(1..n) /\ Cardinality(1..n) = n
  BY FS_Interval

\* A drain shortens the ring by what it takes.
LEMMA DrainCore ==
    ASSUME PacerCore, NEW s, NEW most, DrainReports(s, most) PROVE PacerCore'
  <1>1. PICK mine : mine = {i \in 1..Len(reports) : reports[i] = s}
    OBVIOUS
  <1>2. PICK taken : taken = {i \in mine : Cardinality({j \in mine : j <= i}) <= most}
    OBVIOUS
  <1>3. PICK rest : rest = (1..Len(reports)) \ taken
    OBVIOUS
  <1>4. /\ reports' = [n \in 1..Cardinality(rest) |->
                         reports[CHOOSE i \in rest : Cardinality({j \in rest : j <= i}) = n]]
        /\ count' = [count EXCEPT !.drained = @ + Cardinality(taken)]
        /\ UNCHANGED <<queue, pending, running, thread, orphans, now>>
    BY <1>1, <1>2, <1>3 DEF DrainReports, queueVars
  <1>5. Len(reports) \in Nat /\ count \in Counts
    BY DEF PacerCore, PacerShape
  <1>6. IsFiniteSet(1..Len(reports)) /\ Cardinality(1..Len(reports)) = Len(reports)
    BY <1>5, IntervalSize, Zenon
  <1>7. taken \subseteq 1..Len(reports)
    BY <1>1, <1>2
  <1>8. IsFiniteSet(taken) /\ Cardinality(taken) \in Nat
    BY <1>6, <1>7, FS_Subset, FS_CardinalityType
  <1>9. IsFiniteSet(rest) /\ Cardinality(rest) \in Nat /\ Cardinality(rest) = Len(reports) - Cardinality(taken)
    <2>1. (1..Len(reports)) \cap taken = taken
      BY <1>7
    <2>2. /\ IsFiniteSet((1..Len(reports)) \ taken)
          /\ Cardinality((1..Len(reports)) \ taken) = Cardinality(1..Len(reports)) - Cardinality((1..Len(reports)) \cap taken)
      BY <1>6, FS_Difference
    <2>3. IsFiniteSet(rest) /\ Cardinality(rest) = Len(reports) - Cardinality(taken)
      BY <1>3, <1>6, <2>1, <2>2
    <2>. QED BY <2>3, FS_CardinalityType
  <1>10. (\E R : reports' \in Seq(R)) /\ Len(reports') = Cardinality(rest)
    <2>1. PICK c \in Nat : c = Cardinality(rest)
      BY <1>9
    <2>. DEFINE e(n) == reports[CHOOSE i \in rest : Cardinality({j \in rest : j <= i}) = n]
    <2>2. reports' = [n \in 1..c |-> e(n)]
      BY <1>4, <2>1
    <2>. HIDE DEF e
    <2>3. reports' \in Seq({e(n) : n \in 1..c}) /\ Len(reports') = c
      BY <2>2
    <2>. QED BY <2>1, <2>3
  <1>11. PICK n \in Nat : n = count.drained + Cardinality(taken)
    BY <1>5, <1>8 DEF Counts
  <1>12. count' = [count EXCEPT !.drained = n]
    BY <1>4, <1>11
  <1>13. count' \in Counts /\ count'.drained = n /\ count'.dropped = count.dropped
    BY <1>5, <1>12 DEF Counts
  <1>14. /\ count'.admitted = count.admitted /\ count'.delivered = count.delivered
         /\ count'.deferred = count.deferred /\ count'.lost = count.lost /\ count'.leaked = count.leaked
         /\ count'.leakedBytes = count.leakedBytes
         /\ count'.clumps = count.clumps /\ count'.starts = count.starts /\ count'.panics = count.panics
    BY <1>5, <1>12 DEF Counts
  <1>15. PacerShape'
    BY <1>4, <1>10, <1>13 DEF PacerCore, PacerShape
  <1>16. Within'
    <2>1. Len(reports') <= Len(reports)
      BY <1>5, <1>8, <1>9, <1>10
    <2>2. Len(reports') <= ReportsCap /\ Len(reports') \in Nat
      BY <1>5, <1>9, <1>10, <2>1, PacerAssumption DEF PacerCore, Within
    <2>. QED BY <1>4, <2>2 DEF PacerCore, Within
  <1>17. Hands' /\ OneRuns' /\ Paced'
    BY <1>4, <1>14 DEF PacerCore, Hands, OneRuns, Paced, PaceKept, OnTime
  <1>18. Told' = Told
    <2>1. count.dropped \in Nat /\ count.drained \in Nat
      BY <1>5 DEF Counts
    <2>. QED BY <1>5, <1>8, <1>9, <1>10, <1>11, <1>13, <2>1 DEF Told
  <1>19. Held("left")' = Held("left") /\ Held("bytes")' = Held("bytes") /\ SentNow' = SentNow
    BY <1>4 DEF Held, SentNow
  <1>20. Left' = Left /\ Costs' = Costs /\ Owed' = Owed /\ Settled' = Settled
    <2>1. Left' = Left /\ Costs' = Costs
      BY <1>4, <1>19 DEF Left, Costs
    <2>. QED BY <1>4, <1>14, <1>19, <2>1 DEF Owed, Settled
  <1>21. Books'
    BY <1>4, <1>14, <1>18, <1>20, Ledger DEF Books, PacerCore
  <1>22. PendingExact' /\ TargetsSettled'
    BY <1>15, <1>21, LedgerNext
  <1>. QED BY <1>15, <1>16, <1>17, <1>22 DEF PacerCore

\* A step that leaves the pacer alone.
LEMMA PacerFrame ==
    ASSUME PacerCore, UNCHANGED <<queue, pending, running, thread, reports, orphans, now, count>> PROVE PacerCore'
  <1>1. PacerShape' /\ Hands' /\ OneRuns' /\ Paced' /\ Within'
    BY DEF PacerCore, PacerShape, Hands, OneRuns, Paced, PaceKept, OnTime, Within
  <1>2. PendingExact' /\ TargetsSettled'
    BY DEF PacerCore, PendingExact, TargetsSettled, Held, SumOf, InFlight, OrphanTargets, SentNow, Total, Units
  <1>. QED BY <1>1, <1>2 DEF PacerCore

LEMMA TickCore ==
    ASSUME PacerCore, Tick PROVE PacerCore'
  <1>1. now' = now + 1 /\ UNCHANGED <<queue, pending, running, thread, reports, orphans, count>>
    BY DEF Tick, queueVars
  <1>2. now \in Nat /\ now' \in Nat /\ Interval \in Nat \ {0} /\ count \in Counts /\ now <= now'
    BY <1>1, PacerAssumption DEF PacerCore, PacerShape
  <1>3. now \div Interval \in Nat /\ now' \div Interval \in Nat /\ now \div Interval <= now' \div Interval
    BY <1>2, Divisions
  <1>4. count.clumps \in Nat /\ count.starts \in Nat
    BY <1>2 DEF Counts
  <1>5. PacerShape' /\ Hands' /\ OneRuns' /\ Within'
    BY <1>1, <1>2 DEF PacerCore, PacerShape, Hands, OneRuns, Within
  <1>6. PaceKept'
    BY <1>1, <1>3, <1>4 DEF PacerCore, Paced, PaceKept
  <1>7. ASSUME NEW k \in Threads, thread'[k].pc # "none" PROVE OnTime(thread[k])'
    <2>1. OnTime(thread[k]) /\ thread[k] \in Pacer /\ thread' = thread /\ count' = count
      BY <1>1, <1>7 DEF PacerCore, Paced, PacerShape
    <2>2. thread[k].tx \in Nat
      BY <2>1 DEF Pacer
    <2>. QED BY <1>2, <1>3, <1>4, <2>1, <2>2 DEF OnTime
  <1>8. Paced'
    BY <1>6, <1>7 DEF Paced
  <1>9. PendingExact' /\ TargetsSettled'
    BY <1>1 DEF PacerCore, PendingExact, TargetsSettled, Held, SumOf, InFlight, OrphanTargets, SentNow, Total, Units
  <1>. QED BY <1>5, <1>8, <1>9 DEF PacerCore

-----------------------------------------------------------------------------
(* The configuration and the marks. *)

Phases == {"idle", "checked", "refused", "up", "tornDown", "failed"}

PacerEdges ==
    /\ create \in [Servers -> Phases] /\ ConfigHonoured
    /\ IsFiniteSet(marksOpen) /\ Cardinality(marksOpen) <= MarksMax

LEMMA ConfigKept ==
    ASSUME PacerEdges, ConfigNext PROVE PacerEdges'
  <1>1. marksOpen' = marksOpen
    BY DEF ConfigNext, ResolveConfig, CheckConfig, InstallConfig, CreateFails, markVars
  <1>2. create' \in [Servers -> Phases] /\ ConfigHonoured'
    <2>1. CASE ResolveConfig
      BY <2>1, PacerAssumption DEF PacerEdges, ResolveConfig, ConfigHonoured
    <2>2. ASSUME NEW s \in Servers, CheckConfig(s) PROVE create' \in [Servers -> Phases] /\ ConfigHonoured'
      <3>1. PICK v \in {"checked", "refused"} : create' = [create EXCEPT ![s] = v] /\ config' = config
        BY <2>2 DEF CheckConfig
      <3>2. create' \in [Servers -> Phases] /\ \A z \in Servers : create'[z] = IF z = s THEN v ELSE create[z]
        BY <3>1 DEF PacerEdges, Phases
      <3>. QED BY <3>1, <3>2 DEF PacerEdges, ConfigHonoured
    <2>3. ASSUME NEW s \in Servers, InstallConfig(s) PROVE create' \in [Servers -> Phases] /\ ConfigHonoured'
      <3>1. PICK v \in {"up", "tornDown"} : create' = [create EXCEPT ![s] = v] /\ (v = "up" => config' = Wanted[s])
        BY <2>3 DEF InstallConfig
      <3>2. create' \in [Servers -> Phases] /\ \A z \in Servers : create'[z] = IF z = s THEN v ELSE create[z]
        BY <3>1 DEF PacerEdges, Phases
      <3>3. config = "unresolved" \/ config' = config
        BY <2>3 DEF InstallConfig
      <3>4. \A z \in Servers : create[z] = "up" => config' = Wanted[z]
        BY <3>3, PacerAssumption DEF PacerEdges, ConfigHonoured
      <3>. QED BY <3>1, <3>2, <3>4 DEF ConfigHonoured
    <2>4. ASSUME NEW s \in Servers, CreateFails(s) PROVE create' \in [Servers -> Phases] /\ ConfigHonoured'
      <3>1. create' = [create EXCEPT ![s] = "failed"] /\ config' = config
        BY <2>4 DEF CreateFails
      <3>2. create' \in [Servers -> Phases] /\ \A z \in Servers : create'[z] = IF z = s THEN "failed" ELSE create[z]
        BY <3>1 DEF PacerEdges, Phases
      <3>. QED BY <3>1, <3>2 DEF PacerEdges, ConfigHonoured
    <2>. QED BY <2>1, <2>2, <2>3, <2>4 DEF ConfigNext
  <1>. QED BY <1>1, <1>2 DEF PacerEdges

LEMMA MarksKept ==
    ASSUME PacerEdges, Snapshot PROVE PacerEdges'
  <1>1. config' = config /\ create' = create
    BY DEF Snapshot, configVars
  <1>2. MarksMax \in Nat \ {0} /\ Cardinality(marksOpen) \in Nat /\ IsFiniteSet(marksOpen)
        /\ Cardinality(marksOpen) <= MarksMax
    BY PacerAssumption, FS_CardinalityType DEF PacerEdges
  <1>3. IsFiniteSet(marksOpen') /\ Cardinality(marksOpen') <= MarksMax
    <2>1. CASE Cardinality(marksOpen) < MarksMax /\ marksOpen' = marksOpen \cup {Token}
      <3>1. /\ IsFiniteSet(marksOpen \cup {Token})
            /\ Cardinality(marksOpen \cup {Token}) = IF Token \in marksOpen THEN Cardinality(marksOpen)
                                                     ELSE Cardinality(marksOpen) + 1
        BY <1>2, FS_AddElement
      <3>. QED BY <1>2, <2>1, <3>1
    <2>2. ASSUME NEW lowest \in marksOpen, marksOpen' = (marksOpen \ {lowest}) \cup {Token}
          PROVE  IsFiniteSet(marksOpen') /\ Cardinality(marksOpen') <= MarksMax
      <3>1. PICK rest : rest = marksOpen \ {lowest}
        OBVIOUS
      <3>2. IsFiniteSet(rest) /\ Cardinality(rest) = Cardinality(marksOpen) - 1
        BY <1>2, <3>1, FS_RemoveElement
      <3>3. /\ IsFiniteSet(rest \cup {Token})
            /\ Cardinality(rest \cup {Token}) = IF Token \in rest THEN Cardinality(rest) ELSE Cardinality(rest) + 1
        BY <3>2, FS_AddElement
      <3>. QED BY <1>2, <2>2, <3>1, <3>2, <3>3
    <2>. QED BY <2>1, <2>2 DEF Snapshot
  <1>. QED BY <1>1, <1>3 DEF PacerEdges, ConfigHonoured

-----------------------------------------------------------------------------
(* The pacer keeps its books. *)

LEMMA PacerStarts == PacerInit => PacerCore /\ PacerEdges
  <1>. SUFFICES ASSUME PacerInit PROVE PacerCore /\ PacerEdges
    OBVIOUS
  <1>1. /\ queue = <<>> /\ orphans = <<>> /\ reports = <<>> /\ running = FALSE /\ now = 0 /\ count = Counters
        /\ pending = [targets |-> 0, bytes |-> 0] /\ thread = [k \in Threads |-> Dead]
    BY DEF PacerInit
  <1>2. thread \in [Threads -> Pacer] /\ \A k \in Threads : thread[k] = Dead
    BY <1>1, DeadThread
  <1>3. /\ count \in Counts /\ count.clumps = 0 /\ count.starts = 0 /\ count.leaked = 0 /\ count.leakedBytes = 0
        /\ count.admitted = 0 /\ count.delivered = 0 /\ count.deferred = 0 /\ count.lost = 0
        /\ count.dropped = 0 /\ count.drained = 0
    BY <1>1 DEF Counters, Counts
  <1>4. <<>> \in Seq(Job) /\ <<>> \in Seq({}) /\ Len(reports) = 0 /\ pending.targets = 0 /\ pending.bytes = 0
    BY <1>1
  <1>5. PacerShape
    BY <1>1, <1>2, <1>3, <1>4 DEF PacerShape
  <1>6. Hands
    BY <1>2, DeadThread DEF Hands
  <1>7. OneRuns
    BY <1>1, <1>2, DeadThread DEF OneRuns
  <1>8. Paced
    <2>1. 0 \div Interval \in Nat
      BY PacerAssumption, Divisions
    <2>2. PaceKept
      BY <1>1, <1>3, <2>1 DEF PaceKept
    <2>. QED BY <1>2, <2>2, DeadThread DEF Paced
  <1>9. Within
    BY <1>4, PacerAssumption DEF Within
  <1>10. Held("left") = 0 /\ Held("bytes") = 0 /\ SentNow = 0
    BY <1>2, DeadThread, HeldNothing
  <1>11. SumOf(queue, "left") = 0 /\ SumOf(queue, "bytes") = 0 /\ SumOf(orphans, "left") = 0
    BY <1>1, SumEmpty
  <1>12. PendingExact /\ TargetsSettled
    BY <1>3, <1>4, <1>10, <1>11 DEF PendingExact, TargetsSettled, InFlight, OrphanTargets
  <1>13. PacerEdges
    <2>1. create \in [Servers -> Phases] /\ ConfigHonoured /\ marksOpen = {}
      BY DEF PacerInit, ConfigHonoured, Phases
    <2>2. MarksMax \in Nat
      BY PacerAssumption
    <2>. QED BY <2>1, <2>2, FS_EmptySet DEF PacerEdges
  <1>. QED BY <1>5, <1>6, <1>7, <1>8, <1>9, <1>12, <1>13 DEF PacerCore

LEMMA PacerSteps ==
    ASSUME PacerCore, PacerEdges, [ConfigNext \/ QueueNext \/ Snapshot]_pacerVars
    PROVE  PacerCore' /\ PacerEdges'
  <1>1. CASE ConfigNext
    <2>1. UNCHANGED <<queue, pending, running, thread, reports, orphans, now, count>>
      BY <1>1 DEF ConfigNext, ResolveConfig, CheckConfig, InstallConfig, CreateFails, queueVars
    <2>. QED BY <1>1, <2>1, PacerFrame, ConfigKept
  <1>2. CASE QueueNext
    <2>1. UNCHANGED <<configVars, markVars>>
      BY <1>2 DEF QueueNext, Submit, DrainReports, ThreadStep, TakeJob, StartClump, WaitUntil, SendOne, ClumpDone,
                  JobDone, IdleExits, Panic, ReportOrphan, Tick
    <2>2. PacerEdges'
      BY <2>1 DEF PacerEdges, ConfigHonoured, configVars, markVars
    <2>3. PacerCore'
      BY <1>2, SubmitCore, DrainCore, TakeJobCore, StartClumpCore, WaitUntilCore, SendOneCore, ClumpDoneCore,
         JobDoneCore, IdleExitsCore, PanicCore, ReportOrphanCore, TickCore
         DEF QueueNext, ThreadStep
    <2>. QED BY <2>2, <2>3
  <1>3. CASE Snapshot
    <2>1. UNCHANGED <<queue, pending, running, thread, reports, orphans, now, count>>
      BY <1>3 DEF Snapshot, queueVars
    <2>. QED BY <1>3, <2>1, PacerFrame, MarksKept
  <1>4. CASE UNCHANGED pacerVars
    <2>1. UNCHANGED <<queue, pending, running, thread, reports, orphans, now, count, config, create, marksOpen>>
      BY <1>4 DEF pacerVars, queueVars, configVars, markVars
    <2>. QED BY <2>1, PacerFrame DEF PacerEdges, ConfigHonoured
  <1>. QED BY <1>1, <1>2, <1>3, <1>4

\* The flag counts the threads.
LEMMA OneThread == PacerShape /\ OneRuns => OneSchedule
  <1>. SUFFICES ASSUME PacerShape, OneRuns PROVE OneSchedule
    OBVIOUS
  <1>1. PICK alive : alive = {k \in Threads : thread[k].pc # "none"}
    OBVIOUS
  <1>2. CASE running
    <2>1. PICK k \in Threads : thread[k].pc # "none"
      BY <1>2 DEF OneRuns
    <2>2. alive = {k}
      BY <1>1, <2>1 DEF OneRuns
    <2>3. Cardinality(alive) = 1
      BY <2>2, FS_Singleton
    <2>. QED BY <1>1, <1>2, <2>3 DEF OneSchedule, OneRuns
  <1>3. CASE ~running
    <2>1. alive = {}
      BY <1>1, <1>3 DEF OneRuns
    <2>2. Cardinality(alive) = 0
      BY <2>1, FS_EmptySet
    <2>. QED BY <1>1, <1>3, <2>2 DEF OneSchedule, OneRuns
  <1>. QED BY <1>2, <1>3

\* The answer of a call, whatever was admitted of it.
LEMMA AnswersWhole == PacerShape => OutcomeWhole
  <1>. SUFFICES ASSUME PacerShape, NEW n \in Sizes, NEW a \in {Admitted(n), 0}
                PROVE  /\ FanOut(n, a).sent + Len(FanOut(n, a).failed) = n
                       /\ \A i \in 1..Len(FanOut(n, a).failed) :
                            FanOut(n, a).failed[i].target = FanOut(n, a).sent + i
    BY DEF OutcomeWhole
  <1>1. a \in Nat /\ n \in Nat /\ a <= n
    BY AdmittedFits DEF PacerShape
  <1>2. PICK m \in Nat : m = n - a
    BY <1>1
  <1>3. PICK failed : failed = [i \in 1..m |-> [target |-> a + i,
                                                code |-> IF a + i > MirrorMax THEN "TooManyTargets" ELSE "WouldBlock"]]
    OBVIOUS
  <1>4. FanOut(n, a).sent = a /\ FanOut(n, a).failed = failed
    BY <1>2, <1>3 DEF FanOut
  <1>5. failed \in Seq({failed[i] : i \in 1..m}) /\ Len(failed) = m
    BY <1>3
  <1>6. \A i \in 1..m : failed[i].target = a + i
    BY <1>3
  <1>. QED BY <1>1, <1>2, <1>4, <1>5, <1>6

\* The pacer (egress_pacer.rs), for any servers, sizes, limits, clump and
\* interval: both admission counts are exactly what is queued, in hand or
\* leaked by a panic, and within their bounds; one thread at most; clumps
\* keep the pace; every admitted target is delivered, reported, lost to a
\* panic or still owed; an option in force is the one its server asked for.
THEOREM PacerCorrect == PacerSpec => []PacerSafe
  <1>1. PacerCore /\ PacerEdges => PacerSafe
    <2>. SUFFICES ASSUME PacerCore, PacerEdges PROVE PacerSafe
      OBVIOUS
    <2>1. OneSchedule /\ OutcomeWhole
      BY OneThread, AnswersWhole DEF PacerCore
    <2>2. \A k \in Threads : thread[k].pc \in {"none", "take", "clump", "wait", "send", "done", "bytes"}
      BY Known DEF Pacer
    <2>3. pending.targets \in 0..MaxPending /\ pending.bytes \in 0..MaxQueued /\ running \in BOOLEAN
      BY PacerAssumption DEF PacerCore, PacerShape, Within
    <2>. QED BY <2>1, <2>2, <2>3 DEF PacerSafe, PacerTypeOK, PacerCore, PacerEdges, Paced, Within
  <1>. QED BY <1>1, PacerStarts, PacerSteps, PTL DEF PacerSpec

\* take_mark: the token handed out is never the 0 that means off, also where the
\* counter wraps, and its mark is open.
THEOREM MarksCorrect == PacerSpec => MarkNeverZero
  <1>1. ASSUME [ConfigNext \/ QueueNext \/ Snapshot]_pacerVars
        PROVE  [lastMark' # lastMark => lastMark' # 0 /\ lastMark' \in marksOpen']_pacerVars
    <2>1. CASE Snapshot
      <3>1. PICK m \in Nat \ {0, 1} : m = 2^MarkWidth
        BY MarkAssumption
      <3>2. 1 % m = 1
        BY <3>1
      <3>3. Token = IF nextMark = 0 THEN (nextMark + 1) % m ELSE nextMark
        BY <3>1 DEF Token, MarkAfter
      <3>4. Token # 0
        BY <3>2, <3>3
      <3>5. lastMark' = Token /\ Token \in marksOpen'
        BY <2>1 DEF Snapshot
      <3>. QED BY <3>4, <3>5
    <2>2. CASE ConfigNext \/ QueueNext \/ UNCHANGED pacerVars
      <3>1. lastMark' = lastMark
        BY <2>2 DEF ConfigNext, ResolveConfig, CheckConfig, InstallConfig, CreateFails, QueueNext, Submit, DrainReports,
                    ThreadStep, TakeJob, StartClump, WaitUntil, SendOne, ClumpDone, JobDone, IdleExits, Panic,
                    ReportOrphan, Tick, pacerVars, markVars
      <3>. QED BY <3>1
    <2>. QED BY <1>1, <2>1, <2>2
  <1>. QED BY <1>1, PTL DEF PacerSpec, MarkNeverZero
============================================================================
