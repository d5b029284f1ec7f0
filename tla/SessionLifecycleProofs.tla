----------------------- MODULE SessionLifecycleProofs -----------------------
(***************************************************************************)
(* TLAPS proofs about SessionLifecycle, for every set of sessions and      *)
(* addresses and every value of the limits.                                *)
(*                                                                         *)
(* TypeOK is not inductive: the gauges are decremented with fetch_sub, and *)
(* that they never go below zero follows only from GaugesExact (a session  *)
(* that is uncounted is counted).  GaugesExact in turn needs HandedOver:   *)
(* session task and forward task never count the same session twice.       *)
(***************************************************************************)
EXTENDS SessionLifecycle, TLAPS, FiniteSetTheorems

\* Finite sets of sessions and the effect of one session on a cardinality.
LEMMA SessionSets ==
    ASSUME NEW S \in SUBSET Sessions
    PROVE  IsFiniteSet(S) /\ Cardinality(S) \in Nat
  BY SessionsFinite, FS_Subset, FS_CardinalityType

LEMMA OneMore ==
    ASSUME NEW S \in SUBSET Sessions, NEW s \in Sessions, s \notin S
    PROVE  Cardinality(S \cup {s}) = Cardinality(S) + 1
  BY SessionSets, FS_AddElement

LEMMA OneLess ==
    ASSUME NEW S \in SUBSET Sessions, NEW s \in S
    PROVE  Cardinality(S \ {s}) = Cardinality(S) - 1 /\ Cardinality(S) > 0
  <1>1. Cardinality(S \ {s}) = Cardinality(S) - 1
    BY SessionSets, FS_RemoveElement
  <1>2. Cardinality(S \ {s}) \in Nat /\ Cardinality(S) \in Nat
    BY SessionSets
  <1> QED BY <1>1, <1>2

-----------------------------------------------------------------------------
(* Stages: the two tasks of a session fit together.                        *)

\* A registered session has a task that will deregister it, or has lost it.
RegistryStages ==
    \A s \in registry : \/ task[s] \in {"confirm", "announce", "startBidi", "startUni", "lost"}
                        \/ fwd[s] \in {"spawned", "recv", "send", "remove", "lost"}

ClosedStages == \A s \in Sessions : "closed" \in events[s] => fwd[s] = "done"

Stages == HandedOver /\ RegistryStages /\ ClosedStages

(* Effects: what a step of session s does to sessions_active, to           *)
(* handshakes_in_flight and to the slots of its address and prefix.        *)

CountEffect(s) ==
    \/ active' = active /\ CountedSet' = CountedSet
    \/ s \notin CountedSet /\ CountedSet' = CountedSet \cup {s} /\ active' = active + 1
    \/ s \in CountedSet /\ CountedSet' = CountedSet \ {s} /\ active' = active - 1

HeldEffect(s) ==
    \/ handshakes' = handshakes /\ HeldSet' = HeldSet
    \/ s \notin HeldSet /\ HeldSet' = HeldSet \cup {s} /\ handshakes' = handshakes + 1
    \/ s \in HeldSet /\ HeldSet' = HeldSet \ {s} /\ handshakes' = Pred(handshakes)

AdmitEffect(s) ==
    \/ AdmittedSet' \subseteq AdmittedSet
    \/ /\ active < MaxSessions /\ s \notin CountedSet
       /\ AdmittedSet' = AdmittedSet \cup {s}

GaugeEffect(s) == CountEffect(s) /\ HeldEffect(s) /\ AdmitEffect(s)

IpEffect(s) ==
    \/ perIp' = perIp /\ \A i \in Ips : IpHolders(i)' = IpHolders(i)
    \/ /\ \A i \in Ips \ {IpOf[s]} : IpHolders(i)' = IpHolders(i)
       /\ \/ /\ s \notin IpHolders(IpOf[s]) /\ perIp[IpOf[s]] < BurstPerIp
             /\ IpHolders(IpOf[s])' = IpHolders(IpOf[s]) \cup {s}
             /\ perIp' = [perIp EXCEPT ![IpOf[s]] = @ + 1]
          \/ /\ s \in IpHolders(IpOf[s])
             /\ IpHolders(IpOf[s])' = IpHolders(IpOf[s]) \ {s}
             /\ perIp' = [perIp EXCEPT ![IpOf[s]] = Pred(@)]

PrefixEffect(s) ==
    \/ perPrefix' = perPrefix /\ \A p \in Prefixes : PrefixHolders(p)' = PrefixHolders(p)
    \/ /\ \A p \in Prefixes \ {PrefixFor(s)} : PrefixHolders(p)' = PrefixHolders(p)
       /\ \/ /\ s \notin PrefixHolders(PrefixFor(s)) /\ perPrefix[PrefixFor(s)] < BurstPerPrefix
             /\ PrefixHolders(PrefixFor(s))' = PrefixHolders(PrefixFor(s)) \cup {s}
             /\ perPrefix' = [perPrefix EXCEPT ![PrefixFor(s)] = @ + 1]
          \/ /\ s \in PrefixHolders(PrefixFor(s))
             /\ PrefixHolders(PrefixFor(s))' = PrefixHolders(PrefixFor(s)) \ {s}
             /\ perPrefix' = [perPrefix EXCEPT ![PrefixFor(s)] = Pred(@)]

\* A step that moves no session in or out of any of the counted sets.
Uncounted ==
    /\ UNCHANGED <<active, handshakes, perIp, perPrefix>>
    /\ CountedSet' = CountedSet /\ HeldSet' = HeldSet /\ AdmittedSet' = AdmittedSet
    /\ \A i \in Ips : IpHolders(i)' = IpHolders(i)
    /\ \A p \in Prefixes : PrefixHolders(p)' = PrefixHolders(p)

(* Steps of the session task and of the forward task. *)

\* The session task counts and uncounts its own session only.
LEMMA TaskGauges ==
    ASSUME TypeOK, HandedOver, NEW s \in Sessions, TaskStep(s)
    PROVE  GaugeEffect(s)
  <1> USE DEF TypeOK, HandedOver, CountedSet, HeldSet, AdmittedSet, Counted, AdmissionHeld, Admitted,
            GaugeEffect, CountEffect, HeldEffect, AdmitEffect
  <1>1. CASE ReadRequest(s)
    BY <1>1 DEF ReadRequest, Goto, workers, counters, server
  <1>2. CASE TurnedAway(s)
    BY <1>2 DEF TurnedAway, LeaveTask, workers, server, Goto
  <1>3. CASE AcquireIp(s)
    BY <1>3 DEF AcquireIp, Goto, workers, server
  <1>4. CASE AcquirePrefix(s)
    BY <1>4 DEF AcquirePrefix, Goto, workers, server
  <1>5. CASE UnwindIp(s)
    BY <1>5 DEF UnwindIp, Goto, workers, server
  <1>6. CASE CountSession(s)
    BY <1>6, LimitsAssumption DEF CountSession, Goto, workers, server
  <1>7. CASE UncountOver(s)
    BY <1>7 DEF UncountOver, Goto, workers, server
  <1>8. CASE Rejected(s)
    BY <1>8 DEF Rejected, Goto, workers, counters, server
  <1>9. CASE AcceptFails(s)
    BY <1>9 DEF AcceptFails, Goto, workers, counters, server
  <1>10. CASE UndoCount(s)
    BY <1>10 DEF UndoCount, Goto, workers, server
  <1>11. CASE FreeIp(s)
    BY <1>11 DEF FreeIp, Goto, workers, server
  <1>12. CASE FreePrefix(s)
    BY <1>12 DEF FreePrefix, LeaveTask, workers, server, Goto
  <1>13. CASE AcceptOk(s)
    BY <1>13 DEF AcceptOk, Goto, workers, server
  <1>14. CASE Confirm(s)
    BY <1>14 DEF Confirm, Goto, workers, counters, server
  <1>15. CASE Announce(s)
    BY <1>15 DEF Announce, Goto, workers, counters, server
  <1>16. CASE StartBidi(s)
    BY <1>16 DEF StartBidi, Goto, counters, server
  <1>17. CASE StartRest(s)
    BY <1>17 DEF StartRest, Goto, FwdGoto, counters, server
  <1> QED BY <1>1, <1>2, <1>3, <1>4, <1>5, <1>6, <1>7, <1>8, <1>9, <1>10, <1>11, <1>12,
             <1>13, <1>14, <1>15, <1>16, <1>17 DEF TaskStep

\* The forward task uncounts its own session only.
LEMMA FwdGauges ==
    ASSUME TypeOK, HandedOver, NEW s \in Sessions, FwdStep(s)
    PROVE  GaugeEffect(s)
  <1> USE DEF TypeOK, HandedOver, CountedSet, HeldSet, AdmittedSet, Counted, AdmissionHeld, Admitted,
            GaugeEffect, CountEffect, HeldEffect, AdmitEffect
  <1>1. CASE FwdStart(s)
    BY <1>1 DEF FwdStart, FwdGoto, counters, server
  <1>2. CASE FwdSent(s)
    BY <1>2 DEF FwdSent, FwdGoto, counters, server
  <1>3. CASE FwdSendFails(s)
    BY <1>3 DEF FwdSendFails, FwdGoto, counters, server
  <1>4. CASE FwdSeesClose(s)
    BY <1>4 DEF FwdSeesClose, FwdGoto, counters, server
  <1>5. CASE FwdRemove(s)
    BY <1>5 DEF FwdRemove, FwdGoto, counters, server
  <1>6. CASE FwdFreeIp(s)
    BY <1>6 DEF FwdFreeIp, FwdGoto, server
  <1>7. CASE FwdFreePrefix(s)
    BY <1>7 DEF FwdFreePrefix, FwdGoto, server
  <1>8. CASE FwdUncount(s)
    BY <1>8 DEF FwdUncount, FwdGoto, server
  <1>9. CASE FwdNotify(s)
    BY <1>9 DEF FwdNotify, FwdGoto, counters, server
  <1> QED BY <1>1, <1>2, <1>3, <1>4, <1>5, <1>6, <1>7, <1>8, <1>9 DEF FwdStep

\* The session task takes and frees slots of its own address only.
LEMMA TaskSlots ==
    ASSUME TypeOK, HandedOver, NEW s \in Sessions, TaskStep(s)
    PROVE  IpEffect(s) /\ PrefixEffect(s)
  <1> USE DEF TypeOK, HandedOver, PrefixFor, IpHolders, HoldsIp, PrefixHolders, HoldsPrefix,
            IpEffect, PrefixEffect
  <1>1. CASE ReadRequest(s)
    BY <1>1, AddressAssumption DEF ReadRequest, Goto, workers, counters, server
  <1>2. CASE TurnedAway(s)
    BY <1>2, AddressAssumption DEF TurnedAway, LeaveTask, workers, server, Goto
  <1>3. CASE AcquireIp(s)
    BY <1>3, AddressAssumption DEF AcquireIp, Goto, workers, server
  <1>4. CASE AcquirePrefix(s)
    BY <1>4, AddressAssumption DEF AcquirePrefix, Goto, workers, server
  <1>5. CASE UnwindIp(s)
    BY <1>5, AddressAssumption DEF UnwindIp, Goto, workers, server
  <1>6. CASE CountSession(s)
    BY <1>6, AddressAssumption DEF CountSession, Goto, workers, server
  <1>7. CASE UncountOver(s)
    BY <1>7, AddressAssumption DEF UncountOver, Goto, workers, server
  <1>8. CASE Rejected(s)
    BY <1>8, AddressAssumption DEF Rejected, Goto, workers, counters, server
  <1>9. CASE AcceptFails(s)
    BY <1>9, AddressAssumption DEF AcceptFails, Goto, workers, counters, server
  <1>10. CASE UndoCount(s)
    BY <1>10, AddressAssumption DEF UndoCount, Goto, workers, server
  <1>11. CASE FreeIp(s)
    BY <1>11, AddressAssumption DEF FreeIp, Goto, workers, server
  <1>12. CASE FreePrefix(s)
    BY <1>12, AddressAssumption DEF FreePrefix, LeaveTask, workers, server, Goto
  <1>13. CASE AcceptOk(s)
    BY <1>13, AddressAssumption DEF AcceptOk, Goto, workers, server
  <1>14. CASE Confirm(s)
    BY <1>14, AddressAssumption DEF Confirm, Goto, workers, counters, server
  <1>15. CASE Announce(s)
    BY <1>15, AddressAssumption DEF Announce, Goto, workers, counters, server
  <1>16. CASE StartBidi(s)
    BY <1>16, AddressAssumption DEF StartBidi, Goto, counters, server
  <1>17. CASE StartRest(s)
    BY <1>17, AddressAssumption DEF StartRest, Goto, FwdGoto, counters, server
  <1> QED BY <1>1, <1>2, <1>3, <1>4, <1>5, <1>6, <1>7, <1>8, <1>9, <1>10, <1>11, <1>12,
             <1>13, <1>14, <1>15, <1>16, <1>17 DEF TaskStep

\* The forward task frees slots of its own address only.
LEMMA FwdSlots ==
    ASSUME TypeOK, HandedOver, NEW s \in Sessions, FwdStep(s)
    PROVE  IpEffect(s) /\ PrefixEffect(s)
  <1> USE DEF TypeOK, HandedOver, PrefixFor, IpHolders, HoldsIp, PrefixHolders, HoldsPrefix,
            IpEffect, PrefixEffect
  <1>1. CASE FwdStart(s)
    BY <1>1, AddressAssumption DEF FwdStart, FwdGoto, counters, server
  <1>2. CASE FwdSent(s)
    BY <1>2, AddressAssumption DEF FwdSent, FwdGoto, counters, server
  <1>3. CASE FwdSendFails(s)
    BY <1>3, AddressAssumption DEF FwdSendFails, FwdGoto, counters, server
  <1>4. CASE FwdSeesClose(s)
    BY <1>4, AddressAssumption DEF FwdSeesClose, FwdGoto, counters, server
  <1>5. CASE FwdRemove(s)
    BY <1>5, AddressAssumption DEF FwdRemove, FwdGoto, counters, server
  <1>6. CASE FwdFreeIp(s)
    BY <1>6, AddressAssumption DEF FwdFreeIp, FwdGoto, server
  <1>7. CASE FwdFreePrefix(s)
    BY <1>7, AddressAssumption DEF FwdFreePrefix, FwdGoto, server
  <1>8. CASE FwdUncount(s)
    BY <1>8, AddressAssumption DEF FwdUncount, FwdGoto, server
  <1>9. CASE FwdNotify(s)
    BY <1>9, AddressAssumption DEF FwdNotify, FwdGoto, counters, server
  <1> QED BY <1>1, <1>2, <1>3, <1>4, <1>5, <1>6, <1>7, <1>8, <1>9 DEF FwdStep

(* Every other step. *)

\* The steps that are neither the session task's nor the forward task's own.
OtherStep(s) ==
    \/ FwdReceive(s) \/ ReadDatagram(s) \/ close_session(s) \/ FwdPanics(s) \/ WatcherAborts(s)
    \/ ConnEnds(s) \/ SweepOne(s) \/ CancelFwd(s)
    \/ \E w \in Workers : \/ WorkerPanics(s, w) \/ WorkerExits(s, w)
                          \/ WorkerFindsChannelClosed(s, w) \/ CancelWorker(s, w)

ServerStep == SweepDone \/ LoopStops \/ DrainEnds \/ GraceExpires \/ AbortExpires

\* The application, the peer, the workers and the sweep count nothing.
LEMMA OtherUncounted ==
    ASSUME TypeOK, HandedOver, NEW s \in Sessions, OtherStep(s)
    PROVE  Uncounted
  <1> USE DEF TypeOK, HandedOver, Uncounted, CountedSet, HeldSet, AdmittedSet, Counted,
            AdmissionHeld, Admitted, PrefixFor, IpHolders, HoldsIp, PrefixHolders, HoldsPrefix
  <1>1. CASE FwdReceive(s)
    BY <1>1 DEF FwdReceive, FwdGoto, counters, server
  <1>2. CASE ReadDatagram(s)
    BY <1>2 DEF ReadDatagram, counters, server
  <1>3. CASE close_session(s)
    BY <1>3 DEF close_session, RemoveAndClose, workers, counters, server
  <1>4. CASE FwdPanics(s)
    BY <1>4 DEF FwdPanics, FwdGoto, counters, server
  <1>5. CASE WatcherAborts(s)
    BY <1>5 DEF WatcherAborts, RemoveAndClose, counters, server
  <1>6. CASE ConnEnds(s)
    BY <1>6 DEF ConnEnds, workers, counters, server
  <1>7. CASE SweepOne(s)
    BY <1>7 DEF SweepOne, RemoveAndClose, workers, counters
  <1>8. CASE CancelFwd(s)
    BY <1>8 DEF CancelFwd, FwdGoto, counters, server
  <1>9. ASSUME NEW w \in Workers,
               \/ WorkerPanics(s, w) \/ WorkerExits(s, w)
               \/ WorkerFindsChannelClosed(s, w) \/ CancelWorker(s, w)
        PROVE  Uncounted
    BY <1>9 DEF WorkerPanics, WorkerExits, WorkerFindsChannelClosed, CancelWorker,
                    RemoveAndClose, counters, server
  <1> QED BY <1>1, <1>2, <1>3, <1>4, <1>5, <1>6, <1>7, <1>8, <1>9 DEF OtherStep

\* Neither do the drain's own steps.
LEMMA ServerUncounted ==
    ASSUME TypeOK, ServerStep
    PROVE  Uncounted
  BY DEF TypeOK, ServerStep, SweepDone, LoopStops, DrainEnds, GraceExpires, AbortExpires, Uncounted,
         CountedSet, HeldSet, AdmittedSet, Counted, AdmissionHeld, Admitted, PrefixFor, IpHolders,
         HoldsIp, PrefixHolders, HoldsPrefix, counters, workers

\* An arriving connection takes at most a handshake slot.
LEMMA ArriveEffects ==
    ASSUME TypeOK, HandedOver, NEW s \in Sessions, Arrive(s)
    PROVE  GaugeEffect(s) /\ IpEffect(s) /\ PrefixEffect(s)
  <1> USE DEF TypeOK, HandedOver, Arrive, Goto, workers, server
  <1>1. GaugeEffect(s)
    BY DEF GaugeEffect, CountEffect, HeldEffect, AdmitEffect, CountedSet, HeldSet, AdmittedSet,
           Counted, AdmissionHeld, Admitted
  <1>2. IpEffect(s) /\ PrefixEffect(s)
    BY DEF IpEffect, PrefixEffect, PrefixFor, IpHolders, HoldsIp, PrefixHolders, HoldsPrefix
  <1> QED BY <1>1, <1>2

\* An aborted session task gives back its handshake slot and nothing else.
LEMMA CancelTaskEffects ==
    ASSUME TypeOK, HandedOver, NEW s \in Sessions, CancelTask(s)
    PROVE  GaugeEffect(s) /\ IpEffect(s) /\ PrefixEffect(s)
  <1> USE DEF TypeOK, HandedOver, CancelTask, LeaveTask, Goto, workers, server
  <1>1. GaugeEffect(s)
    BY DEF GaugeEffect, CountEffect, HeldEffect, AdmitEffect, CountedSet, HeldSet, AdmittedSet,
           Counted, AdmissionHeld, Admitted
  <1>2. IpEffect(s) /\ PrefixEffect(s)
    BY DEF IpEffect, PrefixEffect, PrefixFor, IpHolders, HoldsIp, PrefixHolders, HoldsPrefix
  <1> QED BY <1>1, <1>2

\* Every step of Next is one of these.
LEMMA NextCases ==
    ASSUME Next
    PROVE  \/ \E s \in Sessions : Arrive(s) \/ TaskStep(s) \/ FwdStep(s) \/ CancelTask(s)
                                    \/ OtherStep(s)
           \/ ServerStep \/ Close
  BY DEF Next, OtherStep, ServerStep, CloseStep, Cancel

-----------------------------------------------------------------------------
(* From effects to the invariants. *)

LEMMA CountEffectExact ==
    ASSUME GaugesExact, NEW s \in Sessions, CountEffect(s)
    PROVE  active' = Cardinality(CountedSet')
  <1>1. CountedSet \in SUBSET Sessions
    BY DEF CountedSet
  <1>2. Cardinality(CountedSet) \in Nat
    BY <1>1, SessionSets
  <1>3. CASE active' = active /\ CountedSet' = CountedSet
    BY <1>3 DEF GaugesExact
  <1>4. CASE s \notin CountedSet /\ CountedSet' = CountedSet \cup {s} /\ active' = active + 1
    BY <1>1, <1>4, OneMore DEF GaugesExact
  <1>5. CASE s \in CountedSet /\ CountedSet' = CountedSet \ {s} /\ active' = active - 1
    BY <1>1, <1>5, OneLess DEF GaugesExact
  <1> QED BY <1>3, <1>4, <1>5 DEF CountEffect

LEMMA HeldEffectExact ==
    ASSUME GaugesExact, NEW s \in Sessions, HeldEffect(s)
    PROVE  handshakes' = Cardinality(HeldSet')
  <1>1. HeldSet \in SUBSET Sessions
    BY DEF HeldSet
  <1>2. Cardinality(HeldSet) \in Nat
    BY <1>1, SessionSets
  <1>3. CASE handshakes' = handshakes /\ HeldSet' = HeldSet
    BY <1>3 DEF GaugesExact
  <1>4. CASE s \notin HeldSet /\ HeldSet' = HeldSet \cup {s} /\ handshakes' = handshakes + 1
    BY <1>1, <1>4, OneMore DEF GaugesExact
  <1>5. CASE s \in HeldSet /\ HeldSet' = HeldSet \ {s} /\ handshakes' = Pred(handshakes)
    BY <1>1, <1>2, <1>5, OneLess DEF GaugesExact, Pred
  <1> QED BY <1>3, <1>4, <1>5 DEF HeldEffect

LEMMA AdmitEffectBounded ==
    ASSUME GaugesExact, AdmittedWithinMax, NEW s \in Sessions, AdmitEffect(s)
    PROVE  Cardinality(AdmittedSet') <= MaxSessions
  <1>1. AdmittedSet \in SUBSET Sessions /\ CountedSet \in SUBSET Sessions
        /\ AdmittedSet \subseteq CountedSet
    BY DEF AdmittedSet, CountedSet, Admitted
  <1>2. /\ Cardinality(AdmittedSet) \in Nat /\ Cardinality(CountedSet) \in Nat
        /\ Cardinality(AdmittedSet) <= Cardinality(CountedSet)
    BY <1>1, SessionSets, FS_Subset
  <1>3. CASE AdmittedSet' \subseteq AdmittedSet
    <2>1. Cardinality(AdmittedSet') <= Cardinality(AdmittedSet)
      BY <1>1, <1>3, SessionSets, FS_Subset
    <2>2. Cardinality(AdmittedSet') \in Nat
      BY <1>1, <1>3, SessionSets
    <2> QED BY <2>1, <2>2, <1>2, LimitsAssumption DEF AdmittedWithinMax
  <1>4. CASE /\ active < MaxSessions /\ s \notin CountedSet
             /\ AdmittedSet' = AdmittedSet \cup {s}
    <2>1. Cardinality(AdmittedSet \cup {s}) = Cardinality(AdmittedSet) + 1
      BY <1>1, <1>4, OneMore
    <2> QED BY <2>1, <1>2, <1>4, LimitsAssumption DEF GaugesExact
  <1> QED BY <1>3, <1>4 DEF AdmitEffect

LEMMA GaugeEffectSuffices ==
    ASSUME GaugesExact, AdmittedWithinMax, NEW s \in Sessions, GaugeEffect(s)
    PROVE  GaugesExact' /\ AdmittedWithinMax'
  BY CountEffectExact, HeldEffectExact, AdmitEffectBounded
     DEF GaugeEffect, GaugesExact, AdmittedWithinMax

LEMMA UncountedSuffices ==
    ASSUME GaugesExact, AdmittedWithinMax, Uncounted
    PROVE  GaugesExact' /\ AdmittedWithinMax'
  BY DEF Uncounted, GaugesExact, AdmittedWithinMax

-----------------------------------------------------------------------------
(* Types.  The gauges' own types follow from GaugesExact'. *)

\* Giving a slot back leaves a natural number of slots.
LEMMA SlotGivenBack ==
    ASSUME NEW D, NEW f \in [D -> Nat], NEW d \in D
    PROVE  [f EXCEPT ![d] = Pred(@)] \in [D -> Nat]
  BY DEF Pred

\* The datagram channel stays within its capacity.
LEMMA ChannelMoves ==
    ASSUME NEW f \in [Sessions -> 0 .. ChannelCapacity], NEW s \in Sessions
    PROVE  /\ f[s] < ChannelCapacity => [f EXCEPT ![s] = @ + 1] \in [Sessions -> 0 .. ChannelCapacity]
           /\ f[s] > 0 => [f EXCEPT ![s] = @ - 1] \in [Sessions -> 0 .. ChannelCapacity]
  BY LimitsAssumption

\* Steps of the session task keep the types.
LEMMA TaskTypes ==
    ASSUME TypeOK, active' \in Nat, handshakes' \in Nat, NEW s \in Sessions, TaskStep(s)
    PROVE  TypeOK'
  <1> USE DEF TypeOK, TaskStages, FwdStages, Workers, ConnStates, Ends
  <1>1. CASE ReadRequest(s)
    BY <1>1, AddressAssumption DEF ReadRequest, Goto, workers, counters, server
  <1>2. CASE TurnedAway(s)
    BY <1>2, AddressAssumption DEF TurnedAway, LeaveTask, workers, server, Goto, CloseConn, Open
  <1>3. CASE AcquireIp(s)
    BY <1>3, AddressAssumption DEF AcquireIp, Goto, workers, server, PrefixFor
  <1>4. CASE AcquirePrefix(s)
    BY <1>4, AddressAssumption DEF AcquirePrefix, Goto, workers, server, PrefixFor
  <1>5. CASE UnwindIp(s)
    <2>1. perIp' \in [Ips -> Nat]
      BY <1>5, SlotGivenBack, AddressAssumption DEF UnwindIp
    <2> QED BY <1>5, <2>1, AddressAssumption DEF UnwindIp, Goto, workers, server, PrefixFor
  <1>6. CASE CountSession(s)
    BY <1>6, AddressAssumption DEF CountSession, Goto, workers, server
  <1>7. CASE UncountOver(s)
    BY <1>7, AddressAssumption DEF UncountOver, Goto, workers, server
  <1>8. CASE Rejected(s)
    BY <1>8, AddressAssumption DEF Rejected, Goto, workers, counters, server
  <1>9. CASE AcceptFails(s)
    BY <1>9, AddressAssumption DEF AcceptFails, Goto, workers, counters, server
  <1>10. CASE UndoCount(s)
    BY <1>10, AddressAssumption DEF UndoCount, Goto, workers, server
  <1>11. CASE FreeIp(s)
    <2>1. perIp' \in [Ips -> Nat]
      BY <1>11, SlotGivenBack, AddressAssumption DEF FreeIp
    <2> QED BY <1>11, <2>1, AddressAssumption DEF FreeIp, Goto, workers, server, PrefixFor
  <1>12. CASE FreePrefix(s)
    <2>1. perPrefix' \in [Prefixes -> Nat]
      BY <1>12, SlotGivenBack, AddressAssumption DEF FreePrefix, PrefixFor
    <2> QED BY <1>12, <2>1, AddressAssumption DEF FreePrefix, LeaveTask, workers, server, Goto, CloseConn, Open, PrefixFor
  <1>13. CASE AcceptOk(s)
    BY <1>13, AddressAssumption DEF AcceptOk, Goto, workers, server
  <1>14. CASE Confirm(s)
    BY <1>14, AddressAssumption DEF Confirm, Goto, workers, counters, server
  <1>15. CASE Announce(s)
    BY <1>15, AddressAssumption DEF Announce, Goto, workers, counters, server
  <1>16. CASE StartBidi(s)
    BY <1>16, AddressAssumption DEF StartBidi, Goto, counters, server
  <1>17. CASE StartRest(s)
    BY <1>17, AddressAssumption DEF StartRest, Goto, FwdGoto, counters, server
  <1> QED BY <1>1, <1>2, <1>3, <1>4, <1>5, <1>6, <1>7, <1>8, <1>9, <1>10, <1>11, <1>12,
             <1>13, <1>14, <1>15, <1>16, <1>17 DEF TaskStep

\* Steps of the forward task keep the types.
LEMMA FwdTypes ==
    ASSUME TypeOK, active' \in Nat, handshakes' \in Nat, NEW s \in Sessions, FwdStep(s)
    PROVE  TypeOK'
  <1> USE DEF TypeOK, TaskStages, FwdStages, Workers, ConnStates, Ends
  <1>1. CASE FwdStart(s)
    BY <1>1, AddressAssumption DEF FwdStart, FwdGoto, counters, server
  <1>2. CASE FwdSent(s)
    <2>1. queued' \in [Sessions -> 0 .. ChannelCapacity]
      BY <1>2, ChannelMoves, AddressAssumption DEF FwdSent
    <2> QED BY <1>2, <2>1, AddressAssumption DEF FwdSent, FwdGoto, counters, server
  <1>3. CASE FwdSendFails(s)
    BY <1>3, AddressAssumption DEF FwdSendFails, FwdGoto, counters, server
  <1>4. CASE FwdSeesClose(s)
    BY <1>4, AddressAssumption DEF FwdSeesClose, FwdGoto, counters, server, record_session_close
  <1>5. CASE FwdRemove(s)
    BY <1>5, AddressAssumption DEF FwdRemove, FwdGoto, counters, server
  <1>6. CASE FwdFreeIp(s)
    <2>1. perIp' \in [Ips -> Nat]
      BY <1>6, SlotGivenBack, AddressAssumption DEF FwdFreeIp
    <2> QED BY <1>6, <2>1, AddressAssumption DEF FwdFreeIp, FwdGoto, server, PrefixFor
  <1>7. CASE FwdFreePrefix(s)
    <2>1. perPrefix' \in [Prefixes -> Nat]
      BY <1>7, SlotGivenBack, AddressAssumption DEF FwdFreePrefix, PrefixFor
    <2> QED BY <1>7, <2>1, AddressAssumption DEF FwdFreePrefix, FwdGoto, server, PrefixFor
  <1>8. CASE FwdUncount(s)
    BY <1>8, AddressAssumption DEF FwdUncount, FwdGoto, server
  <1>9. CASE FwdNotify(s)
    BY <1>9, AddressAssumption DEF FwdNotify, FwdGoto, counters, server
  <1> QED BY <1>1, <1>2, <1>3, <1>4, <1>5, <1>6, <1>7, <1>8, <1>9 DEF FwdStep

\* So do the other steps.
LEMMA OtherTypes ==
    ASSUME TypeOK, active' \in Nat, handshakes' \in Nat, NEW s \in Sessions, OtherStep(s)
    PROVE  TypeOK'
  <1> USE DEF TypeOK, TaskStages, FwdStages, Workers, ConnStates, Ends
  <1>1. CASE FwdReceive(s)
    BY <1>1 DEF FwdReceive, FwdGoto, counters, server
  <1>2. CASE ReadDatagram(s)
    <2>1. queued' \in [Sessions -> 0 .. ChannelCapacity]
      BY <1>2, ChannelMoves, AddressAssumption DEF ReadDatagram
    <2> QED BY <1>2, <2>1 DEF ReadDatagram, counters, server
  <1>3. CASE close_session(s)
    BY <1>3 DEF close_session, RemoveAndClose, workers, counters, server, CloseConn, Open
  <1>4. CASE FwdPanics(s)
    BY <1>4 DEF FwdPanics, FwdGoto, counters, server
  <1>5. CASE WatcherAborts(s)
    BY <1>5 DEF WatcherAborts, RemoveAndClose, CloseConn, Open, counters, server, CloseConn, Open
  <1>6. CASE ConnEnds(s)
    BY <1>6 DEF ConnEnds, workers, counters, server
  <1>7. CASE SweepOne(s)
    BY <1>7 DEF SweepOne, RemoveAndClose, workers, counters, CloseConn, Open
  <1>8. CASE CancelFwd(s)
    BY <1>8 DEF CancelFwd, FwdGoto, counters, server
  <1>9. ASSUME NEW w \in Workers,
               \/ WorkerPanics(s, w) \/ WorkerExits(s, w)
               \/ WorkerFindsChannelClosed(s, w) \/ CancelWorker(s, w)
        PROVE  TypeOK'
    BY <1>9 DEF WorkerPanics, WorkerExits, WorkerFindsChannelClosed, CancelWorker,
                    RemoveAndClose, CloseConn, Open, counters, server
  <1> QED BY <1>1, <1>2, <1>3, <1>4, <1>5, <1>6, <1>7, <1>8, <1>9 DEF OtherStep

LEMMA RemainingTypes ==
    ASSUME TypeOK, active' \in Nat, handshakes' \in Nat,
           \/ \E s \in Sessions : Arrive(s) \/ CancelTask(s)
           \/ ServerStep \/ Close
    PROVE  TypeOK'
  <1> USE DEF TypeOK, TaskStages, FwdStages, Workers, ConnStates, Ends
  <1>1. ASSUME NEW s \in Sessions, Arrive(s)
        PROVE  TypeOK'
    BY <1>1 DEF Arrive, Goto, workers, server
  <1>2. ASSUME NEW s \in Sessions, CancelTask(s)
        PROVE  TypeOK'
    BY <1>2 DEF CancelTask, LeaveTask, Goto, CloseConn, Open, workers, server
  <1>3. CASE SweepDone \/ DrainEnds \/ AbortExpires
    BY <1>3 DEF SweepDone, DrainEnds, AbortExpires, workers, counters
  <1>4. CASE LoopStops
    BY <1>4 DEF LoopStops, CloseConn, Open, workers, counters
  <1>5. CASE GraceExpires
    <2>1. doomed' \subseteq Sessions \X (Workers \cup {"task", "fwd"})
      BY <1>5 DEF GraceExpires
    <2> QED BY <1>5, <2>1 DEF GraceExpires, workers, counters
  <1>6. CASE Close
    BY <1>6 DEF Close, workers
  <1> QED BY <1>1, <1>2, <1>3, <1>4, <1>5, <1>6 DEF ServerStep

-----------------------------------------------------------------------------
(* Stages. *)

\* Steps of the session task keep the stages in step.
LEMMA TaskKeepsStages ==
    ASSUME TypeOK, Stages, NEW s \in Sessions, TaskStep(s)
    PROVE  Stages'
  <1> USE DEF TypeOK, Stages, HandedOver, RegistryStages, ClosedStages
  <1>1. CASE ReadRequest(s)
    BY <1>1 DEF ReadRequest, Goto, workers, counters, server
  <1>2. CASE TurnedAway(s)
    BY <1>2 DEF TurnedAway, LeaveTask, workers, server, Goto
  <1>3. CASE AcquireIp(s)
    BY <1>3 DEF AcquireIp, Goto, workers, server
  <1>4. CASE AcquirePrefix(s)
    BY <1>4 DEF AcquirePrefix, Goto, workers, server
  <1>5. CASE UnwindIp(s)
    BY <1>5 DEF UnwindIp, Goto, workers, server
  <1>6. CASE CountSession(s)
    BY <1>6 DEF CountSession, Goto, workers, server
  <1>7. CASE UncountOver(s)
    BY <1>7 DEF UncountOver, Goto, workers, server
  <1>8. CASE Rejected(s)
    BY <1>8 DEF Rejected, Goto, workers, counters, server
  <1>9. CASE AcceptFails(s)
    BY <1>9 DEF AcceptFails, Goto, workers, counters, server
  <1>10. CASE UndoCount(s)
    BY <1>10 DEF UndoCount, Goto, workers, server
  <1>11. CASE FreeIp(s)
    BY <1>11 DEF FreeIp, Goto, workers, server
  <1>12. CASE FreePrefix(s)
    BY <1>12 DEF FreePrefix, LeaveTask, workers, server, Goto
  <1>13. CASE AcceptOk(s)
    BY <1>13 DEF AcceptOk, Goto, workers, server
  <1>14. CASE Confirm(s)
    BY <1>14 DEF Confirm, Goto, workers, counters, server
  <1>15. CASE Announce(s)
    BY <1>15 DEF Announce, Goto, workers, counters, server
  <1>16. CASE StartBidi(s)
    BY <1>16 DEF StartBidi, Goto, counters, server
  <1>17. CASE StartRest(s)
    BY <1>17 DEF StartRest, Goto, FwdGoto, counters, server
  <1> QED BY <1>1, <1>2, <1>3, <1>4, <1>5, <1>6, <1>7, <1>8, <1>9, <1>10, <1>11, <1>12,
             <1>13, <1>14, <1>15, <1>16, <1>17 DEF TaskStep

\* Steps of the forward task keep the stages in step.
LEMMA FwdKeepsStages ==
    ASSUME TypeOK, Stages, NEW s \in Sessions, FwdStep(s)
    PROVE  Stages'
  <1> USE DEF TypeOK, Stages, HandedOver, RegistryStages, ClosedStages
  <1>1. CASE FwdStart(s)
    BY <1>1 DEF FwdStart, FwdGoto, counters, server
  <1>2. CASE FwdSent(s)
    BY <1>2 DEF FwdSent, FwdGoto, counters, server
  <1>3. CASE FwdSendFails(s)
    BY <1>3 DEF FwdSendFails, FwdGoto, counters, server
  <1>4. CASE FwdSeesClose(s)
    BY <1>4 DEF FwdSeesClose, FwdGoto, counters, server
  <1>5. CASE FwdRemove(s)
    BY <1>5 DEF FwdRemove, FwdGoto, counters, server
  <1>6. CASE FwdFreeIp(s)
    BY <1>6 DEF FwdFreeIp, FwdGoto, server
  <1>7. CASE FwdFreePrefix(s)
    BY <1>7 DEF FwdFreePrefix, FwdGoto, server
  <1>8. CASE FwdUncount(s)
    BY <1>8 DEF FwdUncount, FwdGoto, server
  <1>9. CASE FwdNotify(s)
    BY <1>9 DEF FwdNotify, FwdGoto, counters, server
  <1> QED BY <1>1, <1>2, <1>3, <1>4, <1>5, <1>6, <1>7, <1>8, <1>9 DEF FwdStep

\* So do the other steps.
LEMMA OtherKeepsStages ==
    ASSUME TypeOK, Stages, NEW s \in Sessions, OtherStep(s)
    PROVE  Stages'
  <1> USE DEF TypeOK, Stages, HandedOver, RegistryStages, ClosedStages
  <1>1. CASE FwdReceive(s)
    BY <1>1 DEF FwdReceive, FwdGoto, counters, server
  <1>2. CASE ReadDatagram(s)
    BY <1>2 DEF ReadDatagram, counters, server
  <1>3. CASE close_session(s)
    BY <1>3 DEF close_session, RemoveAndClose, workers, counters, server
  <1>4. CASE FwdPanics(s)
    BY <1>4 DEF FwdPanics, FwdGoto, counters, server
  <1>5. CASE WatcherAborts(s)
    BY <1>5 DEF WatcherAborts, RemoveAndClose, counters, server
  <1>6. CASE ConnEnds(s)
    BY <1>6 DEF ConnEnds, workers, counters, server
  <1>7. CASE SweepOne(s)
    BY <1>7 DEF SweepOne, RemoveAndClose, workers, counters
  <1>8. CASE CancelFwd(s)
    BY <1>8 DEF CancelFwd, FwdGoto, counters, server
  <1>9. ASSUME NEW w \in Workers,
               \/ WorkerPanics(s, w) \/ WorkerExits(s, w)
               \/ WorkerFindsChannelClosed(s, w) \/ CancelWorker(s, w)
        PROVE  Stages'
    BY <1>9 DEF WorkerPanics, WorkerExits, WorkerFindsChannelClosed, CancelWorker,
                    RemoveAndClose, counters, server
  <1> QED BY <1>1, <1>2, <1>3, <1>4, <1>5, <1>6, <1>7, <1>8, <1>9 DEF OtherStep

LEMMA RemainingKeepStages ==
    ASSUME TypeOK, Stages,
           \/ \E s \in Sessions : Arrive(s) \/ CancelTask(s)
           \/ ServerStep \/ Close
    PROVE  Stages'
  <1> USE DEF TypeOK, Stages, HandedOver, RegistryStages, ClosedStages
  <1>1. ASSUME NEW s \in Sessions, Arrive(s)
        PROVE  Stages'
    BY <1>1 DEF Arrive, Goto, workers, server
  <1>2. ASSUME NEW s \in Sessions, CancelTask(s)
        PROVE  Stages'
    BY <1>2 DEF CancelTask, LeaveTask, Goto, workers, server
  <1>3. CASE ServerStep
    BY <1>3 DEF ServerStep, SweepDone, DrainEnds, AbortExpires, LoopStops, GraceExpires, workers
  <1>4. CASE Close
    BY <1>4 DEF Close, workers
  <1> QED BY <1>1, <1>2, <1>3, <1>4

-----------------------------------------------------------------------------
(* Theorems. *)

GaugeInvariant == TypeOK /\ Stages /\ GaugesExact /\ AdmittedWithinMax

\* No step of the server disturbs the gauge invariant.
LEMMA GaugeStep ==
    ASSUME GaugeInvariant, [Next]_vars
    PROVE  GaugeInvariant'
  <1> USE DEF GaugeInvariant
  <1>1. CASE UNCHANGED vars
    BY <1>1 DEF vars, TypeOK, Stages, HandedOver, RegistryStages, ClosedStages, GaugesExact,
                AdmittedWithinMax, CountedSet, HeldSet, AdmittedSet, Counted, AdmissionHeld, Admitted
  <1>2. CASE Next
    <2>1. GaugesExact' /\ AdmittedWithinMax'
      <3>1. ASSUME NEW s \in Sessions, Arrive(s) \/ TaskStep(s) \/ FwdStep(s) \/ CancelTask(s)
            PROVE  GaugesExact' /\ AdmittedWithinMax'
        <4>1. GaugeEffect(s)
          BY <3>1, ArriveEffects, TaskGauges, FwdGauges, CancelTaskEffects DEF Stages
        <4> QED BY <4>1, GaugeEffectSuffices
      <3>2. ASSUME NEW s \in Sessions, OtherStep(s)
            PROVE  GaugesExact' /\ AdmittedWithinMax'
        BY <3>2, OtherUncounted, UncountedSuffices DEF Stages
      <3>3. CASE ServerStep
        BY <3>3, ServerUncounted, UncountedSuffices
      <3>4. CASE Close
        BY <3>4 DEF Close, workers, GaugesExact, AdmittedWithinMax, CountedSet, HeldSet,
                    AdmittedSet, Counted, AdmissionHeld, Admitted
      <3> QED BY <1>2, <3>1, <3>2, <3>3, <3>4, NextCases
    <2>2. active' \in Nat /\ handshakes' \in Nat
      <3>1. CountedSet' \in SUBSET Sessions /\ HeldSet' \in SUBSET Sessions
        BY DEF CountedSet, HeldSet
      <3> QED BY <2>1, <3>1, SessionSets DEF GaugesExact
    <2>3. TypeOK'
      BY <1>2, <2>2, NextCases, TaskTypes, FwdTypes, OtherTypes, RemainingTypes
    <2>4. Stages'
      BY <1>2, NextCases, TaskKeepsStages, FwdKeepsStages, OtherKeepsStages, RemainingKeepStages
    <2> QED BY <2>1, <2>3, <2>4
  <1> QED BY <1>1, <1>2

LEMMA GaugeInit ==
    ASSUME Init
    PROVE  GaugeInvariant
  <1>1. TypeOK
    BY LimitsAssumption DEF Init, TypeOK, TaskStages, FwdStages, ConnStates, Ends
  <1>2. Stages
    BY DEF Init, Stages, HandedOver, RegistryStages, ClosedStages
  <1>3. CountedSet = {} /\ HeldSet = {} /\ AdmittedSet = {}
    BY DEF Init, CountedSet, HeldSet, AdmittedSet, Counted, AdmissionHeld, Admitted
  <1>4. GaugesExact /\ AdmittedWithinMax
    BY <1>3, FS_EmptySet, LimitsAssumption DEF Init, GaugesExact, AdmittedWithinMax
  <1> QED BY <1>1, <1>2, <1>4 DEF GaugeInvariant

LEMMA GaugeCorrect == Spec => []GaugeInvariant
  BY GaugeInit, GaugeStep, PTL DEF Spec

\* Every variable keeps its type; in particular sessions_active, which is
\* decremented with a wrapping fetch_sub, never goes below zero.
THEOREM TypeCorrect == Spec => []TypeOK
  <1>1. GaugeInvariant => TypeOK
    BY DEF GaugeInvariant
  <1> QED BY <1>1, GaugeCorrect, PTL

\* sessions_active and handshakes_in_flight are exact in every state, for any
\* number of concurrent connections and any interleaving of their tasks with
\* closers, panics and server.close().
THEOREM GaugesCorrect == Spec => []GaugesExact
  <1>1. GaugeInvariant => GaugesExact
    BY DEF GaugeInvariant
  <1> QED BY <1>1, GaugeCorrect, PTL

\* The add-then-compare of the session task never lets more than max_sessions
\* sessions in.
THEOREM AdmissionCorrect == Spec => []AdmittedWithinMax
  <1>1. GaugeInvariant => AdmittedWithinMax
    BY DEF GaugeInvariant
  <1> QED BY <1>1, GaugeCorrect, PTL

\* JavaScript hears that a session closed only when the registry entry and
\* every slot of the session are gone.
THEOREM ClosedCorrect == Spec => []ClosedMeansFree
  <1>1. GaugeInvariant => ClosedMeansFree
    BY DEF GaugeInvariant, Stages, HandedOver, RegistryStages, ClosedStages, ClosedMeansFree, TypeOK,
           Counted, HoldsIp, HoldsPrefix
  <1> QED BY <1>1, GaugeCorrect, PTL

-----------------------------------------------------------------------------
(* Address slots.  SlotsExact needs GaugeInvariant only for the types and  *)
(* for HandedOver; the burst limits follow from a bound on the counters.   *)

SlotsBounded ==
    /\ \A i \in Ips : perIp[i] <= BurstPerIp
    /\ \A p \in Prefixes : perPrefix[p] <= BurstPerPrefix

\* A step that leaves every address slot and its holders alone.
SlotsUntouched ==
    /\ UNCHANGED <<perIp, perPrefix>>
    /\ \A i \in Ips : IpHolders(i)' = IpHolders(i)
    /\ \A p \in Prefixes : PrefixHolders(p)' = PrefixHolders(p)

\* close() is never taken back.
LEMMA CloserNeverIdleAgain ==
    ASSUME [Next]_vars, closer # "idle"
    PROVE  closer' # "idle"
  <1>1. CASE UNCHANGED vars
    BY <1>1 DEF vars
  <1>2. ASSUME NEW s \in Sessions, Arrive(s) \/ TaskStep(s) \/ FwdStep(s) \/ CancelTask(s)
        PROVE  closer' # "idle"
    BY <1>2 DEF server, Arrive, CancelTask,
         TaskStep, ReadRequest, TurnedAway, AcquireIp, AcquirePrefix, UnwindIp, CountSession,
         UncountOver, Rejected, AcceptFails, UndoCount, FreeIp, FreePrefix, AcceptOk, Confirm,
         Announce, StartBidi, StartRest,
         FwdStep, FwdStart, FwdSent, FwdSendFails, FwdSeesClose, FwdRemove, FwdFreeIp,
         FwdFreePrefix, FwdUncount, FwdNotify
  <1>3. ASSUME NEW s \in Sessions, OtherStep(s)
        PROVE  closer' # "idle"
    BY <1>3 DEF server, OtherStep, FwdReceive, ReadDatagram, close_session, FwdPanics,
         WatcherAborts, ConnEnds, SweepOne, CancelFwd, WorkerPanics, WorkerExits,
         WorkerFindsChannelClosed, CancelWorker
  <1>4. CASE ServerStep \/ Close
    BY <1>4 DEF ServerStep, SweepDone, LoopStops, DrainEnds, GraceExpires, AbortExpires, Close
  <1> QED BY <1>1, <1>2, <1>3, <1>4, NextCases

\* One address counter follows its holders through a step of session s.
LEMMA SlotMoves ==
    ASSUME NEW H \in SUBSET Sessions, NEW K \in SUBSET Sessions, NEW s \in Sessions,
           NEW n \in Nat, NEW m \in Nat,
           \/ m = n /\ K = H
           \/ s \notin H /\ K = H \cup {s} /\ m = n + 1
           \/ s \in H /\ K = H \ {s} /\ m = Pred(n)
    PROVE  /\ n <= Cardinality(H) => m <= Cardinality(K)
           /\ n = Cardinality(H) => m = Cardinality(K)
  <1>1. Cardinality(H) \in Nat /\ Cardinality(K) \in Nat
    BY SessionSets
  <1>2. CASE m = n /\ K = H
    BY <1>2
  <1>3. CASE s \notin H /\ K = H \cup {s} /\ m = n + 1
    BY <1>1, <1>3, OneMore
  <1>4. CASE s \in H /\ K = H \ {s} /\ m = Pred(n)
    BY <1>1, <1>4, OneLess DEF Pred
  <1> QED BY <1>2, <1>3, <1>4

LEMMA IpEffectExact ==
    ASSUME TypeOK, TypeOK', NEW s \in Sessions, IpEffect(s), NEW i \in Ips
    PROVE  /\ perIp[i] <= Cardinality(IpHolders(i)) => perIp'[i] <= Cardinality(IpHolders(i)')
           /\ perIp[i] = Cardinality(IpHolders(i)) => perIp'[i] = Cardinality(IpHolders(i)')
           /\ perIp[i] <= BurstPerIp => perIp'[i] <= BurstPerIp
  <1>1. IpHolders(i) \in SUBSET Sessions /\ IpHolders(i)' \in SUBSET Sessions
    BY DEF IpHolders
  <1>2. perIp[i] \in Nat /\ perIp'[i] \in Nat
    BY DEF TypeOK
  <1>3. \/ perIp'[i] = perIp[i] /\ IpHolders(i)' = IpHolders(i)
        \/ /\ s \notin IpHolders(i) /\ IpHolders(i)' = IpHolders(i) \cup {s}
           /\ perIp'[i] = perIp[i] + 1 /\ perIp[i] < BurstPerIp
        \/ /\ s \in IpHolders(i) /\ IpHolders(i)' = IpHolders(i) \ {s}
           /\ perIp'[i] = Pred(perIp[i])
    BY AddressAssumption DEF IpEffect, TypeOK
  <1>4. perIp[i] <= BurstPerIp => perIp'[i] <= BurstPerIp
    BY <1>2, <1>3, LimitsAssumption DEF Pred
  <1> QED BY <1>1, <1>2, <1>3, <1>4, SlotMoves

LEMMA PrefixEffectExact ==
    ASSUME TypeOK, TypeOK', NEW s \in Sessions, PrefixEffect(s), NEW p \in Prefixes
    PROVE  /\ perPrefix[p] <= Cardinality(PrefixHolders(p))
                => perPrefix'[p] <= Cardinality(PrefixHolders(p)')
           /\ perPrefix[p] = Cardinality(PrefixHolders(p))
                => perPrefix'[p] = Cardinality(PrefixHolders(p)')
           /\ perPrefix[p] <= BurstPerPrefix => perPrefix'[p] <= BurstPerPrefix
  <1>1. PrefixHolders(p) \in SUBSET Sessions /\ PrefixHolders(p)' \in SUBSET Sessions
    BY DEF PrefixHolders
  <1>2. perPrefix[p] \in Nat /\ perPrefix'[p] \in Nat
    BY DEF TypeOK
  <1>3. \/ perPrefix'[p] = perPrefix[p] /\ PrefixHolders(p)' = PrefixHolders(p)
        \/ /\ s \notin PrefixHolders(p) /\ PrefixHolders(p)' = PrefixHolders(p) \cup {s}
           /\ perPrefix'[p] = perPrefix[p] + 1 /\ perPrefix[p] < BurstPerPrefix
        \/ /\ s \in PrefixHolders(p) /\ PrefixHolders(p)' = PrefixHolders(p) \ {s}
           /\ perPrefix'[p] = Pred(perPrefix[p])
    BY AddressAssumption DEF PrefixEffect, TypeOK
  <1>4. perPrefix[p] <= BurstPerPrefix => perPrefix'[p] <= BurstPerPrefix
    BY <1>2, <1>3, LimitsAssumption DEF Pred
  <1> QED BY <1>1, <1>2, <1>3, <1>4, SlotMoves

\* No step of the server disturbs the address slots.
LEMMA SlotStep ==
    ASSUME GaugeInvariant, GaugeInvariant', SlotsExact, SlotsBounded, [Next]_vars
    PROVE  SlotsExact' /\ SlotsBounded'
  <1>1. closer' = "idle" => closer = "idle"
    BY CloserNeverIdleAgain
  <1>2. TypeOK /\ HandedOver /\ TypeOK'
    BY DEF GaugeInvariant, Stages
  <1>3. ASSUME SlotsUntouched
        PROVE  SlotsExact' /\ SlotsBounded'
    BY <1>1, <1>3 DEF SlotsUntouched, SlotsExact, SlotsBounded
  <1>4. CASE UNCHANGED vars
    <2>1. SlotsUntouched
      BY <1>4 DEF vars, SlotsUntouched, IpHolders, PrefixHolders, HoldsIp, HoldsPrefix
    <2> QED BY <1>3, <2>1
  <1>5. ASSUME NEW s \in Sessions, Arrive(s) \/ TaskStep(s) \/ FwdStep(s) \/ CancelTask(s)
        PROVE  SlotsExact' /\ SlotsBounded'
    <2>1. IpEffect(s) /\ PrefixEffect(s)
      BY <1>2, <1>5, ArriveEffects, TaskSlots, FwdSlots, CancelTaskEffects
    <2>2. ASSUME NEW i \in Ips
          PROVE  /\ perIp'[i] <= Cardinality(IpHolders(i)') /\ perIp'[i] <= BurstPerIp
                 /\ closer' = "idle" => perIp'[i] = Cardinality(IpHolders(i)')
      <3>1. perIp[i] <= Cardinality(IpHolders(i)) /\ perIp[i] <= BurstPerIp
            /\ (closer = "idle" => perIp[i] = Cardinality(IpHolders(i)))
        BY DEF SlotsExact, SlotsBounded
      <3> QED BY <1>1, <1>2, <2>1, <3>1, IpEffectExact
    <2>3. ASSUME NEW p \in Prefixes
          PROVE  /\ perPrefix'[p] <= Cardinality(PrefixHolders(p)') /\ perPrefix'[p] <= BurstPerPrefix
                 /\ closer' = "idle" => perPrefix'[p] = Cardinality(PrefixHolders(p)')
      <3>1. perPrefix[p] <= Cardinality(PrefixHolders(p)) /\ perPrefix[p] <= BurstPerPrefix
            /\ (closer = "idle" => perPrefix[p] = Cardinality(PrefixHolders(p)))
        BY DEF SlotsExact, SlotsBounded
      <3> QED BY <1>1, <1>2, <2>1, <3>1, PrefixEffectExact
    <2> QED BY <2>2, <2>3 DEF SlotsExact, SlotsBounded
  <1>6. ASSUME NEW s \in Sessions, OtherStep(s)
        PROVE  SlotsExact' /\ SlotsBounded'
    BY <1>2, <1>3, <1>6, OtherUncounted DEF Uncounted, SlotsUntouched
  <1>7. CASE ServerStep
    BY <1>2, <1>3, <1>7, ServerUncounted DEF Uncounted, SlotsUntouched
  <1>8. CASE Close
    <2>1. \A i \in Ips : Cardinality(IpHolders(i)') \in Nat
      BY SessionSets DEF IpHolders
    <2>2. \A p \in Prefixes : Cardinality(PrefixHolders(p)') \in Nat
      BY SessionSets DEF PrefixHolders
    <2>3. \A i \in Ips : perIp'[i] = 0
      BY <1>8 DEF Close
    <2>4. \A p \in Prefixes : perPrefix'[p] = 0
      BY <1>8 DEF Close
    <2>5. closer' # "idle"
      BY <1>8 DEF Close
    <2>6. \A i \in Ips : perIp'[i] <= Cardinality(IpHolders(i)') /\ perIp'[i] <= BurstPerIp
      BY <2>1, <2>3, LimitsAssumption
    <2>7. \A p \in Prefixes : /\ perPrefix'[p] <= Cardinality(PrefixHolders(p)')
                              /\ perPrefix'[p] <= BurstPerPrefix
      BY <2>2, <2>4, LimitsAssumption
    <2> QED BY <2>5, <2>6, <2>7 DEF SlotsExact, SlotsBounded
  <1> QED BY <1>4, <1>5, <1>6, <1>7, <1>8, NextCases

LEMMA SlotInit ==
    ASSUME Init
    PROVE  SlotsExact /\ SlotsBounded
  <1>1. \A i \in Ips : IpHolders(i) = {}
    BY DEF Init, IpHolders, HoldsIp
  <1>2. \A p \in Prefixes : PrefixHolders(p) = {}
    BY DEF Init, PrefixHolders, HoldsPrefix
  <1>3. \A i \in Ips : perIp[i] = 0 /\ Cardinality(IpHolders(i)) = 0
    BY <1>1, FS_EmptySet DEF Init
  <1>4. \A p \in Prefixes : perPrefix[p] = 0 /\ Cardinality(PrefixHolders(p)) = 0
    BY <1>2, FS_EmptySet DEF Init
  <1> QED BY <1>3, <1>4, LimitsAssumption DEF SlotsExact, SlotsBounded

LEMMA SlotInvariant == Spec => [](SlotsExact /\ SlotsBounded)
  BY GaugeCorrect, SlotInit, SlotStep, PTL DEF Spec

\* Until close() the per-IP and per-prefix counters are exact, the rollback
\* between the two compare-and-swaps included; afterwards they never exceed
\* the number of holders.
THEOREM SlotsCorrect == Spec => []SlotsExact
  BY SlotInvariant, PTL

\* While the server is open no address and no prefix holds more slots than
\* its burst limit allows.
THEOREM BurstCorrect == Spec => []AddressesWithinBurst
  <1>1. SlotsExact /\ SlotsBounded => AddressesWithinBurst
    <2> SUFFICES ASSUME SlotsExact, SlotsBounded, closer = "idle"
                 PROVE  /\ \A i \in Ips : Cardinality(IpHolders(i)) <= BurstPerIp
                        /\ \A p \in Prefixes : Cardinality(PrefixHolders(p)) <= BurstPerPrefix
      BY DEF AddressesWithinBurst
    <2>1. ASSUME NEW i \in Ips PROVE Cardinality(IpHolders(i)) <= BurstPerIp
      <3>1. perIp[i] = Cardinality(IpHolders(i)) /\ perIp[i] <= BurstPerIp
        BY DEF SlotsExact, SlotsBounded
      <3> QED BY <3>1
    <2>2. ASSUME NEW p \in Prefixes PROVE Cardinality(PrefixHolders(p)) <= BurstPerPrefix
      <3>1. perPrefix[p] = Cardinality(PrefixHolders(p)) /\ perPrefix[p] <= BurstPerPrefix
        BY DEF SlotsExact, SlotsBounded
      <3> QED BY <3>1
    <2> QED BY <2>1, <2>2
  <1> QED BY <1>1, SlotInvariant, PTL

\* Admission, and the bursts per address and per prefix, hold together.
THEOREM LimitsCorrect == Spec => []LimitsHold
  BY AdmissionCorrect, BurstCorrect, PTL DEF LimitsHold

-----------------------------------------------------------------------------
(* Ends.  What a resolved close() and the tally say of the sessions' ends  *)
(* rests on three facts: a connection ends once, a forward task passes the *)
(* place where it books the end once, and it is done only after it told    *)
(* JavaScript, or was not allowed to.                                      *)

Booked == {"remove", "freeIp", "freePrefix", "uncount", "notify", "done"}
BookedWith(end) == {s \in Sessions : conn[s] = end /\ fwd[s] \in Booked}

Unborn == \A s \in Sessions : task[s] = "idle" => conn[s] = "none"
TallyBooked ==
    /\ tally["idle"] <= Cardinality(BookedWith("idle"))
    /\ tally["other"] <= Cardinality(BookedWith("app"))

Told(s) == "closed" \in events[s] \/ s \in unwinding \/ <<s, "fwd">> \in doomed
Announced ==
    \A s \in Sessions :
        /\ "accepted" \in events[s] => task[s] \in {"startBidi", "startUni", "lost"} \/ fwd[s] # "none"
        /\ fwd[s] = "done" => Told(s)
AbortsLate == closer \in {"idle", "sweeping", "grace"} => doomed = {}
AllOver ==
    closer = "closed" => /\ ~loop /\ active = 0
                         /\ \A s \in Sessions : ~TaskLive(s) /\ ~FwdLive(s)

EndInvariant == Unborn /\ TallyBooked /\ Announced /\ AbortsLate /\ AllOver

\* A step on connections and forward tasks that books nothing.
ConnOnce ==
    /\ \A x \in Sessions : conn[x] \in Ends => conn'[x] = conn[x]
    /\ Unborn'
FwdOnward == \A x \in Sessions : fwd[x] \in Booked => fwd'[x] \in Booked
Unbooked == ConnOnce /\ FwdOnward /\ tally'["idle"] = tally["idle"] /\ tally'["other"] = tally["other"]

LEMMA TaskUnbooked ==
    ASSUME TypeOK, HandedOver, Unborn, NEW s \in Sessions, TaskStep(s)
    PROVE  Unbooked
  <1> USE DEF TypeOK, HandedOver, Unborn, Unbooked, ConnOnce, FwdOnward, Booked, Ends, Goto, workers, CloseConn, Open
  <1>1. CASE ReadRequest(s) \/ AcquireIp(s) \/ AcquirePrefix(s) \/ UnwindIp(s) \/ CountSession(s)
    BY <1>1 DEF ReadRequest, AcquireIp, AcquirePrefix, UnwindIp, CountSession
  <1>2. CASE UncountOver(s) \/ Rejected(s) \/ AcceptFails(s) \/ UndoCount(s) \/ FreeIp(s)
    BY <1>2 DEF UncountOver, Rejected, AcceptFails, UndoCount, FreeIp
  <1>3. CASE TurnedAway(s) \/ FreePrefix(s)
    BY <1>3 DEF TurnedAway, FreePrefix, LeaveTask
  <1>4. CASE AcceptOk(s) \/ Confirm(s) \/ Announce(s) \/ StartBidi(s)
    BY <1>4 DEF AcceptOk, Confirm, Announce, StartBidi
  <1>5. CASE StartRest(s)
    BY <1>5 DEF StartRest, FwdGoto
  <1> QED
    BY <1>1, <1>2, <1>3, <1>4, <1>5 DEF TaskStep

LEMMA FwdUnbooked ==
    ASSUME TypeOK, Unborn, NEW s \in Sessions, FwdStep(s), ~FwdSeesClose(s)
    PROVE  Unbooked
  <1> USE DEF TypeOK, Unborn, Unbooked, ConnOnce, FwdOnward, Booked, FwdGoto
  <1>1. CASE FwdStart(s) \/ FwdSent(s) \/ FwdSendFails(s) \/ FwdRemove(s)
    BY <1>1 DEF FwdStart, FwdSent, FwdSendFails, FwdRemove
  <1>2. CASE FwdFreeIp(s) \/ FwdFreePrefix(s) \/ FwdUncount(s) \/ FwdNotify(s)
    BY <1>2 DEF FwdFreeIp, FwdFreePrefix, FwdUncount, FwdNotify
  <1> QED
    BY <1>1, <1>2 DEF FwdStep

LEMMA OtherUnbooked ==
    ASSUME TypeOK, Unborn, NEW s \in Sessions, OtherStep(s)
    PROVE  Unbooked
  <1> USE DEF TypeOK, Unborn, Unbooked, ConnOnce, FwdOnward, Booked, Ends, FwdGoto, workers, RemoveAndClose,
            CloseConn, Open
  <1>1. CASE FwdReceive(s) \/ ReadDatagram(s) \/ FwdPanics(s) \/ CancelFwd(s)
    BY <1>1 DEF FwdReceive, ReadDatagram, FwdPanics, CancelFwd
  <1>2. CASE close_session(s) \/ WatcherAborts(s) \/ ConnEnds(s)
    BY <1>2 DEF close_session, WatcherAborts, ConnEnds
  <1>3. CASE SweepOne(s)
    BY <1>3 DEF SweepOne
  <1>4. ASSUME NEW w \in Workers,
               \/ WorkerPanics(s, w) \/ WorkerExits(s, w)
               \/ WorkerFindsChannelClosed(s, w) \/ CancelWorker(s, w)
        PROVE  Unbooked
    BY <1>4 DEF WorkerPanics, WorkerExits, WorkerFindsChannelClosed, CancelWorker
  <1> QED
    BY <1>1, <1>2, <1>3, <1>4 DEF OtherStep

LEMMA RestUnbooked ==
    ASSUME TypeOK, Unborn,
           \/ \E s \in Sessions : Arrive(s) \/ CancelTask(s)
           \/ ServerStep \/ Close \/ UNCHANGED vars
    PROVE  Unbooked
  <1> USE DEF TypeOK, Unborn, Unbooked, ConnOnce, FwdOnward, Booked, Ends, workers, CloseConn, Open
  <1>1. ASSUME NEW s \in Sessions, Arrive(s)
        PROVE  Unbooked
    BY <1>1 DEF Arrive, Goto
  <1>2. ASSUME NEW s \in Sessions, CancelTask(s)
        PROVE  Unbooked
    BY <1>2 DEF CancelTask, LeaveTask, Goto
  <1>3. CASE ServerStep \/ Close
    BY <1>3 DEF ServerStep, SweepDone, LoopStops, DrainEnds, GraceExpires, AbortExpires, Close
  <1>4. CASE UNCHANGED vars
    BY <1>4 DEF vars
  <1> QED
    BY <1>1, <1>2, <1>3, <1>4

\* The one step that books: it enters its session and counts it, at most once.
LEMMA BookingEffect ==
    ASSUME TypeOK, Unborn, NEW s \in Sessions, FwdSeesClose(s)
    PROVE  /\ ConnOnce /\ FwdOnward /\ fwd[s] \notin Booked /\ fwd'[s] \in Booked
           /\ tally'["idle"] = tally["idle"] + (IF conn[s] = "idle" THEN 1 ELSE 0)
           /\ tally'["other"] = tally["other"] + (IF conn[s] = "app" THEN 1 ELSE 0)
  <1>1. /\ fwd[s] = "recv" /\ fwd' = [fwd EXCEPT ![s] = "remove"] /\ UNCHANGED <<task, conn>>
        /\ tally' = record_session_close(conn[s])
    BY DEF FwdSeesClose, FwdGoto
  <1>2. ConnOnce /\ FwdOnward /\ fwd[s] \notin Booked /\ fwd'[s] \in Booked
    BY <1>1 DEF TypeOK, Unborn, ConnOnce, FwdOnward, Booked
  <1>3. tally \in [{"idle", "reap", "other"} -> Nat]
    BY DEF TypeOK
  <1>4. CASE conn[s] = "idle"
    BY <1>1, <1>2, <1>3, <1>4 DEF record_session_close
  <1>5. CASE conn[s] = "closing"
    BY <1>1, <1>2, <1>3, <1>5 DEF record_session_close
  <1>6. CASE conn[s] = "app"
    BY <1>1, <1>2, <1>3, <1>6 DEF record_session_close
  <1>7. CASE conn[s] \notin {"idle", "closing", "app"}
    BY <1>1, <1>2, <1>3, <1>7 DEF record_session_close
  <1> QED
    BY <1>4, <1>5, <1>6, <1>7

LEMMA TallyStep ==
    ASSUME TypeOK, HandedOver, Unborn, TallyBooked, [Next]_vars
    PROVE  Unborn' /\ TallyBooked'
  <1>0. /\ \A end \in Ends : BookedWith(end) \in SUBSET Sessions
        /\ \A end \in Ends : BookedWith(end)' \in SUBSET Sessions
        /\ tally \in [{"idle", "reap", "other"} -> Nat]
    BY DEF BookedWith, TypeOK
  <1>1. ASSUME ConnOnce, FwdOnward, NEW end \in Ends
        PROVE  /\ BookedWith(end) \subseteq BookedWith(end)'
               /\ Cardinality(BookedWith(end)) <= Cardinality(BookedWith(end)')
    <2>1. BookedWith(end) \subseteq BookedWith(end)'
      BY <1>1 DEF ConnOnce, FwdOnward, BookedWith
    <2>2. IsFiniteSet(BookedWith(end)')
      BY <1>0, SessionsFinite, FS_Subset
    <2> QED
      BY <2>1, <2>2, FS_Subset
  <1>2. \A end \in Ends : Cardinality(BookedWith(end)) \in Nat /\ Cardinality(BookedWith(end)') \in Nat
    BY <1>0, SessionSets
  <1>3. CASE Unbooked
    <2>1. /\ Cardinality(BookedWith("idle")) <= Cardinality(BookedWith("idle")')
          /\ Cardinality(BookedWith("app")) <= Cardinality(BookedWith("app")')
      BY <1>1, <1>3 DEF Unbooked, Ends
    <2>2. Unborn' /\ tally'["idle"] = tally["idle"] /\ tally'["other"] = tally["other"]
      BY <1>3 DEF Unbooked, ConnOnce
    <2> QED
      BY <1>0, <1>2, <2>1, <2>2 DEF TallyBooked, Ends
  <1>4. ASSUME NEW s \in Sessions, FwdSeesClose(s)
        PROVE  Unborn' /\ TallyBooked'
    <2>1. /\ ConnOnce /\ FwdOnward /\ fwd[s] \notin Booked /\ fwd'[s] \in Booked
          /\ tally'["idle"] = tally["idle"] + (IF conn[s] = "idle" THEN 1 ELSE 0)
          /\ tally'["other"] = tally["other"] + (IF conn[s] = "app" THEN 1 ELSE 0)
      BY <1>4, BookingEffect
    <2>2. ASSUME NEW end \in Ends
          PROVE  Cardinality(BookedWith(end)) + (IF conn[s] = end THEN 1 ELSE 0) <= Cardinality(BookedWith(end)')
      <3>1. CASE conn[s] = end
        <4>1. s \notin BookedWith(end) /\ BookedWith(end) \cup {s} \subseteq BookedWith(end)'
          BY <1>1, <2>1, <3>1 DEF BookedWith, ConnOnce
        <4>2. Cardinality(BookedWith(end) \cup {s}) = Cardinality(BookedWith(end)) + 1
          BY <1>0, <4>1, OneMore
        <4>3. Cardinality(BookedWith(end) \cup {s}) <= Cardinality(BookedWith(end)')
          BY <1>0, <4>1, SessionsFinite, FS_Subset
        <4> QED
          BY <3>1, <4>2, <4>3
      <3>2. CASE conn[s] # end
        BY <1>1, <1>2, <2>1, <3>2
      <3> QED
        BY <3>1, <3>2
    <2>3. Unborn' /\ "idle" \in Ends /\ "app" \in Ends
      BY <2>1 DEF ConnOnce, Ends
    <2>4. tally'["idle"] <= Cardinality(BookedWith("idle")')
      BY <1>0, <1>2, <2>1, <2>2, <2>3 DEF TallyBooked
    <2>5. tally'["other"] <= Cardinality(BookedWith("app")')
      BY <1>0, <1>2, <2>1, <2>2, <2>3 DEF TallyBooked
    <2> QED
      BY <2>3, <2>4, <2>5 DEF TallyBooked
  <1> QED
    BY <1>3, <1>4, NextCases, TaskUnbooked, FwdUnbooked, OtherUnbooked, RestUnbooked

-----------------------------------------------------------------------------
(* Announcements. *)

\* What a step leaves of the announcement of a session it is not about.
Unannounced ==
    /\ UNCHANGED <<task, fwd, events>>
    /\ unwinding \subseteq unwinding'
    /\ doomed \subseteq doomed'

LEMMA TaskAnnounces ==
    ASSUME TypeOK, HandedOver, Announced, NEW s \in Sessions, TaskStep(s)
    PROVE  Announced'
  <1>0. /\ task \in [Sessions -> TaskStages] /\ fwd \in [Sessions -> FwdStages]
        /\ events \in [Sessions -> SUBSET {"accepted", "closed"}]
        /\ fwd[s] # "none" => task[s] = "done"
    BY DEF TypeOK, HandedOver
  <1>1. ASSUME NEW stage, Goto(s, stage), UNCHANGED <<fwd, events, unwinding, doomed>>,
               task[s] \notin {"startBidi", "startUni", "lost"}
        PROVE  Announced'
    BY <1>0, <1>1 DEF Announced, Told, Goto
  <1>2. CASE ReadRequest(s) \/ AcquireIp(s) \/ AcquirePrefix(s) \/ UnwindIp(s) \/ CountSession(s)
    BY <1>1, <1>2 DEF ReadRequest, AcquireIp, AcquirePrefix, UnwindIp, CountSession, workers, server
  <1>3. CASE UncountOver(s) \/ Rejected(s) \/ AcceptFails(s) \/ UndoCount(s) \/ FreeIp(s)
    BY <1>1, <1>3 DEF UncountOver, Rejected, AcceptFails, UndoCount, FreeIp, workers, server
  <1>4. CASE TurnedAway(s) \/ FreePrefix(s)
    BY <1>1, <1>4 DEF TurnedAway, FreePrefix, LeaveTask, workers, server
  <1>5. CASE AcceptOk(s) \/ Confirm(s)
    BY <1>1, <1>5 DEF AcceptOk, Confirm, workers, server
  <1>6. CASE Announce(s)
    <2>1. /\ task' = [task EXCEPT ![s] = "startBidi"] /\ events' = [events EXCEPT ![s] = @ \cup {"accepted"}]
          /\ UNCHANGED <<fwd, unwinding, doomed>>
      BY <1>6 DEF Announce, Goto, workers, server
    <2>2. \A x \in Sessions : "closed" \in events[x] => "closed" \in events'[x]
      BY <1>0, <2>1
    <2>3. \A x \in Sessions : "accepted" \in events'[x] => x = s \/ "accepted" \in events[x]
      BY <1>0, <2>1
    <2> QED
      BY <1>0, <2>1, <2>2, <2>3 DEF Announced, Told
  <1>7. CASE StartBidi(s)
    <2>1. /\ task'[s] \in {"startUni", "lost"} /\ \A x \in Sessions \ {s} : task'[x] = task[x]
          /\ UNCHANGED <<fwd, events, unwinding, doomed>>
      BY <1>0, <1>7 DEF StartBidi, Goto, server
    <2> QED
      BY <1>0, <2>1 DEF Announced, Told
  <1>8. CASE StartRest(s)
    <2>1. /\ task'[s] = "lost" \/ fwd'[s] = "spawned"
          /\ fwd'[s] \in {"spawned", fwd[s]}
          /\ \A x \in Sessions \ {s} : task'[x] = task[x] /\ fwd'[x] = fwd[x]
          /\ UNCHANGED <<events, unwinding, doomed>>
      BY <1>0, <1>8 DEF StartRest, Goto, FwdGoto, server
    <2> QED
      BY <1>0, <2>1 DEF Announced, Told
  <1> QED
    BY <1>2, <1>3, <1>4, <1>5, <1>6, <1>7, <1>8 DEF TaskStep

LEMMA FwdAnnounces ==
    ASSUME TypeOK, Announced, NEW s \in Sessions, FwdStep(s) \/ FwdReceive(s) \/ FwdPanics(s) \/ CancelFwd(s)
    PROVE  Announced'
  <1>0. /\ fwd \in [Sessions -> FwdStages] /\ events \in [Sessions -> SUBSET {"accepted", "closed"}]
    BY DEF TypeOK
  \* The task goes on; if to its end, it has told or may not.
  <1>1. ASSUME NEW stage \in FwdStages \ {"none"}, FwdGoto(s, stage), UNCHANGED <<task, doomed>>,
               unwinding \subseteq unwinding', \A x \in Sessions : events[x] \subseteq events'[x],
               \A x \in Sessions : "accepted" \in events'[x] => "accepted" \in events[x],
               stage = "done" => Told(s)'
        PROVE  Announced'
    BY <1>0, <1>1 DEF Announced, Told, FwdGoto
  <1>2. CASE FwdStart(s) \/ FwdSent(s) \/ FwdSendFails(s) \/ FwdSeesClose(s) \/ FwdRemove(s)
    BY <1>1, <1>2 DEF FwdStart, FwdSent, FwdSendFails, FwdSeesClose, FwdRemove, server, FwdStages
  <1>3. CASE FwdFreeIp(s) \/ FwdFreePrefix(s) \/ FwdReceive(s) \/ FwdPanics(s)
    BY <1>1, <1>3 DEF FwdFreeIp, FwdFreePrefix, FwdReceive, FwdPanics, server, FwdStages
  <1>4. CASE FwdUncount(s)
    <2>1. /\ FwdGoto(s, IF s \in unwinding THEN "done" ELSE "notify") /\ UNCHANGED <<task, doomed, unwinding, events>>
      BY <1>4 DEF FwdUncount, server
    <2> QED
      BY <1>1, <2>1 DEF FwdStages, Told
  <1>5. CASE FwdNotify(s)
    <2>1. /\ FwdGoto(s, "done") /\ UNCHANGED <<task, doomed, unwinding>>
          /\ events' = [events EXCEPT ![s] = @ \cup {"closed"}]
      BY <1>5 DEF FwdNotify, server
    <2>2. /\ \A x \in Sessions : events[x] \subseteq events'[x]
          /\ \A x \in Sessions : "accepted" \in events'[x] => "accepted" \in events[x]
          /\ "closed" \in events'[s]
      BY <1>0, <2>1
    <2> QED
      BY <1>1, <2>1, <2>2 DEF FwdStages, Told
  <1>6. CASE CancelFwd(s)
    <2>1. /\ <<s, "fwd">> \in doomed /\ UNCHANGED <<task, events, doomed>> /\ unwinding \subseteq unwinding'
          /\ \E stage \in {"lost", "remove", "done"} : FwdGoto(s, stage)
      BY <1>6 DEF CancelFwd, server
    <2> QED
      BY <1>1, <2>1 DEF FwdStages, Told
  <1> QED
    BY <1>2, <1>3, <1>4, <1>5, <1>6 DEF FwdStep

LEMMA AnnouncedStep ==
    ASSUME TypeOK, HandedOver, Announced, AbortsLate, [Next]_vars
    PROVE  Announced'
  <1>1. ASSUME Unannounced
        PROVE  Announced'
    BY <1>1 DEF Unannounced, Announced, Told
  <1>2. ASSUME NEW s \in Sessions, Arrive(s)
        PROVE  Announced'
    BY <1>2 DEF Arrive, Goto, workers, server, TypeOK, Announced, Told
  <1>3. ASSUME NEW s \in Sessions, CancelTask(s)
        PROVE  Announced'
    BY <1>3 DEF CancelTask, LeaveTask, Goto, workers, server, TypeOK, Announced, Told
  <1>4. ASSUME NEW s \in Sessions, OtherStep(s), ~(FwdReceive(s) \/ FwdPanics(s) \/ CancelFwd(s))
        PROVE  Unannounced
    <2>1. ASSUME NEW w \in Workers,
                 \/ WorkerPanics(s, w) \/ WorkerExits(s, w)
                 \/ WorkerFindsChannelClosed(s, w) \/ CancelWorker(s, w)
          PROVE  Unannounced
      BY <2>1 DEF WorkerPanics, WorkerExits, WorkerFindsChannelClosed, CancelWorker, Unannounced, server
    <2> QED
      BY <1>4, <2>1 DEF OtherStep, ReadDatagram, close_session, WatcherAborts, ConnEnds, SweepOne, Unannounced,
                        workers, server
  <1>5. CASE ServerStep \/ Close \/ UNCHANGED vars
    <2>1. CASE GraceExpires
      <3>1. doomed = {}
        BY <2>1 DEF GraceExpires, AbortsLate
      <3>2. UNCHANGED <<task, fwd, events, unwinding>>
        BY <2>1 DEF GraceExpires, workers
      <3> QED
        BY <1>1, <3>1, <3>2 DEF Unannounced
    <2>2. CASE SweepDone \/ LoopStops
      <3>1. UNCHANGED <<task, workers, events, doomed>>
        BY <2>2 DEF SweepDone, LoopStops
      <3> QED
        BY <1>1, <3>1 DEF Unannounced, workers
    <2>3. CASE DrainEnds \/ AbortExpires \/ Close
      <3>1. UNCHANGED <<task, workers, events, doomed>>
        BY <2>3 DEF DrainEnds, AbortExpires, Close
      <3> QED
        BY <1>1, <3>1 DEF Unannounced, workers
    <2>4. CASE UNCHANGED vars
      BY <1>1, <2>4 DEF Unannounced, vars
    <2> QED
      BY <1>5, <2>1, <2>2, <2>3, <2>4 DEF ServerStep
  <1> QED
    BY <1>1, <1>2, <1>3, <1>4, <1>5, NextCases, TaskAnnounces, FwdAnnounces

-----------------------------------------------------------------------------
(* The drain. *)

LEMMA CloserMoves ==
    ASSUME [Next]_vars
    PROVE  \/ UNCHANGED <<closer, loop, doomed>>
           \/ LoopStops
           \/ closer \in {"idle", "sweeping"} /\ closer' \in {"sweeping", "grace"} /\ UNCHANGED doomed
           \/ closer # "closed" /\ closer' \in {"resweeping", "abort", "failed"}
           \/ DrainEnds
  <1>1. ASSUME NEW s \in Sessions, TaskStep(s)
        PROVE  UNCHANGED <<closer, loop, doomed>>
    BY <1>1 DEF TaskStep, ReadRequest, TurnedAway, AcquireIp, AcquirePrefix, UnwindIp, CountSession, UncountOver,
        Rejected, AcceptFails, UndoCount, FreeIp, FreePrefix, AcceptOk, Confirm, Announce, StartBidi, StartRest,
        server
  <1>2. ASSUME NEW s \in Sessions, FwdStep(s)
        PROVE  UNCHANGED <<closer, loop, doomed>>
    BY <1>2 DEF FwdStep, FwdStart, FwdSent, FwdSendFails, FwdSeesClose, FwdRemove, FwdFreeIp, FwdFreePrefix,
        FwdUncount, FwdNotify, server
  <1>3. ASSUME NEW s \in Sessions, OtherStep(s)
        PROVE  UNCHANGED <<closer, loop, doomed>>
    BY <1>3 DEF OtherStep, FwdReceive, ReadDatagram, close_session, FwdPanics, WatcherAborts, ConnEnds, SweepOne,
        CancelFwd, WorkerPanics, WorkerExits, WorkerFindsChannelClosed, CancelWorker, server
  <1>4. ASSUME NEW s \in Sessions, Arrive(s) \/ CancelTask(s)
        PROVE  UNCHANGED <<closer, loop, doomed>>
    BY <1>4 DEF Arrive, CancelTask, server
  <1>5. CASE SweepDone \/ GraceExpires \/ AbortExpires \/ Close
    BY <1>5 DEF SweepDone, GraceExpires, AbortExpires, Close
  <1> QED
    BY <1>1, <1>2, <1>3, <1>4, <1>5, NextCases DEF ServerStep, vars

\* After the drain nothing is left that could run or count.
LEMMA OverStep ==
    ASSUME GaugeInvariant, AllOver, AbortsLate, [Next]_vars
    PROVE  AllOver' /\ AbortsLate'
  <1>1. AbortsLate'
    BY CloserMoves DEF AbortsLate, LoopStops, DrainEnds
  <1>2. ASSUME closer = "closed", closer' = "closed"
        PROVE  AllOver'
    <2>1. /\ ~loop /\ active = 0 /\ \A x \in Sessions : ~TaskLive(x) /\ ~FwdLive(x)
          /\ \A x \in Sessions : /\ task[x] \in {"idle", "done", "lost", "lostSlots"}
                                 /\ fwd[x] \in {"none", "done", "lost"}
      BY <1>2 DEF AllOver, TaskLive, FwdLive, GaugeInvariant, TypeOK
    <2>2. ASSUME NEW s \in Sessions, TaskStep(s) \/ FwdStep(s) \/ Arrive(s) \/ CancelTask(s)
          PROVE  FALSE
      <3>1. CASE TaskStep(s)
        BY <2>1, <3>1 DEF TaskStep, ReadRequest, TurnedAway, AcquireIp, AcquirePrefix, UnwindIp, CountSession,
            UncountOver, Rejected, AcceptFails, UndoCount, FreeIp, FreePrefix, AcceptOk, Confirm, Announce,
            StartBidi, StartRest
      <3>2. CASE FwdStep(s)
        BY <2>1, <3>2 DEF FwdStep, FwdStart, FwdSent, FwdSendFails, FwdSeesClose, FwdRemove, FwdFreeIp,
            FwdFreePrefix, FwdUncount, FwdNotify
      <3> QED
        BY <2>1, <2>2, <3>1, <3>2 DEF Arrive, CancelTask
    <2>3. ASSUME NEW s \in Sessions, OtherStep(s)
          PROVE  UNCHANGED <<task, fwd, active>>
      <3>1. ~(FwdReceive(s) \/ FwdPanics(s) \/ CancelFwd(s))
        BY <2>1 DEF FwdReceive, FwdPanics, CancelFwd
      <3>2. ASSUME NEW w \in Workers,
                   \/ WorkerPanics(s, w) \/ WorkerExits(s, w)
                   \/ WorkerFindsChannelClosed(s, w) \/ CancelWorker(s, w)
            PROVE  UNCHANGED <<task, fwd, active>>
        BY <3>2 DEF WorkerPanics, WorkerExits, WorkerFindsChannelClosed, CancelWorker, counters
      <3> QED
        BY <2>3, <3>1, <3>2 DEF OtherStep, ReadDatagram, close_session, WatcherAborts, ConnEnds, SweepOne,
                                workers, counters
    <2>4. ASSUME SweepDone \/ LoopStops \/ GraceExpires
          PROVE  UNCHANGED <<task, fwd, active>>
      BY <2>4 DEF SweepDone, LoopStops, GraceExpires, workers, counters
    <2>5. ASSUME DrainEnds \/ AbortExpires \/ Close \/ UNCHANGED vars
          PROVE  UNCHANGED <<task, fwd, active>>
      BY <2>5 DEF DrainEnds, AbortExpires, Close, workers, counters, vars
    <2>6. ~loop'
      BY <1>2, <2>1, CloserMoves DEF LoopStops, DrainEnds
    <2>7. UNCHANGED <<task, fwd, active>>
      BY <2>2, <2>3, <2>4, <2>5, NextCases DEF ServerStep
    <2> QED
      BY <2>1, <2>6, <2>7 DEF AllOver, TaskLive, FwdLive
  <1>3. ASSUME closer # "closed", closer' = "closed"
        PROVE  AllOver'
    <2>1. DrainEnds
      BY <1>3, CloserMoves DEF LoopStops
    <2> QED
      BY <2>1 DEF DrainEnds, server_runtime_is_idle, AllOver, TaskLive, FwdLive, workers, counters
  <1> QED
    BY <1>1, <1>2, <1>3 DEF AllOver

\* A resolved close() leaves no registry entry and has reported every session
\* that was announced and not aborted; and no end is booked that was not so,
\* for any number of sessions, panics and races of peer, idle time-out and
\* close() (server.rs, lib.rs: record_session_close).
THEOREM CloseCorrect == Spec => []CloseHonest
  <1>1. Init => EndInvariant
    <2>1. ASSUME Init PROVE BookedWith("idle") = {} /\ BookedWith("app") = {}
      BY <2>1 DEF Init, BookedWith
    <2> QED
      BY <2>1, FS_EmptySet DEF Init, EndInvariant, Unborn, TallyBooked, Announced, AbortsLate, AllOver
  <1>2. GaugeInvariant /\ EndInvariant /\ [Next]_vars => EndInvariant'
    BY TallyStep, AnnouncedStep, OverStep DEF GaugeInvariant, Stages, EndInvariant
  <1>3. GaugeInvariant /\ EndInvariant => CloseHonest
    <2> SUFFICES ASSUME GaugeInvariant, EndInvariant
                 PROVE  CloseHonest
      OBVIOUS
    <2>1. ASSUME closer = "closed", NEW s \in Sessions
          PROVE  ~Counted(s) /\ ~TaskLive(s) /\ ~FwdLive(s)
      <3>1. active = 0 /\ CountedSet \in SUBSET Sessions /\ active = Cardinality(CountedSet)
        BY <2>1 DEF EndInvariant, AllOver, GaugeInvariant, GaugesExact, CountedSet
      <3>2. CountedSet = {}
        BY <3>1, SessionSets, FS_EmptySet
      <3> QED
        BY <2>1, <3>2 DEF EndInvariant, AllOver, CountedSet
    <2>2. ASSUME closer = "closed", NEW s \in registry
          PROVE  FALSE
      <3>1. s \in Sessions
        BY DEF GaugeInvariant, TypeOK
      <3> QED
        BY <2>1, <2>2, <3>1 DEF GaugeInvariant, Stages, RegistryStages, Counted, TaskLive, FwdLive
    <2>3. ASSUME closer = "closed", NEW s \in Sessions, "accepted" \in events[s], s \notin unwinding,
                 <<s, "fwd">> \notin doomed
          PROVE  "closed" \in events[s]
      <3>1. fwd[s] = "done"
        BY <2>1, <2>3 DEF EndInvariant, Announced, Counted, TaskLive, FwdLive
      <3> QED
        BY <2>3, <3>1 DEF EndInvariant, Announced, Told
    <2>4. CleanClose
      BY <2>2, <2>3 DEF CleanClose
    <2>5. TallyHonest
      <3>1. ASSUME NEW end \in Ends
            PROVE  /\ Cardinality(BookedWith(end)) <= Cardinality({s \in Sessions : conn[s] = end})
                   /\ Cardinality(BookedWith(end)) \in Nat /\ Cardinality({s \in Sessions : conn[s] = end}) \in Nat
        <4>1. BookedWith(end) \subseteq {s \in Sessions : conn[s] = end}
          BY DEF BookedWith
        <4>2. IsFiniteSet({s \in Sessions : conn[s] = end}) /\ Cardinality({s \in Sessions : conn[s] = end}) \in Nat
              /\ Cardinality(BookedWith(end)) \in Nat
          BY SessionSets DEF BookedWith
        <4> QED
          BY <4>1, <4>2, FS_Subset
      <3>2. tally["idle"] \in Nat /\ tally["other"] \in Nat
        BY DEF GaugeInvariant, TypeOK
      <3> QED
        BY <3>1, <3>2 DEF TallyHonest, EndInvariant, TallyBooked, Ends
    <2> QED
      BY <2>4, <2>5 DEF CloseHonest
  <1> QED
    BY <1>1, <1>2, <1>3, GaugeCorrect, PTL DEF Spec
=============================================================================
