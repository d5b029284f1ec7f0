---------------------------- MODULE LimitProofs ----------------------------
(***************************************************************************)
(* TLAPS proofs about what limits the peers of a server: the stream caps   *)
(* (StreamCaps) and the rate limiters (TokenBuckets, PeerLimiter), for any *)
(* number of sessions, lanes, streams and keys, and every cap, rate, burst *)
(* and cleanup age.                                                        *)
(*                                                                         *)
(* The stream counts are exact and therefore never below zero.  How far    *)
(* they can pass their caps follows from what is on its way: an opener     *)
(* that has passed a check and not yet added.  OneOpener says that each    *)
(* lane has at most two of them, LaneRoom and GlobalRoom that the count    *)
(* and the openers on their way together stay within the bound.            *)
(*                                                                         *)
(* WindowRate is not inductive: what may still be granted is in the        *)
(* bucket.  Paid says, of an entry stamped since the observation began,    *)
(* that the grants and the tokens left are together within a burst and     *)
(* what was refilled up to the stamp; of an older entry, that nothing was  *)
(* granted; and of a missing one, that the time alone has paid for the     *)
(* grants, which is where the cleanup must not be too eager.               *)
(***************************************************************************)
EXTENDS StreamCaps, TokenBuckets, PeerLimiter, FiniteSetTheorems, TLAPS

-----------------------------------------------------------------------------
(* The invariant. *)

At(S) == {st \in Streams : stage[st] \in S}

\* Openers that have passed the check of the count and have not added to it.
PassedLane   == {"opening", "addGlobal", "addLane"}
PassedGlobal == {"checkLane", "opening", "addGlobal"}

\* Accept loop and create handler are sequential.
OneOpener ==
    \A a, b \in Streams :
        (/\ LaneOf[a] = LaneOf[b] /\ OriginOf[a] = OriginOf[b]
         /\ stage[a] \in Opening /\ stage[b] \in Opening) => a = b

LaneRoom == \A l \in Lanes : lane[l] + Cardinality(InLane(l, PassedLane)) <= MaxLane + 1
GlobalRoom == global + Cardinality(At(PassedGlobal)) <= MaxGlobal + 2 * Cardinality(Lanes) - 1

\* The type of everything but the counts.
OtherTypes ==
    /\ stage \in [Streams -> Stages] /\ direct \subseteq Streams
    /\ loopUp \subseteq Lanes /\ discards \subseteq Lanes
    /\ pull \in [Lanes -> {"idle", "lock", "check", "enroll", "wait"}]
    /\ disc \in [Lanes -> {"idle", "lookup", "lock", "drain", "consume", "await"}]
    /\ wait \in [Lanes -> {"idle", "load", "loadLane", "enroll", "sleep"}]
    /\ full \in [Lanes -> SUBSET {"global", "lane"}]
    /\ woken \subseteq Lanes \X {"pull", "wait"}
    /\ expired \subseteq Lanes \X {"discard", "wait", "pull"}
    /\ connUp \subseteq Sessions
    /\ closing \in [Sessions -> {"open", "flagged", "told", "removed", "toldTwice", "closed"}]
CountTypes == global \in Int /\ lane \in [Lanes -> Int]

CapsInvariant ==
    /\ OtherTypes /\ CountTypes /\ CountsExact /\ OneOpener /\ LaneRoom /\ GlobalRoom

-----------------------------------------------------------------------------
(* Cardinalities. *)

LEMMA StreamSets ==
    ASSUME NEW S \in SUBSET Streams
    PROVE  IsFiniteSet(S) /\ Cardinality(S) \in Nat
  BY StreamsAssumption, FS_Subset, FS_CardinalityType

\* The effect of one element entering or leaving a set of streams.
LEMMA Shift ==
    ASSUME NEW S \in SUBSET Streams, NEW T \in SUBSET Streams, NEW st \in Streams,
           T \in {S, S \cup {st}, S \ {st}}
    PROVE  /\ (st \in S <=> st \in T) => Cardinality(T) = Cardinality(S)
           /\ (st \notin S /\ st \in T) => Cardinality(T) = Cardinality(S) + 1
           /\ (st \in S /\ st \notin T) => Cardinality(T) = Cardinality(S) - 1
  <1>1. IsFiniteSet(S) /\ Cardinality(S) \in Nat
    BY StreamSets
  <1>2. Cardinality(S \cup {st}) = IF st \in S THEN Cardinality(S) ELSE Cardinality(S) + 1
    BY <1>1, FS_AddElement
  <1>3. Cardinality(S \ {st}) = IF st \in S THEN Cardinality(S) - 1 ELSE Cardinality(S)
    BY <1>1, FS_RemoveElement
  <1>4. (st \in S <=> st \in T) => T = S
    OBVIOUS
  <1>5. (st \notin S /\ st \in T) => T = S \cup {st}
    OBVIOUS
  <1>6. (st \in S /\ st \notin T) => T = S \ {st}
    OBVIOUS
  <1> QED BY <1>2, <1>3, <1>4, <1>5, <1>6

Moved(st, next) == stage' = [stage EXCEPT ![st] = next]

\* A move of st changes the sets of streams by st alone.
LEMMA MovedAt ==
    ASSUME OtherTypes, NEW st \in Streams, NEW next, Moved(st, next), NEW S
    PROVE  /\ At(S)' \in {At(S), At(S) \cup {st}, At(S) \ {st}}
           /\ At(S) \in SUBSET Streams /\ At(S)' \in SUBSET Streams
           /\ st \in At(S) <=> stage[st] \in S
           /\ st \in At(S)' <=> next \in S
  <1>1. \A x \in Streams : x # st => stage'[x] = stage[x]
    BY DEF OtherTypes, Moved
  <1>2. stage'[st] = next
    BY DEF OtherTypes, Moved
  <1> QED BY <1>1, <1>2 DEF At

LEMMA MovedInLane ==
    ASSUME OtherTypes, NEW st \in Streams, NEW next, Moved(st, next), NEW S, NEW l
    PROVE  /\ InLane(l, S)' \in {InLane(l, S), InLane(l, S) \cup {st}, InLane(l, S) \ {st}}
           /\ InLane(l, S) \in SUBSET Streams /\ InLane(l, S)' \in SUBSET Streams
           /\ st \in InLane(l, S) <=> (LaneOf[st] = l /\ stage[st] \in S)
           /\ st \in InLane(l, S)' <=> (LaneOf[st] = l /\ next \in S)
  <1>1. \A x \in Streams : x # st => stage'[x] = stage[x]
    BY DEF OtherTypes, Moved
  <1>2. stage'[st] = next
    BY DEF OtherTypes, Moved
  <1> QED BY <1>1, <1>2 DEF InLane

\* The same in numbers.
LEMMA MovedCounts ==
    ASSUME OtherTypes, NEW st \in Streams, NEW next, Moved(st, next), NEW S
    PROVE  /\ Cardinality(At(S)) \in Nat /\ Cardinality(At(S)') \in Nat
           /\ (stage[st] \in S <=> next \in S) => Cardinality(At(S)') = Cardinality(At(S))
           /\ (stage[st] \notin S /\ next \in S) => Cardinality(At(S)') = Cardinality(At(S)) + 1
           /\ (stage[st] \in S /\ next \notin S) => Cardinality(At(S)') = Cardinality(At(S)) - 1
  BY MovedAt, Shift, StreamSets

LEMMA MovedLaneCounts ==
    ASSUME OtherTypes, NEW st \in Streams, NEW next, Moved(st, next), NEW S, NEW l
    PROVE  /\ Cardinality(InLane(l, S)) \in Nat /\ Cardinality(InLane(l, S)') \in Nat
           /\ (LaneOf[st] # l \/ (stage[st] \in S <=> next \in S))
                => Cardinality(InLane(l, S)') = Cardinality(InLane(l, S))
           /\ (LaneOf[st] = l /\ stage[st] \notin S /\ next \in S)
                => Cardinality(InLane(l, S)') = Cardinality(InLane(l, S)) + 1
           /\ (LaneOf[st] = l /\ stage[st] \in S /\ next \notin S)
                => Cardinality(InLane(l, S)') = Cardinality(InLane(l, S)) - 1
  BY MovedInLane, Shift, StreamSets

-----------------------------------------------------------------------------
(* No more than two openers per lane. *)

LEMMA TwoOrigins == IsFiniteSet(Origins) /\ Cardinality(Origins) = 2
  <1>1. IsFiniteSet({"peer"}) /\ Cardinality({"peer"}) = 1
    BY FS_Singleton
  <1>2. Origins = {"peer"} \cup {"local"} /\ "local" \notin {"peer"}
    BY DEF Origins
  <1>3. Cardinality({"peer"} \cup {"local"}) = Cardinality({"peer"}) + 1
    BY <1>1, <1>2, FS_AddElement
  <1>4. IsFiniteSet({"peer"} \cup {"local"})
    BY <1>1, FS_AddElement
  <1> QED BY <1>1, <1>2, <1>3, <1>4

\* No two streams of the same lane and origin.
Apart(S) == \A a, b \in S : (LaneOf[a] = LaneOf[b] /\ OriginOf[a] = OriginOf[b]) => a = b

\* Such a set has no more members in one lane than there are origins ...
LEMMA OpenersOfLane ==
    ASSUME NEW S \in SUBSET Streams, Apart(S), NEW l \in Lanes, \A st \in S : LaneOf[st] = l
    PROVE  Cardinality(S) <= 2
  <1> DEFINE f == [st \in S |-> OriginOf[st]]
  <1>1. f \in [S -> Origins]
    BY StreamsAssumption
  <1>2. \A a, b \in S : f[a] = f[b] => a = b
    BY DEF Apart
  <1>3. f \in Injection(S, Origins)
    BY <1>1, <1>2 DEF Injection, IsInjective
  <1> QED BY <1>3, TwoOrigins, FS_Injection

\* ... and in all lanes together no more than two for each.
LEMMA OpenersOfServer ==
    ASSUME NEW S \in SUBSET Streams, Apart(S)
    PROVE  Cardinality(S) <= 2 * Cardinality(Lanes)
  <1> DEFINE f == [st \in S |-> <<LaneOf[st], OriginOf[st]>>]
  <1>1. f \in [S -> Lanes \X Origins]
    BY StreamsAssumption
  <1>2. \A a, b \in S : f[a] = f[b] => a = b
    BY DEF Apart
  <1>3. f \in Injection(S, Lanes \X Origins)
    BY <1>1, <1>2 DEF Injection, IsInjective
  <1>4. IsFiniteSet(Lanes \X Origins)
    BY StreamsAssumption, TwoOrigins, FS_Product
  <1>5. Cardinality(Lanes \X Origins) = Cardinality(Lanes) * Cardinality(Origins)
    BY StreamsAssumption, TwoOrigins, FS_Product
  <1>6. Cardinality(S) <= Cardinality(Lanes \X Origins)
    BY <1>3, <1>4, FS_Injection
  <1>7. Cardinality(Lanes) \in Nat
    BY StreamsAssumption, FS_CardinalityType
  <1> QED BY <1>5, <1>6, <1>7, TwoOrigins

-----------------------------------------------------------------------------
(* Every step moves at most one stream, in one of these ways. *)

Same == global' = global /\ lane' = lane
AfterAdd == {"held", "permit", "queueing"}

Enters(st) ==
    \/ /\ stage[st] \in {"none", "asked"} /\ Idle(LaneOf[st], OriginOf[st])
       /\ Moved(st, "checkGlobal") /\ Same
PassesGlobal(st) ==
    stage[st] = "checkGlobal" /\ global < MaxGlobal /\ Moved(st, "checkLane") /\ Same
PassesLane(st) ==
    /\ stage[st] = "checkLane" /\ lane[LaneOf[st]] < MaxLane /\ Same
    /\ Moved(st, "opening") \/ Moved(st, "addGlobal")
Opens(st) == stage[st] = "opening" /\ Moved(st, "addGlobal") /\ Same
AddsGlobal(st) ==
    stage[st] = "addGlobal" /\ Moved(st, "addLane") /\ global' = global + 1 /\ lane' = lane
AddsLane(st) ==
    /\ stage[st] = "addLane" /\ global' = global
    /\ lane' = [lane EXCEPT ![LaneOf[st]] = @ + 1]
    /\ \E next \in AfterAdd : Moved(st, next)
TakesGlobal(st) ==
    stage[st] = "dropGlobal" /\ Moved(st, "dropLane") /\ global' = global - 1 /\ lane' = lane
TakesLane(st) ==
    /\ stage[st] = "dropLane" /\ Moved(st, "tell") /\ global' = global
    /\ lane' = [lane EXCEPT ![LaneOf[st]] = @ - 1]
Proceeds(st) ==
    /\ stage[st] \in Guarded /\ Same
    /\ \E next \in (Guarded \ {"queueing"}) \cup {"dropGlobal"} : Moved(st, next)
Leaves(st) ==
    /\ stage[st] \in {"none", "checkGlobal", "checkLane", "opening", "tell"} /\ Same
    /\ Moved(st, "none") \/ Moved(st, "asked")

Transition(st) ==
    \/ Enters(st) \/ PassesGlobal(st) \/ PassesLane(st) \/ Opens(st) \/ AddsGlobal(st)
    \/ AddsLane(st) \/ TakesGlobal(st) \/ TakesLane(st) \/ Proceeds(st) \/ Leaves(st)

\* The steps of the calls and of a closing session that move no stream.
LaneStep(l) ==
    \/ LoopEnds(l) \/ PullStart(l) \/ PullLocks(l) \/ PullChecks(l) \/ PullEnrolls(l)
    \/ PullEnds(l) \/ PullWakes(l) \/ PullStirred(l) \/ DiscStart(l) \/ DiscLooks(l)
    \/ DiscLocks(l) \/ DiscLeavesQueue(l) \/ DiscEnds(l) \/ WaitStart(l) \/ WaitStep(l)
    \/ \E call \in Calls : DeadlinePasses(l, call)
EndStep(s) == ConnEnds(s) \/ AppCloses(s) \/ CloseStep(s)
StreamStep(st) ==
    \/ Accept(st) \/ Create(st) \/ OpenerStep(st) \/ OpenOk(st) \/ DropStep(st) \/ Dispose(st)
    \/ DiscConsumed(st) \/ PullTakes(st) \/ DiscTakes(st)

LEMMA NextCases ==
    ASSUME Next
    PROVE  \/ \E st \in Streams : StreamStep(st)
           \/ \E l \in Lanes : LaneStep(l)
           \/ \E s \in Sessions : EndStep(s)
  BY DEF Next, PullStep, DiscStep, StreamStep, LaneStep, EndStep

LEMMA StreamStepMoves ==
    ASSUME OtherTypes, CountTypes, NEW st \in Streams, StreamStep(st)
    PROVE  Transition(st)
  <1> USE StreamsAssumption, CapsAssumption DEF OtherTypes, CountTypes, Goto, Moved, Same, AfterAdd,
            Guarded, Origins, Transition, Enters, PassesGlobal, PassesLane, Opens, AddsGlobal, AddsLane,
            TakesGlobal, TakesLane, Proceeds, Leaves
  <1>1. CASE Accept(st)
    BY <1>1 DEF Accept
  <1>2. CASE Create(st)
    BY <1>2 DEF Create
  <1>3. CASE Handle(st)
    BY <1>3 DEF Handle
  <1>4. CASE CheckGlobal(st)
    <2>1. CASE global >= MaxGlobal
      BY <1>4, <2>1 DEF CheckGlobal
    <2>2. CASE ~(global >= MaxGlobal)
      BY <1>4, <2>2 DEF CheckGlobal
    <2> QED BY <2>1, <2>2
  <1>5. CASE CheckLane(st)
    <2>1. CASE lane[LaneOf[st]] >= MaxLane
      BY <1>5, <2>1 DEF CheckLane
    <2>2. CASE lane[LaneOf[st]] < MaxLane
      BY <1>5, <2>2 DEF CheckLane
    <2> QED BY <1>5, <2>1, <2>2 DEF CheckLane
  <1>6. CASE OpenOk(st)
    BY <1>6 DEF OpenOk
  <1>7. CASE OpenFails(st)
    BY <1>7 DEF OpenFails
  <1>8. CASE AddGlobal(st)
    BY <1>8 DEF AddGlobal
  <1>9. CASE AddLane(st)
    BY <1>9 DEF AddLane
  <1>10. CASE Enqueue(st)
    BY <1>10 DEF Enqueue
  <1>11. CASE EnqueueFails(st)
    BY <1>11 DEF EnqueueFails
  <1>12. CASE GetPermit(st)
    BY <1>12 DEF GetPermit
  <1>13. CASE DrainEnds(st)
    BY <1>13 DEF DrainEnds
  <1>14. CASE DropQueued(st)
    BY <1>14 DEF DropQueued
  <1>15. CASE DropGlobal(st)
    BY <1>15 DEF DropGlobal
  <1>16. CASE DropLane(st)
    BY <1>16 DEF DropLane
  <1>17. CASE TellCapacity(st)
    BY <1>17 DEF TellCapacity
  <1>18. CASE Dispose(st)
    BY <1>18 DEF Dispose
  <1>19. CASE DiscConsumed(st)
    BY <1>19 DEF DiscConsumed
  <1>20. CASE PullTakes(st)
    BY <1>20 DEF PullTakes
  <1>21. CASE DiscTakes(st)
    BY <1>21 DEF DiscTakes
  <1> QED BY <1>1, <1>2, <1>3, <1>4, <1>5, <1>6, <1>7, <1>8, <1>9, <1>10, <1>11, <1>12,
             <1>13, <1>14, <1>15, <1>16, <1>17, <1>18, <1>19, <1>20, <1>21 DEF StreamStep,
             OpenerStep, DropStep

LEMMA OthersMoveNothing ==
    ASSUME \/ \E l \in Lanes : LaneStep(l)
           \/ \E s \in Sessions : EndStep(s)
           \/ UNCHANGED vars
    PROVE  stage' = stage /\ Same
  <1>1. ASSUME NEW l \in Lanes, LaneStep(l)
        PROVE  stage' = stage /\ Same
    BY <1>1 DEF LaneStep, WaitStep, Same, LoopEnds, PullStart, PullLocks, PullChecks, PullEnrolls, PullEnds, PullWakes,
                PullStirred, DiscStart, DiscLooks, DiscLocks, DiscLeavesQueue, DiscEnds,
                WaitStart, WaitLoads, WaitLoadsLane, WaitEnrolls, WaitWakes, WaitTimesOut, DeadlinePasses
  <1>2. ASSUME NEW s \in Sessions, EndStep(s)
        PROVE  stage' = stage /\ Same
    BY <1>2 DEF EndStep, CloseStep, Same, ConnEnds, AppCloses, ForwardTaskCloses, CloseTells,
                CloseRemoves, CloseConnection
  <1>3. CASE UNCHANGED vars
    BY <1>3 DEF vars, Same
  <1> QED BY <1>1, <1>2, <1>3

-----------------------------------------------------------------------------
(* The counts and the openers on their way. *)

LEMMA OpenersStay ==
    ASSUME OtherTypes, OneOpener, NEW st \in Streams, Transition(st)
    PROVE  OneOpener'
  <1>1. PICK next : Moved(st, next)
    BY DEF Transition, Enters, PassesGlobal, PassesLane, Opens, AddsGlobal, AddsLane, TakesGlobal,
           TakesLane, Proceeds, Leaves
  <1>2. stage'[st] = next /\ \A x \in Streams : x # st => stage'[x] = stage[x]
    BY <1>1 DEF Moved, OtherTypes
  <1>3. CASE Enters(st)
    BY <1>2, <1>3 DEF Enters, OneOpener, Idle, Opening
  <1>4. CASE ~Enters(st)
    <2>1. stage'[st] \in Opening => stage[st] \in Opening
      BY <1>4 DEF Transition, PassesGlobal, PassesLane, Opens, AddsGlobal, AddsLane, TakesGlobal,
                  TakesLane, Proceeds, Leaves, Moved, OtherTypes, Opening, Guarded
    <2> QED BY <1>2, <2>1 DEF OneOpener
  <1> QED BY <1>3, <1>4

LEMMA CountsStay ==
    ASSUME OtherTypes, CountTypes, CountsExact, NEW st \in Streams, Transition(st)
    PROVE  CountTypes' /\ CountsExact'
  <1> DEFINE G == At(OnGlobal)
             L(l) == InLane(l, OnLane)
  <1> USE StreamsAssumption
  <1>1. LaneOf[st] \in Lanes /\ G = GlobalStreams /\ G' = GlobalStreams'
    BY DEF At, GlobalStreams
  <1>2. \A l \in Lanes : L(l) = LaneStreams(l) /\ L(l)' = LaneStreams(l)'
    BY DEF LaneStreams
  <1>3. global = Cardinality(G) /\ \A l \in Lanes : lane[l] = Cardinality(L(l))
    BY <1>1, <1>2 DEF CountsExact
  <1>4. ASSUME NEW next, Moved(st, next)
        PROVE  /\ Cardinality(G) \in Nat /\ Cardinality(G') \in Nat
               /\ (stage[st] \in OnGlobal <=> next \in OnGlobal) => Cardinality(G') = Cardinality(G)
               /\ (stage[st] \notin OnGlobal /\ next \in OnGlobal) => Cardinality(G') = Cardinality(G) + 1
               /\ (stage[st] \in OnGlobal /\ next \notin OnGlobal) => Cardinality(G') = Cardinality(G) - 1
    BY <1>4, MovedCounts
  <1>5. ASSUME NEW next, Moved(st, next), NEW l \in Lanes
        PROVE  /\ Cardinality(L(l)) \in Nat /\ Cardinality(L(l)') \in Nat
               /\ (LaneOf[st] # l \/ (stage[st] \in OnLane <=> next \in OnLane))
                    => Cardinality(L(l)') = Cardinality(L(l))
               /\ (LaneOf[st] = l /\ stage[st] \notin OnLane /\ next \in OnLane)
                    => Cardinality(L(l)') = Cardinality(L(l)) + 1
               /\ (LaneOf[st] = l /\ stage[st] \in OnLane /\ next \notin OnLane)
                    => Cardinality(L(l)') = Cardinality(L(l)) - 1
    BY <1>5, MovedLaneCounts
  <1> HIDE DEF G, L
  <1>6. /\ global' = Cardinality(G') /\ global' \in Int
        /\ lane' \in [Lanes -> Int] /\ \A l \in Lanes : lane'[l] = Cardinality(L(l)')
    <2> USE <1>1, <1>3, <1>4, <1>5 DEF OnGlobal, OnLane, Guarded, CountTypes, Same
    <2>1. CASE Enters(st)
      BY <2>1 DEF Enters
    <2>2. CASE PassesGlobal(st)
      BY <2>2 DEF PassesGlobal
    <2>3. CASE PassesLane(st)
      BY <2>3 DEF PassesLane
    <2>4. CASE Opens(st)
      BY <2>4 DEF Opens
    <2>5. CASE AddsGlobal(st)
      BY <2>5 DEF AddsGlobal
    <2>6. CASE AddsLane(st)
      BY <2>6 DEF AddsLane, AfterAdd
    <2>7. CASE TakesGlobal(st)
      BY <2>7 DEF TakesGlobal
    <2>8. CASE TakesLane(st)
      BY <2>8 DEF TakesLane
    <2>9. CASE Proceeds(st)
      BY <2>9 DEF Proceeds
    <2>10. CASE Leaves(st)
      BY <2>10 DEF Leaves
    <2> QED BY <2>1, <2>2, <2>3, <2>4, <2>5, <2>6, <2>7, <2>8, <2>9, <2>10 DEF Transition
  <1> QED BY <1>1, <1>2, <1>6 DEF CountTypes, CountsExact

LEMMA LaneRoomStays ==
    ASSUME OtherTypes, CountTypes, OneOpener, LaneRoom, NEW st \in Streams, Transition(st)
    PROVE  LaneRoom'
  <1> SUFFICES ASSUME NEW l \in Lanes
               PROVE  lane'[l] + Cardinality(InLane(l, PassedLane)') <= MaxLane + 1
    BY DEF LaneRoom
  <1> DEFINE P == InLane(l, PassedLane)
  <1> USE StreamsAssumption, CapsAssumption
  <1>1. lane[l] + Cardinality(P) <= MaxLane + 1 /\ LaneOf[st] \in Lanes
    BY DEF LaneRoom
  <1>2. OneOpener'
    BY OpenersStay
  <1>3. Cardinality(P') <= 2
    <2>1. Apart(P') /\ P' \in SUBSET Streams /\ \A x \in P' : LaneOf[x] = l
      BY <1>2 DEF OneOpener, InLane, PassedLane, Opening, Apart
    <2> HIDE DEF P
    <2> QED BY <2>1, OpenersOfLane
  <1>4. ASSUME NEW next, Moved(st, next)
        PROVE  /\ Cardinality(P) \in Nat /\ Cardinality(P') \in Nat
               /\ (LaneOf[st] # l \/ (stage[st] \in PassedLane <=> next \in PassedLane))
                    => Cardinality(P') = Cardinality(P)
               /\ (LaneOf[st] = l /\ stage[st] \notin PassedLane /\ next \in PassedLane)
                    => Cardinality(P') = Cardinality(P) + 1
               /\ (LaneOf[st] = l /\ stage[st] \in PassedLane /\ next \notin PassedLane)
                    => Cardinality(P') = Cardinality(P) - 1
    BY <1>4, MovedLaneCounts
  <1> HIDE DEF P
  <1>5. lane'[l] + Cardinality(P') <= MaxLane + 1
    <2> USE <1>1, <1>4 DEF PassedLane, Guarded, CountTypes, Same
    <2>1. CASE Enters(st)
      BY <2>1 DEF Enters
    <2>2. CASE PassesGlobal(st)
      BY <2>2 DEF PassesGlobal
    <2>3. CASE PassesLane(st)
      BY <2>3, <1>3 DEF PassesLane
    <2>4. CASE Opens(st)
      BY <2>4 DEF Opens
    <2>5. CASE AddsGlobal(st)
      BY <2>5 DEF AddsGlobal
    <2>6. CASE AddsLane(st)
      BY <2>6 DEF AddsLane, AfterAdd
    <2>7. CASE TakesGlobal(st)
      BY <2>7 DEF TakesGlobal
    <2>8. CASE TakesLane(st)
      BY <2>8 DEF TakesLane
    <2>9. CASE Proceeds(st)
      BY <2>9 DEF Proceeds
    <2>10. CASE Leaves(st)
      BY <2>10 DEF Leaves
    <2> QED BY <2>1, <2>2, <2>3, <2>4, <2>5, <2>6, <2>7, <2>8, <2>9, <2>10 DEF Transition
  <1> QED BY <1>5 DEF P

LEMMA GlobalRoomStays ==
    ASSUME OtherTypes, CountTypes, OneOpener, GlobalRoom, NEW st \in Streams, Transition(st)
    PROVE  GlobalRoom'
  <1> DEFINE P == At(PassedGlobal)
             N == 2 * Cardinality(Lanes)
  <1> USE CapsAssumption
  <1>1. global + Cardinality(P) <= MaxGlobal + N - 1
    BY DEF GlobalRoom
  <1>2. Cardinality(P') <= N
    <2>1. OneOpener'
      BY OpenersStay
    <2>2. Apart(P') /\ P' \in SUBSET Streams
      BY <2>1 DEF OneOpener, At, PassedGlobal, Opening, Apart
    <2> HIDE DEF P
    <2> QED BY <2>2, OpenersOfServer
  <1>3. N \in Nat
    BY StreamsAssumption, FS_CardinalityType
  <1>4. ASSUME NEW next, Moved(st, next)
        PROVE  /\ Cardinality(P) \in Nat /\ Cardinality(P') \in Nat
               /\ (stage[st] \in PassedGlobal <=> next \in PassedGlobal)
                    => Cardinality(P') = Cardinality(P)
               /\ (stage[st] \in PassedGlobal /\ next \notin PassedGlobal)
                    => Cardinality(P') = Cardinality(P) - 1
    BY <1>4, MovedCounts
  <1> HIDE DEF P, N
  <1>5. global' + Cardinality(P') <= MaxGlobal + N - 1
    <2> USE <1>1, <1>3, <1>4 DEF PassedGlobal, Guarded, CountTypes, Same
    <2>1. CASE Enters(st)
      BY <2>1 DEF Enters
    <2>2. CASE PassesGlobal(st)
      BY <2>2, <1>2 DEF PassesGlobal
    <2>3. CASE PassesLane(st)
      BY <2>3 DEF PassesLane
    <2>4. CASE Opens(st)
      BY <2>4 DEF Opens
    <2>5. CASE AddsGlobal(st)
      BY <2>5 DEF AddsGlobal
    <2>6. CASE AddsLane(st)
      BY <2>6 DEF AddsLane, AfterAdd
    <2>7. CASE TakesGlobal(st)
      BY <2>7 DEF TakesGlobal
    <2>8. CASE TakesLane(st)
      BY <2>8 DEF TakesLane
    <2>9. CASE Proceeds(st)
      BY <2>9 DEF Proceeds
    <2>10. CASE Leaves(st)
      BY <2>10 DEF Leaves
    <2> QED BY <2>1, <2>2, <2>3, <2>4, <2>5, <2>6, <2>7, <2>8, <2>9, <2>10 DEF Transition
  <1> QED BY <1>5 DEF P, N, GlobalRoom

-----------------------------------------------------------------------------
(* Types. *)

LEMMA StreamTypes ==
    ASSUME OtherTypes, NEW st \in Streams, StreamStep(st)
    PROVE  OtherTypes'
  <1> USE StreamsAssumption DEF OtherTypes, Stages, Goto, calls, life, PullGoto, DiscGoto, Parked, Lanes_,
            SessionFor
  <1>1. CASE Accept(st)
    BY <1>1 DEF Accept
  <1>2. CASE Create(st)
    BY <1>2 DEF Create
  <1>3. CASE Handle(st)
    BY <1>3 DEF Handle
  <1>4. CASE CheckGlobal(st)
    BY <1>4 DEF CheckGlobal
  <1>5. CASE CheckLane(st)
    BY <1>5 DEF CheckLane
  <1>6. CASE OpenOk(st)
    BY <1>6 DEF OpenOk
  <1>7. CASE OpenFails(st)
    BY <1>7 DEF OpenFails
  <1>8. CASE AddGlobal(st)
    BY <1>8 DEF AddGlobal
  <1>9. CASE AddLane(st)
    BY <1>9 DEF AddLane
  <1>10. CASE Enqueue(st)
    BY <1>10 DEF Enqueue
  <1>11. CASE EnqueueFails(st)
    BY <1>11 DEF EnqueueFails
  <1>12. CASE GetPermit(st)
    BY <1>12 DEF GetPermit
  <1>13. CASE DrainEnds(st)
    BY <1>13 DEF DrainEnds
  <1>14. CASE DropQueued(st)
    BY <1>14 DEF DropQueued
  <1>15. CASE DropGlobal(st)
    BY <1>15 DEF DropGlobal
  <1>16. CASE DropLane(st)
    BY <1>16 DEF DropLane
  <1>17. CASE TellCapacity(st)
    BY <1>17 DEF TellCapacity
  <1>18. CASE Dispose(st)
    BY <1>18 DEF Dispose
  <1>19. CASE DiscConsumed(st)
    BY <1>19 DEF DiscConsumed
  <1>20. CASE PullTakes(st)
    BY <1>20 DEF PullTakes
  <1>21. CASE DiscTakes(st)
    BY <1>21 DEF DiscTakes
  <1> QED BY <1>1, <1>2, <1>3, <1>4, <1>5, <1>6, <1>7, <1>8, <1>9, <1>10, <1>11, <1>12,
             <1>13, <1>14, <1>15, <1>16, <1>17, <1>18, <1>19, <1>20, <1>21 DEF StreamStep,
             OpenerStep, DropStep

LEMMA LaneTypes ==
    ASSUME OtherTypes, NEW l \in Lanes, LaneStep(l)
    PROVE  OtherTypes'
  <1> USE StreamsAssumption DEF OtherTypes, calls, life, PullGoto, DiscGoto, WaitGoto
  <1>1. CASE LoopEnds(l)
    BY <1>1 DEF LoopEnds
  <1>2. CASE PullStart(l)
    BY <1>2 DEF PullStart
  <1>3. CASE PullLocks(l)
    BY <1>3 DEF PullLocks
  <1>4. CASE PullChecks(l)
    BY <1>4 DEF PullChecks
  <1>5. CASE PullEnrolls(l)
    BY <1>5 DEF PullEnrolls
  <1>6. CASE PullEnds(l)
    BY <1>6 DEF PullEnds
  <1>7. CASE PullWakes(l)
    BY <1>7 DEF PullWakes
  <1>8. CASE PullStirred(l)
    BY <1>8 DEF PullStirred
  <1>9. CASE DiscStart(l)
    BY <1>9 DEF DiscStart
  <1>10. CASE DiscLooks(l)
    BY <1>10 DEF DiscLooks
  <1>11. CASE DiscLocks(l)
    BY <1>11 DEF DiscLocks
  <1>12. CASE DiscLeavesQueue(l)
    BY <1>12 DEF DiscLeavesQueue
  <1>13. CASE DiscEnds(l)
    BY <1>13 DEF DiscEnds
  <1>14. CASE WaitStart(l)
    BY <1>14 DEF WaitStart
  <1>15. CASE WaitLoads(l)
    BY <1>15 DEF WaitLoads
  <1>16. CASE WaitLoadsLane(l)
    BY <1>16 DEF WaitLoadsLane
  <1>17. CASE WaitEnrolls(l)
    BY <1>17 DEF WaitEnrolls
  <1>18. CASE WaitWakes(l)
    BY <1>18 DEF WaitWakes
  <1>19. CASE WaitTimesOut(l)
    BY <1>19 DEF WaitTimesOut
  <1>20. ASSUME NEW call \in Calls, DeadlinePasses(l, call)
         PROVE  OtherTypes'
    BY <1>20 DEF DeadlinePasses
  <1> QED BY <1>1, <1>2, <1>3, <1>4, <1>5, <1>6, <1>7, <1>8, <1>9, <1>10, <1>11, <1>12,
             <1>13, <1>14, <1>15, <1>16, <1>17, <1>18, <1>19, <1>20 DEF LaneStep, WaitStep

LEMMA EndTypes ==
    ASSUME OtherTypes, NEW s \in Sessions, EndStep(s)
    PROVE  OtherTypes'
  <1> USE StreamsAssumption DEF OtherTypes, calls, life, CloseGoto, AllParked, Parked, Lanes_
  <1>1. CASE ConnEnds(s)
    BY <1>1 DEF ConnEnds
  <1>2. CASE AppCloses(s)
    BY <1>2 DEF AppCloses
  <1>3. CASE ForwardTaskCloses(s)
    BY <1>3 DEF ForwardTaskCloses
  <1>4. CASE CloseTells(s)
    BY <1>4 DEF CloseTells
  <1>5. CASE CloseRemoves(s)
    BY <1>5 DEF CloseRemoves
  <1>6. CASE CloseConnection(s)
    BY <1>6 DEF CloseConnection
  <1> QED BY <1>1, <1>2, <1>3, <1>4, <1>5, <1>6 DEF EndStep, CloseStep

-----------------------------------------------------------------------------
(* The theorems. *)

LEMMA InitInvariant ==
    ASSUME Init
    PROVE  CapsInvariant
  <1> USE DEF Init
  <1>1. OtherTypes /\ CountTypes
    BY StreamsAssumption DEF OtherTypes, CountTypes, Stages
  <1>2. /\ GlobalStreams = {} /\ At(PassedGlobal) = {}
        /\ \A l \in Lanes : LaneStreams(l) = {} /\ InLane(l, PassedLane) = {}
    BY DEF GlobalStreams, At, LaneStreams, InLane, PassedGlobal, PassedLane, OnGlobal, OnLane, Guarded
  <1>3. CountsExact
    BY <1>2, FS_EmptySet DEF CountsExact
  <1>4. OneOpener
    BY DEF OneOpener, Opening
  <1>5. LaneRoom
    <2>1. \A l \in Lanes : lane[l] = 0 /\ Cardinality(InLane(l, PassedLane)) = 0
      BY <1>2, FS_EmptySet
    <2> QED BY <2>1, CapsAssumption DEF LaneRoom
  <1>6. GlobalRoom
    BY <1>2, FS_EmptySet, CapsAssumption, StreamsAssumption, FS_CardinalityType DEF GlobalRoom
  <1> QED BY <1>1, <1>3, <1>4, <1>5, <1>6 DEF CapsInvariant

LEMMA UnmovedInvariant ==
    ASSUME CapsInvariant, stage' = stage, Same
    PROVE  CountTypes' /\ CountsExact' /\ OneOpener' /\ LaneRoom' /\ GlobalRoom'
  <1>1. /\ GlobalStreams' = GlobalStreams /\ At(PassedGlobal)' = At(PassedGlobal)
        /\ \A l \in Lanes : /\ LaneStreams(l)' = LaneStreams(l)
                            /\ InLane(l, PassedLane)' = InLane(l, PassedLane)
    BY DEF GlobalStreams, At, LaneStreams, InLane
  <1> QED BY <1>1 DEF CapsInvariant, Same, CountTypes, CountsExact, OneOpener, LaneRoom, GlobalRoom

LEMMA NextInvariant ==
    ASSUME CapsInvariant, [Next]_vars
    PROVE  CapsInvariant'
  <1>1. ASSUME NEW st \in Streams, StreamStep(st)
        PROVE  CapsInvariant'
    <2>1. Transition(st)
      BY <1>1, StreamStepMoves DEF CapsInvariant
    <2>2. OtherTypes'
      BY <1>1, StreamTypes DEF CapsInvariant
    <2>3. CountTypes' /\ CountsExact' /\ OneOpener'
      BY <2>1, CountsStay, OpenersStay DEF CapsInvariant
    <2>4. LaneRoom' /\ GlobalRoom'
      BY <2>1, LaneRoomStays, GlobalRoomStays DEF CapsInvariant
    <2> QED BY <2>2, <2>3, <2>4 DEF CapsInvariant
  <1>2. ASSUME NEW l \in Lanes, LaneStep(l)
        PROVE  CapsInvariant'
    <2>1. OtherTypes'
      BY <1>2, LaneTypes DEF CapsInvariant
    <2> QED BY <1>2, <2>1, OthersMoveNothing, UnmovedInvariant DEF CapsInvariant
  <1>3. ASSUME NEW s \in Sessions, EndStep(s)
        PROVE  CapsInvariant'
    <2>1. OtherTypes'
      BY <1>3, EndTypes DEF CapsInvariant
    <2> QED BY <1>3, <2>1, OthersMoveNothing, UnmovedInvariant DEF CapsInvariant
  <1>4. CASE UNCHANGED vars
    <2>1. OtherTypes'
      BY <1>4 DEF CapsInvariant, OtherTypes, vars, calls, life
    <2> QED BY <1>4, <2>1, OthersMoveNothing, UnmovedInvariant DEF CapsInvariant
  <1> QED BY <1>1, <1>2, <1>3, <1>4, NextCases

\* The invariant holds in every state the openers, guards, calls and closing
\* sessions of the server can reach.
THEOREM CapsInvariantHolds == Spec => []CapsInvariant
  <1> QED BY InitInvariant, NextInvariant, PTL DEF Spec

\* streams_active and the per-kind counts are exact: what an opener adds is
\* taken back once, by the StreamGuard.
THEOREM CountsCorrect == Spec => []CountsExact
  <1>1. CapsInvariant => CountsExact
    BY DEF CapsInvariant
  <1> QED BY <1>1, CapsInvariantHolds, PTL

\* The state keeps its type; fetch_sub never takes a count below zero.
THEOREM StreamTypeCorrect == Spec => []TypeOK
  <1>1. ASSUME CapsInvariant PROVE TypeOK
    <2>1. GlobalStreams \in SUBSET Streams /\ \A l \in Lanes : LaneStreams(l) \in SUBSET Streams
      BY DEF GlobalStreams, LaneStreams, InLane
    <2>2. global \in Nat /\ \A l \in Lanes : lane[l] \in Nat
      BY <1>1, <2>1, StreamSets DEF CapsInvariant, CountsExact
    <2> QED BY <1>1, <2>2 DEF CapsInvariant, OtherTypes, CountTypes, TypeOK
  <1> QED BY <1>1, CapsInvariantHolds, PTL

\* However the openers race, a lane's count passes its cap by at most one
\* stream and the server's by fewer than two for each lane.
THEOREM OvershootCorrect == Spec => []OvershootBounded
  <1>1. ASSUME CapsInvariant PROVE OvershootBounded
    <2>1. /\ At(PassedGlobal) \in SUBSET Streams
          /\ \A l \in Lanes : InLane(l, PassedLane) \in SUBSET Streams
      BY DEF At, InLane
    <2>2. /\ Cardinality(At(PassedGlobal)) \in Nat
          /\ \A l \in Lanes : Cardinality(InLane(l, PassedLane)) \in Nat
      BY <2>1, StreamSets
    <2>3. Cardinality(Lanes) \in Nat
      BY StreamsAssumption, FS_CardinalityType
    <2>4. \A l \in Lanes : lane[l] <= MaxLane + 1
      BY <1>1, <2>2, CapsAssumption DEF CapsInvariant, CountTypes, LaneRoom
    <2>5. global <= MaxGlobal + 2 * Cardinality(Lanes) - 1
      BY <1>1, <2>2, <2>3, CapsAssumption DEF CapsInvariant, CountTypes, GlobalRoom
    <2> QED BY <2>4, <2>5 DEF OvershootBounded
  <1> QED BY <1>1, CapsInvariantHolds, PTL

-----------------------------------------------------------------------------
(* The token buckets. *)

Granted(k) == taken[k] - since.taken[k]

Paid(k) ==
    /\ since.taken[k] <= taken[k]
    /\ bucket[k].there /\ bucket[k].last >= since.at =>
          Granted(k) * Unit + bucket[k].tokens <= BucketBurst + RefillRate * (bucket[k].last - since.at)
    /\ bucket[k].there /\ bucket[k].last < since.at => Granted(k) = 0
    /\ ~bucket[k].there => Granted(k) * Unit <= RefillRate * (clock - since.at)

AllPaid == \A k \in BucketKeys : k[1] \notin forgotten => Paid(k)

BucketInvariant == BucketTypeOK /\ (IdleRefills => AllPaid)

-----------------------------------------------------------------------------
(* Arithmetic. *)

LEMMA Times ==
    ASSUME NEW r \in Nat, NEW n \in Nat
    PROVE  r * n \in Nat
  OBVIOUS

LEMMA Spread ==
    ASSUME NEW r \in Nat, NEW a \in Nat, NEW b \in Nat, NEW c \in Nat, a <= b, b <= c
    PROVE  /\ r * (c - a) = r * (c - b) + r * (b - a)
           /\ r * (c - b) \in Nat /\ r * (b - a) \in Nat /\ r * (c - a) \in Nat
  <1>1. c - b \in Nat /\ b - a \in Nat /\ c - a \in Nat
    OBVIOUS
  <1>2. r * (c - a) = r * (c - b) + r * (b - a)
    OBVIOUS
  <1> QED
    BY <1>1, <1>2, Times

LEMMA Grows ==
    ASSUME NEW r \in Nat, NEW a \in Nat, NEW b \in Nat, a <= b
    PROVE  r * a <= r * b
  <1>1. r * b = r * a + r * (b - a) /\ b - a \in Nat
    OBVIOUS
  <1> QED
    BY <1>1, Times

-----------------------------------------------------------------------------
(* Types. *)

Entries(c) == [there: BOOLEAN, tokens: 0..BucketBurst, last: 0..c]

LEMMA EntryTypes ==
    ASSUME BucketTypeOK, NEW k \in BucketKeys
    PROVE  /\ bucket[k] \in Entries(clock) /\ EntryOf(k) \in Entries(clock)
           /\ Refill(EntryOf(k)) \in 0..BucketBurst
  <1>1. bucket[k] \in Entries(clock) /\ clock \in Nat
    BY DEF BucketTypeOK, Entries
  <1>2. EntryOf(k) \in Entries(clock)
    BY <1>1, BucketAssumption DEF EntryOf, Entries
  <1>3. PICK b \in Entries(clock) : b = EntryOf(k)
    BY <1>2
  <1>4. RefillRate * (clock - b.last) \in Nat
    BY <1>1, Times, BucketAssumption DEF Entries
  <1>5. Refill(b) \in 0..BucketBurst
    BY <1>4, BucketAssumption DEF Refill, Entries
  <1> QED
    BY <1>1, <1>3, <1>5

LEMMA TypeStep ==
    BucketTypeOK /\ [BucketNext]_bucketVars => BucketTypeOK'
  <1> SUFFICES ASSUME BucketTypeOK, [BucketNext]_bucketVars
               PROVE  BucketTypeOK'
    OBVIOUS
  <1>1. NoBucket \in Entries(clock)
    BY BucketAssumption DEF NoBucket, Entries, BucketTypeOK
  <1>2. bucket \in [BucketKeys -> Entries(clock)]
    BY DEF BucketTypeOK, Entries
  <1>3. ASSUME NEW k \in BucketKeys, Acquire(k)
        PROVE  BucketTypeOK'
    <2>1. [there |-> TRUE, tokens |-> Refill(EntryOf(k)) - Unit, last |-> clock] \in Entries(clock)
              \/ ~(Refill(EntryOf(k)) >= Unit)
      BY EntryTypes, BucketAssumption DEF Entries, BucketTypeOK
    <2>2. bucket' \in [BucketKeys -> Entries(clock)]
      BY <1>2, <1>3, <2>1, EntryTypes DEF Acquire
    <2>3. taken' \in [BucketKeys -> Nat]
      BY <1>3 DEF Acquire, BucketTypeOK
    <2> QED
      BY <1>3, <2>2, <2>3 DEF Acquire, BucketTypeOK, Entries
  <1>4. ASSUME NEW k \in BucketKeys, SweepKey(k)
        PROVE  BucketTypeOK'
    <2>1. bucket' \in [BucketKeys -> Entries(clock)]
      BY <1>1, <1>2, <1>4 DEF SweepKey
    <2> QED
      BY <1>4, <2>1 DEF SweepKey, BucketTypeOK, Entries
  <1>5. ASSUME NEW s \in BucketServers, ForgetServer(s)
        PROVE  BucketTypeOK'
    <2>1. bucket' \in [BucketKeys -> Entries(clock)]
      BY <1>1, <1>2, <1>5 DEF ForgetServer
    <2> QED
      BY <1>5, <2>1 DEF ForgetServer, BucketTypeOK, Entries
  <1>6. CASE SweepStart
    BY <1>6 DEF SweepStart, BucketTypeOK
  <1>7. CASE TimePasses
    <2>1. \A n \in 0..clock : n \in 0..clock'
      BY <1>7 DEF TimePasses, BucketTypeOK
    <2>2. bucket' \in [BucketKeys -> Entries(clock')]
      <3>1. \A e \in Entries(clock) : e \in Entries(clock')
        BY <2>1 DEF Entries
      <3> QED
        BY <1>2, <1>7, <3>1 DEF TimePasses
    <2> QED
      BY <1>7, <2>1, <2>2 DEF TimePasses, BucketTypeOK, Entries
  <1>8. CASE Observe
    BY <1>8 DEF Observe, BucketTypeOK
  <1>9. CASE UNCHANGED bucketVars
    BY <1>9 DEF bucketVars, BucketTypeOK
  <1> QED
    BY <1>3, <1>4, <1>5, <1>6, <1>7, <1>8, <1>9 DEF BucketNext

-----------------------------------------------------------------------------
(* The account of one key. *)

\* The numbers of one key, named.
LEMMA Numbers ==
    ASSUME BucketTypeOK, NEW k \in BucketKeys
    PROVE  /\ clock \in Nat /\ since.at \in 0..clock
           /\ bucket[k].last \in 0..clock /\ bucket[k].tokens \in 0..BucketBurst
           /\ taken[k] \in Nat /\ since.taken[k] \in Nat
  BY DEF BucketTypeOK

\* The arithmetic of a grant: the grants before (d), what was in the bucket at
\* its last stamp (t at l), the time now (c) and the observation's (a).
LEMMA GrantArithmetic ==
    ASSUME NEW d \in Nat, NEW t \in Nat, NEW a \in Nat, NEW l \in Nat, NEW c \in Nat, NEW m \in Nat,
           l <= c, a <= c, m <= BucketBurst, m <= t + RefillRate * (c - l), m >= Unit,
           l >= a => d * Unit + t <= BucketBurst + RefillRate * (l - a),
           l < a => d = 0
    PROVE  (d + 1) * Unit + (m - Unit) <= BucketBurst + RefillRate * (c - a)
  <1>1. (d + 1) * Unit = d * Unit + Unit /\ d * Unit \in Nat
    BY BucketAssumption, Times
  <1>2. CASE l >= a
    <2>1. RefillRate * (c - a) = RefillRate * (c - l) + RefillRate * (l - a)
          /\ RefillRate * (c - l) \in Nat /\ RefillRate * (l - a) \in Nat
      BY <1>2, BucketAssumption, Spread
    <2> QED
      BY <1>1, <1>2, <2>1, BucketAssumption
  <1>3. CASE l < a
    <2>1. c - a \in Nat
      OBVIOUS
    <2>2. RefillRate * (c - a) \in Nat
      BY <2>1, BucketAssumption, Times
    <2>3. d * Unit = 0
      BY <1>3, BucketAssumption
    <2> QED
      BY <1>1, <2>2, <2>3, BucketAssumption
  <1> QED
    BY <1>2, <1>3

LEMMA AcquirePays ==
    ASSUME BucketTypeOK, NEW k \in BucketKeys, Paid(k), Acquire(k)
    PROVE  Paid(k)'
  <1> DEFINE g == Refill(EntryOf(k))
             d == taken[k] - since.taken[k]
  <1>1. /\ clock' = clock /\ since' = since
        /\ bucket'[k] = IF g >= Unit THEN [there |-> TRUE, tokens |-> g - Unit, last |-> clock] ELSE EntryOf(k)
        /\ taken'[k] = IF g >= Unit THEN taken[k] + 1 ELSE taken[k]
    BY DEF Acquire, BucketTypeOK
  <1>2. g \in 0..BucketBurst
    BY EntryTypes
  <1>3. d \in Nat /\ d * Unit \in Nat
    <2>1. d \in Nat
      BY Numbers DEF Paid
    <2> QED
      BY <2>1, Times, BucketAssumption
  <1>4. CASE g >= Unit /\ bucket[k].there
    <2>1. g <= bucket[k].tokens + RefillRate * (clock - bucket[k].last)
      <3>1. bucket[k] = EntryOf(k)
        BY <1>4 DEF EntryOf
      <3>2. RefillRate * (clock - bucket[k].last) \in Nat
        BY Numbers, Times, BucketAssumption
      <3> QED
        BY <3>1, <3>2, Numbers, BucketAssumption DEF Refill
    <2>2. (d + 1) * Unit + (g - Unit) <= BucketBurst + RefillRate * (clock - since.at)
      <3>1. PICK m \in Nat, t \in Nat, l \in Nat, a \in Nat :
                m = g /\ t = bucket[k].tokens /\ l = bucket[k].last /\ a = since.at
        BY <1>2, Numbers, BucketAssumption
      <3>2. /\ l <= clock /\ a <= clock /\ m <= BucketBurst /\ m >= Unit
            /\ m <= t + RefillRate * (clock - l)
        BY <1>2, <1>4, <2>1, <3>1, Numbers, BucketAssumption
      <3>3. /\ l >= a => d * Unit + t <= BucketBurst + RefillRate * (l - a)
            /\ l < a => d = 0
        BY <1>4, <3>1 DEF Paid, Granted
      <3>4. clock \in Nat
        BY Numbers
      <3>5. (d + 1) * Unit + (m - Unit) <= BucketBurst + RefillRate * (clock - a)
        BY <1>3, <3>2, <3>3, <3>4, GrantArithmetic
      <3> QED
        BY <3>1, <3>5
    <2>3. taken'[k] - since'.taken[k] = d + 1
      BY <1>1, <1>4, Numbers
    <2> QED
      BY <1>1, <1>4, <2>2, <2>3, Numbers DEF Paid, Granted
  <1>5. CASE g >= Unit /\ ~bucket[k].there
    <2>1. g <= BucketBurst
      BY <1>2, BucketAssumption
    <2>2. d * Unit <= RefillRate * (clock - since.at)
      BY <1>5 DEF Paid, Granted
    <2>3. (d + 1) * Unit = d * Unit + Unit
      BY <1>3, BucketAssumption
    <2>4. RefillRate * (clock - since.at) \in Nat
      BY Numbers, Times, BucketAssumption
    <2>5. (d + 1) * Unit + (g - Unit) <= BucketBurst + RefillRate * (clock - since.at)
      BY <1>2, <1>3, <2>1, <2>2, <2>3, <2>4, BucketAssumption
    <2>6. taken'[k] - since'.taken[k] = d + 1
      BY <1>1, <1>5, Numbers
    <2> QED
      BY <1>1, <1>5, <2>5, <2>6, Numbers DEF Paid, Granted
  <1>6. CASE ~(g >= Unit) /\ bucket[k].there
    <2>1. bucket'[k] = bucket[k] /\ taken'[k] = taken[k]
      BY <1>1, <1>6 DEF EntryOf
    <2> QED
      BY <1>1, <2>1 DEF Paid, Granted
  <1>7. CASE ~(g >= Unit) /\ ~bucket[k].there
    <2>1. bucket'[k] = [there |-> TRUE, tokens |-> BucketBurst, last |-> clock] /\ taken'[k] = taken[k]
      BY <1>1, <1>7 DEF EntryOf
    <2>2. d * Unit <= RefillRate * (clock - since.at)
      BY <1>7 DEF Paid, Granted
    <2>3. RefillRate * (clock - since.at) \in Nat
      BY Numbers, Times, BucketAssumption
    <2>4. d * Unit + BucketBurst <= BucketBurst + RefillRate * (clock - since.at)
      BY <1>3, <2>2, <2>3, BucketAssumption
    <2> QED
      BY <1>1, <2>1, <2>4, Numbers DEF Paid, Granted
  <1> QED
    BY <1>4, <1>5, <1>6, <1>7

\* The cleanup drops an entry only when the time since its stamp is worth a
\* burst, although it compares with a clock read earlier.
LEMMA SweepPays ==
    ASSUME BucketTypeOK, IdleRefills, NEW k \in BucketKeys, Paid(k), SweepKey(k)
    PROVE  Paid(k)'
  <1>1. /\ clock' = clock /\ since' = since /\ taken' = taken
    BY DEF SweepKey
  <1>2. CASE bucket' = bucket
    BY <1>1, <1>2 DEF Paid, Granted
  <1>3. CASE bucket[k].there /\ IdleTooLong(bucket[k]) /\ bucket' = [bucket EXCEPT ![k] = NoBucket]
    <2>1. PICK d \in Nat, t \in 0..BucketBurst, l \in 0..clock, a \in 0..clock :
              d = Granted(k) /\ t = bucket[k].tokens /\ l = bucket[k].last /\ a = since.at
      BY Numbers DEF Paid, Granted
    <2>2. clock \in Nat /\ sweepAt \in 0..clock /\ sweepAt - l >= MaxIdle
      BY <1>3, <2>1 DEF IdleTooLong, BucketTypeOK
    <2>3. MaxIdle <= clock - l
      BY <2>2, BucketAssumption
    <2>4. RefillRate * MaxIdle <= RefillRate * (clock - l)
      <3>1. clock - l \in Nat
        BY <2>2
      <3> QED
        BY <2>3, <3>1, Grows, BucketAssumption
    <2>5. RefillRate * MaxIdle \in Nat /\ RefillRate * (clock - l) \in Nat /\ d * Unit \in Nat
          /\ RefillRate * (clock - a) \in Nat
      BY <2>2, BucketAssumption, Times
    <2>6. BucketBurst <= RefillRate * (clock - l)
      BY <2>4, <2>5, BucketAssumption DEF IdleRefills
    <2>7. d * Unit <= RefillRate * (clock - a)
      <3>1. CASE l >= a
        <4>1. d * Unit + t <= BucketBurst + RefillRate * (l - a)
          BY <1>3, <2>1, <3>1 DEF Paid
        <4>2. RefillRate * (clock - a) = RefillRate * (clock - l) + RefillRate * (l - a)
              /\ RefillRate * (l - a) \in Nat
          BY <2>2, <3>1, Spread, BucketAssumption
        <4> QED
          BY <2>5, <2>6, <4>1, <4>2, BucketAssumption
      <3>2. CASE l < a
        <4>1. d = 0
          BY <1>3, <2>1, <3>2 DEF Paid
        <4>2. d * Unit = 0
          BY <4>1, BucketAssumption
        <4> QED
          BY <2>5, <4>2
      <3> QED
        BY <2>2, <3>1, <3>2
    <2>8. ~bucket'[k].there
      BY <1>3 DEF NoBucket, BucketTypeOK
    <2> QED
      BY <1>1, <2>1, <2>7, <2>8 DEF Paid, Granted
  <1> QED
    BY <1>2, <1>3 DEF SweepKey

\* A step that leaves the key's entry and its grants alone only lets time pass.
LEMMA KeptPaid ==
    ASSUME BucketTypeOK, NEW k \in BucketKeys, Paid(k), clock' \in Nat, clock' >= clock,
           bucket'[k] = bucket[k], taken'[k] = taken[k], since' = since
    PROVE  Paid(k)'
  <1>1. RefillRate * (clock - since.at) <= RefillRate * (clock' - since.at)
        /\ RefillRate * (clock - since.at) \in Nat /\ RefillRate * (clock' - since.at) \in Nat
    <2>1. clock - since.at \in Nat /\ clock' - since.at \in Nat /\ clock - since.at <= clock' - since.at
      BY Numbers
    <2> QED
      BY <2>1, Grows, Times, BucketAssumption
  <1>2. ~bucket[k].there => Granted(k) * Unit <= RefillRate * (clock' - since.at)
    <2>1. Granted(k) * Unit \in Nat
      BY Numbers, Times, BucketAssumption DEF Granted, Paid
    <2> QED
      BY <1>1, <2>1 DEF Paid
  <1> QED
    BY <1>2 DEF Paid, Granted

-----------------------------------------------------------------------------
(* The theorems. *)

LEMMA PaidStep ==
    BucketInvariant /\ [BucketNext]_bucketVars => BucketInvariant'
  <1> SUFFICES ASSUME BucketTypeOK, [BucketNext]_bucketVars, IdleRefills, AllPaid,
                      NEW k \in BucketKeys, k[1] \notin forgotten'
               PROVE  Paid(k)'
    BY TypeStep DEF BucketInvariant, AllPaid, IdleRefills
  <1>1. forgotten \subseteq forgotten'
    BY DEF BucketNext, Acquire, SweepKey, ForgetServer, SweepStart, TimePasses, Observe, bucketVars
  <1>2. Paid(k) /\ clock \in Nat
    BY <1>1 DEF AllPaid, BucketTypeOK
  <1>3. ASSUME NEW j \in BucketKeys, Acquire(j)
        PROVE  Paid(k)'
    <2>1. CASE j = k
      BY <1>2, <1>3, <2>1, AcquirePays
    <2>2. CASE j # k
      BY <1>2, <1>3, <2>2, KeptPaid DEF Acquire, BucketTypeOK
    <2> QED
      BY <2>1, <2>2
  <1>4. ASSUME NEW j \in BucketKeys, SweepKey(j)
        PROVE  Paid(k)'
    <2>1. CASE j = k
      BY <1>2, <1>4, <2>1, SweepPays
    <2>2. CASE j # k
      <3>1. bucket'[k] = bucket[k]
        BY <1>4, <2>2 DEF SweepKey, BucketTypeOK
      <3> QED
        BY <1>2, <1>4, <3>1, KeptPaid DEF SweepKey
    <2> QED
      BY <2>1, <2>2
  <1>5. ASSUME NEW s \in BucketServers, ForgetServer(s)
        PROVE  Paid(k)'
    <2>1. k[1] # s /\ bucket'[k] = bucket[k]
      BY <1>5 DEF ForgetServer
    <2> QED
      BY <1>2, <1>5, <2>1, KeptPaid DEF ForgetServer
  <1>6. CASE SweepStart \/ TimePasses \/ UNCHANGED bucketVars
    <2>1. clock' \in Nat /\ clock' >= clock /\ bucket' = bucket /\ taken' = taken /\ since' = since
      BY <1>2, <1>6 DEF SweepStart, TimePasses, bucketVars
    <2> QED
      BY <1>2, <2>1, KeptPaid
  <1>7. CASE Observe
    <2>1. since'.at = clock /\ since'.taken[k] = taken[k] /\ UNCHANGED <<clock, bucket, taken>>
      BY <1>7 DEF Observe
    <2>2. Granted(k)' = 0 /\ 0 * Unit = 0
      BY <2>1, Numbers, BucketAssumption DEF Granted
    <2>3. RefillRate * (clock - clock) = 0
      BY <1>2, BucketAssumption
    <2>4. bucket[k].last >= clock => bucket[k].last = clock
      BY Numbers
    <2> QED
      BY <2>1, <2>2, <2>3, <2>4, Numbers, BucketAssumption DEF Paid
  <1> QED
    BY <1>3, <1>4, <1>5, <1>6, <1>7 DEF BucketNext

LEMMA PaidInit ==
    BucketInit => BucketInvariant
  <1> SUFFICES ASSUME BucketInit
               PROVE  BucketInvariant
    OBVIOUS
  <1>1. BucketTypeOK
    BY BucketAssumption DEF BucketInit, BucketTypeOK, NoBucket
  <1>2. AllPaid
    <2>1. 0 * Unit = 0 /\ RefillRate * (0 - 0) = 0
      BY BucketAssumption
    <2> QED
      BY <2>1 DEF BucketInit, AllPaid, Paid, Granted, NoBucket
  <1> QED
    BY <1>1, <1>2 DEF BucketInvariant

LEMMA PaidHolds == BucketSpec => []BucketInvariant
  BY PaidInit, PaidStep, PTL DEF BucketSpec

\* Type correctness of the token buckets: no bucket holds more than its burst,
\* and neither its stamp nor the cleanup's is in the future.
THEOREM BucketTypeCorrect == BucketSpec => []BucketTypeOK
  <1>1. BucketInvariant => BucketTypeOK
    BY DEF BucketInvariant
  <1> QED
    BY <1>1, PaidHolds, PTL

\* From any moment on try_acquire_token grants an address at most a burst and
\* the refill of the time since, across cleanups with a stale clock.
THEOREM RateCorrect == BucketSpec => []WindowRate
  <1>1. BucketInvariant => WindowRate
    <2> SUFFICES ASSUME BucketInvariant, IdleRefills, NEW k \in BucketKeys, k[1] \notin forgotten
                 PROVE  (taken[k] - since.taken[k]) * Unit <= BucketBurst + RefillRate * (clock - since.at)
      BY DEF WindowRate
    <2>1. BucketTypeOK /\ Paid(k)
      BY DEF BucketInvariant, AllPaid
    <2>2. PICK d \in Nat, t \in 0..BucketBurst, l \in 0..clock, a \in 0..clock :
              /\ d = taken[k] - since.taken[k] /\ t = bucket[k].tokens /\ l = bucket[k].last
              /\ a = since.at
      BY <2>1, Numbers DEF Paid
    <2>3. clock \in Nat /\ d * Unit \in Nat /\ RefillRate * (clock - a) \in Nat
      BY <2>1, <2>2, Numbers, Times, BucketAssumption
    <2>4. CASE bucket[k].there /\ l >= a
      <3>1. d * Unit + t <= BucketBurst + RefillRate * (l - a)
        BY <2>1, <2>2, <2>4 DEF Paid, Granted
      <3>2. RefillRate * (clock - a) = RefillRate * (clock - l) + RefillRate * (l - a)
            /\ RefillRate * (l - a) \in Nat /\ RefillRate * (clock - l) \in Nat
        BY <2>3, <2>4, Spread, BucketAssumption
      <3> QED
        BY <2>2, <2>3, <3>1, <3>2, BucketAssumption
    <2>5. CASE bucket[k].there /\ l < a
      <3>1. d = 0
        BY <2>1, <2>2, <2>5 DEF Paid, Granted
      <3>2. d * Unit = 0
        BY <3>1, BucketAssumption
      <3> QED
        BY <2>2, <2>3, <3>2, BucketAssumption
    <2>6. CASE ~bucket[k].there
      <3>1. d * Unit <= RefillRate * (clock - a)
        BY <2>1, <2>2, <2>6 DEF Paid, Granted
      <3> QED
        BY <2>2, <2>3, <3>1, BucketAssumption
    <2> QED
      BY <2>3, <2>4, <2>5, <2>6
  <1> QED
    BY <1>1, PaidHolds, PTL

-----------------------------------------------------------------------------
(* The peer limiter.  The two maps and the owners are consistent, as a     *)
(* whole and at every intermediate point of an operation, which is why     *)
(* Maps is about any maps and owners.  A prefix's bucket is covered: some  *)
(* address of it was touched no earlier or is pinned, so an eviction that  *)
(* takes the last address of a prefix takes the prefix.                    *)

TopOf(t) == Burst * t * RateScale
Flow(t) == Rate * t * RateScale
Bkts(t, n) == [tokens : 0..TopOf(t), refilled : 0..n, owners : Nat, touched : 0..n]

Typed(map, keys, t, n) ==
    /\ DOMAIN map \subseteq keys /\ map \in [DOMAIN map -> Bkts(t, n)]
    /\ \A k \in DOMAIN map : map[k].refilled <= map[k].touched

Owning(o) == DOMAIN o \subseteq LimitConns /\ o \in [DOMAIN o -> Peers]
PeerPins(o, p) == {c \in DOMAIN o : o[c] = p}
PrefixPins(o, q) == {c \in DOMAIN o : PeerPrefix[o[c]] = q}

\* What a map says of its owners.
PinsOf(map, k) == IF k \in DOMAIN map THEN map[k].owners ELSE 0
Pinned(b, q, o) ==
    /\ \A p \in Peers : PinsOf(b, p) = Cardinality(PeerPins(o, p))
    /\ \A k \in PeerPrefixes : PinsOf(q, k) = Cardinality(PrefixPins(o, k))

Covered(b, q) ==
    \A k \in DOMAIN q : \E p \in DOMAIN b :
        PeerPrefix[p] = k /\ (q[k].touched <= b[p].touched \/ b[p].owners > 0)

Maps(b, q, o, n) ==
    /\ n \in Nat /\ Typed(b, Peers, 1, n) /\ Typed(q, PeerPrefixes, Multiplier, n) /\ Owning(o)
    /\ Pinned(b, q, o) /\ Covered(b, q) /\ Cardinality(DOMAIN b) <= MaxBuckets

\* Tokens left and checks admitted, against the burst and the refills.
Settled(b, d, t) == b.tokens * Second + d * (RateScale * Second) <= TopOf(t) * Second + b.refilled * Flow(t)
Waited(d, t, n) == d * (RateScale * Second) <= n * Flow(t)
PaidFor(map, keys, done, t, n) ==
    \A k \in keys : IF k \in DOMAIN map THEN Settled(map[k], done[k], t) ELSE Waited(done[k], t, n)

IdleRefillsAll == IdleTtl * Rate >= Burst * Second
LimiterInvariant ==
    /\ now \in 0..MaxTime /\ verdict # "prefix capacity"
    /\ admitted \in [Peers -> Nat] /\ passed \in [PeerPrefixes -> Nat]
    /\ Maps(buckets, prefixes, owners, now)
    /\ IdleRefillsAll => /\ PaidFor(buckets, Peers, admitted, 1, now)
                         /\ PaidFor(prefixes, PeerPrefixes, passed, Multiplier, now)

-----------------------------------------------------------------------------
(* Sets of connections. *)

LEMMA ConnSets ==
    ASSUME NEW S \in SUBSET LimitConns
    PROVE  IsFiniteSet(S) /\ Cardinality(S) \in Nat
  BY FS_Subset, FS_CardinalityType, LimiterAssumption

LEMMA PinSets ==
    ASSUME NEW o, Owning(o), NEW k
    PROVE  /\ PeerPins(o, k) \in SUBSET LimitConns /\ PrefixPins(o, k) \in SUBSET LimitConns
           /\ IsFiniteSet(PeerPins(o, k)) /\ Cardinality(PeerPins(o, k)) \in Nat
           /\ IsFiniteSet(PrefixPins(o, k)) /\ Cardinality(PrefixPins(o, k)) \in Nat
  <1>1. PeerPins(o, k) \in SUBSET LimitConns /\ PrefixPins(o, k) \in SUBSET LimitConns
    BY DEF Owning, PeerPins, PrefixPins
  <1> QED
    BY <1>1, ConnSets

\* The owner of a connection and its prefix are in the maps.
LEMMA OwnersThere ==
    ASSUME NEW b, NEW q, NEW o, NEW n, Maps(b, q, o, n), NEW c \in DOMAIN o
    PROVE  /\ o[c] \in Peers /\ o[c] \in DOMAIN b /\ b[o[c]].owners > 0
           /\ PeerPrefix[o[c]] \in PeerPrefixes /\ PeerPrefix[o[c]] \in DOMAIN q
           /\ q[PeerPrefix[o[c]]].owners > 0
  <1>1. o[c] \in Peers /\ PeerPrefix[o[c]] \in PeerPrefixes /\ Owning(o)
    BY DEF Maps, Owning, PeerPrefixes
  <1>2. c \in PeerPins(o, o[c]) /\ c \in PrefixPins(o, PeerPrefix[o[c]])
    BY DEF PeerPins, PrefixPins
  <1>3. Cardinality(PeerPins(o, o[c])) > 0 /\ Cardinality(PrefixPins(o, PeerPrefix[o[c]])) > 0
    BY <1>1, <1>2, PinSets, FS_EmptySet
  <1>4. PinsOf(b, o[c]) > 0 /\ PinsOf(q, PeerPrefix[o[c]]) > 0
    BY <1>1, <1>3 DEF Maps, Pinned
  <1> QED
    BY <1>1, <1>4 DEF PinsOf

\* Who is pinned has a connection.
LEMMA PinnedHasOwner ==
    ASSUME NEW b, NEW q, NEW o, NEW n, Maps(b, q, o, n), NEW k \in DOMAIN q, q[k].owners > 0
    PROVE  \E c \in DOMAIN o : PeerPrefix[o[c]] = k
  <1>1. k \in PeerPrefixes /\ Owning(o) /\ q[k].owners \in Nat
    BY DEF Maps, Typed, Bkts
  <1>2. Cardinality(PrefixPins(o, k)) > 0
    BY <1>1 DEF Maps, Pinned, PinsOf
  <1>3. PrefixPins(o, k) # {}
    BY <1>1, <1>2, PinSets, FS_EmptySet
  <1> QED
    BY <1>3 DEF PrefixPins

-----------------------------------------------------------------------------
(* Eviction. *)

LEMMA KeptIs ==
    ASSUME NEW map
    PROVE  /\ DOMAIN Kept(map) = {k \in DOMAIN map : LiveBucket(map[k])}
           /\ \A k \in DOMAIN Kept(map) : Kept(map)[k] = map[k]
  BY DEF Kept, Restrict

LEMMA KeptTyped ==
    ASSUME NEW map, NEW keys, NEW t, Typed(map, keys, t, now)
    PROVE  Typed(Kept(map), keys, t, now)
  <1>1. /\ DOMAIN Kept(map) \subseteq DOMAIN map
        /\ Kept(map) = [k \in DOMAIN Kept(map) |-> map[k]]
    BY KeptIs DEF Kept, Restrict
  <1> QED
    BY <1>1, KeptIs DEF Typed

LEMMA KeptPins ==
    ASSUME NEW map, NEW keys, NEW t, Typed(map, keys, t, now), NEW k
    PROVE  PinsOf(Kept(map), k) = PinsOf(map, k)
  <1>1. ASSUME k \in DOMAIN map, ~LiveBucket(map[k])
        PROVE  map[k].owners = 0
    BY <1>1 DEF LiveBucket, Typed, Bkts
  <1> QED
    BY <1>1, KeptIs DEF PinsOf

LEMMA KeptMaps ==
    ASSUME NEW b, NEW q, NEW o, Maps(b, q, o, now)
    PROVE  Maps(Kept(b), Kept(q), o, now)
  <1>1. Typed(Kept(b), Peers, 1, now) /\ Typed(Kept(q), PeerPrefixes, Multiplier, now)
    BY KeptTyped DEF Maps
  <1>2. Pinned(Kept(b), Kept(q), o)
    BY KeptPins DEF Maps, Pinned
  <1>3. ASSUME NEW k \in DOMAIN Kept(q)
        PROVE  \E p \in DOMAIN Kept(b) :
                  PeerPrefix[p] = k /\ (Kept(q)[k].touched <= Kept(b)[p].touched \/ Kept(b)[p].owners > 0)
    <2>1. k \in DOMAIN q /\ LiveBucket(q[k]) /\ Kept(q)[k] = q[k]
      BY <1>3, KeptIs
    <2>2. PICK p \in DOMAIN b : PeerPrefix[p] = k /\ (q[k].touched <= b[p].touched \/ b[p].owners > 0)
      BY <2>1 DEF Maps, Covered
    <2>3. CASE b[p].owners > 0
      BY <2>1, <2>2, <2>3, KeptIs DEF LiveBucket
    <2>4. CASE q[k].owners > 0
      <3>1. PICK c \in DOMAIN o : PeerPrefix[o[c]] = k
        BY <2>1, <2>4, PinnedHasOwner
      <3>2. o[c] \in DOMAIN b /\ b[o[c]].owners > 0
        BY OwnersThere
      <3> QED
        BY <2>1, <3>1, <3>2, KeptIs DEF LiveBucket
    <2>5. CASE ~(b[p].owners > 0) /\ ~(q[k].owners > 0)
      <3>1. q[k].touched <= b[p].touched /\ now - q[k].touched < IdleTtl
        BY <2>1, <2>2, <2>5 DEF LiveBucket
      <3>2. q[k] \in Bkts(Multiplier, now) /\ b[p] \in Bkts(1, now) /\ now \in Nat
        BY <2>1, <2>2 DEF Maps, Typed
      <3>4. q[k].touched \in Nat /\ b[p].touched \in Nat
        BY <3>2 DEF Bkts
      <3>3. now - b[p].touched < IdleTtl
        BY <3>1, <3>2, <3>4, LimiterAssumption
      <3> QED
        BY <2>1, <2>2, <3>1, <3>3, KeptIs DEF LiveBucket
    <2> QED
      BY <2>3, <2>4, <2>5
  <1>4. Cardinality(DOMAIN Kept(b)) <= MaxBuckets
    <2>1. IsFiniteSet(DOMAIN b) /\ DOMAIN Kept(b) \subseteq DOMAIN b
      BY KeptIs, FS_Subset, LimiterAssumption DEF Maps, Typed
    <2>2. /\ Cardinality(DOMAIN Kept(b)) <= Cardinality(DOMAIN b)
          /\ Cardinality(DOMAIN Kept(b)) \in Nat /\ Cardinality(DOMAIN b) \in Nat
      BY <2>1, FS_Subset, FS_CardinalityType
    <2> QED
      BY <2>2, LimiterAssumption DEF Maps
  <1> QED
    BY <1>1, <1>2, <1>3, <1>4 DEF Maps, Covered

-----------------------------------------------------------------------------
(* A new entry for an address and one for its prefix. *)

LEMMA WithTyped ==
    ASSUME NEW map, NEW keys, NEW t, NEW n \in Nat, Typed(map, keys, t, n),
           NEW k \in keys, NEW x \in Bkts(t, n), x.touched = n
    PROVE  Typed(With(map, k, x), keys, t, n)
  <1>1. x.refilled <= x.touched
    BY DEF Bkts
  <1>2. DOMAIN map \subseteq keys /\ \A j \in DOMAIN map : map[j] \in Bkts(t, n) /\ map[j].refilled <= map[j].touched
    BY DEF Typed
  <1>3. PICK W : W = With(map, k, x)
    OBVIOUS
  <1>4. DOMAIN W = DOMAIN map \cup {k} /\ W[k] = x /\ \A j \in DOMAIN map : j # k => W[j] = map[j]
    BY <1>3 DEF With
  <1>5. W \in [DOMAIN W -> Bkts(t, n)]
    BY <1>2, <1>3 DEF With
  <1>6. \A j \in DOMAIN W : W[j].refilled <= W[j].touched
    BY <1>1, <1>2, <1>4
  <1>7. Typed(W, keys, t, n)
    BY <1>2, <1>4, <1>5, <1>6 DEF Typed
  <1> QED
    BY <1>3, <1>7

LEMMA WithPins ==
    ASSUME NEW map, NEW k, NEW x, NEW j
    PROVE  PinsOf(With(map, k, x), j) = IF j = k THEN x.owners ELSE PinsOf(map, j)
  <1>1. PICK W : W = With(map, k, x)
    OBVIOUS
  <1>2. DOMAIN W = DOMAIN map \cup {k} /\ W[k] = x /\ \A i \in DOMAIN map : i # k => W[i] = map[i]
    BY <1>1 DEF With
  <1>3. PinsOf(W, j) = IF j = k THEN x.owners ELSE PinsOf(map, j)
    BY <1>2 DEF PinsOf
  <1> QED
    BY <1>1, <1>3

LEMMA WithCovered ==
    ASSUME NEW b, NEW q, Covered(b, q), NEW p, NEW x, NEW y, NEW n \in Nat, x.touched = n, y.touched = n
    PROVE  Covered(With(b, p, x), With(q, PeerPrefix[p], y))
  <1>1. PICK W : W = With(b, p, x)
    OBVIOUS
  <1>2. DOMAIN W = DOMAIN b \cup {p} /\ W[p] = x /\ \A r \in DOMAIN b : r # p => W[r] = b[r]
    BY <1>1 DEF With
  <1>3. PICK V : V = With(q, PeerPrefix[p], y)
    OBVIOUS
  <1>4. /\ DOMAIN V = DOMAIN q \cup {PeerPrefix[p]} /\ V[PeerPrefix[p]] = y
        /\ \A k \in DOMAIN q : k # PeerPrefix[p] => V[k] = q[k]
    BY <1>3 DEF With
  <1>5. ASSUME NEW k \in DOMAIN V
        PROVE  \E r \in DOMAIN W : PeerPrefix[r] = k /\ (V[k].touched <= W[r].touched \/ W[r].owners > 0)
    <2>1. CASE k = PeerPrefix[p]
      <3>1. p \in DOMAIN W /\ V[k].touched = n /\ W[p].touched = n
        BY <1>2, <1>4, <2>1
      <3>2. V[k].touched <= W[p].touched
        BY <3>1
      <3> QED
        BY <2>1, <3>1, <3>2
    <2>2. CASE k # PeerPrefix[p]
      <3>1. k \in DOMAIN q /\ V[k] = q[k]
        BY <1>4, <1>5, <2>2
      <3>2. PICK r \in DOMAIN b : PeerPrefix[r] = k /\ (q[k].touched <= b[r].touched \/ b[r].owners > 0)
        BY <3>1 DEF Covered
      <3>3. r \in DOMAIN W /\ W[r] = b[r]
        BY <1>2, <2>2, <3>2
      <3> QED
        BY <3>1, <3>2, <3>3
    <2> QED
      BY <2>1, <2>2
  <1>6. Covered(W, V)
    BY <1>5 DEF Covered
  <1> QED
    BY <1>1, <1>3, <1>6

\* The size of the map after an entry went in where there was room.
LEMMA WithRoom ==
    ASSUME NEW b, DOMAIN b \subseteq Peers, Cardinality(DOMAIN b) <= MaxBuckets,
           NEW p \in Peers, Room(b, p), NEW x
    PROVE  Cardinality(DOMAIN With(b, p, x)) <= MaxBuckets
  <1>1. IsFiniteSet(DOMAIN b)
    BY FS_Subset, LimiterAssumption
  <1>2. Cardinality(DOMAIN b) \in Nat
    BY <1>1, FS_CardinalityType
  <1>3. Cardinality(DOMAIN b \cup {p}) = IF p \in DOMAIN b THEN Cardinality(DOMAIN b) ELSE Cardinality(DOMAIN b) + 1
    BY <1>1, FS_AddElement
  <1> QED
    BY <1>2, <1>3, LimiterAssumption DEF Room, With

LEMMA WithMaps ==
    ASSUME NEW b, NEW q, NEW o, NEW n, Maps(b, q, o, n), NEW p \in Peers, Room(b, p),
           NEW x \in Bkts(1, n), x.touched = n, NEW y \in Bkts(Multiplier, n), y.touched = n,
           NEW w, Owning(w),
           x.owners = Cardinality(PeerPins(w, p)),
           y.owners = Cardinality(PrefixPins(w, PeerPrefix[p])),
           \A r \in Peers \ {p} : PeerPins(w, r) = PeerPins(o, r),
           \A k \in PeerPrefixes \ {PeerPrefix[p]} : PrefixPins(w, k) = PrefixPins(o, k)
    PROVE  Maps(With(b, p, x), With(q, PeerPrefix[p], y), w, n)
  <1>1. PeerPrefix[p] \in PeerPrefixes /\ n \in Nat
    BY DEF PeerPrefixes, Maps
  <1>2. Typed(With(b, p, x), Peers, 1, n) /\ Typed(With(q, PeerPrefix[p], y), PeerPrefixes, Multiplier, n)
    BY <1>1, WithTyped DEF Maps
  <1>3. Pinned(With(b, p, x), With(q, PeerPrefix[p], y), w)
    <2>1. ASSUME NEW r \in Peers
          PROVE  PinsOf(With(b, p, x), r) = Cardinality(PeerPins(w, r))
      BY WithPins DEF Maps, Pinned
    <2>2. ASSUME NEW k \in PeerPrefixes
          PROVE  PinsOf(With(q, PeerPrefix[p], y), k) = Cardinality(PrefixPins(w, k))
      BY WithPins DEF Maps, Pinned
    <2> QED
      BY <2>1, <2>2 DEF Pinned
  <1>4. Covered(With(b, p, x), With(q, PeerPrefix[p], y))
    BY <1>1, WithCovered DEF Maps
  <1>5. Cardinality(DOMAIN With(b, p, x)) <= MaxBuckets
    BY WithRoom DEF Maps, Typed
  <1> QED
    BY <1>1, <1>2, <1>3, <1>4, <1>5 DEF Maps

\* Where an address has room its prefix has: an entry of the prefix map is
\* the prefix of some address with an entry.
LEMMA PrefixRoom ==
    ASSUME NEW b, NEW q, NEW o, NEW n, Maps(b, q, o, n), NEW p \in Peers, Room(b, p)
    PROVE  Room(q, PeerPrefix[p])
  <1> SUFFICES ASSUME PeerPrefix[p] \notin DOMAIN q
               PROVE  Cardinality(DOMAIN q) < MaxBuckets
    BY DEF Room
  <1> DEFINE A == DOMAIN b \ {p}
             f == [k \in DOMAIN q |-> CHOOSE r \in A : PeerPrefix[r] = k]
  <1>1. IsFiniteSet(DOMAIN b)
    BY FS_Subset, LimiterAssumption DEF Maps, Typed
  <1>2. Cardinality(DOMAIN b) \in Nat
    BY <1>1, FS_CardinalityType
  <1>3. IsFiniteSet(A) /\ Cardinality(A) = IF p \in DOMAIN b THEN Cardinality(DOMAIN b) - 1 ELSE Cardinality(DOMAIN b)
    BY <1>1, FS_RemoveElement
  <1>4. Cardinality(A) < MaxBuckets
    BY <1>2, <1>3, LimiterAssumption DEF Room, Maps
  <1>5. \A k \in DOMAIN q : \E r \in A : PeerPrefix[r] = k
    BY DEF Maps, Covered
  <1>6. \A k \in DOMAIN q : f[k] \in A /\ PeerPrefix[f[k]] = k
    BY <1>5
  <1>7. f \in Injection(DOMAIN q, A)
    BY <1>6 DEF Injection, IsInjective
  <1>8. IsFiniteSet(DOMAIN q) /\ Cardinality(DOMAIN q) <= Cardinality(A)
    BY <1>3, <1>7, FS_Injection
  <1>9. Cardinality(DOMAIN q) \in Nat /\ Cardinality(A) \in Nat
    BY <1>3, <1>8, FS_CardinalityType
  <1> HIDE DEF A
  <1> QED
    BY <1>4, <1>8, <1>9, LimiterAssumption

-----------------------------------------------------------------------------
(* Arithmetic of the refill. *)

LEMMA Larger ==
    ASSUME NEW z \in Nat, NEW x \in Nat, NEW y \in Nat, x <= y
    PROVE  x * z <= y * z
  <1>1. y * z = x * z + (y - x) * z /\ y - x \in Nat
    OBVIOUS
  <1>2. (y - x) * z \in Nat /\ x * z \in Nat
    BY <1>1, Times
  <1> QED
    BY <1>1, <1>2

LEMMA Quotient ==
    ASSUME NEW x \in Nat, NEW s \in Nat \ {0}
    PROVE  x \div s \in Nat /\ (x \div s) * s <= x
  OBVIOUS

LEMMA FlowType ==
    ASSUME NEW t \in Nat
    PROVE  Flow(t) \in Nat /\ TopOf(t) \in Nat /\ RateScale * Second \in Nat \ {0}
  <1>1. Rate * t \in Nat /\ Burst * t \in Nat /\ RateScale \in Nat
    BY Times, LimiterAssumption
  <1>2. RateScale * Second # 0
    BY LimiterAssumption
  <1> QED
    BY <1>1, <1>2, Times, LimiterAssumption DEF Flow, TopOf

\* A refill brings no more than the time since the last one.
LEMMA RefillPays ==
    ASSUME NEW tok \in Nat, NEW top \in Nat, NEW ref \in Nat, NEW n \in Nat, NEW f \in Nat,
           NEW d \in Nat, NEW s \in Nat \ {0}, NEW v \in Nat,
           ref <= n, v <= tok + ((n - ref) * f) \div s,
           tok * s + d <= top * s + ref * f
    PROVE  v * s + d <= top * s + n * f
  <1>1. n - ref \in Nat
    OBVIOUS
  <1>2. PICK m \in Nat : m = ((n - ref) * f) \div s /\ m * s <= (n - ref) * f
    BY <1>1, Times, Quotient
  <1>3. v * s <= (tok + m) * s
    BY <1>2, Larger
  <1>4. (tok + m) * s = tok * s + m * s
    BY <1>2
  <1>5. n * f = ref * f + (n - ref) * f
    OBVIOUS
  <1>6. /\ v * s \in Nat /\ tok * s \in Nat /\ m * s \in Nat /\ top * s \in Nat
        /\ n * f \in Nat /\ ref * f \in Nat /\ (n - ref) * f \in Nat
    BY <1>1, <1>2, Times
  <1> QED
    BY <1>2, <1>3, <1>4, <1>5, <1>6

\* After the idle time a bucket would be full again.
LEMMA IdlePays ==
    ASSUME NEW t \in Nat, NEW i \in Nat, i >= IdleTtl, IdleRefillsAll
    PROVE  TopOf(t) * Second <= i * Flow(t)
  <1>1. Burst * Second <= i * Rate
    <2>1. IdleTtl * Rate <= i * Rate
      BY Larger, LimiterAssumption
    <2>2. IdleTtl * Rate \in Nat /\ i * Rate \in Nat /\ Burst * Second \in Nat
      BY Times, LimiterAssumption
    <2> QED
      BY <2>1, <2>2 DEF IdleRefillsAll
  <1>2. t * RateScale \in Nat /\ Burst * Second \in Nat /\ i * Rate \in Nat
    BY Times, LimiterAssumption
  <1>3. (Burst * Second) * (t * RateScale) <= (i * Rate) * (t * RateScale)
    BY <1>1, <1>2, Larger
  <1>4. TopOf(t) * Second = (Burst * Second) * (t * RateScale)
    BY LimiterAssumption DEF TopOf
  <1>5. i * Flow(t) = (i * Rate) * (t * RateScale)
    BY LimiterAssumption DEF Flow
  <1> QED
    BY <1>3, <1>4, <1>5

\* The bound on the checks admitted, without the fixed-point scale.
LEMMA ScaledBound ==
    ASSUME NEW t \in Nat, NEW d \in Nat, NEW n \in Nat,
           d * (RateScale * Second) <= TopOf(t) * Second + n * Flow(t)
    PROVE  d * Second <= t * (Burst * Second + n * Rate)
  <1> DEFINE A == d * Second
             B == t * (Burst * Second + n * Rate)
  <1>1. Burst * Second \in Nat /\ n * Rate \in Nat
    BY Times, LimiterAssumption
  <1>2. A \in Nat /\ B \in Nat
    BY <1>1, Times, LimiterAssumption
  <1>3. d * (RateScale * Second) = A * RateScale
    BY LimiterAssumption
  <1>4. TopOf(t) * Second + n * Flow(t) = B * RateScale
    BY LimiterAssumption DEF TopOf, Flow
  <1>5. A * RateScale <= B * RateScale
    BY <1>3, <1>4
  <1> HIDE DEF A, B
  <1>6. ASSUME A > B
        PROVE  FALSE
    <2>1. A * RateScale = B * RateScale + (A - B) * RateScale /\ A - B \in Nat \ {0}
      BY <1>2, <1>6, LimiterAssumption
    <2>2. (A - B) * RateScale \in Nat /\ B * RateScale \in Nat
      BY <1>2, <2>1, Times, LimiterAssumption
    <2>3. (A - B) * RateScale # 0
      BY <2>1, LimiterAssumption
    <2> QED
      BY <1>5, <2>1, <2>2, <2>3
  <1>7. A <= B
    BY <1>2, <1>6
  <1> QED
    BY <1>7 DEF A, B

-----------------------------------------------------------------------------
(* Entries. *)

LEMMA NewIs ==
    ASSUME NEW t \in Nat, now \in Nat
    PROVE  /\ NewBucket(t) \in Bkts(t, now) /\ NewBucket(t).touched = now /\ NewBucket(t).owners = 0
           /\ NewBucket(t).tokens = TopOf(t) /\ NewBucket(t).refilled = now
  <1>1. TopOf(t) \in Nat
    BY FlowType
  <1>2. NewBucket(t) = [tokens |-> TopOf(t), refilled |-> now, owners |-> 0, touched |-> now]
    BY DEF NewBucket, TopOf
  <1> QED
    BY <1>1, <1>2 DEF Bkts

LEMMA TouchIs ==
    ASSUME NEW t, now \in Nat, NEW x \in Bkts(t, now)
    PROVE  /\ Touch(x) \in Bkts(t, now) /\ Touch(x).touched = now /\ Touch(x).owners = x.owners
           /\ Touch(x).tokens = x.tokens /\ Touch(x).refilled = x.refilled
  BY DEF Touch, Bkts

LEMMA OwnersIs ==
    ASSUME NEW t, now \in Nat, NEW x \in Bkts(t, now), NEW m \in Nat
    PROVE  LET y == Touch([x EXCEPT !.owners = m])
           IN  /\ y \in Bkts(t, now) /\ y.touched = now /\ y.owners = m
               /\ y.tokens = x.tokens /\ y.refilled = x.refilled
  <1>0. PICK tok, ref, own, tch : tok = x.tokens /\ ref = x.refilled /\ own = x.owners /\ tch = x.touched
    OBVIOUS
  <1>1. /\ tok \in 0..TopOf(t) /\ ref \in 0..now /\ own \in Nat /\ tch \in 0..now
        /\ x = [tokens |-> tok, refilled |-> ref, owners |-> own, touched |-> tch]
    BY <1>0 DEF Bkts
  <1>3. PICK z : z = [x EXCEPT !.owners = m]
    OBVIOUS
  <1>4. z = [tokens |-> tok, refilled |-> ref, owners |-> m, touched |-> tch]
    BY <1>1, <1>3
  <1>5. Touch(z) = [tokens |-> tok, refilled |-> ref, owners |-> m, touched |-> now]
    BY <1>4 DEF Touch
  <1>2. Touch([x EXCEPT !.owners = m]) = [tokens |-> tok, refilled |-> ref, owners |-> m, touched |-> now]
    BY <1>3, <1>5
  <1> QED
    BY <1>1, <1>2 DEF Bkts

LEMMA EnsuredIs ==
    ASSUME NEW t \in Nat, now \in Nat, NEW map, NEW keys, Typed(map, keys, t, now), NEW k
    PROVE  /\ Ensured(map, k, t) \in Bkts(t, now) /\ Ensured(map, k, t).owners = PinsOf(map, k)
  <1>1. CASE k \in DOMAIN map
    <2>1. Ensured(map, k, t) = map[k] /\ map[k] \in Bkts(t, now)
      BY <1>1 DEF Ensured, Typed
    <2> QED
      BY <1>1, <2>1 DEF PinsOf
  <1>2. CASE k \notin DOMAIN map
    <2>1. Ensured(map, k, t) = NewBucket(t)
      BY <1>2 DEF Ensured
    <2> QED
      BY <1>2, <2>1, NewIs DEF PinsOf
  <1> QED
    BY <1>1, <1>2

LEMMA RefilledIs ==
    ASSUME NEW t \in Nat, now \in Nat, NEW x \in Bkts(t, now)
    PROVE  /\ Refilled(x, t) \in Bkts(t, now)
           /\ Refilled(x, t).owners = x.owners /\ Refilled(x, t).touched = x.touched
           /\ Refilled(x, t).tokens >= x.tokens
           /\ \A d \in Nat : Settled(x, d, t) => Settled(Refilled(x, t), d, t)
  <1>0. PICK tok, ref, own, tch : tok = x.tokens /\ ref = x.refilled /\ own = x.owners /\ tch = x.touched
    OBVIOUS
  <1>1. /\ tok \in 0..TopOf(t) /\ ref \in 0..now /\ own \in Nat /\ tch \in 0..now
        /\ x = [tokens |-> tok, refilled |-> ref, owners |-> own, touched |-> tch]
    BY <1>0 DEF Bkts
  <1>2. Flow(t) \in Nat /\ TopOf(t) \in Nat /\ now - ref \in Nat /\ Second \in Nat \ {0}
    BY <1>1, FlowType, LimiterAssumption
  <1>3. PICK m \in Nat : m = ((now - ref) * Flow(t)) \div Second
    BY <1>2, Times, Quotient
  <1>4. ((now - ref) * Rate * t * RateScale) = (now - ref) * Flow(t)
    BY <1>2, LimiterAssumption DEF Flow
  <1>5. PICK v : v = (IF tok + m > TopOf(t) THEN TopOf(t) ELSE tok + m)
    OBVIOUS
  <1>6. v \in 0..TopOf(t) /\ v >= tok /\ v <= tok + m
    BY <1>1, <1>2, <1>3, <1>5
  <1>12. x = [tokens |-> tok, refilled |-> ref, owners |-> own, touched |-> tch]
    BY <1>1
  <1>10. [x EXCEPT !.tokens = v, !.refilled = now] = [tokens |-> v, refilled |-> now, owners |-> own, touched |-> tch]
    <2> DEFINE F == [k \in DOMAIN x |-> IF k = "refilled" THEN now ELSE IF k = "tokens" THEN v ELSE x[k]]
    <2>1. [x EXCEPT !.tokens = v, !.refilled = now] = F
      OBVIOUS
    <2>2. [tokens |-> v, refilled |-> now, owners |-> own, touched |-> tch] = F
      BY <1>12
    <2> QED
      BY <2>1, <2>2
  <1>11. Refilled(x, t) = IF m = 0 THEN x ELSE [x EXCEPT !.tokens = v, !.refilled = now]
    BY <1>0, <1>3, <1>4, <1>5 DEF Refilled, TopOf
  <1>7. Refilled(x, t) = IF m = 0 THEN x ELSE [tokens |-> v, refilled |-> now, owners |-> own, touched |-> tch]
    BY <1>10, <1>11
  <1>8. CASE m = 0
    BY <1>1, <1>2, <1>7, <1>8
  <1>9. CASE m # 0
    <2>1. PICK y : y = [tokens |-> v, refilled |-> now, owners |-> own, touched |-> tch]
      OBVIOUS
    <2>2. y \in Bkts(t, now) /\ y.owners = own /\ y.touched = tch /\ y.tokens = v /\ y.refilled = now
      BY <1>1, <1>6, <2>1 DEF Bkts
    <2>3. ASSUME NEW d \in Nat, Settled(x, d, t)
          PROVE  Settled(y, d, t)
      <3>1. tok * Second + d * (RateScale * Second) <= TopOf(t) * Second + ref * Flow(t)
        BY <1>1, <2>3 DEF Settled
      <3>2. d * (RateScale * Second) \in Nat
        BY FlowType, Times
      <3>3. v * Second + d * (RateScale * Second) <= TopOf(t) * Second + now * Flow(t)
        <4>1. tok \in Nat /\ ref \in Nat /\ v \in Nat /\ ref <= now
          BY <1>1, <1>2, <1>6
        <4> QED
          BY <1>2, <1>3, <1>6, <3>1, <3>2, <4>1, RefillPays
      <3> QED
        BY <2>2, <3>3 DEF Settled
    <2>4. Refilled(x, t) = y
      BY <1>7, <1>9, <2>1
    <2> QED
      BY <1>1, <1>6, <2>2, <2>3, <2>4
  <1> QED
    BY <1>8, <1>9

LEMMA ChargedIs ==
    ASSUME NEW t \in Nat, now \in Nat, NEW x \in Bkts(t, now), HasToken(x)
    PROVE  /\ Charged(TRUE, x) \in Bkts(t, now)
           /\ Charged(TRUE, x).owners = x.owners /\ Charged(TRUE, x).touched = x.touched
           /\ \A d \in Nat : Settled(x, d, t) => Settled(Charged(TRUE, x), d + 1, t)
  <1>0. PICK tok, ref, own, tch : tok = x.tokens /\ ref = x.refilled /\ own = x.owners /\ tch = x.touched
    OBVIOUS
  <1>1. /\ tok \in 0..TopOf(t) /\ ref \in 0..now /\ own \in Nat /\ tch \in 0..now
        /\ x = [tokens |-> tok, refilled |-> ref, owners |-> own, touched |-> tch]
    BY <1>0 DEF Bkts
  <1>2. TopOf(t) \in Nat /\ RateScale \in Nat
    BY FlowType, LimiterAssumption
  <1>3. tok >= RateScale
    BY <1>1 DEF HasToken
  <1>9. PICK v : v = tok - RateScale
    OBVIOUS
  <1>4. Charged(TRUE, x) = [tokens |-> v, refilled |-> ref, owners |-> own, touched |-> tch]
    BY <1>1, <1>2, <1>3, <1>9 DEF Charged, Max2
  <1>5. v \in 0..TopOf(t)
    BY <1>1, <1>2, <1>3, <1>9
  <1>6. PICK y : y = Charged(TRUE, x)
    OBVIOUS
  <1>10. y = [tokens |-> v, refilled |-> ref, owners |-> own, touched |-> tch]
    BY <1>4, <1>6
  <1>11. ref \in 0..now /\ own \in Nat /\ tch \in 0..now
    BY <1>1
  <1>7. y \in Bkts(t, now) /\ y.owners = own /\ y.touched = tch /\ y.tokens = v /\ y.refilled = ref
    BY <1>5, <1>10, <1>11 DEF Bkts
  <1>8. ASSUME NEW d \in Nat, Settled(x, d, t)
        PROVE  Settled(y, d + 1, t)
    <2>1. tok * Second + d * (RateScale * Second) <= TopOf(t) * Second + ref * Flow(t)
      BY <1>1, <1>8 DEF Settled
    <2>2. (tok - RateScale) * Second + (d + 1) * (RateScale * Second) = tok * Second + d * (RateScale * Second)
      BY <1>1, <1>2, LimiterAssumption
    <2> QED
      BY <1>7, <1>9, <2>1, <2>2 DEF Settled
  <1> QED
    BY <1>1, <1>6, <1>7, <1>8

-----------------------------------------------------------------------------
(* What is admitted is paid for. *)

LEMMA EvictionPays ==
    ASSUME now \in Nat, NEW t \in Nat, NEW x \in Bkts(t, now), x.refilled <= x.touched,
           ~LiveBucket(x), IdleRefillsAll, NEW d \in Nat, Settled(x, d, t)
    PROVE  Waited(d, t, now)
  <1>1. PICK tok, ref, tch : tok = x.tokens /\ ref = x.refilled /\ tch = x.touched
    OBVIOUS
  <1>2. tok \in Nat /\ ref \in Nat /\ tch \in Nat
    BY <1>1, FlowType DEF Bkts
  <1>3. ref <= tch /\ now - tch >= IdleTtl
    <2>1. ~(now - tch < IdleTtl) /\ ref <= tch
      BY <1>1 DEF LiveBucket
    <2> QED
      BY <1>2, <2>1, LimiterAssumption
  <1>4. PICK i \in Nat : i = now - ref /\ i >= IdleTtl
    BY <1>2, <1>3, LimiterAssumption
  <1>5. TopOf(t) * Second <= i * Flow(t)
    BY <1>4, IdlePays
  <1>6. tok * Second + d * (RateScale * Second) <= TopOf(t) * Second + ref * Flow(t)
    BY <1>1 DEF Settled
  <1>7. now * Flow(t) = i * Flow(t) + ref * Flow(t)
    BY <1>2, <1>4, FlowType
  <1>8. /\ tok * Second \in Nat /\ d * (RateScale * Second) \in Nat /\ TopOf(t) * Second \in Nat
        /\ ref * Flow(t) \in Nat /\ i * Flow(t) \in Nat
    BY <1>2, <1>4, Times, FlowType, LimiterAssumption
  <1> QED
    BY <1>5, <1>6, <1>7, <1>8 DEF Waited

LEMMA EvictedPaid ==
    ASSUME now \in Nat, NEW t \in Nat, NEW map, NEW keys, Typed(map, keys, t, now),
           NEW done \in [keys -> Nat], IdleRefillsAll, PaidFor(map, keys, done, t, now)
    PROVE  PaidFor(Kept(map), keys, done, t, now)
  <1> SUFFICES ASSUME NEW k \in keys
               PROVE  IF k \in DOMAIN Kept(map) THEN Settled(Kept(map)[k], done[k], t) ELSE Waited(done[k], t, now)
    BY DEF PaidFor
  <1>1. done[k] \in Nat /\ IF k \in DOMAIN map THEN Settled(map[k], done[k], t) ELSE Waited(done[k], t, now)
    BY DEF PaidFor
  <1>2. CASE k \notin DOMAIN map
    BY <1>1, <1>2, KeptIs
  <1>3. CASE k \in DOMAIN map /\ LiveBucket(map[k])
    BY <1>1, <1>3, KeptIs
  <1>4. CASE k \in DOMAIN map /\ ~LiveBucket(map[k])
    <2>1. map[k] \in Bkts(t, now) /\ map[k].refilled <= map[k].touched
      BY <1>4 DEF Typed
    <2>2. Waited(done[k], t, now)
      BY <1>1, <1>4, <2>1, EvictionPays
    <2> QED
      BY <1>4, <2>2, KeptIs
  <1> QED
    BY <1>2, <1>3, <1>4

LEMMA EnsuredPaid ==
    ASSUME now \in Nat, NEW t \in Nat, NEW map, NEW keys,
           NEW done \in [keys -> Nat], PaidFor(map, keys, done, t, now), NEW k \in keys
    PROVE  Settled(Ensured(map, k, t), done[k], t)
  <1>1. CASE k \in DOMAIN map
    BY <1>1 DEF Ensured, PaidFor
  <1>2. CASE k \notin DOMAIN map
    <2>1. Waited(done[k], t, now) /\ Ensured(map, k, t) = NewBucket(t)
      BY <1>2 DEF Ensured, PaidFor
    <2>2. NewBucket(t).tokens = TopOf(t) /\ NewBucket(t).refilled = now
      BY NewIs
    <2>3. TopOf(t) * Second \in Nat /\ done[k] * (RateScale * Second) \in Nat /\ now * Flow(t) \in Nat
      BY Times, FlowType, LimiterAssumption
    <2>4. TopOf(t) * Second + done[k] * (RateScale * Second) <= TopOf(t) * Second + now * Flow(t)
      BY <2>1, <2>3 DEF Waited
    <2> QED
      BY <2>1, <2>2, <2>4 DEF Settled
  <1> QED
    BY <1>1, <1>2

LEMMA WithPaid ==
    ASSUME NEW n, NEW t, NEW map, NEW keys, NEW done, NEW more,
           PaidFor(map, keys, done, t, n), NEW k \in keys,
           \A j \in keys \ {k} : more[j] = done[j], NEW x, Settled(x, more[k], t)
    PROVE  PaidFor(With(map, k, x), keys, more, t, n)
  <1>1. PICK W : W = With(map, k, x)
    OBVIOUS
  <1>2. DOMAIN W = DOMAIN map \cup {k} /\ W[k] = x /\ \A j \in DOMAIN map : j # k => W[j] = map[j]
    BY <1>1 DEF With
  <1>3. ASSUME NEW j \in keys
        PROVE  IF j \in DOMAIN W THEN Settled(W[j], more[j], t) ELSE Waited(more[j], t, n)
    BY <1>2 DEF PaidFor
  <1> QED
    BY <1>1, <1>3 DEF PaidFor

\* A bucket a check is about to judge.
LEMMA ReadyIs ==
    ASSUME now \in Nat, NEW t \in Nat, NEW map, NEW keys, Typed(map, keys, t, now), NEW k \in keys
    PROVE  /\ Ready(map, k, t) \in Bkts(t, now)
           /\ Ready(map, k, t).owners = PinsOf(map, k) /\ Ready(map, k, t).touched = now
           /\ \A done \in [keys -> Nat] :
                 IdleRefillsAll /\ PaidFor(map, keys, done, t, now) => Settled(Ready(map, k, t), done[k], t)
           /\ k \in DOMAIN map => Ready(map, k, t).tokens >= map[k].tokens
  <1>1. Typed(Kept(map), keys, t, now) /\ PinsOf(Kept(map), k) = PinsOf(map, k)
    BY KeptTyped, KeptPins
  <1>2. PICK x : x = Ensured(Kept(map), k, t)
    OBVIOUS
  <1>3. x \in Bkts(t, now) /\ x.owners = PinsOf(map, k)
    BY <1>1, <1>2, EnsuredIs
  <1>4. PICK y : y = Touch(x)
    OBVIOUS
  <1>5. y \in Bkts(t, now) /\ y.touched = now /\ y.owners = x.owners /\ y.tokens = x.tokens /\ y.refilled = x.refilled
    BY <1>3, <1>4, TouchIs
  <1>6. PICK z : z = Refilled(y, t)
    OBVIOUS
  <1>7. /\ z \in Bkts(t, now) /\ z.owners = y.owners /\ z.touched = y.touched /\ z.tokens >= y.tokens
        /\ \A d \in Nat : Settled(y, d, t) => Settled(z, d, t)
    BY <1>5, <1>6, RefilledIs
  <1>8. Ready(map, k, t) = z
    BY <1>2, <1>4, <1>6 DEF Ready
  <1>9. ASSUME NEW done \in [keys -> Nat], IdleRefillsAll, PaidFor(map, keys, done, t, now)
        PROVE  Settled(z, done[k], t)
    <2>1. PaidFor(Kept(map), keys, done, t, now)
      BY <1>9, EvictedPaid
    <2>2. Settled(x, done[k], t)
      BY <1>2, <2>1, EnsuredPaid
    <2>3. Settled(y, done[k], t)
      BY <1>5, <2>2 DEF Settled
    <2> QED
      BY <1>7, <2>3
  <1>10. ASSUME k \in DOMAIN map
         PROVE  z.tokens >= map[k].tokens
    <2>1. x = map[k] \/ x = NewBucket(t)
      BY <1>2, KeptIs DEF Ensured
    <2>2. map[k].tokens \in 0..TopOf(t) /\ TopOf(t) \in Nat
      BY <1>10, FlowType DEF Typed, Bkts
    <2>3. x.tokens = map[k].tokens \/ x.tokens = TopOf(t)
      BY <2>1, NewIs
    <2>4. x.tokens >= map[k].tokens
      BY <2>2, <2>3
    <2>5. z.tokens \in Nat /\ y.tokens \in Nat
      BY <1>5, <1>7, <2>2 DEF Bkts
    <2> QED
      BY <1>5, <1>7, <2>2, <2>4, <2>5
  <1> QED
    BY <1>3, <1>5, <1>7, <1>8, <1>9, <1>10

-----------------------------------------------------------------------------
(* Pins come and go. *)

LEMMA MoreIs ==
    ASSUME now \in Nat, NEW t \in Nat, NEW map, NEW keys, Typed(map, keys, t, now), NEW k
    PROVE  \E x \in Bkts(t, now) :
             /\ More(map, k, t) = With(map, k, x) /\ x.touched = now /\ x.owners = PinsOf(map, k) + 1
             /\ x.tokens = Ensured(map, k, t).tokens /\ x.refilled = Ensured(map, k, t).refilled
  <1>1. PICK e : e = Ensured(map, k, t)
    OBVIOUS
  <1>2. e \in Bkts(t, now) /\ e.owners = PinsOf(map, k)
    BY <1>1, EnsuredIs
  <1>3. PICK m \in Nat : m = e.owners + 1
    BY <1>2 DEF Bkts
  <1>4. PICK x : x = Touch([e EXCEPT !.owners = m])
    OBVIOUS
  <1>5. x \in Bkts(t, now) /\ x.touched = now /\ x.owners = m /\ x.tokens = e.tokens /\ x.refilled = e.refilled
    BY <1>2, <1>4, OwnersIs
  <1>6. More(map, k, t) = With(map, k, x)
    BY <1>1, <1>3, <1>4 DEF More
  <1> QED
    BY <1>1, <1>2, <1>3, <1>5, <1>6

LEMMA FewerIs ==
    ASSUME now \in Nat, NEW t \in Nat, NEW map, NEW keys, Typed(map, keys, t, now),
           NEW k \in DOMAIN map, map[k].owners > 0
    PROVE  \E x \in Bkts(t, now) :
             /\ Fewer(map, k) = With(map, k, x) /\ x.touched = now /\ x.owners = PinsOf(map, k) - 1
             /\ x.tokens = map[k].tokens /\ x.refilled = map[k].refilled
  <1>1. PICK e : e = map[k]
    OBVIOUS
  <1>2. e \in Bkts(t, now) /\ e.owners = PinsOf(map, k)
    BY <1>1 DEF Typed, PinsOf
  <1>3. PICK m \in Nat : m = Max2(0, e.owners - 1) /\ m = e.owners - 1
    BY <1>1, <1>2 DEF Bkts, Max2
  <1>4. PICK x : x = Touch([e EXCEPT !.owners = m])
    OBVIOUS
  <1>5. x \in Bkts(t, now) /\ x.touched = now /\ x.owners = m /\ x.tokens = e.tokens /\ x.refilled = e.refilled
    BY <1>2, <1>4, OwnersIs
  <1>8. Unpinned(e) = x
    BY <1>3, <1>4 DEF Unpinned
  <1>6. Fewer(map, k) = [map EXCEPT ![k] = x]
    BY <1>1, <1>8 DEF Fewer
  <1>7. [map EXCEPT ![k] = x] = With(map, k, x)
    BY DEF With
  <1> QED
    BY <1>1, <1>2, <1>3, <1>5, <1>6, <1>7

LEMMA MoreMaps ==
    ASSUME NEW b, NEW q, NEW o, Maps(b, q, o, now), NEW p \in Peers, Room(b, p),
           NEW c \in LimitConns, c \notin DOMAIN o
    PROVE  Maps(More(b, p, 1), More(q, PeerPrefix[p], Multiplier), With(o, c, p), now)
  <1>1. now \in Nat /\ Typed(b, Peers, 1, now) /\ Typed(q, PeerPrefixes, Multiplier, now) /\ Owning(o)
    BY DEF Maps
  <1>2. PICK x \in Bkts(1, now) : More(b, p, 1) = With(b, p, x) /\ x.touched = now /\ x.owners = PinsOf(b, p) + 1
    BY <1>1, MoreIs
  <1>3. PICK y \in Bkts(Multiplier, now) :
          /\ More(q, PeerPrefix[p], Multiplier) = With(q, PeerPrefix[p], y)
          /\ y.touched = now /\ y.owners = PinsOf(q, PeerPrefix[p]) + 1
    <2>1. Multiplier \in Nat
      BY LimiterAssumption
    <2> QED
      BY <1>1, <2>1, MoreIs
  <1>4. PICK w : w = With(o, c, p)
    OBVIOUS
  <1>5. DOMAIN w = DOMAIN o \cup {c} /\ w[c] = p /\ \A d \in DOMAIN o : d # c => w[d] = o[d]
    BY <1>4 DEF With
  <1>6. Owning(w)
    <2>1. \A d \in DOMAIN w : w[d] \in Peers
      BY <1>1, <1>5 DEF Owning
    <2>2. w = [d \in DOMAIN w |-> w[d]]
      BY <1>4 DEF With
    <2> QED
      BY <1>1, <1>5, <2>1, <2>2 DEF Owning
  <1>7. PeerPins(w, p) = PeerPins(o, p) \cup {c} /\ c \notin PeerPins(o, p)
    BY <1>5 DEF PeerPins
  <1>8. PrefixPins(w, PeerPrefix[p]) = PrefixPins(o, PeerPrefix[p]) \cup {c} /\ c \notin PrefixPins(o, PeerPrefix[p])
    BY <1>5 DEF PrefixPins
  <1>9. x.owners = Cardinality(PeerPins(w, p)) /\ y.owners = Cardinality(PrefixPins(w, PeerPrefix[p]))
    <2>1. PeerPrefix[p] \in PeerPrefixes
      BY DEF PeerPrefixes
    <2>2. PinsOf(b, p) = Cardinality(PeerPins(o, p)) /\ PinsOf(q, PeerPrefix[p]) = Cardinality(PrefixPins(o, PeerPrefix[p]))
      BY <2>1 DEF Maps, Pinned
    <2>3. Cardinality(PeerPins(w, p)) = Cardinality(PeerPins(o, p)) + 1
      BY <1>1, <1>7, PinSets, FS_AddElement
    <2>4. Cardinality(PrefixPins(w, PeerPrefix[p])) = Cardinality(PrefixPins(o, PeerPrefix[p])) + 1
      BY <1>1, <1>8, PinSets, FS_AddElement
    <2> QED
      BY <1>2, <1>3, <2>2, <2>3, <2>4
  <1>10. /\ \A r \in Peers \ {p} : PeerPins(w, r) = PeerPins(o, r)
         /\ \A k \in PeerPrefixes \ {PeerPrefix[p]} : PrefixPins(w, k) = PrefixPins(o, k)
    BY <1>5 DEF PeerPins, PrefixPins
  <1>11. Maps(With(b, p, x), With(q, PeerPrefix[p], y), w, now)
    BY <1>2, <1>3, <1>6, <1>9, <1>10, WithMaps
  <1> QED
    BY <1>2, <1>3, <1>4, <1>11

LEMMA FewerMaps ==
    ASSUME NEW b, NEW q, NEW o, Maps(b, q, o, now), NEW c \in DOMAIN o
    PROVE  Maps(Fewer(b, o[c]), Fewer(q, PeerPrefix[o[c]]), Restrict(o, DOMAIN o \ {c}), now)
  <1>1. now \in Nat /\ Typed(b, Peers, 1, now) /\ Typed(q, PeerPrefixes, Multiplier, now) /\ Owning(o)
    BY DEF Maps
  <1>0. PICK p : p = o[c]
    OBVIOUS
  <1>12. /\ p \in Peers /\ p \in DOMAIN b /\ b[p].owners > 0
         /\ PeerPrefix[p] \in PeerPrefixes /\ PeerPrefix[p] \in DOMAIN q /\ q[PeerPrefix[p]].owners > 0
    BY <1>0, OwnersThere
  <1>2. PICK x \in Bkts(1, now) : Fewer(b, p) = With(b, p, x) /\ x.touched = now /\ x.owners = PinsOf(b, p) - 1
    BY <1>1, <1>12, FewerIs
  <1>3. PICK y \in Bkts(Multiplier, now) :
          /\ Fewer(q, PeerPrefix[p]) = With(q, PeerPrefix[p], y)
          /\ y.touched = now /\ y.owners = PinsOf(q, PeerPrefix[p]) - 1
    <2>1. Multiplier \in Nat
      BY LimiterAssumption
    <2> QED
      BY <1>1, <1>12, <2>1, FewerIs
  <1>4. PICK w : w = Restrict(o, DOMAIN o \ {c})
    OBVIOUS
  <1>5. DOMAIN w = DOMAIN o \ {c} /\ \A d \in DOMAIN w : w[d] = o[d]
    BY <1>4 DEF Restrict
  <1>6. Owning(w)
    <2>1. \A d \in DOMAIN w : w[d] \in Peers
      BY <1>1, <1>5 DEF Owning
    <2>2. w = [d \in DOMAIN w |-> w[d]]
      BY <1>4 DEF Restrict
    <2> QED
      BY <1>1, <1>5, <2>1, <2>2 DEF Owning
  <1>7. PeerPins(w, p) = PeerPins(o, p) \ {c} /\ c \in PeerPins(o, p)
    BY <1>0, <1>5 DEF PeerPins
  <1>8. PrefixPins(w, PeerPrefix[p]) = PrefixPins(o, PeerPrefix[p]) \ {c} /\ c \in PrefixPins(o, PeerPrefix[p])
    BY <1>0, <1>5 DEF PrefixPins
  <1>9. x.owners = Cardinality(PeerPins(w, p)) /\ y.owners = Cardinality(PrefixPins(w, PeerPrefix[p]))
    <2>2. PinsOf(b, p) = Cardinality(PeerPins(o, p)) /\ PinsOf(q, PeerPrefix[p]) = Cardinality(PrefixPins(o, PeerPrefix[p]))
      BY <1>12 DEF Maps, Pinned
    <2>3. Cardinality(PeerPins(w, p)) = Cardinality(PeerPins(o, p)) - 1
      <3>1. IsFiniteSet(PeerPins(o, p))
        BY <1>1, PinSets
      <3>. QED BY <1>7, <3>1, FS_RemoveElement, Zenon
    <2>4. Cardinality(PrefixPins(w, PeerPrefix[p])) = Cardinality(PrefixPins(o, PeerPrefix[p])) - 1
      <3>1. IsFiniteSet(PrefixPins(o, PeerPrefix[p]))
        BY <1>1, PinSets
      <3>. QED BY <1>8, <3>1, FS_RemoveElement, Zenon
    <2> QED
      BY <1>2, <1>3, <2>2, <2>3, <2>4
  <1>10. /\ \A r \in Peers \ {p} : PeerPins(w, r) = PeerPins(o, r)
         /\ \A k \in PeerPrefixes \ {PeerPrefix[p]} : PrefixPins(w, k) = PrefixPins(o, k)
    BY <1>0, <1>5 DEF PeerPins, PrefixPins
  <1>13. Room(b, p)
    BY <1>12 DEF Room
  <1>11. Maps(With(b, p, x), With(q, PeerPrefix[p], y), w, now)
    BY <1>2, <1>3, <1>6, <1>9, <1>10, <1>12, <1>13, WithMaps
  <1> QED
    BY <1>0, <1>2, <1>3, <1>4, <1>11

LEMMA MorePaid ==
    ASSUME now \in Nat, NEW t \in Nat, NEW map, NEW keys, Typed(map, keys, t, now), NEW k \in keys,
           NEW done \in [keys -> Nat], PaidFor(map, keys, done, t, now)
    PROVE  PaidFor(More(map, k, t), keys, done, t, now)
  <1>1. PICK x \in Bkts(t, now) :
             /\ More(map, k, t) = With(map, k, x)
             /\ x.tokens = Ensured(map, k, t).tokens /\ x.refilled = Ensured(map, k, t).refilled
    BY MoreIs
  <1>2. Settled(x, done[k], t)
    BY <1>1, EnsuredPaid DEF Settled
  <1>3. PaidFor(With(map, k, x), keys, done, t, now)
    BY <1>2, WithPaid
  <1> QED
    BY <1>1, <1>3

LEMMA FewerPaid ==
    ASSUME now \in Nat, NEW t \in Nat, NEW map, NEW keys, Typed(map, keys, t, now),
           NEW k \in DOMAIN map, map[k].owners > 0,
           NEW done \in [keys -> Nat], PaidFor(map, keys, done, t, now)
    PROVE  PaidFor(Fewer(map, k), keys, done, t, now)
  <1>1. PICK x \in Bkts(t, now) :
             Fewer(map, k) = With(map, k, x) /\ x.tokens = map[k].tokens /\ x.refilled = map[k].refilled
    BY FewerIs
  <1>2. k \in keys
    BY DEF Typed
  <1>3. Settled(x, done[k], t)
    BY <1>1, <1>2 DEF Settled, PaidFor
  <1>4. PaidFor(With(map, k, x), keys, done, t, now)
    BY <1>2, <1>3, WithPaid
  <1> QED
    BY <1>1, <1>4

-----------------------------------------------------------------------------
(* The steps. *)

\* Both maps, in the state and after an eviction.
LEMMA StateFacts ==
    ASSUME LimiterInvariant
    PROVE  /\ now \in Nat /\ Multiplier \in Nat
           /\ Maps(buckets, prefixes, owners, now) /\ Maps(Kept(buckets), Kept(prefixes), owners, now)
           /\ Typed(buckets, Peers, 1, now) /\ Typed(prefixes, PeerPrefixes, Multiplier, now)
           /\ IdleRefillsAll => /\ PaidFor(Kept(buckets), Peers, admitted, 1, now)
                                /\ PaidFor(Kept(prefixes), PeerPrefixes, passed, Multiplier, now)
  <1>1. /\ now \in Nat /\ Multiplier \in Nat /\ Maps(buckets, prefixes, owners, now)
        /\ admitted \in [Peers -> Nat] /\ passed \in [PeerPrefixes -> Nat]
    <2>1. now \in 0..MaxTime /\ MaxTime \in Nat /\ Multiplier \in Nat
      BY LimiterAssumption DEF LimiterInvariant
    <2> QED
      BY <2>1 DEF LimiterInvariant, Maps
  <1>2. Typed(buckets, Peers, 1, now) /\ Typed(prefixes, PeerPrefixes, Multiplier, now)
    BY <1>1 DEF Maps
  <1>3. Maps(Kept(buckets), Kept(prefixes), owners, now)
    BY <1>1, KeptMaps
  <1>4. ASSUME IdleRefillsAll
        PROVE  /\ PaidFor(Kept(buckets), Peers, admitted, 1, now)
               /\ PaidFor(Kept(prefixes), PeerPrefixes, passed, Multiplier, now)
    BY <1>1, <1>2, <1>4, EvictedPaid DEF LimiterInvariant
  <1> QED
    BY <1>1, <1>2, <1>3, <1>4

\* The judged and charged buckets of a check.
LEMMA CheckedMaps ==
    ASSUME LimiterInvariant, NEW p \in Peers, Room(Kept(buckets), p),
           NEW x \in Bkts(1, now), x.touched = now, x.owners = PinsOf(buckets, p),
           NEW y \in Bkts(Multiplier, now), y.touched = now, y.owners = PinsOf(prefixes, PeerPrefix[p])
    PROVE  Maps(With(Kept(buckets), p, x), With(Kept(prefixes), PeerPrefix[p], y), owners, now)
  <1>1. PeerPrefix[p] \in PeerPrefixes /\ Owning(owners)
    BY StateFacts DEF PeerPrefixes, Maps
  <1>2. /\ x.owners = Cardinality(PeerPins(owners, p))
        /\ y.owners = Cardinality(PrefixPins(owners, PeerPrefix[p]))
    BY <1>1, StateFacts DEF Maps, Pinned
  <1>3. PICK b, q : b = Kept(buckets) /\ q = Kept(prefixes)
    OBVIOUS
  <1>4. Maps(b, q, owners, now) /\ Room(b, p)
    BY <1>3, StateFacts
  <1>5. Maps(With(b, p, x), With(q, PeerPrefix[p], y), owners, now)
    BY <1>1, <1>2, <1>4, WithMaps
  <1> QED
    BY <1>3, <1>5

LEMMA CheckStep ==
    ASSUME LimiterInvariant, NEW p \in Peers, Check(p)
    PROVE  LimiterInvariant'
  <1>1. /\ owners' = owners /\ now' = now /\ now \in 0..MaxTime /\ now \in Nat /\ Multiplier \in Nat
        /\ admitted \in [Peers -> Nat] /\ passed \in [PeerPrefixes -> Nat]
    BY StateFacts DEF Check, LimiterInvariant
  <1>2. CASE CheckNoRoom(p)
    <2>1. /\ buckets' = Kept(buckets) /\ prefixes' = Kept(prefixes) /\ verdict' = "capacity"
          /\ admitted' = admitted /\ passed' = passed
      BY <1>2 DEF CheckNoRoom
    <2> QED
      BY <1>1, <2>1, StateFacts DEF LimiterInvariant, IdleRefillsAll
  <1>3. CASE CheckNoPrefixRoom(p)
    <2>1. Room(Kept(buckets), p) /\ ~Room(Kept(prefixes), PeerPrefix[p])
      BY <1>3 DEF CheckNoPrefixRoom
    <2>2. Maps(Kept(buckets), Kept(prefixes), owners, now)
      BY StateFacts
    <2> QED
      BY <2>1, <2>2, PrefixRoom
  <1>4. CASE CheckTokens(p)
    <2>1. PICK q, b, c : q = PeerPrefix[p] /\ b = Ready(buckets, p, 1) /\ c = Ready(prefixes, q, Multiplier)
      OBVIOUS
    <2>2. q \in PeerPrefixes /\ Typed(buckets, Peers, 1, now) /\ Typed(prefixes, PeerPrefixes, Multiplier, now)
      BY <2>1, StateFacts DEF PeerPrefixes
    <2>3. b \in Bkts(1, now) /\ b.owners = PinsOf(buckets, p) /\ b.touched = now
      BY <1>1, <2>1, <2>2, ReadyIs
    <2>4. c \in Bkts(Multiplier, now) /\ c.owners = PinsOf(prefixes, q) /\ c.touched = now
      BY <1>1, <2>1, <2>2, ReadyIs
    <2>5. IdleRefillsAll => Settled(b, admitted[p], 1) /\ Settled(c, passed[q], Multiplier)
      BY <1>1, <2>1, <2>2, ReadyIs DEF LimiterInvariant
    <2>6. Room(Kept(buckets), p)
      BY <1>4 DEF CheckTokens
    <2>7. CASE HasToken(b) /\ HasToken(c)
      <3>1. /\ buckets' = With(Kept(buckets), p, Charged(TRUE, b)) /\ prefixes' = With(Kept(prefixes), q, Charged(TRUE, c))
            /\ verdict' = "ok"
            /\ admitted' = [admitted EXCEPT ![p] = @ + 1] /\ passed' = [passed EXCEPT ![q] = @ + 1]
        BY <1>4, <2>1, <2>7 DEF CheckTokens, Charges
      <3>2. PICK x, y : x = Charged(TRUE, b) /\ y = Charged(TRUE, c)
        OBVIOUS
      <3>3. x \in Bkts(1, now) /\ x.owners = b.owners /\ x.touched = b.touched
        BY <1>1, <2>3, <2>7, <3>2, ChargedIs
      <3>4. y \in Bkts(Multiplier, now) /\ y.owners = c.owners /\ y.touched = c.touched
        BY <1>1, <2>4, <2>7, <3>2, ChargedIs
      <3>5. Maps(With(Kept(buckets), p, x), With(Kept(prefixes), PeerPrefix[p], y), owners, now)
        BY <2>1, <2>3, <2>4, <2>6, <3>3, <3>4, CheckedMaps
      <3>6. ASSUME IdleRefillsAll
            PROVE  /\ PaidFor(buckets', Peers, admitted', 1, now)
                   /\ PaidFor(prefixes', PeerPrefixes, passed', Multiplier, now)
        <4>1. /\ admitted[p] \in Nat /\ passed[q] \in Nat
              /\ admitted'[p] = admitted[p] + 1 /\ passed'[q] = passed[q] + 1
              /\ \A r \in Peers \ {p} : admitted'[r] = admitted[r]
              /\ \A k \in PeerPrefixes \ {q} : passed'[k] = passed[k]
          BY <1>1, <2>2, <3>1
        <4>2. Settled(x, admitted'[p], 1)
          BY <1>1, <2>3, <2>5, <2>7, <3>2, <3>6, <4>1, ChargedIs
        <4>3. Settled(y, passed'[q], Multiplier)
          BY <1>1, <2>4, <2>5, <2>7, <3>2, <3>6, <4>1, ChargedIs
        <4>4. PaidFor(With(Kept(buckets), p, x), Peers, admitted', 1, now)
          BY <3>6, <4>1, <4>2, StateFacts, WithPaid
        <4>5. PaidFor(With(Kept(prefixes), q, y), PeerPrefixes, passed', Multiplier, now)
          BY <2>2, <3>6, <4>1, <4>3, StateFacts, WithPaid
        <4> QED
          BY <3>1, <3>2, <4>4, <4>5
      <3>7. admitted' \in [Peers -> Nat] /\ passed' \in [PeerPrefixes -> Nat]
        <4>1. admitted[p] + 1 \in Nat /\ passed[q] + 1 \in Nat
          BY <1>1, <2>2
        <4>2. /\ admitted \in [Peers -> Nat] /\ admitted' = [admitted EXCEPT ![p] = admitted[p] + 1]
              /\ passed \in [PeerPrefixes -> Nat] /\ passed' = [passed EXCEPT ![q] = passed[q] + 1]
          BY <1>1, <3>1
        <4> QED
          BY <4>1, <4>2
      <3>8. Maps(buckets', prefixes', owners', now')
        BY <1>1, <2>1, <3>1, <3>2, <3>5
      <3> QED
        BY <1>1, <3>1, <3>6, <3>7, <3>8 DEF LimiterInvariant, IdleRefillsAll
    <2>8. CASE ~(HasToken(b) /\ HasToken(c))
      <3>1. /\ buckets' = With(Kept(buckets), p, b) /\ prefixes' = With(Kept(prefixes), q, c)
            /\ verdict' \in {"limited", "prefix"}
            /\ admitted' = admitted /\ passed' = passed
        BY <1>4, <2>1, <2>8 DEF CheckTokens, Charges, Charged
      <3>2. Maps(With(Kept(buckets), p, b), With(Kept(prefixes), PeerPrefix[p], c), owners, now)
        BY <2>1, <2>3, <2>4, <2>6, CheckedMaps
      <3>3. ASSUME IdleRefillsAll
            PROVE  /\ PaidFor(buckets', Peers, admitted', 1, now)
                   /\ PaidFor(prefixes', PeerPrefixes, passed', Multiplier, now)
        <4>1. PaidFor(With(Kept(buckets), p, b), Peers, admitted, 1, now)
          BY <2>5, <3>3, StateFacts, WithPaid
        <4>2. PaidFor(With(Kept(prefixes), q, c), PeerPrefixes, passed, Multiplier, now)
          BY <2>2, <2>5, <3>3, StateFacts, WithPaid
        <4> QED
          BY <3>1, <4>1, <4>2
      <3>4. Maps(buckets', prefixes', owners', now')
        BY <1>1, <2>1, <3>1, <3>2
      <3> QED
        BY <1>1, <3>1, <3>3, <3>4 DEF LimiterInvariant, IdleRefillsAll
    <2> QED
      BY <2>7, <2>8
  <1> QED
    BY <1>2, <1>3, <1>4 DEF Check

\* What a connection's owner loses when the connection is detached.
LEMMA FreedFacts ==
    ASSUME LimiterInvariant, NEW c
    PROVE  /\ Maps(FreedBuckets(c), FreedPrefixes(c), Without(c), now)
           /\ c \notin DOMAIN Without(c)
           /\ IdleRefillsAll => /\ PaidFor(FreedBuckets(c), Peers, admitted, 1, now)
                                /\ PaidFor(FreedPrefixes(c), PeerPrefixes, passed, Multiplier, now)
  <1>1. c \notin DOMAIN Without(c)
    BY DEF Without, Restrict
  <1>2. CASE c \notin DOMAIN owners
    <2>1. FreedBuckets(c) = buckets /\ FreedPrefixes(c) = prefixes
      BY <1>2 DEF FreedBuckets, FreedPrefixes
    <2>2. Without(c) = owners
      <3>1. owners = [d \in DOMAIN owners |-> owners[d]] /\ DOMAIN owners \ {c} = DOMAIN owners
        BY <1>2, StateFacts DEF Maps, Owning
      <3> QED
        BY <3>1 DEF Without, Restrict
    <2> QED
      BY <1>1, <2>1, <2>2, StateFacts DEF LimiterInvariant
  <1>3. CASE c \in DOMAIN owners
    <2>1. PICK p, q : p = owners[c] /\ q = PeerPrefix[p]
      OBVIOUS
    <2>2. FreedBuckets(c) = Kept(Fewer(buckets, p)) /\ FreedPrefixes(c) = Kept(Fewer(prefixes, q))
      BY <1>3, <2>1 DEF FreedBuckets, FreedPrefixes
    <2>3. Maps(Fewer(buckets, p), Fewer(prefixes, q), Without(c), now)
      BY <1>3, <2>1, StateFacts, FewerMaps DEF Without
    <2>4. Maps(FreedBuckets(c), FreedPrefixes(c), Without(c), now)
      BY <2>2, <2>3, KeptMaps
    <2>5. ASSUME IdleRefillsAll
          PROVE  /\ PaidFor(FreedBuckets(c), Peers, admitted, 1, now)
                 /\ PaidFor(FreedPrefixes(c), PeerPrefixes, passed, Multiplier, now)
      <3>1. p \in DOMAIN buckets /\ buckets[p].owners > 0 /\ q \in DOMAIN prefixes /\ prefixes[q].owners > 0
        BY <1>3, <2>1, StateFacts, OwnersThere
      <3>2. /\ admitted \in [Peers -> Nat] /\ passed \in [PeerPrefixes -> Nat]
            /\ PaidFor(buckets, Peers, admitted, 1, now) /\ PaidFor(prefixes, PeerPrefixes, passed, Multiplier, now)
        BY <2>5 DEF LimiterInvariant
      <3>3. /\ PaidFor(Fewer(buckets, p), Peers, admitted, 1, now)
            /\ PaidFor(Fewer(prefixes, q), PeerPrefixes, passed, Multiplier, now)
        BY <3>1, <3>2, StateFacts, FewerPaid
      <3>4. Typed(Fewer(buckets, p), Peers, 1, now) /\ Typed(Fewer(prefixes, q), PeerPrefixes, Multiplier, now)
        BY <2>3 DEF Maps
      <3> QED
        BY <2>2, <2>5, <3>2, <3>3, <3>4, StateFacts, EvictedPaid
    <2> QED
      BY <1>1, <2>4, <2>5
  <1> QED
    BY <1>2, <1>3

LEMMA AttachStep ==
    ASSUME LimiterInvariant, NEW c \in LimitConns, NEW p \in Peers, Attach(c, p)
    PROVE  LimiterInvariant'
  <1>1. /\ now' = now /\ admitted' = admitted /\ passed' = passed
        /\ now \in 0..MaxTime /\ now \in Nat /\ Multiplier \in Nat
        /\ admitted \in [Peers -> Nat] /\ passed \in [PeerPrefixes -> Nat]
    BY StateFacts DEF Attach, LimiterInvariant
  <1>2. PICK b, q, o : b = Kept(FreedBuckets(c)) /\ q = Kept(FreedPrefixes(c)) /\ o = Without(c)
    OBVIOUS
  <1>3. Maps(b, q, o, now) /\ c \notin DOMAIN o
    BY <1>2, FreedFacts, KeptMaps
  <1>4. Typed(b, Peers, 1, now) /\ Typed(q, PeerPrefixes, Multiplier, now)
    BY <1>3 DEF Maps
  <1>5. ASSUME IdleRefillsAll
        PROVE  PaidFor(b, Peers, admitted, 1, now) /\ PaidFor(q, PeerPrefixes, passed, Multiplier, now)
    <2>1. Typed(FreedBuckets(c), Peers, 1, now) /\ Typed(FreedPrefixes(c), PeerPrefixes, Multiplier, now)
      BY FreedFacts DEF Maps
    <2> QED
      BY <1>1, <1>2, <1>5, <2>1, FreedFacts, EvictedPaid
  <1>6. CASE AttachNoRoom(c, p)
    <2>1. buckets' = b /\ prefixes' = q /\ owners' = o /\ verdict' = "capacity"
      BY <1>2, <1>6 DEF AttachNoRoom
    <2> QED
      BY <1>1, <1>3, <1>5, <2>1 DEF LimiterInvariant, IdleRefillsAll
  <1>7. CASE AttachNoPrefixRoom(c, p)
    <2>1. Room(b, p) /\ ~Room(q, PeerPrefix[p])
      BY <1>2, <1>7 DEF AttachNoPrefixRoom
    <2> QED
      BY <1>3, <2>1, PrefixRoom
  <1>8. CASE AttachPins(c, p)
    <2>1. /\ Room(b, p) /\ buckets' = More(b, p, 1) /\ prefixes' = More(q, PeerPrefix[p], Multiplier)
          /\ owners' = With(o, c, p) /\ verdict' = "ok"
      BY <1>2, <1>8 DEF AttachPins
    <2>2. Maps(buckets', prefixes', owners', now')
      BY <1>1, <1>3, <2>1, MoreMaps
    <2>3. ASSUME IdleRefillsAll
          PROVE  /\ PaidFor(buckets', Peers, admitted, 1, now)
                 /\ PaidFor(prefixes', PeerPrefixes, passed, Multiplier, now)
      <3>1. PeerPrefix[p] \in PeerPrefixes
        BY DEF PeerPrefixes
      <3>2. PaidFor(More(b, p, 1), Peers, admitted, 1, now)
        BY <1>1, <1>4, <1>5, <2>3, MorePaid
      <3>3. PaidFor(More(q, PeerPrefix[p], Multiplier), PeerPrefixes, passed, Multiplier, now)
        BY <1>1, <1>4, <1>5, <2>3, <3>1, MorePaid
      <3> QED
        BY <2>1, <3>2, <3>3
    <2> QED
      BY <1>1, <2>1, <2>2, <2>3 DEF LimiterInvariant, IdleRefillsAll
  <1> QED
    BY <1>6, <1>7, <1>8 DEF Attach

LEMMA ReleaseStep ==
    ASSUME LimiterInvariant, NEW c, Release(c)
    PROVE  LimiterInvariant'
  <1>1. /\ now' = now /\ admitted' = admitted /\ passed' = passed /\ verdict' = verdict
        /\ buckets' = FreedBuckets(c) /\ prefixes' = FreedPrefixes(c) /\ owners' = Without(c)
    BY DEF Release
  <1> QED
    BY <1>1, FreedFacts DEF LimiterInvariant, IdleRefillsAll

\* An empty limiter that has admitted nothing.
LEMMA EmptyOK ==
    ASSUME NEW n \in Nat
    PROVE  /\ Maps(<< >>, << >>, << >>, n)
           /\ PaidFor(<< >>, Peers, [p \in Peers |-> 0], 1, n)
           /\ PaidFor(<< >>, PeerPrefixes, [q \in PeerPrefixes |-> 0], Multiplier, n)
  <1>1. DOMAIN << >> = {}
    OBVIOUS
  <1>2. PICK e : e = << >>
    OBVIOUS
  <1>3. DOMAIN e = {} /\ \A S : e \in [DOMAIN e -> S]
    BY <1>1, <1>2
  <1>4. Cardinality({}) = 0 /\ MaxBuckets \in Nat
    BY FS_EmptySet, LimiterAssumption
  <1>5. \A k : PeerPins(e, k) = {} /\ PrefixPins(e, k) = {} /\ PinsOf(e, k) = 0
    BY <1>3 DEF PeerPins, PrefixPins, PinsOf
  <1>6. Pinned(e, e, e)
    BY <1>4, <1>5 DEF Pinned
  <1>7. Typed(e, Peers, 1, n) /\ Typed(e, PeerPrefixes, Multiplier, n) /\ Owning(e) /\ Covered(e, e)
    BY <1>3 DEF Typed, Owning, Covered
  <1>8. Cardinality(DOMAIN e) <= MaxBuckets
    BY <1>3, <1>4
  <1>9. Maps(e, e, e, n)
    BY <1>6, <1>7, <1>8 DEF Maps
  <1>10. ASSUME NEW t \in Nat
         PROVE  Waited(0, t, n)
    <2>1. n * Flow(t) \in Nat /\ RateScale * Second \in Nat
      BY FlowType, Times
    <2>2. 0 * (RateScale * Second) = 0
      BY <2>1
    <2> QED
      BY <2>1, <2>2 DEF Waited
  <1>11. Multiplier \in Nat
    BY LimiterAssumption
  <1>12. PaidFor(e, Peers, [p \in Peers |-> 0], 1, n)
    BY <1>3, <1>10 DEF PaidFor
  <1>13. PaidFor(e, PeerPrefixes, [q \in PeerPrefixes |-> 0], Multiplier, n)
    BY <1>3, <1>10, <1>11 DEF PaidFor
  <1> QED
    BY <1>2, <1>9, <1>12, <1>13

LEMMA ClearStep ==
    ASSUME LimiterInvariant, Clear
    PROVE  LimiterInvariant'
  <1>1. /\ now' = now /\ verdict' = verdict /\ buckets' = << >> /\ prefixes' = << >> /\ owners' = << >>
        /\ admitted' = [p \in Peers |-> 0] /\ passed' = [q \in PeerPrefixes |-> 0]
    BY DEF Clear
  <1>2. now \in Nat
    BY StateFacts
  <1>3. Maps(buckets', prefixes', owners', now')
    BY <1>1, <1>2, EmptyOK
  <1>4. PaidFor(buckets', Peers, admitted', 1, now') /\ PaidFor(prefixes', PeerPrefixes, passed', Multiplier, now')
    BY <1>1, <1>2, EmptyOK
  <1>5. admitted' \in [Peers -> Nat] /\ passed' \in [PeerPrefixes -> Nat]
    BY <1>1
  <1> QED
    BY <1>1, <1>3, <1>4, <1>5 DEF LimiterInvariant

LEMMA LaterTyped ==
    ASSUME NEW map, NEW keys, NEW t, NEW n \in Nat, Typed(map, keys, t, n)
    PROVE  Typed(map, keys, t, n + 1)
  <1>1. \A i \in 0..n : i \in 0..(n + 1)
    OBVIOUS
  <1>2. \A x \in Bkts(t, n) : x \in Bkts(t, n + 1)
    BY <1>1 DEF Bkts
  <1> QED
    BY <1>2 DEF Typed

LEMMA LaterPaid ==
    ASSUME NEW map, NEW keys, NEW done \in [keys -> Nat], NEW t \in Nat, NEW n \in Nat,
           PaidFor(map, keys, done, t, n)
    PROVE  PaidFor(map, keys, done, t, n + 1)
  <1>1. ASSUME NEW d \in Nat, Waited(d, t, n)
        PROVE  Waited(d, t, n + 1)
    <2>1. (n + 1) * Flow(t) = n * Flow(t) + Flow(t)
      BY FlowType
    <2>2. n * Flow(t) \in Nat /\ Flow(t) \in Nat /\ d * (RateScale * Second) \in Nat
      BY FlowType, Times
    <2> QED
      BY <1>1, <2>1, <2>2 DEF Waited
  <1> QED
    BY <1>1 DEF PaidFor

LEMMA TimeStep ==
    ASSUME LimiterInvariant, PassTime
    PROVE  LimiterInvariant'
  <1>1. /\ now < MaxTime /\ now' = now + 1 /\ buckets' = buckets /\ prefixes' = prefixes /\ owners' = owners
        /\ admitted' = admitted /\ passed' = passed /\ verdict' = verdict
    BY DEF PassTime
  <1>2. now \in 0..MaxTime /\ MaxTime \in Nat /\ now \in Nat /\ Multiplier \in Nat
    BY StateFacts, LimiterAssumption DEF LimiterInvariant
  <1>3. now' \in 0..MaxTime /\ now' \in Nat
    BY <1>1, <1>2
  <1>4. Typed(buckets, Peers, 1, now + 1) /\ Typed(prefixes, PeerPrefixes, Multiplier, now + 1)
    BY <1>2, StateFacts, LaterTyped
  <1>5. Maps(buckets, prefixes, owners, now + 1)
    BY <1>2, <1>4, StateFacts DEF Maps
  <1>6. ASSUME IdleRefillsAll
        PROVE  /\ PaidFor(buckets, Peers, admitted, 1, now + 1)
               /\ PaidFor(prefixes, PeerPrefixes, passed, Multiplier, now + 1)
    BY <1>2, <1>6, LaterPaid DEF LimiterInvariant
  <1> QED
    BY <1>1, <1>3, <1>5, <1>6 DEF LimiterInvariant, IdleRefillsAll

LEMMA LimiterStep ==
    LimiterInvariant /\ [LimiterNext]_limiterVars => LimiterInvariant'
  <1> SUFFICES ASSUME LimiterInvariant, [LimiterNext]_limiterVars
               PROVE  LimiterInvariant'
    OBVIOUS
  <1>1. ASSUME NEW p \in Peers, Check(p)
        PROVE  LimiterInvariant'
    BY <1>1, CheckStep
  <1>2. ASSUME NEW c \in LimitConns, CheckConnection(c)
        PROVE  LimiterInvariant'
    <2>1. Check(owners[c]) /\ owners[c] \in Peers
      BY <1>2, StateFacts DEF CheckConnection, Maps, Owning
    <2> QED
      BY <2>1, CheckStep
  <1>3. ASSUME NEW c \in LimitConns, Release(c)
        PROVE  LimiterInvariant'
    BY <1>3, ReleaseStep
  <1>4. ASSUME NEW c \in LimitConns, NEW p \in Peers, Attach(c, p)
        PROVE  LimiterInvariant'
    BY <1>4, AttachStep
  <1>5. CASE Clear
    BY <1>5, ClearStep
  <1>6. CASE PassTime
    BY <1>6, TimeStep
  <1>7. CASE UNCHANGED limiterVars
    BY <1>7 DEF limiterVars, LimiterInvariant, IdleRefillsAll
  <1> QED
    BY <1>1, <1>2, <1>3, <1>4, <1>5, <1>6, <1>7 DEF LimiterNext

LEMMA LimiterFirst ==
    LimiterInit => LimiterInvariant
  <1> SUFFICES ASSUME LimiterInit
               PROVE  LimiterInvariant
    OBVIOUS
  <1>1. /\ now = 0 /\ verdict = "ok" /\ buckets = << >> /\ prefixes = << >> /\ owners = << >>
        /\ admitted = [p \in Peers |-> 0] /\ passed = [q \in PeerPrefixes |-> 0]
    BY DEF LimiterInit
  <1>2. Maps(buckets, prefixes, owners, now)
    BY <1>1, EmptyOK
  <1>3. PaidFor(buckets, Peers, admitted, 1, now) /\ PaidFor(prefixes, PeerPrefixes, passed, Multiplier, now)
    BY <1>1, EmptyOK
  <1>4. now \in 0..MaxTime /\ admitted \in [Peers -> Nat] /\ passed \in [PeerPrefixes -> Nat]
    BY <1>1, LimiterAssumption
  <1> QED
    BY <1>1, <1>2, <1>3, <1>4 DEF LimiterInvariant

LEMMA LimiterMeans ==
    LimiterInvariant => LimiterTypeOK /\ OwnersExact /\ PrefixNeverFull /\ RateBound
  <1> SUFFICES ASSUME LimiterInvariant
               PROVE  LimiterTypeOK /\ OwnersExact /\ PrefixNeverFull /\ RateBound
    OBVIOUS
  <1>1. LimiterTypeOK
    <2>1. \A k \in DOMAIN buckets : buckets[k].tokens \in 0..TopOf(1)
      BY StateFacts DEF Typed, Bkts
    <2>2. \A k \in DOMAIN prefixes : prefixes[k].tokens \in 0..TopOf(Multiplier)
      BY StateFacts DEF Typed, Bkts
    <2>3. TopOf(1) = Burst * RateScale /\ TopOf(Multiplier) = Burst * Multiplier * RateScale
      BY LimiterAssumption DEF TopOf
    <2>4. /\ DOMAIN buckets \subseteq Peers /\ DOMAIN prefixes \subseteq PeerPrefixes
          /\ DOMAIN owners \subseteq LimitConns /\ now \in 0..MaxTime
      BY StateFacts DEF Maps, Typed, Owning, LimiterInvariant
    <2> QED
      BY <2>1, <2>2, <2>3, <2>4 DEF LimiterTypeOK
  <1>2. OwnersExact
    <2>1. \A c \in DOMAIN owners : owners[c] \in DOMAIN buckets /\ PeerPrefix[owners[c]] \in DOMAIN prefixes
      BY StateFacts, OwnersThere
    <2>2. ASSUME NEW p \in DOMAIN buckets
          PROVE  buckets[p].owners = Cardinality({c \in DOMAIN owners : owners[c] = p})
      <3>1. p \in Peers
        BY StateFacts DEF Typed
      <3> QED
        BY <3>1, StateFacts DEF Maps, Pinned, PinsOf, PeerPins
    <2>3. ASSUME NEW q \in DOMAIN prefixes
          PROVE  prefixes[q].owners = Cardinality({c \in DOMAIN owners : PeerPrefix[owners[c]] = q})
      <3>1. q \in PeerPrefixes
        BY StateFacts DEF Typed
      <3> QED
        BY <3>1, StateFacts DEF Maps, Pinned, PinsOf, PrefixPins
    <2> QED
      BY <2>1, <2>2, <2>3 DEF OwnersExact
  <1>3. PrefixNeverFull
    BY StateFacts DEF PrefixNeverFull, Maps, Covered, LimiterInvariant
  <1>4. ASSUME NEW t \in Nat, NEW map, NEW keys, Typed(map, keys, t, now), NEW done \in [keys -> Nat],
               PaidFor(map, keys, done, t, now), NEW k \in keys
        PROVE  done[k] * Second <= t * (Burst * Second + now * Rate)
    <2>1. now \in Nat /\ Flow(t) \in Nat /\ TopOf(t) * Second \in Nat /\ now * Flow(t) \in Nat
      BY StateFacts, FlowType, Times, LimiterAssumption
    <2>2. done[k] * (RateScale * Second) \in Nat
      BY FlowType, Times
    <2>3. CASE k \in DOMAIN map
      <3>1. PICK tok, ref : tok = map[k].tokens /\ ref = map[k].refilled
        OBVIOUS
      <3>2. tok \in Nat /\ ref \in Nat /\ ref <= now
        BY <1>4, <2>1, <2>3, <3>1, FlowType DEF Typed, Bkts
      <3>3. tok * Second + done[k] * (RateScale * Second) <= TopOf(t) * Second + ref * Flow(t)
        BY <1>4, <2>3, <3>1 DEF PaidFor, Settled
      <3>4. tok * Second \in Nat /\ ref * Flow(t) \in Nat /\ ref * Flow(t) <= now * Flow(t)
        BY <2>1, <3>2, Times, Larger, LimiterAssumption
      <3>5. done[k] * (RateScale * Second) <= TopOf(t) * Second + now * Flow(t)
        BY <2>1, <2>2, <3>3, <3>4
      <3> QED
        BY <2>1, <3>5, ScaledBound
    <2>4. CASE k \notin DOMAIN map
      <3>1. done[k] * (RateScale * Second) <= now * Flow(t)
        BY <1>4, <2>4 DEF PaidFor, Waited
      <3>2. done[k] * (RateScale * Second) <= TopOf(t) * Second + now * Flow(t)
        BY <2>1, <2>2, <3>1
      <3> QED
        BY <2>1, <3>2, ScaledBound
    <2> QED
      BY <2>3, <2>4
  <1>5. RateBound
    <2> SUFFICES ASSUME IdleRefillsAll
                 PROVE  /\ \A p \in Peers : admitted[p] * Second <= Burst * Second + now * Rate
                        /\ \A q \in PeerPrefixes : passed[q] * Second <= Multiplier * (Burst * Second + now * Rate)
      BY DEF RateBound, IdleRefillsAll
    <2>1. /\ admitted \in [Peers -> Nat] /\ passed \in [PeerPrefixes -> Nat]
          /\ PaidFor(buckets, Peers, admitted, 1, now) /\ PaidFor(prefixes, PeerPrefixes, passed, Multiplier, now)
      BY DEF LimiterInvariant
    <2>2. ASSUME NEW p \in Peers
          PROVE  admitted[p] * Second <= Burst * Second + now * Rate
      <3>1. admitted[p] * Second <= 1 * (Burst * Second + now * Rate)
        BY <1>4, <2>1, StateFacts
      <3>2. Burst * Second \in Nat /\ now * Rate \in Nat
        BY Times, StateFacts, LimiterAssumption
      <3> QED
        BY <3>1, <3>2
    <2>3. \A q \in PeerPrefixes : passed[q] * Second <= Multiplier * (Burst * Second + now * Rate)
      BY <1>4, <2>1, StateFacts
    <2> QED
      BY <2>2, <2>3
  <1> QED
    BY <1>1, <1>2, <1>3, <1>5

\* An entry that is still there has no fewer tokens.
NoPoorer ==
    verdict' \in {"limited", "prefix"} =>
        \A p \in DOMAIN buckets : p \in DOMAIN buckets' => buckets'[p].tokens >= buckets[p].tokens

LEMMA EntryTokens ==
    ASSUME LimiterInvariant, NEW p \in DOMAIN buckets
    PROVE  buckets[p].tokens \in Nat
  <1>1. buckets[p].tokens \in 0..TopOf(1) /\ TopOf(1) \in Nat
    BY StateFacts, FlowType DEF Typed, Bkts
  <1> QED
    BY <1>1

LEMMA RefusedCheck ==
    ASSUME LimiterInvariant, NEW p \in Peers, Check(p)
    PROVE  NoPoorer
  <1> SUFFICES ASSUME verdict' \in {"limited", "prefix"},
                      NEW r \in DOMAIN buckets, r \in DOMAIN buckets'
               PROVE  buckets'[r].tokens >= buckets[r].tokens
    BY DEF NoPoorer
  <1>1. CheckTokens(p)
    BY DEF Check, CheckNoRoom, CheckNoPrefixRoom
  <1>2. PICK b : b = Ready(buckets, p, 1)
    OBVIOUS
  <1>3. buckets' = With(Kept(buckets), p, b)
    BY <1>1, <1>2 DEF CheckTokens, Charges, Charged
  <1>4. CASE r = p
    <2>1. buckets'[r] = b
      BY <1>3, <1>4 DEF With
    <2> QED
      BY <1>2, <1>4, <2>1, StateFacts, ReadyIs
  <1>5. CASE r # p
    <2>1. r \in DOMAIN Kept(buckets) /\ buckets'[r] = Kept(buckets)[r]
      BY <1>3, <1>5 DEF With
    <2>2. buckets'[r] = buckets[r]
      BY <2>1, KeptIs
    <2> QED
      BY <2>2, EntryTokens
  <1> QED
    BY <1>4, <1>5

LEMMA RefusedRelease ==
    ASSUME LimiterInvariant, NEW c, Release(c)
    PROVE  NoPoorer
  <1> SUFFICES ASSUME NEW r \in DOMAIN buckets, r \in DOMAIN buckets'
               PROVE  buckets'[r].tokens >= buckets[r].tokens
    BY DEF NoPoorer
  <1>1. c \in DOMAIN owners /\ buckets' = Kept(Fewer(buckets, owners[c]))
    BY DEF Release, FreedBuckets
  <1>2. PICK p : p = owners[c]
    OBVIOUS
  <1>3. p \in DOMAIN buckets /\ buckets[p].owners > 0
    BY <1>1, <1>2, StateFacts, OwnersThere
  <1>4. PICK x \in Bkts(1, now) : Fewer(buckets, p) = With(buckets, p, x) /\ x.tokens = buckets[p].tokens
    BY <1>3, StateFacts, FewerIs
  <1>5. buckets'[r] = Fewer(buckets, p)[r]
    BY <1>1, <1>2, KeptIs
  <1>6. Fewer(buckets, p)[r] = IF r = p THEN x ELSE buckets[r]
    BY <1>4 DEF With
  <1> QED
    BY <1>4, <1>5, <1>6, EntryTokens

LEMMA RefusedStep ==
    LimiterInvariant /\ [LimiterNext]_limiterVars => [NoPoorer]_limiterVars
  <1> SUFFICES ASSUME LimiterInvariant, LimiterNext
               PROVE  NoPoorer
    OBVIOUS
  <1>1. ASSUME NEW p \in Peers, Check(p)
        PROVE  NoPoorer
    BY <1>1, RefusedCheck
  <1>2. ASSUME NEW c \in LimitConns, CheckConnection(c)
        PROVE  NoPoorer
    <2>1. Check(owners[c]) /\ owners[c] \in Peers
      BY <1>2, StateFacts DEF CheckConnection, Maps, Owning
    <2> QED
      BY <2>1, RefusedCheck
  <1>3. ASSUME NEW c \in LimitConns, Release(c)
        PROVE  NoPoorer
    BY <1>3, RefusedRelease
  <1>4. ASSUME NEW c \in LimitConns, NEW p \in Peers, Attach(c, p)
        PROVE  NoPoorer
    BY <1>4 DEF Attach, AttachNoRoom, AttachNoPrefixRoom, AttachPins, NoPoorer
  <1>5. CASE Clear
    BY <1>5 DEF Clear, NoPoorer
  <1>6. CASE PassTime
    BY <1>6, EntryTokens DEF PassTime, NoPoorer
  <1> QED
    BY <1>1, <1>2, <1>3, <1>4, <1>5, <1>6 DEF LimiterNext

\* The WebAssembly endpoint's limiter (governor.rs): pins are exactly the
\* attached connections, the prefix map never fills before the address map, no
\* order of checks, evictions and re-creations admits more than burst and
\* refill, and a refusal costs no token.
THEOREM LimiterCorrect ==
    LimiterSpec => LimiterSafe
  <1>1. LimiterSpec => []LimiterInvariant
    BY LimiterFirst, LimiterStep, PTL DEF LimiterSpec
  <1>2. LimiterSpec => [][NoPoorer]_limiterVars
    BY <1>1, RefusedStep, PTL DEF LimiterSpec
  <1>3. [][NoPoorer]_limiterVars => RefusedIsFree
    BY PTL DEF RefusedIsFree, NoPoorer
  <1> QED
    BY <1>1, <1>2, <1>3, LimiterMeans, PTL DEF LimiterSafe
=============================================================================
