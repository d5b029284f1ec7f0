--------------------------- MODULE SendPathProofs ---------------------------
(***************************************************************************)
(* TLAPS proofs about the stream sink ring and the send-path diagnostics.  *)
(*                                                                         *)
(* The ring's geometry, its reserve and its progress, for every capacity,  *)
(* header and reserve that SpaceAssumption admits.                         *)
(*                                                                         *)
(* The diagnostics, for any number of components, owners and phases.       *)
(* The gate is a counter: that a cut is alone needs the counter to be the  *)
(* number of owners inside (GateExact), and the cuts to be those the       *)
(* control call has taken (CutsMatch).  The sealed marks are true because  *)
(* the mark of the current phase is (HighIsPeak) and a component is at     *)
(* most one phase ahead of the registry (PhasesMatch).  A close is final   *)
(* because nobody owns anything and nobody is past the gate (ClosedQuiet), *)
(* which is where the counts have to be exact.                             *)
(***************************************************************************)
EXTENDS RingSpace, SendDiagnostics, TLAPS, FiniteSetTheorems

-----------------------------------------------------------------------------
(* The ring: the invariant. *)

\* Bytes the call in progress may fill the ring with.
Bound == IF state = "active" THEN Usable ELSE Capacity
Lengths == Header..Quarter \cup TerminalLengths
\* The records still to commit, one after the other, fit.
PlanFits ==
    \/ plan = <<>>
    \/ \E len \in Lengths :
          /\ plan = <<len>> /\ Fill + CostAt(tail, len) <= Bound
    \/ \E len \in Lengths :
          /\ plan = <<Header, len>>
          /\ Fill + CostAt(tail, Header) + CostAt(Add(tail, CostAt(tail, Header)), len) <= Bound

\* The inductive invariant: the geometry, the room, and the room of the
\* records that are still to come.
SpaceInv ==
    /\ tail \in Cursors /\ head \in Cursors
    /\ state \in {"active", "terminal", "exited"} /\ gap \in Nat
    /\ HeaderFits
    /\ Fill <= Bound
    /\ PlanFits

-----------------------------------------------------------------------------
(* The arithmetic of cursors.                                              *)

\* Sizes: a record takes at most a quarter, a terminal record at most half
\* the reserve.
LEMMA Sizes ==
    /\ Capacity \in Nat /\ Usable \in Nat /\ Usable <= Capacity /\ Header < Quarter
    /\ \A len \in Lengths : len \in Nat /\ len >= Header /\ len <= Quarter
    /\ \A len \in TerminalLengths : len \in Nat /\ len >= Header /\ 2 * len <= Reserved
  BY SpaceAssumption DEF Capacity, Usable, Lengths, TerminalLengths

\* A cursor's rest of the region.
LEMMA RestOf ==
    ASSUME NEW c \in Cursors
    PROVE  Remainder(c) \in 1..Capacity /\ Mask(c) \in 0..(Capacity - 1)
  BY Sizes, SpaceAssumption DEF Cursors, Remainder, Mask, Capacity

\* What cost_at charges (stream_sink.rs:256): at least the record, less than
\* twice the record and a header.
LEMMA CostBounds ==
    ASSUME NEW c \in Cursors, NEW len \in Nat, len >= Header
    PROVE  /\ CostAt(c, len) \in Nat
           /\ CostAt(c, len) >= len
           /\ CostAt(c, len) < 2 * len
  <1>1. Remainder(c) \in Nat /\ Header \in Nat /\ Header > 0 BY RestOf, Sizes, SpaceAssumption
  <1> QED BY <1>1 DEF CostAt

\* A cursor moved by the cost of a record is one where a header fits.
LEMMA NextHeaderFits ==
    ASSUME NEW c \in Cursors, Remainder(c) >= Header, NEW len \in Nat, len >= Header, len <= Quarter
    PROVE  /\ Add(c, CostAt(c, len)) \in Cursors
           /\ Remainder(Add(c, CostAt(c, len))) >= Header
  <1>1. /\ Capacity \in Nat /\ Header < Quarter /\ Capacity = 4 * Quarter /\ Quarter \in Nat /\ Header \in Nat
        BY Sizes, SpaceAssumption DEF Capacity
  <1>2. c \in 0..(2 * Capacity - 1) BY DEF Cursors
  <1>3. CASE Remainder(c) >= len + Header
    <2>1. CostAt(c, len) = len BY <1>3 DEF CostAt
    <2> QED BY <1>1, <1>2, <1>3, <2>1 DEF Cursors, Remainder, Mask, Add
  <1>4. CASE Remainder(c) >= len /\ Remainder(c) < len + Header
    <2>1. CostAt(c, len) = Remainder(c) BY <1>1, <1>2, <1>4 DEF CostAt, Remainder, Mask
    <2> QED BY <1>1, <1>2, <1>4, <2>1 DEF Cursors, Remainder, Mask, Add
  <1>5. CASE Remainder(c) < len
    <2>1. CostAt(c, len) = Remainder(c) + len BY <1>1, <1>2, <1>5 DEF CostAt, Remainder, Mask
    <2> QED BY <1>1, <1>2, <1>5, <2>1 DEF Cursors, Remainder, Mask, Add
  <1> QED BY <1>1, <1>2, <1>3, <1>4, <1>5 DEF Remainder, Mask

\* Distances of cursors add up as long as they stay within the region.
LEMMA Distances ==
    ASSUME NEW t \in Cursors, NEW h \in Cursors, NEW n \in Nat
    PROVE  /\ Sub(t, h) \in Nat
           /\ Sub(t, h) + n <= Capacity => Sub(Add(t, n), h) = Sub(t, h) + n
           /\ n <= Sub(t, h) => Add(h, n) \in Cursors /\ Sub(t, Add(h, n)) = Sub(t, h) - n
  <1>1. Capacity \in Nat BY Sizes
  <1>2. t \in 0..(2 * Capacity - 1) /\ h \in 0..(2 * Capacity - 1) BY DEF Cursors
  <1> QED BY <1>1, <1>2 DEF Sub, Add, Cursors

-----------------------------------------------------------------------------
LEMMA InitSpace == RingInit => SpaceInv
  <1> SUFFICES ASSUME RingInit PROVE SpaceInv OBVIOUS
  <1>1. tail = 0 /\ head = 0 /\ state = "active" /\ gap = 0 /\ plan = <<>> BY DEF RingInit
  <1>2. 0 \in Cursors /\ Remainder(0) = Capacity /\ Sub(0, 0) = 0 /\ Header <= Capacity
        BY Sizes, SpaceAssumption DEF Cursors, Remainder, Mask, Sub, Capacity
  <1> QED BY <1>1, <1>2, Sizes DEF SpaceInv, HeaderFits, Fill, Bound, PlanFits

\* What the gap record and the record after it cost.
LEMMA GapCosts ==
    ASSUME SpaceInv, NEW len \in Lengths
    PROVE  /\ GapCost \in Nat /\ CostAfterGap(len) \in Nat
           /\ gap = 0 => CostAfterGap(len) = CostAt(tail, len)
           /\ gap > 0 => CostAfterGap(len) =
                CostAt(tail, Header) + CostAt(Add(tail, CostAt(tail, Header)), len)
  <1>1. tail \in Cursors /\ gap \in Nat /\ Remainder(tail) >= Header BY DEF SpaceInv, HeaderFits
  <1>2. len \in Nat /\ len >= Header /\ Header \in Nat /\ Header <= Quarter BY Sizes, SpaceAssumption
  <1>3. CostAt(tail, len) \in Nat /\ CostAt(tail, Header) \in Nat BY <1>1, <1>2, CostBounds
  <1>4. Add(tail, CostAt(tail, Header)) \in Cursors BY <1>1, <1>2, NextHeaderFits
  <1>5. CostAt(Add(tail, CostAt(tail, Header)), len) \in Nat BY <1>2, <1>4, CostBounds
  <1>6. Add(tail, 0) = tail BY <1>1, Sizes DEF Add, Cursors
  <1> QED BY <1>1, <1>3, <1>5, <1>6 DEF GapCost, CostAfterGap

\* The reserve holds any terminal record (stream_sink.rs:28).
LEMMA ReserveHolds ==
    ASSUME SpaceInv, state = "active", NEW len \in TerminalLengths
    PROVE  Fill + CostAt(tail, len) <= Capacity
  <1>1. tail \in Cursors /\ head \in Cursors /\ Fill <= Usable BY DEF SpaceInv, Bound
  <1>2. Fill \in Nat BY <1>1, Distances DEF Fill
  <1>3. len \in Nat /\ len >= Header /\ 2 * len <= Reserved BY Sizes
  <1>4. CostAt(tail, len) \in Nat /\ CostAt(tail, len) < 2 * len BY <1>1, <1>3, CostBounds
  <1> QED BY <1>1, <1>2, <1>3, <1>4, Sizes, SpaceAssumption DEF Usable

LEMMA StepPush ==
    ASSUME SpaceInv, NEW len \in RecordLengths, PushWritten(len)
    PROVE  SpaceInv'
  <1>1. len \in Lengths BY SpaceAssumption DEF Lengths
  <1>2. /\ state = "active" /\ Fits(len) /\ plan' = WithGap(len) /\ gap' = 0
        /\ tail' = tail /\ head' = head /\ state' = state
        BY DEF PushWritten
  <1>3. gap \in Nat BY DEF SpaceInv
  <1>4. Fill' = Fill /\ Bound' = Usable /\ HeaderFits' = HeaderFits
        BY <1>2 DEF Fill, Bound, HeaderFits
  <1>5. Fill \in Nat /\ CostAfterGap(len) \in Nat /\ Fill + CostAfterGap(len) <= Usable
        BY <1>1, <1>2, GapCosts, Distances DEF Fits, SpaceInv, Fill
  <1>6. CASE gap = 0
    <2>1. plan' = <<len>> BY <1>2, <1>6 DEF WithGap
    <2>2. Fill + CostAt(tail, len) <= Usable BY <1>1, <1>5, <1>6, GapCosts
    <2>3. PlanFits' BY <1>1, <1>2, <1>4, <2>1, <2>2 DEF PlanFits
    <2> QED BY <1>2, <1>4, <2>3 DEF SpaceInv, Bound
  <1>7. CASE gap > 0
    <2>1. plan' = <<Header, len>> BY <1>2, <1>7 DEF WithGap
    <2>a. tail \in Cursors /\ Remainder(tail) >= Header /\ Header \in Nat /\ Header <= Quarter
          /\ len \in Nat /\ len >= Header
          BY <1>1, Sizes, SpaceAssumption DEF SpaceInv, HeaderFits
    <2>b. CostAt(tail, Header) \in Nat /\ CostAt(Add(tail, CostAt(tail, Header)), len) \in Nat
          BY <2>a, CostBounds, NextHeaderFits
    <2>2. Fill + CostAt(tail, Header) + CostAt(Add(tail, CostAt(tail, Header)), len) <= Usable
          BY <1>1, <1>5, <1>7, <2>b, GapCosts
    <2>3. PlanFits' BY <1>1, <1>2, <1>4, <2>1, <2>2 DEF PlanFits
    <2> QED BY <1>2, <1>4, <2>3 DEF SpaceInv, Bound
  <1> QED BY <1>3, <1>6, <1>7

LEMMA StepTerminal ==
    ASSUME SpaceInv, NEW len \in TerminalLengths, PushTerminal(len)
    PROVE  SpaceInv'
  <1>1. len \in Lengths BY DEF Lengths
  <1>2. /\ state = "active" /\ state' = "terminal" /\ tail' = tail /\ head' = head
        BY DEF PushTerminal
  <1>3. gap \in Nat /\ gap' \in Nat BY DEF SpaceInv, PushTerminal
  <1>4. Fill' = Fill /\ Bound' = Capacity /\ HeaderFits' = HeaderFits
        BY <1>2 DEF Fill, Bound, HeaderFits
  <1>5. Fill \in Nat /\ Fill <= Capacity
        BY <1>2, Distances, Sizes DEF SpaceInv, Fill, Bound
  <1>a. tail \in Cursors /\ Remainder(tail) >= Header /\ Header \in Nat /\ Header <= Quarter
        /\ len \in Nat /\ len >= Header
        BY <1>1, Sizes, SpaceAssumption DEF SpaceInv, HeaderFits
  <1>b. CostAt(tail, Header) \in Nat /\ CostAt(Add(tail, CostAt(tail, Header)), len) \in Nat
        BY <1>a, CostBounds, NextHeaderFits
  <1>6. CASE plan' = <<len>>
    <2>1. PlanFits' BY <1>1, <1>2, <1>4, <1>6, ReserveHolds DEF PlanFits
    <2> QED BY <1>2, <1>3, <1>4, <1>5, <2>1 DEF SpaceInv
  <1>7. CASE gap > 0 /\ plan' = <<Header, len>> /\ Fill + CostAfterGap(len) <= Capacity
    <2>1. Fill + CostAt(tail, Header) + CostAt(Add(tail, CostAt(tail, Header)), len) <= Capacity
          BY <1>1, <1>5, <1>7, <1>b, GapCosts
    <2>2. PlanFits' BY <1>1, <1>2, <1>4, <1>7, <2>1 DEF PlanFits
    <2> QED BY <1>2, <1>3, <1>4, <1>5, <2>2 DEF SpaceInv
  <1> QED BY <1>3, <1>6, <1>7 DEF PushTerminal, WithGap

\* Publishing a record of the plan.
LEMMA StepCommit ==
    ASSUME SpaceInv, Commit
    PROVE  SpaceInv'
  <1> DEFINE cost == CostAt(tail, Head(plan))
  <1>1. /\ tail' = Add(tail, cost) /\ plan' = Tail(plan) /\ plan # <<>>
        /\ head' = head /\ state' = state /\ gap' = gap /\ Bound' = Bound
        BY DEF Commit, Bound
  <1>2. /\ tail \in Cursors /\ head \in Cursors /\ Remainder(tail) >= Header
        /\ Fill \in Nat /\ Fill = Sub(tail, head) /\ Bound \in Nat /\ Bound <= Capacity
        BY Distances, Sizes DEF SpaceInv, HeaderFits, Fill, Bound
  <1>3. Header \in Nat /\ Header <= Quarter BY Sizes, SpaceAssumption
  <1>4. ASSUME NEW len \in Nat, len >= Header, len <= Quarter, Head(plan) = len, Fill + CostAt(tail, len) <= Bound
        PROVE  /\ tail' \in Cursors /\ HeaderFits' /\ Fill' = Fill + CostAt(tail, len)
    <2>1. CostAt(tail, len) \in Nat BY <1>2, <1>4, CostBounds
    <2>2. tail' \in Cursors /\ Remainder(tail') >= Header BY <1>1, <1>2, <1>4, NextHeaderFits
    <2>3. Sub(tail', head) = Fill + CostAt(tail, len) BY <1>1, <1>2, <1>4, <2>1, Distances, Sizes
    <2> QED BY <1>1, <2>2, <2>3 DEF HeaderFits, Fill
  <1>5. CASE \E len \in Lengths : plan = <<len>> /\ Fill + CostAt(tail, len) <= Bound
    <2>1. PICK len \in Lengths : plan = <<len>> /\ Fill + CostAt(tail, len) <= Bound BY <1>5
    <2>2. len \in Nat /\ len >= Header /\ len <= Quarter /\ Head(plan) = len /\ Tail(plan) = <<>> BY <2>1, Sizes
    <2>3. tail' \in Cursors /\ HeaderFits' /\ Fill' <= Bound BY <1>4, <2>1, <2>2
    <2> QED BY <1>1, <2>2, <2>3 DEF SpaceInv, PlanFits
  <1>6. CASE \E len \in Lengths :
                /\ plan = <<Header, len>>
                /\ Fill + CostAt(tail, Header) + CostAt(Add(tail, CostAt(tail, Header)), len) <= Bound
    <2>1. PICK len \in Lengths :
                /\ plan = <<Header, len>>
                /\ Fill + CostAt(tail, Header) + CostAt(Add(tail, CostAt(tail, Header)), len) <= Bound
          BY <1>6
    <2>2. len \in Nat /\ len >= Header /\ Head(plan) = Header /\ Tail(plan) = <<len>> BY <2>1, Sizes
    <2>3. CostAt(tail, Header) \in Nat /\ CostAt(Add(tail, CostAt(tail, Header)), len) \in Nat
          BY <1>2, <1>3, <2>2, CostBounds, NextHeaderFits
    <2>4. Fill + CostAt(tail, Header) <= Bound BY <1>2, <2>1, <2>3
    <2>5. tail' \in Cursors /\ HeaderFits' /\ Fill' = Fill + CostAt(tail, Header) BY <1>3, <1>4, <2>2, <2>4
    <2>6. tail' = Add(tail, CostAt(tail, Header)) BY <1>1, <2>2
    <2>7. Fill' + CostAt(tail', len) <= Bound' BY <1>1, <2>1, <2>5, <2>6
    <2>8. PlanFits' BY <1>1, <2>1, <2>2, <2>7 DEF PlanFits
    <2> QED BY <1>1, <2>4, <2>5, <2>8 DEF SpaceInv
  <1> QED BY <1>1, <1>5, <1>6 DEF SpaceInv, PlanFits

LEMMA StepReclaim ==
    ASSUME SpaceInv, NEW n \in 1..Capacity, Reclaim(n)
    PROVE  SpaceInv'
  <1>1. /\ n \in Nat /\ n <= Sub(tail, head) /\ head' = Add(head, n)
        /\ tail' = tail /\ state' = state /\ gap' = gap /\ plan' = plan
        BY Sizes DEF Reclaim, Advance, Fill
  <1>2. tail \in Cursors /\ head \in Cursors BY DEF SpaceInv
  <1>3. Fill \in Nat /\ head' \in Cursors /\ Fill' = Fill - n BY <1>1, <1>2, Distances DEF Fill
  <1>4. Bound' = Bound /\ HeaderFits' = HeaderFits /\ Bound \in Nat
        BY <1>1, Sizes DEF Bound, HeaderFits
  <1>5. Fill' <= Bound' BY <1>1, <1>3, <1>4 DEF SpaceInv
  <1>6. PlanFits'
    <2>1. \A x \in Nat : Fill + x <= Bound => Fill' + x <= Bound' BY <1>1, <1>3, <1>4
    <2>2. \A len \in Lengths : CostAt(tail, len) \in Nat
          BY <1>2, Sizes, CostBounds
    <2>3. ASSUME NEW len \in Lengths,
                 Fill + CostAt(tail, Header) + CostAt(Add(tail, CostAt(tail, Header)), len) <= Bound
          PROVE  Fill' + CostAt(tail, Header) + CostAt(Add(tail, CostAt(tail, Header)), len) <= Bound'
      <3>1. Header \in Nat /\ Header <= Quarter /\ len \in Nat /\ len >= Header /\ Remainder(tail) >= Header
            BY Sizes, SpaceAssumption DEF SpaceInv, HeaderFits
      <3>2. CostAt(tail, Header) \in Nat /\ CostAt(Add(tail, CostAt(tail, Header)), len) \in Nat
            BY <1>2, <3>1, CostBounds, NextHeaderFits
      <3> QED BY <1>1, <1>3, <1>4, <2>3, <3>2
    <2>4. PlanFits BY DEF SpaceInv
    <2>5. CASE plan = <<>> BY <1>1, <2>5 DEF PlanFits
    <2>6. CASE \E len \in Lengths : plan = <<len>> /\ Fill + CostAt(tail, len) <= Bound
      <3>1. PICK len \in Lengths : plan = <<len>> /\ Fill + CostAt(tail, len) <= Bound BY <2>6
      <3>2. Fill' + CostAt(tail', len) <= Bound' BY <1>1, <2>1, <2>2, <3>1
      <3> QED BY <1>1, <3>1, <3>2 DEF PlanFits
    <2>7. CASE \E len \in Lengths :
                /\ plan = <<Header, len>>
                /\ Fill + CostAt(tail, Header) + CostAt(Add(tail, CostAt(tail, Header)), len) <= Bound
      <3>1. PICK len \in Lengths :
                /\ plan = <<Header, len>>
                /\ Fill + CostAt(tail, Header) + CostAt(Add(tail, CostAt(tail, Header)), len) <= Bound
            BY <2>7
      <3> QED BY <1>1, <2>3, <3>1 DEF PlanFits
    <2> QED BY <2>4, <2>5, <2>6, <2>7 DEF PlanFits
  <1> QED BY <1>1, <1>3, <1>4, <1>5, <1>6 DEF SpaceInv

\* Every step of the ring keeps the invariant.
LEMMA StepSpace == SpaceInv /\ [RingNext]_space => SpaceInv'
  <1> SUFFICES ASSUME SpaceInv, [RingNext]_space PROVE SpaceInv' OBVIOUS
  <1>1. ASSUME NEW len \in RecordLengths, PushDropped(len) PROVE SpaceInv'
    <2>1. tail' = tail /\ head' = head /\ state' = state /\ plan' = plan /\ gap' = gap + 1 BY <1>1 DEF PushDropped
    <2>2. Fill' = Fill /\ Bound' = Bound /\ HeaderFits' = HeaderFits /\ PlanFits' = PlanFits
          BY <2>1 DEF Fill, Bound, HeaderFits, PlanFits
    <2> QED BY <2>1, <2>2 DEF SpaceInv
  <1>2. ASSUME SetExited PROVE SpaceInv'
    <2>1. tail' = tail /\ head' = head /\ state' = "exited" /\ plan' = plan /\ gap' = gap /\ plan = <<>> /\ state = "terminal"
          BY <1>2 DEF SetExited
    <2>2. Fill' = Fill /\ Bound' = Bound /\ HeaderFits' = HeaderFits /\ PlanFits'
          BY <2>1 DEF Fill, Bound, HeaderFits, PlanFits
    <2> QED BY <2>1, <2>2 DEF SpaceInv
  <1>3. ASSUME UNCHANGED space PROVE SpaceInv'
    <2>1. tail' = tail /\ head' = head /\ state' = state /\ plan' = plan /\ gap' = gap BY <1>3 DEF space
    <2>2. Fill' = Fill /\ Bound' = Bound /\ HeaderFits' = HeaderFits /\ PlanFits' = PlanFits
          BY <2>1 DEF Fill, Bound, HeaderFits, PlanFits
    <2> QED BY <2>1, <2>2 DEF SpaceInv
  <1> QED BY <1>1, <1>2, <1>3, StepPush, StepTerminal, StepCommit, StepReclaim DEF RingNext

\* The inductive invariant holds of every ring.
THEOREM SpaceInvariant == RingSpec => []SpaceInv
  BY InitSpace, StepSpace, PTL DEF RingSpec

\* No record starts within a header of the end of the region, whatever the
\* sizes of the records: the geometry that commit and the consumer rely on.
THEOREM Geometry == RingSpec => []HeaderFits
  <1>1. SpaceInv => HeaderFits BY DEF SpaceInv
  <1> QED BY <1>1, SpaceInvariant, PTL

\* push and push_terminal never overrun the consumer and keep the reserve
\* until the terminal record.
THEOREM NeverOverruns == RingSpec => []NoOverrun
  <1>1. SpaceInv => NoOverrun
        BY Distances, Sizes DEF SpaceInv, NoOverrun, Bound, Fill
  <1> QED BY <1>1, SpaceInvariant, PTL

\* A push into an empty ring is never refused, with a gap record before it
\* or without: a blocked producer always waits for its consumer.
THEOREM EmptyAccepts == RingSpec => []EmptyRingAccepts
  <1>1. ASSUME SpaceInv, state = "active", Fill = 0, NEW len \in RecordLengths PROVE Fits(len)
    <2>1. len \in Lengths BY SpaceAssumption DEF Lengths
    <2>2. /\ tail \in Cursors /\ Remainder(tail) >= Header /\ gap \in Nat /\ Header \in Nat /\ Header <= Quarter
          /\ len \in Nat /\ len >= Header /\ len <= Quarter
          BY <1>1, <2>1, Sizes, SpaceAssumption DEF SpaceInv, HeaderFits
    <2>3. CostAt(tail, Header) \in Nat /\ CostAt(tail, Header) < 2 * Header
          /\ CostAt(tail, len) \in Nat /\ CostAt(tail, len) < 2 * len
          BY <2>2, CostBounds
    <2>4. Add(tail, CostAt(tail, Header)) \in Cursors BY <2>2, NextHeaderFits
    <2>5. CostAt(Add(tail, CostAt(tail, Header)), len) \in Nat /\ CostAt(Add(tail, CostAt(tail, Header)), len) < 2 * len
          BY <2>2, <2>4, CostBounds
    <2>6. CostAfterGap(len) \in Nat /\ CostAfterGap(len) <= 2 * Header + 2 * Quarter
      <3>1. /\ CostAfterGap(len) \in Nat
            /\ gap = 0 => CostAfterGap(len) = CostAt(tail, len)
            /\ gap > 0 => CostAfterGap(len) =
                 CostAt(tail, Header) + CostAt(Add(tail, CostAt(tail, Header)), len)
            BY <1>1, <2>1, GapCosts
      <3>2. CASE gap = 0 BY <2>2, <2>3, <3>1, <3>2, SpaceAssumption
      <3>3. CASE gap > 0 BY <2>2, <2>3, <2>5, <3>1, <3>3, SpaceAssumption
      <3> QED BY <2>2, <3>2, <3>3
    <2> QED BY <1>1, <2>2, <2>6, SpaceAssumption DEF Fits, Usable, Capacity
  <1>2. SpaceInv => EmptyRingAccepts BY <1>1 DEF EmptyRingAccepts
  <1> QED BY <1>2, SpaceInvariant, PTL

\* The ring's space: a header fits at every cursor, the producer never
\* overruns the consumer, an empty ring accepts every record.
THEOREM RingIsSafe == RingSpec => []RingSafe
  BY Geometry, NeverOverruns, EmptyAccepts, PTL DEF RingSafe

-----------------------------------------------------------------------------
(* The diagnostics: the invariant. *)

Places == {"idle", "enter", "in", "out", "leave"}
OwnerTypes == [Owners -> [pc: Places, comp: Comps, op: Takes \cup Gives, of: PhaseSet]]
GateTypes == [Comps -> [inside: Nat, cut: BOOLEAN, shut: BOOLEAN]]

Inside(c) == {o \in Owners : owner[o].comp = c /\ owner[o].pc \in {"in", "leave"}}

GateExact == \A c \in Comps : gate[c].inside = Cardinality(Inside(c))

\* What an owner is about to do fits what it holds, and only an owner that
\* gives something back goes on without the gate.
OpsMatch ==
    \A o \in Owners :
        /\ owner[o].pc \in {"enter", "in", "out"} =>
              /\ owner[o].op \in Takes => holding[o] = "nothing"
              /\ owner[o].op = "finish" => holding[o] = "interval"
              /\ owner[o].op = "release" => holding[o] = "reservation"
        /\ owner[o].pc = "out" => owner[o].op \in Gives

CutsMatch ==
    /\ \A c \in Comps : gate[c].cut <=> c \in ctl.cuts
    /\ \A c \in Comps : gate[c].cut => Inside(c) = {}
    /\ ctl.pc = "idle" => ctl.cuts = {}
    /\ ctl.pc = "cut" => ctl.next = rphase + 1

PhasesMatch ==
    \A c \in Comps :
        /\ gauge[c].phase = cphase[c]
        /\ cphase[c] # rphase => ctl.pc = "cut" /\ ctl.cuts = Comps /\ cphase[c] = ctl.next

HighIsPeak == \A c \in Comps : gauge[c].high = peak[c][gauge[c].phase]

ClosedQuiet ==
    /\ \A c \in Comps : gate[c].shut = rclosed
    /\ rclosed => /\ ctl.pc = "idle"
                  /\ \A o \in Owners : holding[o] = "nothing" /\ owner[o].pc \in {"idle", "enter"}

DiagInvariant ==
    /\ DiagTypeOK /\ GateExact /\ OwnedExact /\ OpsMatch /\ CutsMatch
    /\ PhasesMatch /\ HighIsPeak /\ MarksExact /\ ClosedQuiet

-----------------------------------------------------------------------------
(* Cardinalities. *)

LEMMA OwnerSets ==
    ASSUME NEW S \in SUBSET Owners
    PROVE  IsFiniteSet(S) /\ Cardinality(S) \in Nat
  BY DiagnosticsAssumption, FS_Subset, FS_CardinalityType

LEMMA OneMore ==
    ASSUME NEW S \in SUBSET Owners, NEW o \in Owners, o \notin S
    PROVE  Cardinality(S \cup {o}) = Cardinality(S) + 1
  BY OwnerSets, FS_AddElement

LEMMA OneLess ==
    ASSUME NEW S \in SUBSET Owners, NEW o \in S
    PROVE  /\ Cardinality(S \ {o}) = Cardinality(S) - 1
           /\ Cardinality(S) \in Nat \ {0}
           /\ Cardinality(S \ {o}) \in Nat
  <1>1. Cardinality(S \ {o}) = Cardinality(S) - 1
    BY OwnerSets, FS_RemoveElement
  <1>2. Cardinality(S \ {o}) \in Nat /\ Cardinality(S) \in Nat
    BY OwnerSets
  <1> QED
    BY <1>1, <1>2

LEMMA EmptySet ==
    ASSUME NEW S \in SUBSET Owners
    PROVE  Cardinality(S) = 0 <=> S = {}
  BY OwnerSets, FS_EmptySet

-----------------------------------------------------------------------------
(* Updates of records. *)

LEMMA OwnerUpdates ==
    ASSUME NEW f \in OwnerTypes, NEW o \in Owners, NEW pc \in Places
    PROVE  /\ [f EXCEPT ![o].pc = pc] \in OwnerTypes
           /\ \A op \in Takes \cup Gives : [f EXCEPT ![o].pc = pc, ![o].op = op] \in OwnerTypes
           /\ \A of \in PhaseSet : [f EXCEPT ![o].pc = pc, ![o].of = of] \in OwnerTypes
  BY DEF OwnerTypes

LEMMA GateUpdates ==
    ASSUME NEW f \in GateTypes, NEW c \in Comps, NEW n \in Nat
    PROVE  /\ [f EXCEPT ![c].inside = n] \in GateTypes
           /\ [f EXCEPT ![c].cut = TRUE] \in GateTypes
  BY DEF GateTypes

LEMMA Types ==
    ASSUME DiagTypeOK
    PROVE  owner \in OwnerTypes /\ gate \in GateTypes
  BY DEF DiagTypeOK, OwnerTypes, GateTypes, Places

-----------------------------------------------------------------------------
(* The owners' steps. *)

LEMMA BeginStep ==
    ASSUME DiagInvariant, NEW o \in Owners, NEW op \in Takes \cup Gives, Begin(o, op)
    PROVE  DiagInvariant'
  <1> USE DEF DiagInvariant
  <1>1. DiagTypeOK'
    <2>1. owner' \in OwnerTypes
      BY Types, OwnerUpdates DEF Begin, Places, DiagTypeOK
    <2> QED
      BY <2>1 DEF DiagTypeOK, OwnerTypes, Places, Begin
  <1>2. \A c \in Comps : Inside(c)' = Inside(c) /\ Reserving(c)' = Reserving(c)
    BY DEF DiagTypeOK, Begin, Inside, Reserving
  <1>3. \A c \in Comps, p \in PhaseSet : Timing(c, p)' = Timing(c, p)
    BY DEF DiagTypeOK, Begin, Timing
  <1>4. GateExact' /\ OwnedExact'
    BY <1>2, <1>3 DEF GateExact, OwnedExact, Begin
  <1>5. OpsMatch'
    BY DEF OpsMatch, DiagTypeOK, Begin, Takes, Gives
  <1>6. CutsMatch' /\ PhasesMatch' /\ HighIsPeak' /\ MarksExact'
    BY <1>2 DEF CutsMatch, PhasesMatch, HighIsPeak, MarksExact, Begin
  <1>7. ClosedQuiet'
    BY DEF ClosedQuiet, Begin, DiagTypeOK
  <1> QED
    BY <1>1, <1>4, <1>5, <1>6, <1>7

LEMMA EnterStep ==
    ASSUME DiagInvariant, NEW o \in Owners, Enter(o)
    PROVE  DiagInvariant'
  <1> USE DEF DiagInvariant
  <1> DEFINE k == owner[o].comp
  <1>1. k \in Comps /\ owner[o].pc = "enter" /\ ~gate[k].shut /\ ~gate[k].cut
    BY DEF DiagTypeOK, Enter, MayEnter
  <1>2. DiagTypeOK'
    <2>1. owner' \in OwnerTypes
      BY Types, OwnerUpdates DEF Enter, Places, DiagTypeOK
    <2>2. gate' \in GateTypes
      <3>1. gate' = [gate EXCEPT ![k].inside = gate[k].inside + 1]
        BY DEF Enter
      <3>2. gate[k].inside + 1 \in Nat
        BY <1>1, Types DEF GateTypes
      <3> QED
        BY <1>1, <3>1, <3>2, Types, GateUpdates
    <2> QED
      BY <2>1, <2>2 DEF DiagTypeOK, OwnerTypes, GateTypes, Places, Enter
  <1>3. /\ Inside(k)' = Inside(k) \cup {o} /\ o \notin Inside(k)
        /\ \A c \in Comps \ {k} : Inside(c)' = Inside(c)
        /\ \A c \in Comps : Reserving(c)' = Reserving(c)
    BY <1>1 DEF DiagTypeOK, Enter, Inside, Reserving
  <1>4. \A c \in Comps, p \in PhaseSet : Timing(c, p)' = Timing(c, p)
    BY DEF DiagTypeOK, Enter, Timing
  <1>5. Cardinality(Inside(k)') = Cardinality(Inside(k)) + 1
    BY <1>3, OneMore DEF Inside
  <1>6. GateExact'
    BY <1>1, <1>3, <1>5 DEF GateExact, Enter, DiagTypeOK
  <1>7. OwnedExact'
    BY <1>3, <1>4 DEF OwnedExact, Enter
  <1>8. OpsMatch'
    BY DEF OpsMatch, DiagTypeOK, Enter
  <1>9. \A c \in Comps : gate'[c].cut = gate[c].cut /\ gate'[c].shut = gate[c].shut
    BY <1>1 DEF Enter, DiagTypeOK
  <1>10. CutsMatch'
    BY <1>1, <1>3, <1>9 DEF CutsMatch, Enter
  <1>11. PhasesMatch' /\ HighIsPeak' /\ MarksExact'
    BY DEF PhasesMatch, HighIsPeak, MarksExact, Enter
  <1>12. ClosedQuiet'
    BY <1>1, <1>9 DEF ClosedQuiet, Enter, DiagTypeOK
  <1> QED
    BY <1>2, <1>6, <1>7, <1>8, <1>10, <1>11, <1>12

LEMMA GiveUpStep ==
    ASSUME DiagInvariant, NEW o \in Owners, GiveUp(o)
    PROVE  DiagInvariant'
  <1> USE DEF DiagInvariant
  <1>1. DiagTypeOK'
    <2>1. owner' \in OwnerTypes
      BY Types, OwnerUpdates DEF GiveUp, Places, DiagTypeOK
    <2>2. errs' \in [Comps -> 0..MaxErrors]
      BY DiagnosticsAssumption DEF DiagTypeOK, GiveUp
    <2> QED
      BY <2>1, <2>2 DEF DiagTypeOK, OwnerTypes, Places, GiveUp
  <1>2. \A c \in Comps : Inside(c)' = Inside(c) /\ Reserving(c)' = Reserving(c)
    BY DEF DiagTypeOK, GiveUp, Inside, Reserving
  <1>3. \A c \in Comps, p \in PhaseSet : Timing(c, p)' = Timing(c, p)
    BY DEF DiagTypeOK, GiveUp, Timing
  <1>4. GateExact' /\ OwnedExact'
    BY <1>2, <1>3 DEF GateExact, OwnedExact, GiveUp
  <1>5. OpsMatch'
    BY DEF OpsMatch, DiagTypeOK, GiveUp, Takes, Gives
  <1>6. CutsMatch' /\ PhasesMatch' /\ HighIsPeak' /\ MarksExact'
    BY <1>2 DEF CutsMatch, PhasesMatch, HighIsPeak, MarksExact, GiveUp
  <1>7. ClosedQuiet'
    <2>1. rclosed => owner[o].op \in Takes
      BY DEF ClosedQuiet, GiveUp, DiagTypeOK, OpsMatch, Gives
    <2> QED
      BY <2>1 DEF ClosedQuiet, GiveUp, DiagTypeOK
  <1> QED
    BY <1>1, <1>4, <1>5, <1>6, <1>7

LEMMA LeaveStep ==
    ASSUME DiagInvariant, NEW o \in Owners, Leave(o)
    PROVE  DiagInvariant'
  <1> USE DEF DiagInvariant
  <1> DEFINE k == owner[o].comp
  <1>1. k \in Comps /\ owner[o].pc = "leave"
    BY DEF DiagTypeOK, Leave
  <1>2. /\ Inside(k)' = Inside(k) \ {o} /\ o \in Inside(k)
        /\ \A c \in Comps \ {k} : Inside(c)' = Inside(c)
        /\ \A c \in Comps : Reserving(c)' = Reserving(c)
    BY <1>1 DEF DiagTypeOK, Leave, Inside, Reserving
  <1>3. \A c \in Comps, p \in PhaseSet : Timing(c, p)' = Timing(c, p)
    BY DEF DiagTypeOK, Leave, Timing
  <1>4. /\ Cardinality(Inside(k)') = Cardinality(Inside(k)) - 1
        /\ Cardinality(Inside(k)) \in Nat \ {0}
    BY <1>2, OneLess DEF Inside
  <1>5. gate[k].inside \in Nat \ {0}
    BY <1>1, <1>4 DEF GateExact
  <1>6. DiagTypeOK'
    <2>1. owner' \in OwnerTypes
      BY Types, OwnerUpdates DEF Leave, Places, DiagTypeOK
    <2>2. gate' \in GateTypes
      <3>1. gate' = [gate EXCEPT ![k].inside = gate[k].inside - 1]
        BY DEF Leave
      <3>2. gate[k].inside - 1 \in Nat
        BY <1>5
      <3> QED
        BY <1>1, <3>1, <3>2, Types, GateUpdates
    <2> QED
      BY <2>1, <2>2 DEF DiagTypeOK, OwnerTypes, GateTypes, Places, Leave
  <1>7. GateExact'
    BY <1>1, <1>2, <1>4 DEF GateExact, Leave, DiagTypeOK
  <1>8. OwnedExact'
    BY <1>2, <1>3 DEF OwnedExact, Leave
  <1>9. OpsMatch'
    BY DEF OpsMatch, DiagTypeOK, Leave
  <1>10. \A c \in Comps : gate'[c].cut = gate[c].cut /\ gate'[c].shut = gate[c].shut
    BY <1>1 DEF Leave, DiagTypeOK
  <1>11. CutsMatch'
    BY <1>1, <1>2, <1>10 DEF CutsMatch, Leave
  <1>12. PhasesMatch' /\ HighIsPeak' /\ MarksExact'
    BY DEF PhasesMatch, HighIsPeak, MarksExact, Leave
  <1>13. ClosedQuiet'
    BY <1>1, <1>10 DEF ClosedQuiet, Leave, DiagTypeOK
  <1> QED
    BY <1>6, <1>7, <1>8, <1>9, <1>11, <1>12, <1>13

\* The cardinality arguments of an update: one owner enters or leaves one set.
LEMMA UpdateSets ==
    ASSUME DiagInvariant, NEW o \in Owners, Update(o)
    PROVE  LET k == owner[o].comp IN
           /\ k \in Comps /\ ~rclosed
           /\ \A c \in Comps : Inside(c)' = Inside(c)
           /\ \A c \in Comps \ {k} : Reserving(c)' = Reserving(c)
           /\ \A c \in Comps, p \in PhaseSet :
                  c # k \/ p # owner'[o].of => Timing(c, p)' = Timing(c, p)
  <1> USE DEF DiagInvariant
  <1> DEFINE k == owner[o].comp
  <1>1. k \in Comps /\ owner[o].pc \in {"in", "out"} /\ ~rclosed
    BY DEF DiagTypeOK, Update, ClosedQuiet
  <1>2. /\ \A q \in Owners \ {o} : owner'[q] = owner[q] /\ holding'[q] = holding[q]
        /\ owner'[o].comp = k /\ owner'[o].of \in PhaseSet
        /\ owner'[o].pc = (IF owner[o].pc = "in" THEN "leave" ELSE "idle")
        /\ owner'[o].of # owner[o].of => owner[o].op = "start"
    BY <1>1 DEF DiagTypeOK, Update
  <1>3. \A c \in Comps : Inside(c)' = Inside(c)
    BY <1>1, <1>2 DEF Inside
  <1>4. \A c \in Comps \ {k} : Reserving(c)' = Reserving(c)
    BY <1>1, <1>2 DEF Reserving
  <1>5. owner[o].op = "start" => holding[o] = "nothing"
    BY <1>1 DEF OpsMatch, Takes, Gives
  <1>6. \A c \in Comps, p \in PhaseSet :
            c # k \/ p # owner'[o].of => Timing(c, p)' = Timing(c, p)
    BY <1>1, <1>2, <1>5 DEF Timing
  <1> QED
    BY <1>1, <1>3, <1>4, <1>6

LEMMA StartStep ==
    ASSUME DiagInvariant, NEW o \in Owners, Update(o), owner[o].op = "start"
    PROVE  /\ OwnedExact' /\ gauge' = gauge /\ peak' = peak
           /\ pending' \in [Comps -> [PhaseSet -> Nat]]
           /\ holding' \in [Owners -> {"nothing", "interval", "reservation"}]
  <1> USE DEF DiagInvariant
  <1>0. PICK k \in Comps, t \in PhaseSet : k = owner[o].comp /\ t = cphase[k]
    BY DEF DiagTypeOK
  <1>1. /\ holding[o] = "nothing"
        /\ pending' = [pending EXCEPT ![k][t] = IF t = 0 THEN @ ELSE @ + 1]
        /\ holding' = [holding EXCEPT ![o] = IF t = 0 THEN "nothing" ELSE "interval"]
        /\ gauge' = gauge /\ peak' = peak
    BY <1>0 DEF DiagTypeOK, Update, OpsMatch, Takes
  <1>2. /\ owner'[o].of = t /\ owner'[o].comp = k
        /\ \A q \in Owners \ {o} : owner'[q] = owner[q] /\ holding'[q] = holding[q]
        /\ holding'[o] = IF t = 0 THEN "nothing" ELSE "interval"
    BY <1>0, <1>1 DEF DiagTypeOK, Update
  <1>3. \A c \in Comps : Reserving(c)' = Reserving(c)
    BY <1>0, <1>1, <1>2 DEF Reserving
  <1>4. pending[k][t] \in Nat /\ pending \in [Comps -> [PhaseSet -> Nat]]
    BY <1>1 DEF DiagTypeOK
  <1>5. pending' \in [Comps -> [PhaseSet -> Nat]]
    BY <1>1, <1>4
  <1>6. holding' \in [Owners -> {"nothing", "interval", "reservation"}]
    BY <1>1 DEF DiagTypeOK
  <1>7. pending'[k][t] = Cardinality(Timing(k, t)')
    <2>1. CASE t = 0
      <3>1. Timing(k, t)' = Timing(k, t)
        BY <1>0, <1>1, <1>2, <2>1 DEF Timing
      <3>2. pending'[k][t] = pending[k][t]
        BY <1>1, <1>4, <2>1
      <3> QED
        BY <1>1, <3>1, <3>2 DEF OwnedExact
    <2>2. CASE t # 0
      <3>1. Timing(k, t)' = Timing(k, t) \cup {o} /\ o \notin Timing(k, t)
        BY <1>0, <1>1, <1>2, <2>2 DEF Timing
      <3>2. Cardinality(Timing(k, t)') = Cardinality(Timing(k, t)) + 1
        BY <3>1, OneMore DEF Timing
      <3>3. pending'[k][t] = pending[k][t] + 1
        BY <1>1, <1>4, <2>2
      <3> QED
        BY <1>1, <3>2, <3>3 DEF OwnedExact
    <2> QED
      BY <2>1, <2>2
  <1>8. \A c \in Comps, p \in PhaseSet : c # k \/ p # t =>
            pending'[c][p] = pending[c][p] /\ Timing(c, p)' = Timing(c, p)
    BY <1>0, <1>1, <1>2, <1>4, UpdateSets
  <1> QED
    BY <1>1, <1>3, <1>5, <1>6, <1>7, <1>8 DEF OwnedExact

LEMMA FinishStep ==
    ASSUME DiagInvariant, NEW o \in Owners, Update(o), owner[o].op = "finish"
    PROVE  /\ OwnedExact' /\ gauge' = gauge /\ peak' = peak
           /\ pending' \in [Comps -> [PhaseSet -> Nat]]
           /\ holding' \in [Owners -> {"nothing", "interval", "reservation"}]
  <1> USE DEF DiagInvariant
  <1>0. PICK k \in Comps, t \in PhaseSet : k = owner[o].comp /\ t = owner[o].of
    BY DEF DiagTypeOK
  <1>1. /\ holding[o] = "interval"
        /\ pending' = [pending EXCEPT ![k][t] = @ - 1]
        /\ holding' = [holding EXCEPT ![o] = "nothing"]
        /\ gauge' = gauge /\ peak' = peak
    BY <1>0 DEF DiagTypeOK, Update, OpsMatch
  <1>2. /\ owner'[o].of = t /\ owner'[o].comp = k
        /\ \A q \in Owners \ {o} : owner'[q] = owner[q] /\ holding'[q] = holding[q]
        /\ holding'[o] = "nothing"
    BY <1>0, <1>1 DEF DiagTypeOK, Update
  <1>3. \A c \in Comps : Reserving(c)' = Reserving(c)
    BY <1>0, <1>1, <1>2 DEF Reserving
  <1>4. pending[k][t] \in Nat /\ pending \in [Comps -> [PhaseSet -> Nat]]
    BY <1>1 DEF DiagTypeOK
  <1>5. Timing(k, t)' = Timing(k, t) \ {o} /\ o \in Timing(k, t)
    BY <1>0, <1>1, <1>2 DEF Timing
  <1>6. /\ Cardinality(Timing(k, t)') = Cardinality(Timing(k, t)) - 1
        /\ Cardinality(Timing(k, t)) \in Nat \ {0}
    BY <1>5, OneLess DEF Timing
  <1>7. pending[k][t] = Cardinality(Timing(k, t))
    BY <1>1 DEF OwnedExact
  <1>8. pending' \in [Comps -> [PhaseSet -> Nat]]
    <2>1. PICK n \in Nat : n = pending[k][t] - 1
      BY <1>4, <1>6, <1>7
    <2>2. pending' = [pending EXCEPT ![k][t] = n]
      BY <1>1, <2>1
    <2> QED
      BY <1>4, <2>2
  <1>9. holding' \in [Owners -> {"nothing", "interval", "reservation"}]
    BY <1>1 DEF DiagTypeOK
  <1>10. pending'[k][t] = Cardinality(Timing(k, t)')
    BY <1>1, <1>4, <1>6, <1>7
  <1>11. \A c \in Comps, p \in PhaseSet : c # k \/ p # t =>
            pending'[c][p] = pending[c][p] /\ Timing(c, p)' = Timing(c, p)
    BY <1>0, <1>1, <1>2, <1>4, UpdateSets
  <1> QED
    BY <1>1, <1>3, <1>8, <1>9, <1>10, <1>11 DEF OwnedExact

LEMMA ReserveStep ==
    ASSUME DiagInvariant, NEW o \in Owners, Update(o), owner[o].op \in {"reserve", "release"}
    PROVE  LET k == owner[o].comp IN
           /\ OwnedExact' /\ pending' = pending
           /\ holding' \in [Owners -> {"nothing", "interval", "reservation"}]
           /\ \E now \in Nat :
                 /\ gauge' = [gauge EXCEPT ![k].now = now, ![k].high = Larger(@, now)]
                 /\ peak' = [peak EXCEPT ![k][gauge[k].phase] = Larger(@, now)]
  <1> USE DEF DiagInvariant
  <1>0. PICK k \in Comps : k = owner[o].comp
    BY DEF DiagTypeOK
  <1> DEFINE d == IF owner[o].op = "reserve" THEN 1 ELSE -1
             now == gauge[k].now + d
  <1>1. /\ pending' = pending
        /\ owner[o].op = "reserve" => holding[o] = "nothing"
        /\ owner[o].op = "release" => holding[o] = "reservation"
        /\ holding' = [holding EXCEPT ![o] = IF owner[o].op = "reserve" THEN "reservation" ELSE "nothing"]
    BY <1>0 DEF DiagTypeOK, Update, OpsMatch, Takes
  <1>2. /\ gauge' = [gauge EXCEPT ![k].now = now, ![k].high = Larger(@, now)]
        /\ peak' = [peak EXCEPT ![k][gauge[k].phase] = Larger(@, now)]
    BY <1>0 DEF Update, Change
  <1>3. /\ owner'[o].of = owner[o].of /\ owner'[o].comp = k
        /\ \A q \in Owners \ {o} : owner'[q] = owner[q] /\ holding'[q] = holding[q]
        /\ holding'[o] = IF owner[o].op = "reserve" THEN "reservation" ELSE "nothing"
    BY <1>0, <1>1 DEF DiagTypeOK, Update
  <1>4. \A c \in Comps, p \in PhaseSet : Timing(c, p)' = Timing(c, p)
    BY <1>0, <1>1, <1>3 DEF Timing
  <1>5. gauge[k].now = Cardinality(Reserving(k)) /\ gauge[k].now \in Nat
    BY <1>1 DEF OwnedExact, DiagTypeOK
  <1>6. now \in Nat /\ Cardinality(Reserving(k)') = now
    <2>1. CASE owner[o].op = "reserve"
      <3>1. Reserving(k)' = Reserving(k) \cup {o} /\ o \notin Reserving(k)
        BY <1>0, <1>1, <1>3, <2>1 DEF Reserving
      <3>2. Cardinality(Reserving(k)') = Cardinality(Reserving(k)) + 1
        BY <3>1, OneMore DEF Reserving
      <3> QED
        BY <1>5, <2>1, <3>2
    <2>2. CASE owner[o].op = "release"
      <3>1. Reserving(k)' = Reserving(k) \ {o} /\ o \in Reserving(k)
        BY <1>0, <1>1, <1>3, <2>2 DEF Reserving
      <3>2. /\ Cardinality(Reserving(k)') = Cardinality(Reserving(k)) - 1
            /\ Cardinality(Reserving(k)) \in Nat \ {0}
        BY <3>1, OneLess DEF Reserving
      <3> QED
        BY <1>5, <2>2, <3>2
    <2> QED
      BY <2>1, <2>2
  <1>7. gauge'[k].now = now /\ \A c \in Comps \ {k} : gauge'[c] = gauge[c]
    BY <1>1, <1>2 DEF DiagTypeOK
  <1>8. OwnedExact'
    BY <1>0, <1>1, <1>4, <1>6, <1>7, UpdateSets DEF OwnedExact
  <1>9. holding' \in [Owners -> {"nothing", "interval", "reservation"}]
    BY <1>1 DEF DiagTypeOK
  <1> QED
    BY <1>0, <1>1, <1>2, <1>6, <1>8, <1>9

\* What an update does to a gauge keeps the mark of the current phase true,
\* and touches the mark of no other phase.
LEMMA GaugeKept ==
    ASSUME DiagInvariant, NEW k \in Comps, NEW now \in Nat,
           gauge' = [gauge EXCEPT ![k].now = now, ![k].high = Larger(@, now)],
           peak' = [peak EXCEPT ![k][gauge[k].phase] = Larger(@, now)],
           UNCHANGED <<cphase, sealedHigh, ctl, rphase>>
    PROVE  /\ PhasesMatch' /\ HighIsPeak' /\ MarksExact'
           /\ gauge' \in [Comps -> [now: Nat, high: Nat, phase: PhaseSet]]
           /\ peak' \in [Comps -> [PhaseSet -> Nat]]
  <1> USE DEF DiagInvariant
  <1>1. gauge \in [Comps -> [now: Nat, high: Nat, phase: PhaseSet]] /\ peak \in [Comps -> [PhaseSet -> Nat]]
    BY DEF DiagTypeOK
  <1>2. gauge[k].high \in Nat /\ gauge[k].phase \in PhaseSet /\ peak[k][gauge[k].phase] \in Nat
    BY <1>1
  <1>3. Larger(gauge[k].high, now) \in Nat /\ Larger(peak[k][gauge[k].phase], now) \in Nat
    BY <1>2 DEF Larger
  <1>4. /\ gauge'[k].phase = gauge[k].phase /\ gauge'[k].high = Larger(gauge[k].high, now)
        /\ \A c \in Comps \ {k} : gauge'[c] = gauge[c]
    BY <1>1
  <1>5. /\ peak'[k][gauge[k].phase] = Larger(peak[k][gauge[k].phase], now)
        /\ \A c \in Comps, p \in PhaseSet : c # k \/ p # gauge[k].phase => peak'[c][p] = peak[c][p]
    BY <1>1, <1>2
  <1>6. gauge' \in [Comps -> [now: Nat, high: Nat, phase: PhaseSet]]
    BY <1>1, <1>3
  <1>7. peak' \in [Comps -> [PhaseSet -> Nat]]
    BY <1>1, <1>2, <1>3
  <1>8. PhasesMatch'
    BY <1>4 DEF PhasesMatch
  <1>9. HighIsPeak'
    <2> SUFFICES ASSUME NEW c \in Comps
                 PROVE  gauge'[c].high = peak'[c][gauge'[c].phase]
      BY DEF HighIsPeak
    <2>1. gauge[c].high = peak[c][gauge[c].phase] /\ gauge[c].phase \in PhaseSet
      BY <1>1 DEF HighIsPeak
    <2>2. CASE c = k
      BY <1>4, <1>5, <2>1, <2>2
    <2>3. CASE c # k
      <3>1. gauge'[c] = gauge[c]
        BY <1>4, <2>3
      <3>2. peak'[c][gauge[c].phase] = peak[c][gauge[c].phase]
        BY <1>5, <2>1, <2>3
      <3> QED
        BY <2>1, <3>1, <3>2
    <2> QED
      BY <2>2, <2>3
  <1>10. MarksExact'
    <2> SUFFICES ASSUME NEW c \in Comps, NEW p \in PhaseSet, p < gauge'[c].phase
                 PROVE  sealedHigh'[c][p] = peak'[c][p]
      BY DEF MarksExact
    <2>0. p < gauge[c].phase
      BY <1>4
    <2>1. p < gauge[c].phase /\ (c = k => p # gauge[k].phase)
      BY <1>2, <2>0 DEF PhaseSet
    <2> QED
      BY <1>5, <2>1 DEF MarksExact
  <1> QED
    BY <1>6, <1>7, <1>8, <1>9, <1>10

LEMMA UpdateStep ==
    ASSUME DiagInvariant, NEW o \in Owners, Update(o)
    PROVE  DiagInvariant'
  <1> USE DEF DiagInvariant
  <1>1. owner[o].op \in {"start", "finish", "reserve", "release"} /\ owner[o].comp \in Comps
    BY DEF DiagTypeOK, Takes, Gives
  <1>2. UNCHANGED <<gate, cphase, sealedHigh, errs, ctl, rphase, rclosed>>
    BY DEF Update
  <1>3. owner' \in OwnerTypes
    <2>1. cphase[owner[o].comp] \in PhaseSet /\ owner[o].of \in PhaseSet
      BY <1>1 DEF DiagTypeOK
    <2>2. PICK pc \in Places, of \in PhaseSet : owner' = [owner EXCEPT ![o].pc = pc, ![o].of = of]
      <3>1. owner' = [owner EXCEPT ![o].pc = IF owner[o].pc = "in" THEN "leave" ELSE "idle",
                                   ![o].of = IF owner[o].op = "start" THEN cphase[owner[o].comp] ELSE owner[o].of]
        BY Types DEF Update, OwnerTypes
      <3>2. (IF owner[o].pc = "in" THEN "leave" ELSE "idle") \in Places
        BY DEF Places
      <3>3. (IF owner[o].op = "start" THEN cphase[owner[o].comp] ELSE owner[o].of) \in PhaseSet
        BY <2>1
      <3> QED
        BY <3>1, <3>2, <3>3
    <2> QED
      BY <2>2, Types, OwnerUpdates
  <1>4. /\ OwnedExact' /\ PhasesMatch' /\ HighIsPeak' /\ MarksExact'
        /\ gauge' \in [Comps -> [now: Nat, high: Nat, phase: PhaseSet]]
        /\ peak' \in [Comps -> [PhaseSet -> Nat]]
        /\ pending' \in [Comps -> [PhaseSet -> Nat]]
        /\ holding' \in [Owners -> {"nothing", "interval", "reservation"}]
    <2>1. CASE owner[o].op \in {"start", "finish"}
      <3>1. /\ OwnedExact' /\ gauge' = gauge /\ peak' = peak
            /\ pending' \in [Comps -> [PhaseSet -> Nat]]
            /\ holding' \in [Owners -> {"nothing", "interval", "reservation"}]
        BY <2>1, StartStep, FinishStep
      <3> QED
        BY <1>2, <3>1 DEF PhasesMatch, HighIsPeak, MarksExact, DiagTypeOK
    <2>2. CASE owner[o].op \in {"reserve", "release"}
      <3>1. /\ OwnedExact' /\ pending' = pending
            /\ holding' \in [Owners -> {"nothing", "interval", "reservation"}]
        BY <2>2, ReserveStep
      <3>2. PICK now \in Nat :
                 /\ gauge' = [gauge EXCEPT ![owner[o].comp].now = now,
                                           ![owner[o].comp].high = Larger(@, now)]
                 /\ peak' = [peak EXCEPT ![owner[o].comp][gauge[owner[o].comp].phase] = Larger(@, now)]
        BY <2>2, ReserveStep
      <3>3. /\ PhasesMatch' /\ HighIsPeak' /\ MarksExact'
            /\ gauge' \in [Comps -> [now: Nat, high: Nat, phase: PhaseSet]]
            /\ peak' \in [Comps -> [PhaseSet -> Nat]]
        BY <1>1, <1>2, <3>2, GaugeKept
      <3> QED
        BY <3>1, <3>3 DEF DiagTypeOK
    <2> QED
      BY <1>1, <2>1, <2>2
  <1>5. DiagTypeOK'
    BY <1>2, <1>3, <1>4 DEF DiagTypeOK, OwnerTypes, Places
  <1>6. \A c \in Comps : Inside(c)' = Inside(c)
    BY UpdateSets
  <1>7. GateExact' /\ CutsMatch'
    BY <1>2, <1>6 DEF GateExact, CutsMatch
  <1>8. OpsMatch'
    BY DEF OpsMatch, Update, DiagTypeOK
  <1>9. ClosedQuiet'
    BY <1>2, UpdateSets DEF ClosedQuiet
  <1> QED
    BY <1>4, <1>5, <1>7, <1>8, <1>9

-----------------------------------------------------------------------------
(* The control call's steps. *)

\* None of them touches what the owners have.
LEMMA OwnersAlone ==
    ASSUME DiagInvariant, UNCHANGED <<owner, holding, pending>>,
           \A c \in Comps : gate'[c].inside = gate[c].inside /\ gauge'[c].now = gauge[c].now
    PROVE  /\ GateExact' /\ OwnedExact' /\ OpsMatch'
           /\ \A c \in Comps : Inside(c)' = Inside(c)
  <1> USE DEF DiagInvariant
  <1>1. \A c \in Comps : Inside(c)' = Inside(c) /\ Reserving(c)' = Reserving(c)
    BY DEF Inside, Reserving
  <1>2. \A c \in Comps, p \in PhaseSet : Timing(c, p)' = Timing(c, p)
    BY DEF Timing
  <1>3. GateExact' /\ OwnedExact'
    BY <1>1, <1>2 DEF GateExact, OwnedExact
  <1>4. OpsMatch'
    BY DEF OpsMatch
  <1> QED
    BY <1>1, <1>3, <1>4

LEMMA StartControl ==
    ASSUME DiagInvariant, NEW next \in 1..Phases, Control(next)
    PROVE  DiagInvariant'
  <1> USE DEF DiagInvariant
  <1>1. DiagTypeOK'
    BY DiagnosticsAssumption DEF DiagTypeOK, Control
  <1>2. GateExact' /\ OwnedExact' /\ OpsMatch' /\ \A c \in Comps : Inside(c)' = Inside(c)
    BY OwnersAlone DEF Control
  <1>3. CutsMatch' /\ PhasesMatch' /\ HighIsPeak' /\ MarksExact' /\ ClosedQuiet'
    BY <1>2 DEF CutsMatch, PhasesMatch, HighIsPeak, MarksExact, ClosedQuiet, Control
  <1> QED
    BY <1>1, <1>2, <1>3

LEMMA CutOneStep ==
    ASSUME DiagInvariant, NEW k \in Comps, CutOne(k)
    PROVE  DiagInvariant'
  <1> USE DEF DiagInvariant
  <1>1. gate[k].inside = 0 /\ ctl.pc = "cut" /\ k \notin ctl.cuts
    BY DEF CutOne, MayCut
  <1>2. /\ gate'[k].cut = TRUE /\ ctl' = [ctl EXCEPT !.cuts = @ \cup {k}]
        /\ \A c \in Comps \ {k} : gate'[c].cut = gate[c].cut
        /\ \A c \in Comps : gate'[c].inside = gate[c].inside /\ gate'[c].shut = gate[c].shut
        /\ UNCHANGED <<cphase, gauge, sealedHigh, pending, errs, owner, holding, rphase, rclosed, peak>>
    BY DEF CutOne, DiagTypeOK
  <1>3. DiagTypeOK'
    <2>1. gate' \in GateTypes
      BY Types, GateUpdates DEF CutOne
    <2>2. ctl' \in [pc: {"idle", "cut"}, next: 0..Phases, cuts: SUBSET Comps]
      BY <1>2 DEF DiagTypeOK
    <2> QED
      BY <1>2, <2>1, <2>2 DEF DiagTypeOK, GateTypes
  <1>4. GateExact' /\ OwnedExact' /\ OpsMatch' /\ \A c \in Comps : Inside(c)' = Inside(c)
    BY <1>2, OwnersAlone
  <1>5. Inside(k) = {}
    BY <1>1, EmptySet DEF GateExact, Inside
  <1>6. ctl'.pc = ctl.pc /\ ctl'.next = ctl.next /\ ctl'.cuts = ctl.cuts \cup {k}
    BY <1>2 DEF DiagTypeOK
  <1>7. CutsMatch'
    BY <1>1, <1>2, <1>4, <1>5, <1>6 DEF CutsMatch
  <1>8. PhasesMatch' /\ HighIsPeak' /\ MarksExact' /\ ClosedQuiet'
    BY <1>1, <1>2, <1>6 DEF PhasesMatch, HighIsPeak, MarksExact, ClosedQuiet
  <1> QED
    BY <1>3, <1>4, <1>7, <1>8

\* The cuts are dropped: on a busy component, after an advance, after a close.
LEMMA CutsDropped ==
    ASSUME DiagInvariant, ctl.pc = "cut", ctl' = [ctl EXCEPT !.pc = "idle", !.cuts = {}],
           gate' \in GateTypes,
           \A c \in Comps : gate'[c].inside = gate[c].inside /\ gate'[c].cut = FALSE,
           UNCHANGED <<cphase, gauge, sealedHigh, pending, errs, owner, holding, peak>>
    PROVE  /\ GateExact' /\ OwnedExact' /\ OpsMatch' /\ CutsMatch' /\ HighIsPeak' /\ MarksExact'
           /\ rphase' \in PhaseSet /\ rclosed' \in BOOLEAN => DiagTypeOK'
  <1> USE DEF DiagInvariant
  <1>1. GateExact' /\ OwnedExact' /\ OpsMatch' /\ \A c \in Comps : Inside(c)' = Inside(c)
    BY OwnersAlone
  <1>2. ctl'.pc = "idle" /\ ctl'.cuts = {} /\ ctl' \in [pc: {"idle", "cut"}, next: 0..Phases, cuts: SUBSET Comps]
    BY DEF DiagTypeOK
  <1>3. CutsMatch'
    BY <1>2 DEF CutsMatch
  <1>4. HighIsPeak' /\ MarksExact'
    BY DEF HighIsPeak, MarksExact
  <1>5. rphase' \in PhaseSet /\ rclosed' \in BOOLEAN => DiagTypeOK'
    BY <1>2 DEF DiagTypeOK, GateTypes
  <1> QED
    BY <1>1, <1>3, <1>4, <1>5

LEMMA CutBusyStep ==
    ASSUME DiagInvariant, NEW k \in Comps, CutBusy(k)
    PROVE  DiagInvariant'
  <1> USE DEF DiagInvariant
  <1>1. /\ ctl.pc = "cut" /\ k \notin ctl.cuts /\ ctl' = [ctl EXCEPT !.pc = "idle", !.cuts = {}]
        /\ UNCHANGED <<cphase, gauge, sealedHigh, pending, errs, owner, holding, rphase, rclosed, peak>>
        /\ gate' = [d \in Comps |-> IF d \in ctl.cuts THEN [gate[d] EXCEPT !.cut = FALSE] ELSE gate[d]]
    BY DEF CutBusy
  <1>2. \A c \in Comps : /\ gate'[c].inside = gate[c].inside /\ gate'[c].cut = FALSE
                         /\ gate'[c].shut = gate[c].shut
    BY <1>1 DEF DiagTypeOK, CutsMatch
  <1>3. gate' \in GateTypes
    BY <1>1, Types DEF GateTypes
  <1>4. DiagTypeOK' /\ GateExact' /\ OwnedExact' /\ OpsMatch' /\ CutsMatch' /\ HighIsPeak' /\ MarksExact'
    BY <1>1, <1>2, <1>3, CutsDropped DEF DiagTypeOK
  <1>5. PhasesMatch' /\ ClosedQuiet'
    BY <1>1, <1>2 DEF PhasesMatch, ClosedQuiet
  <1> QED
    BY <1>4, <1>5

LEMMA AdvanceOneStep ==
    ASSUME DiagInvariant, NEW k \in Comps, AdvanceOne(k)
    PROVE  DiagInvariant'
  <1> USE DEF DiagInvariant
  <1>0. PICK n \in PhaseSet : n = ctl.next
    BY DiagnosticsAssumption DEF DiagTypeOK, AdvanceOne, PhaseSet
  <1>1. /\ ctl.pc = "cut" /\ ctl.cuts = Comps /\ n = rphase + 1
        /\ cphase[k] = rphase /\ gauge[k].phase = rphase /\ rphase \in PhaseSet
    BY <1>0 DEF AdvanceOne, PhasesMatch, CutsMatch, DiagTypeOK
  <1>2. /\ sealedHigh' = [sealedHigh EXCEPT ![k][rphase] = gauge[k].high]
        /\ gauge' = [gauge EXCEPT ![k].phase = n, ![k].high = gauge[k].now]
        /\ peak' = [peak EXCEPT ![k][n] = gauge[k].now]
        /\ cphase' = [cphase EXCEPT ![k] = n]
        /\ UNCHANGED <<gate, pending, errs, owner, holding, ctl, rphase, rclosed>>
    BY <1>0, <1>1 DEF AdvanceOne, SealedMark
  <1>3. gauge[k].high \in Nat /\ gauge[k].now \in Nat
    BY DEF DiagTypeOK
  <1>4. DiagTypeOK'
    <2>1. sealedHigh' \in [Comps -> [PhaseSet -> Nat]] /\ peak' \in [Comps -> [PhaseSet -> Nat]]
      BY <1>1, <1>2, <1>3 DEF DiagTypeOK
    <2>2. gauge' \in [Comps -> [now: Nat, high: Nat, phase: PhaseSet]] /\ cphase' \in [Comps -> PhaseSet]
      <3>1. gauge \in [Comps -> [now: Nat, high: Nat, phase: PhaseSet]] /\ cphase \in [Comps -> PhaseSet]
        BY DEF DiagTypeOK
      <3> QED
        BY <1>2, <1>3, <3>1
    <2> QED
      BY <1>2, <2>1, <2>2 DEF DiagTypeOK
  <1>5. /\ gauge'[k].phase = n /\ gauge'[k].high = gauge[k].now /\ cphase'[k] = n
        /\ \A c \in Comps : gauge'[c].now = gauge[c].now
        /\ \A c \in Comps \ {k} : gauge'[c] = gauge[c] /\ cphase'[c] = cphase[c]
    BY <1>2 DEF DiagTypeOK
  <1>6. GateExact' /\ OwnedExact' /\ OpsMatch' /\ \A c \in Comps : Inside(c)' = Inside(c)
    BY <1>2, <1>5, OwnersAlone
  <1>7. CutsMatch' /\ ClosedQuiet'
    BY <1>2, <1>6 DEF CutsMatch, ClosedQuiet
  <1>8. PhasesMatch'
    BY <1>0, <1>1, <1>2, <1>5 DEF PhasesMatch
  <1>9. /\ peak'[k][n] = gauge[k].now /\ sealedHigh'[k][rphase] = gauge[k].high
        /\ \A p \in PhaseSet \ {n} : peak'[k][p] = peak[k][p]
        /\ \A p \in PhaseSet \ {rphase} : sealedHigh'[k][p] = sealedHigh[k][p]
        /\ \A c \in Comps \ {k} : peak'[c] = peak[c] /\ sealedHigh'[c] = sealedHigh[c]
    BY <1>1, <1>2 DEF DiagTypeOK
  <1>10. HighIsPeak'
    BY <1>5, <1>9 DEF HighIsPeak
  <1>11. MarksExact'
    <2> SUFFICES ASSUME NEW c \in Comps, NEW p \in PhaseSet, p < gauge'[c].phase
                 PROVE  sealedHigh'[c][p] = peak'[c][p]
      BY DEF MarksExact
    <2>1. CASE c # k
      BY <1>5, <1>9, <2>1 DEF MarksExact
    <2>2. CASE c = k /\ p = rphase
      BY <1>1, <1>9, <2>2 DEF HighIsPeak, PhaseSet
    <2>3. CASE c = k /\ p # rphase
      <3>1. p < gauge[k].phase /\ p # n
        BY <1>0, <1>1, <1>5, <2>3 DEF PhaseSet
      <3> QED
        BY <1>9, <2>3, <3>1 DEF MarksExact
    <2> QED
      BY <2>1, <2>2, <2>3
  <1> QED
    BY <1>4, <1>6, <1>7, <1>8, <1>10, <1>11

LEMMA AdvanceDoneStep ==
    ASSUME DiagInvariant, AdvanceDone
    PROVE  DiagInvariant'
  <1> USE DEF DiagInvariant
  <1>1. /\ ctl.pc = "cut" /\ rphase' = ctl.next /\ ctl.next < Phases
        /\ ctl' = [ctl EXCEPT !.pc = "idle", !.cuts = {}]
        /\ \A c \in Comps : cphase[c] = ctl.next
        /\ UNCHANGED <<cphase, gauge, sealedHigh, pending, errs, owner, holding, rclosed, peak>>
        /\ gate' = [c \in Comps |-> [gate[c] EXCEPT !.cut = FALSE]]
    BY DEF AdvanceDone
  <1>2. \A c \in Comps : /\ gate'[c].inside = gate[c].inside /\ gate'[c].cut = FALSE
                         /\ gate'[c].shut = gate[c].shut
    BY <1>1 DEF DiagTypeOK
  <1>3. gate' \in GateTypes
    BY <1>1, Types DEF GateTypes
  <1>4. rphase' \in PhaseSet
    BY <1>1, DiagnosticsAssumption DEF DiagTypeOK, PhaseSet
  <1>5. DiagTypeOK' /\ GateExact' /\ OwnedExact' /\ OpsMatch' /\ CutsMatch' /\ HighIsPeak' /\ MarksExact'
    BY <1>1, <1>2, <1>3, <1>4, CutsDropped DEF DiagTypeOK
  <1>6. PhasesMatch' /\ ClosedQuiet'
    BY <1>1, <1>2 DEF PhasesMatch, ClosedQuiet
  <1> QED
    BY <1>5, <1>6

LEMMA CloseAllStep ==
    ASSUME DiagInvariant, CloseAll
    PROVE  DiagInvariant'
  <1> USE DEF DiagInvariant
  <1>1. /\ ctl.pc = "cut" /\ ctl.cuts = Comps /\ ctl.next = Phases
        /\ rclosed' = \A c \in Comps : Quiescent(c)
        /\ ctl' = [ctl EXCEPT !.pc = "idle", !.cuts = {}]
        /\ UNCHANGED <<cphase, gauge, sealedHigh, pending, errs, owner, holding, rphase, peak>>
    BY DEF CloseAll
  <1>0. gate' = [c \in Comps |-> [gate[c] EXCEPT !.cut = FALSE, !.shut = rclosed']]
    BY DEF CloseAll
  <1>2. rclosed' \in BOOLEAN
    BY <1>1
  <1>3. \A c \in Comps : /\ gate'[c].inside = gate[c].inside /\ gate'[c].cut = FALSE
                         /\ gate'[c].shut = rclosed'
    BY <1>0, Types DEF GateTypes
  <1>4. gate' \in GateTypes
    BY <1>0, <1>2, Types DEF GateTypes
  <1>5. DiagTypeOK' /\ GateExact' /\ OwnedExact' /\ OpsMatch' /\ CutsMatch' /\ HighIsPeak' /\ MarksExact'
    BY <1>1, <1>2, <1>3, <1>4, CutsDropped DEF DiagTypeOK
  <1>6. PhasesMatch'
    <2>1. \A c \in Comps : cphase[c] # Phases
      BY DiagnosticsAssumption DEF DiagTypeOK, PhaseSet
    <2> QED
      BY <1>1, <2>1 DEF PhasesMatch
  <1>7. ASSUME rclosed', NEW o \in Owners
        PROVE  holding[o] = "nothing" /\ owner[o].pc \in {"idle", "enter"}
    <2>0. PICK k \in Comps : k = owner[o].comp
      BY DEF DiagTypeOK
    <2>1. gauge[k].now = 0 /\ \A p \in PhaseSet : pending[k][p] = 0
      BY <1>1, <1>7 DEF Quiescent
    <2>2. Reserving(k) = {} /\ \A p \in PhaseSet : Timing(k, p) = {}
      BY <2>1, EmptySet DEF OwnedExact, Reserving, Timing
    <2>3. holding[o] = "nothing"
      BY <2>0, <2>2 DEF Reserving, Timing, DiagTypeOK
    <2>4. Inside(k) = {}
      BY <1>1 DEF CutsMatch
    <2>5. owner[o].pc # "out"
      BY <2>3 DEF OpsMatch, Gives
    <2> QED
      BY <2>0, <2>3, <2>4, <2>5 DEF Inside, DiagTypeOK
  <1>8. ClosedQuiet'
    <2>1. ctl'.pc = "idle"
      BY <1>1 DEF DiagTypeOK
    <2> QED
      BY <1>1, <1>3, <1>7, <2>1 DEF ClosedQuiet
  <1> QED
    BY <1>5, <1>6, <1>8

-----------------------------------------------------------------------------
(* The theorems. *)

LEMMA DiagInitially ==
    DiagInit => DiagInvariant
  <1> SUFFICES ASSUME DiagInit
               PROVE  DiagInvariant
    OBVIOUS
  <1>1. 0 \in PhaseSet /\ 0 \in 0..MaxErrors /\ 0 \in 0..Phases
    BY DiagnosticsAssumption DEF PhaseSet
  <1>2. DiagTypeOK
    BY <1>1 DEF DiagInit, DiagTypeOK, Takes, Gives
  <1>3. \A c \in Comps : Inside(c) = {} /\ Reserving(c) = {} /\ \A p \in PhaseSet : Timing(c, p) = {}
    BY DEF DiagInit, Inside, Reserving, Timing
  <1>4. Cardinality({}) = 0
    BY FS_EmptySet
  <1>5. GateExact /\ OwnedExact
    BY <1>3, <1>4 DEF DiagInit, GateExact, OwnedExact
  <1>6. OpsMatch /\ CutsMatch /\ PhasesMatch
    BY <1>3 DEF DiagInit, OpsMatch, CutsMatch, PhasesMatch
  <1>7. HighIsPeak /\ MarksExact /\ ClosedQuiet
    BY <1>1 DEF DiagInit, HighIsPeak, MarksExact, ClosedQuiet, PhaseSet
  <1> QED
    BY <1>2, <1>5, <1>6, <1>7 DEF DiagInvariant

LEMMA DiagStep ==
    DiagInvariant /\ [DiagNext]_diagVars => DiagInvariant'
  <1> SUFFICES ASSUME DiagInvariant, [DiagNext]_diagVars
               PROVE  DiagInvariant'
    OBVIOUS
  <1>1. CASE \E o \in Owners : OwnerStep(o)
    BY <1>1, BeginStep, EnterStep, GiveUpStep, UpdateStep, LeaveStep DEF OwnerStep
  <1>2. CASE ControlStep
    BY <1>2, StartControl, CutOneStep, CutBusyStep, AdvanceOneStep, AdvanceDoneStep, CloseAllStep
       DEF ControlStep
  <1>3. CASE UNCHANGED diagVars
    <2>1. \A c \in Comps : gate'[c].inside = gate[c].inside /\ gauge'[c].now = gauge[c].now
      BY <1>3 DEF diagVars
    <2>2. GateExact' /\ OwnedExact' /\ OpsMatch' /\ \A c \in Comps : Inside(c)' = Inside(c)
      BY <1>3, <2>1, OwnersAlone DEF diagVars
    <2> QED
      BY <1>3, <2>2 DEF diagVars, DiagInvariant, DiagTypeOK, CutsMatch, PhasesMatch, HighIsPeak,
                        MarksExact, ClosedQuiet
  <1> QED
    BY <1>1, <1>2, <1>3 DEF DiagNext

LEMMA DiagInvariantHolds == DiagSpec => []DiagInvariant
  BY DiagInitially, DiagStep, PTL DEF DiagSpec

\* Type correctness of the diagnostics registry.
THEOREM DiagTypeCorrect == DiagSpec => []DiagTypeOK
  <1>1. DiagInvariant => DiagTypeOK
    BY DEF DiagInvariant
  <1> QED
    BY <1>1, DiagInvariantHolds, PTL

\* A phase cut of Registry::advance and Registry::close has every component to
\* itself, gauges and outstanding counts are what the transport threads own,
\* and a sealed high-water mark is the most they held during that phase.
THEOREM DiagCorrect == DiagSpec => []DiagSafe
  <1>1. DiagInvariant => DiagSafe
    <2> SUFFICES ASSUME DiagInvariant
                 PROVE  CutAlone
      BY DEF DiagInvariant, DiagSafe
    <2> SUFFICES ASSUME NEW c \in ctl.cuts, NEW o \in Owners
                 PROVE  gate[c].cut /\ (owner[o].comp = c => owner[o].pc \notin {"in", "leave"})
      BY DEF CutAlone, DiagInvariant, CutsMatch, DiagTypeOK
    <2>1. c \in Comps
      BY DEF DiagInvariant, DiagTypeOK
    <2>2. gate[c].cut /\ Inside(c) = {}
      BY <2>1 DEF DiagInvariant, CutsMatch
    <2> QED
      BY <2>2 DEF Inside
  <1> QED
    BY <1>1, DiagInvariantHolds, PTL

\* After Registry::close has sealed the components, no thread that starts,
\* ends or gives up changes what the report says.
THEOREM CloseFinal == DiagSpec => FinalIsFinal
  <1>1. DiagInvariant /\ [DiagNext]_diagVars =>
            [rclosed => UNCHANGED <<cphase, gauge, sealedHigh, pending>>]_diagVars
    <2> SUFFICES ASSUME DiagInvariant, DiagNext, rclosed
                 PROVE  UNCHANGED <<cphase, gauge, sealedHigh, pending>>
      OBVIOUS
    <2>1. ctl.pc = "idle" /\ \A o \in Owners : owner[o].pc \in {"idle", "enter"}
      BY DEF DiagInvariant, ClosedQuiet
    <2>2. ASSUME NEW o \in Owners, OwnerStep(o)
          PROVE  UNCHANGED <<cphase, gauge, sealedHigh, pending>>
      BY <2>1, <2>2 DEF OwnerStep, Begin, Enter, GiveUp, Update, Leave
    <2>3. CASE ControlStep
      BY <2>1, <2>3 DEF ControlStep, Control, CutOne, CutBusy, AdvanceOne, AdvanceDone, CloseAll
    <2> QED
      BY <2>2, <2>3 DEF DiagNext
  <1> QED
    BY <1>1, DiagInvariantHolds, PTL DEF DiagSpec, FinalIsFinal
=============================================================================
