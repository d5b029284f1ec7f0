--------------------------- MODULE SendDiagnostics ---------------------------
(***************************************************************************)
(* The send-path diagnostics (send_path_diagnostics.rs): transport threads *)
(* update the intervals and gauges of a component behind a gate they only  *)
(* spin on, and a control call cuts all components at a phase boundary or  *)
(* closes them for good.  A thread that finds the gate shut too long goes  *)
(* on without it and leaves an error behind.                               *)
(***************************************************************************)
EXTENDS Integers, FiniteSets

CONSTANTS
    Comps,      \* components: a reflector sender or a socket
    Owners,     \* transport threads that hold intervals and reservations
    Phases,     \* PHASE_COUNT
    MaxErrors   \* bound: gates given up

ASSUME DiagnosticsAssumption ==
    IsFiniteSet(Owners) /\ Phases \in Nat \ {0, 1} /\ MaxErrors \in Nat

VARIABLES
    gate,       \* [Comps -> [inside, cut, shut]]: Component.activity
    cphase,     \* [Comps -> Component.phase]
    gauge,      \* [Comps -> [now, high, phase]]: PhaseGauge.state
    sealedHigh, \* [Comps -> [phases -> sealed_high_water]]
    pending,    \* [Comps -> [phases -> outstanding intervals]]
    errs,       \* [Comps -> errors]
    owner,      \* [Owners -> [pc, comp, op, of]]
    holding,    \* [Owners -> what it owns: "nothing", "interval", "reservation"]
    ctl,        \* [pc, next, cuts]: the control call under the registry lock
    rphase,     \* Registry.phase
    rclosed,    \* Registry.closed
    peak        \* history: [Comps -> [phases -> most reservations seen then]]

diagVars == <<gate, cphase, gauge, sealedHigh, pending, errs, owner, holding, ctl, rphase, rclosed, peak>>

PhaseSet == 0..(Phases - 1)
Larger(a, b) == IF a > b THEN a ELSE b

DiagInit ==
    /\ gate = [c \in Comps |-> [inside |-> 0, cut |-> FALSE, shut |-> FALSE]]
    /\ cphase = [c \in Comps |-> 0]
    /\ gauge = [c \in Comps |-> [now |-> 0, high |-> 0, phase |-> 0]]
    /\ sealedHigh = [c \in Comps |-> [p \in PhaseSet |-> 0]]
    /\ pending = [c \in Comps |-> [p \in PhaseSet |-> 0]]
    /\ errs = [c \in Comps |-> 0]
    /\ owner \in [Owners -> [pc: {"idle"}, comp: Comps, op: {"start"}, of: {0}]]
    /\ holding = [o \in Owners |-> "nothing"]
    /\ ctl = [pc |-> "idle", next |-> 0, cuts |-> {}]
    /\ rphase = 0 /\ rclosed = FALSE
    /\ peak = [c \in Comps |-> [p \in PhaseSet |-> 0]]

-----------------------------------------------------------------------------
(* The owners' side                                                        *)

Takes == {"start", "reserve"}
\* An interval ends by finish, reject or its drop: one count less.
Gives == {"finish", "release"}

\* start, reserve, the end of an interval, or the drop of a reservation.
Begin(o, op) ==
    /\ owner[o].pc = "idle"
    /\ \/ op \in Takes /\ holding[o] = "nothing"
       \/ op = "finish" /\ holding[o] = "interval"
       \/ op = "release" /\ holding[o] = "reservation"
    /\ owner' = [owner EXCEPT ![o].pc = "enter", ![o].op = op]
    /\ UNCHANGED <<gate, cphase, gauge, sealedHigh, pending, errs, holding, ctl, rphase, rclosed, peak>>

\* mutation: neither CLOSED nor EXCLUSIVE.
MayEnter(c) == ~gate[c].shut /\ ~gate[c].cut

Enter(o) ==
    /\ owner[o].pc = "enter" /\ MayEnter(owner[o].comp)
    /\ gate' = [gate EXCEPT ![owner[o].comp].inside = @ + 1]
    /\ owner' = [owner EXCEPT ![o].pc = "in"]
    /\ UNCHANGED <<cphase, gauge, sealedHigh, pending, errs, holding, ctl, rphase, rclosed, peak>>

\* mutation gives up, after MAX_MUTATION_SPINS or at a closed gate: what is
\* owned is released all the same, nothing new is taken.
GiveUp(o) ==
    /\ owner[o].pc = "enter" /\ errs[owner[o].comp] < MaxErrors
    /\ errs' = [errs EXCEPT ![owner[o].comp] = @ + 1]
    /\ owner' = [owner EXCEPT ![o].pc = IF owner[o].op \in Takes THEN "idle" ELSE "out"]
    /\ UNCHANGED <<gate, cphase, gauge, sealedHigh, pending, holding, ctl, rphase, rclosed, peak>>

\* PhaseGauge::change, one compare-and-swap.
Change(c, delta) ==
    LET now == gauge[c].now + delta IN
    /\ gauge' = [gauge EXCEPT ![c].now = now, ![c].high = Larger(@, now)]
    /\ peak' = [peak EXCEPT ![c][gauge[c].phase] = Larger(@, now)]

\* The update, with the gate held or given up.
Update(o) ==
    LET c == owner[o].comp
        op == owner[o].op
    IN
    /\ owner[o].pc \in {"in", "out"}
    /\ owner' = [owner EXCEPT ![o].pc = IF owner[o].pc = "in" THEN "leave" ELSE "idle",
                              ![o].of = IF op = "start" THEN cphase[c] ELSE @]
    /\ \/ /\ op = "start"       \* an unarmed component starts nothing
          /\ pending' = [pending EXCEPT ![c][cphase[c]] = IF cphase[c] = 0 THEN @ ELSE @ + 1]
          /\ holding' = [holding EXCEPT ![o] = IF cphase[c] = 0 THEN "nothing" ELSE "interval"]
          /\ UNCHANGED <<gauge, peak>>
       \/ /\ op = "finish"
          /\ pending' = [pending EXCEPT ![c][owner[o].of] = @ - 1]
          /\ holding' = [holding EXCEPT ![o] = "nothing"]
          /\ UNCHANGED <<gauge, peak>>
       \/ /\ op = "reserve" /\ Change(c, 1)
          /\ holding' = [holding EXCEPT ![o] = "reservation"] /\ UNCHANGED pending
       \/ /\ op = "release" /\ Change(c, -1)
          /\ holding' = [holding EXCEPT ![o] = "nothing"] /\ UNCHANGED pending
    /\ UNCHANGED <<gate, cphase, sealedHigh, errs, ctl, rphase, rclosed>>

\* Drop for Mutation.
Leave(o) ==
    /\ owner[o].pc = "leave"
    /\ gate' = [gate EXCEPT ![owner[o].comp].inside = @ - 1]
    /\ owner' = [owner EXCEPT ![o].pc = "idle"]
    /\ UNCHANGED <<cphase, gauge, sealedHigh, pending, errs, holding, ctl, rphase, rclosed, peak>>

-----------------------------------------------------------------------------
(* The control call; the registry lock is held from here to CutEnds.       *)

\* Registry::advance and Registry::close, and their early returns.  A next of
\* Phases stands for "closed".
Control(next) ==
    /\ ctl.pc = "idle" /\ ~rclosed /\ next = rphase + 1
    /\ ctl' = [pc |-> "cut", next |-> next, cuts |-> {}]
    /\ UNCHANGED <<gate, cphase, gauge, sealedHigh, pending, errs, owner, holding, rphase, rclosed, peak>>

\* Mutant: the cut is made whoever is inside.
MayCutBusy(c) == ~gate[c].cut
\* try_exclusive: CAS from 0.
MayCut(c) == gate[c].inside = 0 /\ ~gate[c].cut /\ ~gate[c].shut

CutOne(c) ==
    /\ ctl.pc = "cut" /\ c \notin ctl.cuts
    /\ MayCut(c)
    /\ gate' = [gate EXCEPT ![c].cut = TRUE]
    /\ ctl' = [ctl EXCEPT !.cuts = @ \cup {c}]
    /\ UNCHANGED <<cphase, gauge, sealedHigh, pending, errs, owner, holding, rphase, rclosed, peak>>

\* One component is busy: the cuts made so far are dropped.
CutBusy(c) ==
    /\ ctl.pc = "cut" /\ c \notin ctl.cuts
    /\ ~MayCut(c)
    /\ gate' = [d \in Comps |-> IF d \in ctl.cuts THEN [gate[d] EXCEPT !.cut = FALSE] ELSE gate[d]]
    /\ ctl' = [ctl EXCEPT !.pc = "idle", !.cuts = {}]
    /\ UNCHANGED <<cphase, gauge, sealedHigh, pending, errs, owner, holding, rphase, rclosed, peak>>

\* PhaseGauge::advance: the high-water mark of the finished phase.
SealedMark(c) == gauge[c].high

\* advance_exclusive of one component: gauges, then phase and cut.
AdvanceOne(c) ==
    /\ ctl.pc = "cut" /\ ctl.cuts = Comps /\ ctl.next < Phases /\ cphase[c] # ctl.next
    /\ sealedHigh' = [sealedHigh EXCEPT ![c][gauge[c].phase] = SealedMark(c)]
    /\ gauge' = [gauge EXCEPT ![c].phase = ctl.next, ![c].high = gauge[c].now]
    /\ peak' = [peak EXCEPT ![c][ctl.next] = gauge[c].now]
    /\ cphase' = [cphase EXCEPT ![c] = ctl.next]
    /\ UNCHANGED <<gate, pending, errs, owner, holding, ctl, rphase, rclosed>>

AdvanceDone ==
    /\ ctl.pc = "cut" /\ ctl.cuts = Comps /\ ctl.next < Phases
    /\ \A c \in Comps : cphase[c] = ctl.next
    /\ gate' = [c \in Comps |-> [gate[c] EXCEPT !.cut = FALSE]]
    /\ rphase' = ctl.next
    /\ ctl' = [ctl EXCEPT !.pc = "idle", !.cuts = {}]
    /\ UNCHANGED <<cphase, gauge, sealedHigh, pending, errs, owner, holding, rclosed, peak>>

\* Mutant: an interval that has not ended does not count.
QuiescentGauges(c) == gauge[c].now = 0
\* Component::quiescent
Quiescent(c) == gauge[c].now = 0 /\ \A p \in PhaseSet : pending[c][p] = 0

\* Registry::close behind its cuts: seal all, or refuse and drop the cuts.
CloseAll ==
    /\ ctl.pc = "cut" /\ ctl.cuts = Comps /\ ctl.next = Phases
    /\ rclosed' = \A c \in Comps : Quiescent(c)
    /\ gate' = [c \in Comps |-> [gate[c] EXCEPT !.cut = FALSE, !.shut = rclosed']]
    /\ ctl' = [ctl EXCEPT !.pc = "idle", !.cuts = {}]
    /\ UNCHANGED <<cphase, gauge, sealedHigh, pending, errs, owner, holding, rphase, peak>>

OwnerStep(o) ==
    \/ \E op \in Takes \cup Gives : Begin(o, op)
    \/ Enter(o) \/ GiveUp(o) \/ Update(o) \/ Leave(o)
ControlStep ==
    \/ \E next \in 1..Phases : Control(next)
    \/ \E c \in Comps : CutOne(c) \/ CutBusy(c) \/ AdvanceOne(c)
    \/ AdvanceDone \/ CloseAll
DiagNext == (\E o \in Owners : OwnerStep(o)) \/ ControlStep
DiagSpec == DiagInit /\ [][DiagNext]_diagVars

-----------------------------------------------------------------------------
(* Properties                                                              *)

\* The state keeps its type.
DiagTypeOK ==
    /\ gate \in [Comps -> [inside: Nat, cut: BOOLEAN, shut: BOOLEAN]]
    /\ cphase \in [Comps -> PhaseSet]
    /\ gauge \in [Comps -> [now: Nat, high: Nat, phase: PhaseSet]]
    /\ sealedHigh \in [Comps -> [PhaseSet -> Nat]] /\ pending \in [Comps -> [PhaseSet -> Nat]]
    /\ errs \in [Comps -> 0..MaxErrors]
    /\ owner \in [Owners -> [pc: {"idle", "enter", "in", "out", "leave"}, comp: Comps,
                             op: Takes \cup Gives, of: PhaseSet]]
    /\ holding \in [Owners -> {"nothing", "interval", "reservation"}]
    /\ ctl \in [pc: {"idle", "cut"}, next: 0..Phases, cuts: SUBSET Comps]
    /\ rphase \in PhaseSet /\ rclosed \in BOOLEAN
    /\ peak \in [Comps -> [PhaseSet -> Nat]]

\* A cut has the component to itself: while the control call holds it, nobody
\* is between the gate and its release.
CutAlone ==
    \A c \in ctl.cuts : gate[c].cut /\ \A o \in Owners : owner[o].comp = c => owner[o].pc \notin {"in", "leave"}

\* What the gauge and the outstanding counts say is what the owners own.
Reserving(c) == {o \in Owners : owner[o].comp = c /\ holding[o] = "reservation"}
Timing(c, p) == {o \in Owners : owner[o].comp = c /\ holding[o] = "interval" /\ owner[o].of = p}
OwnedExact ==
    \A c \in Comps :
        /\ gauge[c].now = Cardinality(Reserving(c))
        /\ \A p \in PhaseSet : pending[c][p] = Cardinality(Timing(c, p))

\* The mark of every phase a component has left is the most its owners held
\* at a time while it lasted, and a mark is never disturbed afterwards.
MarksExact == \A c \in Comps, p \in PhaseSet : p < gauge[c].phase => sealedHigh[c][p] = peak[c][p]

\* A closed report is final: no owner that starts, ends or gives up after the
\* close changes what it says.
FinalIsFinal == [][rclosed => UNCHANGED <<cphase, gauge, sealedHigh, pending>>]_diagVars

\* A cut has its component to itself, counts are what the owners own, and the
\* sealed marks are true.
DiagSafe == CutAlone /\ OwnedExact /\ MarksExact
=============================================================================
