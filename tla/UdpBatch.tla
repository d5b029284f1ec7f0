------------------------------- MODULE UdpBatch -------------------------------
(***************************************************************************)
(* The batched UDP socket of the server endpoint (udp_send_batch.rs).      *)
(* Connection drivers hand transmits to a bounded ring, one flusher thread *)
(* writes them with sendmmsg.  A full ring parks a driver on the socket's  *)
(* poller until the flusher has drained; a terminal error, the first one,  *)
(* is told to every driver and to the receiver.  A peer with a fresh       *)
(* priority hint (datagram_reflector.rs, the ring-bypass registry) is      *)
(* written directly, past the ring.                                        *)
(*                                                                         *)
(* `full' and `gen' are the two parts of Backpressure::state.  A transmit  *)
(* is a number, its contents are its segments; what was written is a       *)
(* sequence of <<transmit, segment>>.                                      *)
(***************************************************************************)
EXTENDS Naturals, Sequences, FiniteSets, SequencesExt

CONSTANTS
    Drivers,        \* quinn connection drivers, each with its own peer
    Transmits,      \* transmits the drivers may produce
    Segments,       \* the number of segments of each transmit
    Batch,          \* the configured batch, the capacity of the ring
    MaxTransmit,    \* MAX_TRANSMIT_BYTES, in segments
    MaxHints,       \* PRIORITY_CAPACITY
    NoError         \* no terminal error yet

ASSUME BatchAssumption ==
    /\ Transmits \subseteq Nat \ {0}
    /\ Segments \in [Transmits -> Nat \ {0}]
    /\ Batch \in Nat /\ Batch >= 2
    /\ MaxTransmit \in Nat \ {0}
    /\ MaxHints \in Nat \ {0}

VARIABLES
    gen, full,      \* Backpressure::state: drain generation and the full bit
    wakers,         \* drivers registered with the poller
    woken,          \* drivers whose waker has fired since their last poll
    terminal,       \* the terminal error
    failing,        \* how far fail() is, and by whom
    ring,           \* the channel to the flusher
    used,           \* OutputBudget::usage: transmits and segments
    flusher,        \* its control point, its batch and how much of it is written
    driver,         \* per driver: control point, transmit, generation seen
    receiver,       \* the endpoint driver inside poll_recv
    recvWaker,      \* its waker is registered
    recvWoken,      \* its waker has fired
    hint,           \* the priority registry, per peer
    wire,           \* what the flusher wrote
    direct,         \* <<driver, transmit>> written past the ring
    accepted        \* transmits the ring took, in order

batchVars == <<gen, full, wakers, woken, terminal, failing, ring, used, flusher,
               driver, receiver, recvWaker, recvWoken, hint, wire, direct, accepted>>

pressureVars == <<gen, full, wakers, woken, terminal, failing>>
recvVars == <<receiver, recvWaker, recvWoken>>
sentVars == <<wire, direct, accepted>>

Failed == terminal # NoError
MaxCount == 2 * Batch
MaxBytes == 2 * Batch * MaxTransmit

BatchInit ==
    /\ gen = 0 /\ full = FALSE /\ wakers = {} /\ woken = {}
    /\ terminal = NoError /\ failing = [at |-> "no", by |-> "none"]
    /\ ring = <<>> /\ used = [count |-> 0, bytes |-> 0]
    /\ flusher = [pc |-> "top", pending |-> <<>>, off |-> 0, seg |-> 0]
    /\ driver = [d \in Drivers |-> [pc |-> "idle", t |-> 0, seen |-> 0, restored |-> FALSE]]
    /\ receiver = "idle" /\ recvWaker = FALSE /\ recvWoken = FALSE
    /\ hint = [d \in Drivers |-> "none"]
    /\ wire = <<>> /\ direct = {} /\ accepted = <<>>

-----------------------------------------------------------------------------
(* The budget.  OutputCredit::drop gives back what a transmit reserved.    *)

SegmentsOf(ts) == FoldSeq(LAMBDA t, n : Segments[t] + n, 0, ts)

Reserves(t) == used.count < MaxCount /\ Segments[t] <= MaxBytes - used.bytes

Released(u, ts) == [count |-> u.count - Len(ts), bytes |-> u.bytes - SegmentsOf(ts)]

-----------------------------------------------------------------------------
(* The priority registry: a hint is fresh until PRIORITY_TTL has passed.   *)

Hinted(h) == {p \in Drivers : h[p] # "none"}

\* mark_at and restore_at: refresh, or insert after pruning if it is full.
HintMark(h, p) ==
    LET pruned == [q \in Drivers |-> IF h[q] = "stale" THEN "none" ELSE h[q]]
        room == IF Cardinality(Hinted(h)) >= MaxHints THEN pruned ELSE h
    IN  IF h[p] # "none" THEN [h EXCEPT ![p] = "fresh"]
        ELSE IF Cardinality(Hinted(room)) >= MaxHints THEN room
        ELSE [room EXCEPT ![p] = "fresh"]

\* take_at and cancel: the entry goes, whatever its age.
HintTake(h, p) == [h EXCEPT ![p] = "none"]

HintExpires(p) ==
    /\ hint[p] = "fresh"
    /\ hint' = [hint EXCEPT ![p] = "stale"]
    /\ UNCHANGED <<pressureVars, ring, used, flusher, driver, recvVars, sentVars>>

-----------------------------------------------------------------------------
(* Backpressure.  drained() advances the generation and clears the full    *)
(* bit, then takes the registered wakers and wakes them.                   *)

DrainState == gen' = gen + 1 /\ full' = FALSE

WakeAll == wakers' = {} /\ woken' = woken \cup wakers

\* fail(): the first error is published and its caller goes on to
\* notify_all and drained(); a later caller returns at once.
Publish(error, who) ==
    IF Failed THEN UNCHANGED <<terminal, failing>>
    ELSE terminal' = error /\ failing' = [at |-> "state", by |-> who]

\* The caller's way through the rest of fail().
FailDrain ==
    /\ failing.at = "state"
    /\ DrainState
    /\ failing' = [failing EXCEPT !.at = "wakers"]
    /\ UNCHANGED <<wakers, woken, terminal, ring, used, flusher, driver, recvVars, hint, sentVars>>

FailWake ==
    /\ failing.at = "wakers"
    /\ WakeAll
    /\ failing' = [failing EXCEPT !.at = "recv"]
    /\ UNCHANGED <<gen, full, terminal, ring, used, flusher, driver, recvVars, hint, sentVars>>

FailRecv ==
    /\ failing.at = "recv"
    /\ failing' = [failing EXCEPT !.at = "done"]
    /\ recvWoken' = (recvWoken \/ recvWaker) /\ recvWaker' = FALSE
    /\ UNCHANGED <<gen, full, wakers, woken, terminal, ring, used, flusher, driver,
                   receiver, hint, sentVars>>

\* A caller inside fail() is held until it is through.
InFail(who) == failing.by = who /\ failing.at \in {"state", "wakers", "recv"}

-----------------------------------------------------------------------------
(* try_send, on a connection driver.                                       *)

Goes(d, pc) == driver' = [driver EXCEPT ![d].pc = pc]

Produced == {driver[d].t : d \in Drivers} \cup ToSet(accepted) \cup {x[2] : x \in direct}

\* check, the size test, then the generation.  A driver treats any error
\* but WouldBlock as fatal for its connection.
Begins(d, t) ==
    /\ driver' = [driver EXCEPT ![d] =
         [pc |-> IF Failed \/ Segments[t] > MaxTransmit THEN "ended" ELSE "dispatch",
          t |-> t, seen |-> gen, restored |-> FALSE]]
    /\ UNCHANGED <<pressureVars, ring, used, flusher, recvVars, hint, sentVars>>

TrySend(d, t) == driver[d].pc = "idle" /\ t \notin Produced /\ Begins(d, t)

Retry(d) == driver[d].pc = "retry" /\ Begins(d, driver[d].t)

\* take_ring_bypass decides between the direct write and the ring.
TakeHint(d) ==
    /\ driver[d].pc = "dispatch"
    /\ Goes(d, IF hint[d] = "fresh" THEN "direct" ELSE "reserve")
    /\ hint' = HintTake(hint, d)
    /\ UNCHANGED <<pressureVars, ring, used, flusher, recvVars, sentVars>>

\* try_send_priority: a multi-segment transmit is left to the ring, and so
\* is one the kernel would block on; the hint is restored for it.
DirectSend(d) ==
    /\ driver[d].pc = "direct"
    /\ \/ /\ Segments[driver[d].t] = 1
          /\ direct' = direct \cup {<<d, driver[d].t>>}
          /\ Goes(d, "sent")
          /\ UNCHANGED hint
       \/ /\ driver' = [driver EXCEPT ![d].pc = "reserve", ![d].restored = TRUE]
          /\ hint' = HintMark(hint, d)
          /\ UNCHANGED direct
       \/ /\ Segments[driver[d].t] = 1
          /\ Goes(d, "fail")
          /\ UNCHANGED <<hint, direct>>
    /\ UNCHANGED <<pressureVars, ring, used, flusher, recvVars, wire, accepted>>

ReserveCredit(d) ==
    LET t == driver[d].t IN
    /\ driver[d].pc = "reserve"
    /\ IF Reserves(t)
       THEN /\ used' = [count |-> used.count + 1, bytes |-> used.bytes + Segments[t]]
            /\ Goes(d, "enqueue")
       ELSE Goes(d, "block") /\ UNCHANGED used
    /\ UNCHANGED <<pressureVars, ring, flusher, recvVars, hint, sentVars>>

\* The channel takes it, is full, or has lost its receiver; the credit of
\* a refused transmit is dropped with it.
Enqueue(d) ==
    LET t == driver[d].t IN
    /\ driver[d].pc = "enqueue"
    /\ IF flusher.pc = "dead" \/ Len(ring) >= Batch
       THEN /\ used' = Released(used, <<t>>)
            /\ UNCHANGED <<ring, accepted>>
            /\ Goes(d, IF flusher.pc # "dead" THEN "block"
                       ELSE IF driver[d].restored THEN "clearFail" ELSE "fail")
       ELSE /\ ring' = Append(ring, t) /\ accepted' = Append(accepted, t)
            /\ Goes(d, IF driver[d].restored THEN "clear" ELSE "sent")
            /\ UNCHANGED used
    /\ UNCHANGED <<pressureVars, flusher, recvVars, hint, wire, direct>>

\* The restored hint is taken back; a hint marked meanwhile goes with it.
ClearHint(d) ==
    /\ driver[d].pc \in {"clear", "clearFail"}
    /\ Goes(d, IF driver[d].pc = "clear" THEN "sent" ELSE "fail")
    /\ hint' = HintTake(hint, d)
    /\ UNCHANGED <<pressureVars, ring, used, flusher, recvVars, sentVars>>

\* Mutant: the full bit is set in whatever generation it is.
BlockInAny(d) == full' = TRUE

\* block(seen): the full bit is set only in the generation seen.
BlockIn(d) == full' = (full \/ gen = driver[d].seen)

Block(d) ==
    /\ driver[d].pc = "block"
    /\ BlockIn(d)
    /\ Goes(d, "blocked")
    /\ UNCHANGED <<gen, wakers, woken, terminal, failing, ring, used, flusher, recvVars,
                   hint, sentVars>>

\* An error of the direct write or of the channel ends the socket.
SendFails(d) ==
    /\ driver[d].pc = "fail"
    /\ Publish("send", d)
    /\ Goes(d, "sent")
    /\ UNCHANGED <<gen, full, wakers, woken, ring, used, flusher, recvVars, hint, sentVars>>

\* The last check of try_send: a socket that failed says so even for a
\* transmit it took.
SendReturns(d) ==
    /\ driver[d].pc \in {"sent", "blocked"}
    /\ ~InFail(d)
    /\ Goes(d, IF Failed THEN "ended" ELSE IF driver[d].pc = "sent" THEN "idle" ELSE "full")
    /\ UNCHANGED <<pressureVars, ring, used, flusher, recvVars, hint, sentVars>>

-----------------------------------------------------------------------------
(* poll_writable: look, register, look again.                              *)

\* The two looks: an error or room resolves the poll and unregisters.
Looks(d, pending) ==
    /\ Goes(d, IF Failed THEN "ended" ELSE IF full THEN pending ELSE "retry")
    /\ wakers' = IF Failed \/ ~full THEN wakers \ {d} ELSE wakers

PollLook(d) ==
    /\ driver[d].pc = "full" \/ (driver[d].pc = "parked" /\ d \in woken)
    /\ Looks(d, "register")
    /\ woken' = woken \ {d}
    /\ UNCHANGED <<gen, full, terminal, failing, ring, used, flusher, recvVars, hint, sentVars>>

PollRegister(d) ==
    /\ driver[d].pc = "register"
    /\ wakers' = wakers \cup {d}
    /\ Goes(d, "registered")
    /\ UNCHANGED <<gen, full, woken, terminal, failing, ring, used, flusher, recvVars, hint, sentVars>>

\* Mutant: the driver parks on its first look.
PollRecheckSkipped(d) ==
    /\ driver[d].pc = "registered"
    /\ Goes(d, "parked")
    /\ UNCHANGED <<pressureVars, ring, used, flusher, recvVars, hint, sentVars>>

PollRecheck(d) ==
    /\ driver[d].pc = "registered"
    /\ Looks(d, "parked")
    /\ UNCHANGED <<gen, full, woken, terminal, failing, ring, used, flusher, recvVars, hint, sentVars>>

\* The connection ends between two polls: its poller unregisters.
DropPoller(d) ==
    /\ driver[d].pc \in {"idle", "full", "parked", "retry"}
    /\ Goes(d, "ended")
    /\ wakers' = wakers \ {d}
    /\ UNCHANGED <<gen, full, woken, terminal, failing, ring, used, flusher, recvVars, hint, sentVars>>

-----------------------------------------------------------------------------
(* poll_recv, on the endpoint driver.                                      *)

RecvRegister ==
    /\ receiver = "idle" \/ (receiver = "parked" /\ recvWoken)
    /\ IF Failed THEN receiver' = "ended" /\ UNCHANGED recvWaker
       ELSE receiver' = "polling" /\ recvWaker' = TRUE
    /\ recvWoken' = FALSE
    /\ UNCHANGED <<pressureVars, ring, used, flusher, driver, hint, sentVars>>

\* The inner poll is ready or pending, then the error is looked at again.
RecvReturns ==
    /\ receiver = "polling"
    /\ IF Failed THEN receiver' = "ended" /\ recvWaker' = FALSE
       ELSE \/ receiver' = "idle" /\ recvWaker' = FALSE
            \/ receiver' = "parked" /\ UNCHANGED recvWaker
    /\ UNCHANGED <<pressureVars, recvWoken, ring, used, flusher, driver, hint, sentVars>>

\* A packet arrives: the inner socket wakes the receiver.
PacketArrives ==
    /\ receiver = "parked" /\ ~recvWoken
    /\ recvWoken' = TRUE
    /\ UNCHANGED <<pressureVars, ring, used, flusher, driver, receiver, recvWaker, hint, sentVars>>

-----------------------------------------------------------------------------
(* The flusher thread.                                                     *)

FlusherGoes(pc) == flusher' = [flusher EXCEPT !.pc = pc]

\* rx and the batch are dropped with the thread: so are their credits.
FlusherLeaves ==
    /\ flusher' = [pc |-> "dead", pending |-> <<>>, off |-> 0, seg |-> 0]
    /\ used' = Released(used, flusher.pending \o ring)
    /\ ring' = <<>>

FlushTop ==
    /\ flusher.pc = "top"
    /\ IF Failed THEN FlusherLeaves
       ELSE /\ ring # <<>>
            /\ flusher' = [flusher EXCEPT !.pc = "gather", !.pending = <<Head(ring)>>]
            /\ ring' = Tail(ring)
            /\ UNCHANGED used
    /\ UNCHANGED <<pressureVars, driver, recvVars, hint, sentVars>>

\* Until the batch is full or the ring has nothing more.
Gather ==
    /\ flusher.pc = "gather"
    /\ IF Len(flusher.pending) < Batch /\ ring # <<>>
       THEN /\ flusher' = [flusher EXCEPT !.pending = Append(@, Head(ring))]
            /\ ring' = Tail(ring)
       ELSE flusher' = [flusher EXCEPT !.pc = "flush", !.off = 0] /\ UNCHANGED ring
    /\ UNCHANGED <<pressureVars, used, driver, recvVars, hint, sentVars>>

WholeOf(t) == [i \in 1..Segments[t] |-> <<t, i>>]
Flat(ts) == FlattenSeq([i \in 1..Len(ts) |-> WholeOf(ts[i])])

\* drive_send_batch: sendmmsg takes the first n of what is left; it is
\* interrupted (no step); it would block; the kernel refuses the batch,
\* which is then sent one segment at a time; or it fails.
Sent(n) ==
    /\ wire' = wire \o Flat(SubSeq(flusher.pending, flusher.off + 1, flusher.off + n))
    /\ flusher' = [flusher EXCEPT !.off = @ + n,
                   !.pc = IF flusher.off + n = Len(flusher.pending) THEN "clear" ELSE "flush"]

SendMmsg ==
    /\ flusher.pc = "flush"
    /\ IF Failed THEN FlusherGoes("fail") /\ UNCHANGED wire
       ELSE \/ \E n \in 1..(Len(flusher.pending) - flusher.off) : Sent(n)
            \/ FlusherGoes("wait") /\ UNCHANGED wire
            \/ flusher' = [flusher EXCEPT !.pc = "fallback", !.seg = 0] /\ UNCHANGED wire
            \/ FlusherGoes("fail") /\ UNCHANGED wire
    /\ UNCHANGED <<pressureVars, ring, used, driver, recvVars, hint, direct, accepted>>

\* drive_fallback for each transmit from the offset on.
SendFallback ==
    LET t == flusher.pending[flusher.off + 1]
        last == flusher.seg + 1 = Segments[t]
        done == flusher.off + 1 = Len(flusher.pending)
    IN
    /\ flusher.pc = "fallback"
    /\ IF Failed THEN FlusherGoes("fail") /\ UNCHANGED wire
       ELSE \/ /\ wire' = Append(wire, <<t, flusher.seg + 1>>)
               /\ flusher' = [flusher EXCEPT !.seg = IF last THEN 0 ELSE @ + 1,
                                             !.off = IF last THEN @ + 1 ELSE @,
                                             !.pc = IF last /\ done THEN "clear" ELSE @]
            \/ FlusherGoes("waitOne") /\ UNCHANGED wire
            \/ FlusherGoes("fail") /\ UNCHANGED wire
    /\ UNCHANGED <<pressureVars, ring, used, driver, recvVars, hint, direct, accepted>>

\* wait_writable polls the socket in slices of CONTROL_POLL and looks for
\* a terminal error around each.
Waiting == flusher.pc \in {"wait", "waitOne"}

WaitEnds ==
    /\ Waiting
    /\ \/ ~Failed /\ FlusherGoes(IF flusher.pc = "wait" THEN "flush" ELSE "fallback")
       \/ ~Failed /\ FlusherGoes("fail")
    /\ UNCHANGED <<pressureVars, ring, used, driver, recvVars, hint, sentVars>>

WaitCancelled ==
    /\ Waiting /\ Failed
    /\ FlusherGoes("fail")
    /\ UNCHANGED <<pressureVars, ring, used, driver, recvVars, hint, sentVars>>

\* An error or a caught panic: fail(), then the thread leaves.
FlushFails ==
    /\ flusher.pc = "fail"
    /\ Publish("flush", "flusher")
    /\ FlusherGoes("leave")
    /\ UNCHANGED <<gen, full, wakers, woken, ring, used, driver, recvVars, hint, sentVars>>

FlushLeaves ==
    /\ flusher.pc = "leave" /\ ~InFail("flusher")
    /\ FlusherLeaves
    /\ UNCHANGED <<pressureVars, driver, recvVars, hint, sentVars>>

\* pending.clear() drops the credits, then drained().
ClearBatch ==
    /\ flusher.pc = "clear"
    /\ used' = Released(used, flusher.pending)
    /\ flusher' = [flusher EXCEPT !.pc = "drain", !.pending = <<>>, !.off = 0]
    /\ UNCHANGED <<pressureVars, ring, driver, recvVars, hint, sentVars>>

Drain ==
    /\ flusher.pc = "drain"
    /\ DrainState
    /\ FlusherGoes("wake")
    /\ UNCHANGED <<wakers, woken, terminal, failing, ring, used, driver, recvVars, hint, sentVars>>

DrainWake ==
    /\ flusher.pc = "wake"
    /\ WakeAll
    /\ FlusherGoes("top")
    /\ UNCHANGED <<gen, full, terminal, failing, ring, used, driver, recvVars, hint, sentVars>>

\* The socket is dropped once nothing holds it: fail(), then join().
DropSocket ==
    /\ ~Failed
    /\ receiver # "polling" /\ \A d \in Drivers : driver[d].pc = "ended"
    /\ Publish("closed", "socket")
    /\ receiver' = "ended"
    /\ UNCHANGED <<gen, full, wakers, woken, ring, used, flusher, driver, recvWaker, recvWoken,
                   hint, sentVars>>

-----------------------------------------------------------------------------
DriverStep(d) ==
    \/ TakeHint(d) \/ DirectSend(d) \/ ReserveCredit(d) \/ Enqueue(d) \/ ClearHint(d)
    \/ Block(d) \/ SendFails(d) \/ SendReturns(d) \/ Retry(d)
    \/ PollLook(d) \/ PollRegister(d) \/ PollRecheck(d)

FlusherStep ==
    \/ FlushTop \/ Gather \/ SendMmsg \/ SendFallback \/ WaitCancelled
    \/ FlushFails \/ FlushLeaves \/ ClearBatch \/ Drain \/ DrainWake

FailStep == FailDrain \/ FailWake \/ FailRecv
RecvStep == RecvRegister \/ RecvReturns

BatchNext ==
    \/ \E d \in Drivers : DriverStep(d) \/ DropPoller(d) \/ \E t \in Transmits : TrySend(d, t)
    \/ FlusherStep \/ WaitEnds \/ FailStep \/ RecvStep \/ PacketArrives \/ DropSocket

\* Threads and tasks that can run do.  Nothing is assumed of the socket's
\* becoming writable (WaitEnds), of packets or of connections ending.
BatchFairness ==
    /\ \A d \in Drivers : WF_batchVars(DriverStep(d))
    /\ WF_batchVars(FlusherStep) /\ WF_batchVars(FailStep) /\ WF_batchVars(RecvStep)

-----------------------------------------------------------------------------
(* Properties.                                                             *)

\* The types of the socket's state; the ring and the batch are bounded.
BatchTypeOK ==
    /\ gen \in Nat /\ full \in BOOLEAN /\ wakers \subseteq Drivers /\ woken \subseteq Drivers
    /\ terminal \in {NoError, "send", "flush", "closed"}
    /\ failing.at \in {"no", "state", "wakers", "recv", "done"}
    /\ Len(ring) <= Batch /\ Len(flusher.pending) <= Batch
    /\ \A d \in Drivers : driver[d].t \in Transmits \cup {0} /\ driver[d].seen \in 0..gen
    /\ hint \in [Drivers -> {"none", "fresh", "stale"}] /\ Cardinality(Hinted(hint)) <= MaxHints

\* The output budget counts what the ring, the flusher's batch and the
\* drivers between reserve and try_send own, and stays within 2 * batch.
Owned == flusher.pending \o ring
            \o SetToSeq({driver[d].t : d \in {e \in Drivers : driver[e].pc = "enqueue"}})
CreditsExact ==
    /\ used = [count |-> Len(Owned), bytes |-> SegmentsOf(Owned)]
    /\ used.count <= MaxCount /\ used.bytes <= MaxBytes

\* The full bit is never set without a drain to come: something the
\* flusher will write, a batch it has not drained, or a terminal error.
FullHasDrain ==
    full => \/ ring # <<>> \/ flusher.pending # <<>> \/ flusher.pc = "drain"
            \/ \E d \in Drivers : driver[d].pc = "enqueue"
            \/ Failed

\* While the flusher lives, what it wrote, followed by what is left of its
\* batch and by the ring, is what the ring took: each accepted transmit
\* is written whole, once and in order, across partial writes, EAGAIN and
\* the fallback.
LeftOf(t, seg) == SubSeq(WholeOf(t), seg + 1, Segments[t])
Unwritten ==
    LET p == flusher.pending
    IN  IF flusher.off >= Len(p) THEN <<>>
        ELSE LeftOf(p[flusher.off + 1], flusher.seg) \o Flat(SubSeq(p, flusher.off + 2, Len(p)))
OnceInOrder ==
    flusher.pc # "dead" => wire \o Unwritten \o Flat(ring) = Flat(accepted)

\* After the first terminal error every driver that calls in and the
\* receiver are told: none stays parked.
EveryoneTold ==
    Failed ~> /\ receiver = "ended"
              /\ \A d \in Drivers : driver[d].pc \in {"idle", "ended"}

\* A driver parked on a full ring is resumed or ended, as long as the
\* kernel takes output again and again.
ParkedResumes ==
    (\A d \in Drivers : []<>(driver[d].pc # "parked")) \/ []<>Waiting

\* Dropping the socket joins the flusher: it leaves even if the kernel
\* never takes another byte.
FlusherJoins == Failed ~> flusher.pc = "dead"

\* The ring's credits, its full flag and its order.
BatchSafe == BatchTypeOK /\ CreditsExact /\ FullHasDrain /\ OnceInOrder
================================================================================
