------------------------------ MODULE EgressPacer ------------------------------
(***************************************************************************)
(* The egress pacer (egress_pacer.rs) behind the paced datagram mirror     *)
(* (datagram_mirror.rs): a submission is admitted target by target onto a  *)
(* process-wide queue, one thread drains it clump by clump on a schedule,  *)
(* and what fails there is reported out of band through a bounded ring.    *)
(* A target's delivery is external: the session takes the datagram or not. *)
(* Time is a number of ticks; `Panic' is a panic inside a send.            *)
(***************************************************************************)
EXTENDS Integers, Sequences, FiniteSets

CONSTANTS
    Servers,        \* owners of submissions
    Wanted,         \* the egressPacer option of each server
    EnvConfig,      \* the configuration of the environment, or "off"
    Sizes,          \* numbers of targets a mirror call names
    MirrorMax,      \* DATAGRAM_MIRROR_MAX
    Clump,          \* PacerConfig::clump
    MaxPending,     \* PacerConfig::max_pending
    MaxQueued,      \* QUEUED_BYTES_MAX
    PayloadSize,    \* bytes of a payload; a target costs one
    Interval,       \* PacerConfig::interval, in ticks
    Catchup,        \* CATCHUP_CLUMPS
    IdleExit,       \* IDLE_EXIT, in ticks
    ReportsCap,     \* MIRROR_REPORTS_CAP
    MarksMax,       \* MARKS_MAX
    MarkWidth,      \* tokens are taken modulo 2^MarkWidth (32 in the code)
    Threads,        \* slots for pacer threads
    MaxSubmits, MaxTicks, MaxPanics  \* bounds

ASSUME PacerAssumption ==
    /\ MaxPending \in Nat \ {0} /\ MaxPending >= Clump /\ Clump \in Nat \ {0}
    /\ {Interval, ReportsCap, MarksMax} \subseteq Nat \ {0}
    /\ {Catchup, IdleExit, MirrorMax, MaxQueued, PayloadSize} \subseteq Nat
    /\ Sizes \subseteq Nat /\ IsFiniteSet(Threads)
    /\ \A s \in Servers : Wanted[s] # "unresolved"
ASSUME MarkAssumption == 2^MarkWidth \in Nat \ {0, 1}

VARIABLES
    config,         \* CONFIG: unresolved, off or the process-wide configuration
    create,         \* createServer of each server: its control point
    queue,          \* jobs waiting for the thread
    pending,        \* Queue::pending_targets and pending_bytes
    running,        \* Queue::thread_running
    thread,         \* the pacer threads
    reports,        \* the deferred failures, by owner
    orphans,        \* jobs released by a failed spawn, not yet reported
    now,
    count,          \* the counters, and what a panic lost
    nextMark, marksOpen, lastMark

queueVars == <<queue, pending, running, thread>>
markVars == <<nextMark, marksOpen, lastMark>>
configVars == <<config, create>>
pacerVars == <<configVars, queueVars, reports, orphans, now, count, markVars>>

Dead == [pc |-> "none", job |-> [owner |-> "none", left |-> 0, bytes |-> 0],
         clump |-> 0, sent |-> 0, cursor |-> -1, tx |-> 0, since |-> 0]
Counters == [submits |-> 0, admitted |-> 0, clumps |-> 0, starts |-> 0, deferred |-> 0,
             dropped |-> 0, drained |-> 0, delivered |-> 0, panics |-> 0, lost |-> 0, leakedBytes |-> 0,
             leaked |-> 0]

PacerInit ==
    /\ config = "unresolved" /\ create = [s \in Servers |-> "idle"]
    /\ queue = <<>> /\ pending = [targets |-> 0, bytes |-> 0] /\ running = FALSE
    /\ thread = [k \in Threads |-> Dead]
    /\ reports = <<>> /\ orphans = <<>> /\ now = 0 /\ count = Counters
    /\ nextMark = 1 /\ marksOpen = {} /\ lastMark = 0

-----------------------------------------------------------------------------
(* The configuration, resolved once for the process.                       *)

\* config(): the first use without an option reads the environment.
ResolveConfig ==
    /\ config = "unresolved"
    /\ config' = EnvConfig
    /\ UNCHANGED <<create, queueVars, reports, orphans, now, count, markVars>>

\* check_config: the pre-flight of createServer commits nothing.
CheckConfig(s) ==
    /\ create[s] = "idle"
    /\ create' = [create EXCEPT ![s] =
         IF config = "unresolved" \/ config = Wanted[s] THEN "checked" ELSE "refused"]
    /\ UNCHANGED <<config, queueVars, reports, orphans, now, count, markVars>>

\* install_config once the server is up; another server or the
\* environment may have come first.
InstallConfig(s) ==
    LET resolved == IF config = "unresolved" THEN Wanted[s] ELSE config IN
    /\ create[s] = "checked"
    /\ config' = resolved
    /\ create' = [create EXCEPT ![s] = IF resolved = Wanted[s] THEN "up" ELSE "tornDown"]
    /\ UNCHANGED <<queueVars, reports, orphans, now, count, markVars>>

\* createServer fails between the two: nothing was consumed.
CreateFails(s) ==
    /\ create[s] = "checked"
    /\ create' = [create EXCEPT ![s] = "failed"]
    /\ UNCHANGED <<config, queueVars, reports, orphans, now, count, markVars>>

-----------------------------------------------------------------------------
(* Admission.                                                              *)

Least(a, b) == IF a <= b THEN a ELSE b
Monus(a, b) == IF a >= b THEN a - b ELSE 0

AdmitCount(wanted) == Least(wanted, Monus(MaxPending, pending.targets))

\* admit_by_bytes: the payload once and the targets one by one, until the
\* next does not fit.
AdmitBytes(wanted) == Least(wanted, Monus(MaxQueued, pending.bytes + PayloadSize))

Admitted(n) == AdmitBytes(AdmitCount(Least(n, MirrorMax)))

\* fan_out: the admitted targets are a prefix, the rest of the call is
\* refused, what is over the cap as TooManyTargets.  It is what submit
\* returns, with no target admitted when the submission is rolled back.
FanOut(n, admitted) ==
    [asked |-> n, sent |-> admitted,
     failed |-> [i \in 1..(n - admitted) |->
                   [target |-> admitted + i,
                    code |-> IF admitted + i > MirrorMax THEN "TooManyTargets" ELSE "WouldBlock"]]]

\* A report: the oldest makes room for it in a full ring.
Reported(ring, c, owner) ==
    LET kept == IF Len(ring) >= ReportsCap THEN Tail(ring) ELSE ring
    IN  /\ reports' = Append(kept, owner)
        /\ count' = [c EXCEPT !.deferred = @ + 1, !.dropped = @ + (Len(ring) - Len(kept))]

\* submit under the queue lock: admit, push, start a thread if none runs.
\* If none can be started the submission is rolled back and the jobs a
\* dead thread left are released, to be reported after the lock.
Submit(s, n) ==
    LET a == Admitted(n)
        job == [owner |-> s, left |-> a, bytes |-> PayloadSize + a]
    IN
    /\ count.submits < MaxSubmits /\ n > 0 /\ orphans = <<>>
    /\ \/ /\ a = 0 \/ running
          /\ IF a = 0 THEN UNCHANGED <<queue, pending>>
             ELSE /\ queue' = Append(queue, job)
                  /\ pending' = [targets |-> pending.targets + a, bytes |-> pending.bytes + job.bytes]
          /\ count' = [count EXCEPT !.submits = @ + 1, !.admitted = @ + a]
          /\ UNCHANGED <<running, thread, orphans>>
       \/ /\ a > 0 /\ ~running
          /\ \E k \in Threads :
               /\ thread[k].pc = "none"
               /\ thread' = [thread EXCEPT ![k] = [Dead EXCEPT !.pc = "take", !.since = now]]
          /\ running' = TRUE
          /\ queue' = Append(queue, job)
          /\ pending' = [targets |-> pending.targets + a, bytes |-> pending.bytes + job.bytes]
          /\ count' = [count EXCEPT !.submits = @ + 1, !.admitted = @ + a, !.starts = @ + 1]
          /\ UNCHANGED orphans
       \/ /\ a > 0 /\ ~running
          /\ orphans' = queue /\ queue' = <<>>
          /\ pending' = [targets |-> 0, bytes |-> 0]
          /\ count' = [count EXCEPT !.submits = @ + 1, !.leaked = 0, !.leakedBytes = 0]
          /\ UNCHANGED <<running, thread>>
    /\ UNCHANGED <<configVars, reports, now, markVars>>

ReportOrphan ==
    /\ orphans # <<>>
    /\ LET job == Head(orphans) IN
       /\ Reported(reports, count, job.owner)
       /\ orphans' = IF job.left = 1 THEN Tail(orphans)
                     ELSE [orphans EXCEPT ![1].left = @ - 1]
    /\ UNCHANGED <<configVars, queueVars, now, markVars>>

-----------------------------------------------------------------------------
(* The pacer thread.                                                       *)

Sets(k, new) == thread' = [thread EXCEPT ![k] = new]

TakeJob(k) ==
    /\ thread[k].pc = "take" /\ queue # <<>>
    /\ Sets(k, [thread[k] EXCEPT !.pc = "clump", !.job = Head(queue)])
    /\ queue' = Tail(queue)
    /\ UNCHANGED <<configVars, pending, running, reports, orphans, now, count, markVars>>

\* Mutant: the flag is cleared, the thread waits once more.
IdleExitsEarly(k) ==
    /\ thread[k].pc = "take" /\ queue = <<>> /\ now >= thread[k].since + IdleExit
    /\ running' = FALSE
    /\ UNCHANGED <<configVars, queue, pending, thread, reports, orphans, now, count, markVars>>

\* The wait for a job timed out and the queue is still empty: the flag is
\* cleared under the lock that saw it empty.
IdleExits(k) ==
    /\ thread[k].pc = "take" /\ queue = <<>> /\ now >= thread[k].since + IdleExit
    /\ running' = FALSE
    /\ Sets(k, Dead)
    /\ UNCHANGED <<configVars, queue, pending, reports, orphans, now, count, markVars>>

\* next_txtime: the cursor while the schedule is at most the horizon
\* behind, the present otherwise.
NextTx(cursor) ==
    IF cursor >= 0 /\ cursor + Catchup * Interval >= now THEN cursor ELSE now

StartClump(k) ==
    LET tx == NextTx(thread[k].cursor) IN
    /\ thread[k].pc = "clump"
    /\ Sets(k, [thread[k] EXCEPT !.pc = "wait", !.tx = tx, !.cursor = tx + Interval,
                                 !.clump = Least(Clump, thread[k].job.left), !.sent = 0])
    /\ UNCHANGED <<configVars, queue, pending, running, reports, orphans, now, count, markVars>>

WaitUntil(k) ==
    /\ thread[k].pc = "wait" /\ now >= thread[k].tx
    /\ Sets(k, [thread[k] EXCEPT !.pc = "send"])
    /\ count' = [count EXCEPT !.clumps = @ + 1]
    /\ UNCHANGED <<configVars, queue, pending, running, reports, orphans, now, markVars>>

\* A target is delivered, or its session is gone or refuses: a report.
SendOne(k) ==
    LET t == thread[k]
        sent == t.sent + 1
    IN
    /\ t.pc = "send"
    /\ Sets(k, [t EXCEPT !.sent = sent, !.pc = IF sent = t.clump THEN "done" ELSE "send"])
    /\ \/ count' = [count EXCEPT !.delivered = @ + 1] /\ UNCHANGED reports
       \/ Reported(reports, count, t.job.owner)
    /\ UNCHANGED <<configVars, queue, pending, running, orphans, now, markVars>>

\* The clump's targets leave the bound; the job's bytes once it is through.
ClumpDone(k) ==
    LET t == thread[k]
        left == t.job.left - t.clump
    IN
    /\ t.pc = "done"
    /\ pending' = [pending EXCEPT !.targets = Monus(@, t.clump)]
    /\ Sets(k, [t EXCEPT !.job.left = left, !.clump = 0, !.sent = 0,
                         !.pc = IF left = 0 THEN "bytes" ELSE "clump"])
    /\ UNCHANGED <<configVars, queue, running, reports, orphans, now, count, markVars>>

JobDone(k) ==
    /\ thread[k].pc = "bytes"
    /\ pending' = [pending EXCEPT !.bytes = Monus(@, thread[k].job.bytes)]
    /\ Sets(k, [thread[k] EXCEPT !.pc = "take", !.job = Dead.job, !.since = now])
    /\ UNCHANGED <<configVars, queue, running, reports, orphans, now, count, markVars>>

\* A send panics: the guard clears the flag, the job is lost with what it
\* still has reserved.
Panic(k) ==
    LET t == thread[k] IN
    /\ t.pc = "send" /\ count.panics < MaxPanics
    /\ running' = FALSE
    /\ Sets(k, Dead)
    /\ count' = [count EXCEPT !.panics = @ + 1, !.lost = @ + t.job.left - t.sent,
                              !.leaked = @ + t.job.left, !.leakedBytes = @ + t.job.bytes]
    /\ UNCHANGED <<configVars, queue, pending, reports, orphans, now, markVars>>

-----------------------------------------------------------------------------
(* Reading it out.                                                         *)

\* drain_reports: the owner's reports, oldest first, at most `most'.
DrainReports(s, most) ==
    LET mine == {i \in 1..Len(reports) : reports[i] = s}
        taken == {i \in mine : Cardinality({j \in mine : j <= i}) <= most}
        rest == (1..Len(reports)) \ taken
        nth(n) == CHOOSE i \in rest : Cardinality({j \in rest : j <= i}) = n
    IN
    /\ taken # {}
    /\ reports' = [n \in 1..Cardinality(rest) |-> reports[nth(n)]]
    /\ count' = [count EXCEPT !.drained = @ + Cardinality(taken)]
    /\ UNCHANGED <<configVars, queueVars, orphans, now, markVars>>

\* snapshot: the token after the last one, never 0, its width respected;
\* a full map loses its lowest tokens.
MarkAfter(n) == (n + 1) % 2^MarkWidth

Token == IF nextMark = 0 THEN MarkAfter(nextMark) ELSE nextMark

Snapshot ==
    /\ nextMark' = MarkAfter(Token)
    /\ \/ /\ Cardinality(marksOpen) < MarksMax
          /\ marksOpen' = marksOpen \cup {Token}
       \/ /\ Cardinality(marksOpen) >= MarksMax
          /\ \E lowest \in marksOpen :
               /\ \A m \in marksOpen : lowest <= m
               /\ marksOpen' = (marksOpen \ {lowest}) \cup {Token}
    /\ lastMark' = Token
    /\ UNCHANGED <<configVars, queueVars, reports, orphans, now, count>>

\* Past the bound the clock goes on only for a thread that waits for it.
Tick ==
    /\ now < MaxTicks \/ \E k \in Threads : thread[k].pc = "wait" /\ thread[k].tx > now
    /\ now' = now + 1
    /\ UNCHANGED <<configVars, queueVars, reports, orphans, count, markVars>>

-----------------------------------------------------------------------------
ThreadStep(k) ==
    \/ TakeJob(k) \/ StartClump(k) \/ WaitUntil(k) \/ SendOne(k) \/ ClumpDone(k) \/ JobDone(k)

ConfigNext ==
    \/ ResolveConfig
    \/ \E s \in Servers : CheckConfig(s) \/ InstallConfig(s) \/ CreateFails(s)

QueueNext ==
    \/ \E s \in Servers : (\E n \in Sizes : Submit(s, n)) \/ DrainReports(s, 1)
    \/ \E k \in Threads : ThreadStep(k) \/ IdleExits(k) \/ Panic(k)
    \/ ReportOrphan \/ Tick

PacerSpec == PacerInit /\ [][ConfigNext \/ QueueNext \/ Snapshot]_pacerVars

\* The thread, the clock and the submitting call go on.
PacerFairness ==
    /\ \A k \in Threads : WF_pacerVars(ThreadStep(k))
    /\ WF_pacerVars(Tick) /\ WF_pacerVars(ReportOrphan)

-----------------------------------------------------------------------------
(* Properties.                                                             *)

\* The types of the pacer's state.
PacerTypeOK ==
    /\ pending.targets \in 0..MaxPending /\ pending.bytes \in 0..MaxQueued /\ running \in BOOLEAN
    /\ \A k \in Threads : thread[k].pc \in {"none", "take", "clump", "wait", "send", "done", "bytes"}
    /\ Len(reports) <= ReportsCap /\ Cardinality(marksOpen) <= MarksMax

\* A server that was created with the option runs under that option, also
\* when two servers or the environment race to configure the process.
ConfigHonoured == \A s \in Servers : create[s] = "up" => config = Wanted[s]

\* A sum as a cardinality: one pair for each unit.
Units(f) == UNION {{i} \X (1..f[i]) : i \in DOMAIN f}
Total(f) == Cardinality(Units(f))
SumOf(jobs, field) == Total([i \in 1..Len(jobs) |-> jobs[i][field]])
Held(field) == Total([k \in Threads |-> thread[k].job[field]])

\* The two bounds of admission count the queued jobs and what the thread
\* still owes, and besides only what a panicked job left reserved.
PendingExact ==
    /\ pending.targets = SumOf(queue, "left") + Held("left") + count.leaked
    /\ pending.bytes = SumOf(queue, "bytes") + Held("bytes") + count.leakedBytes

\* One schedule: never two threads at once, and a job that waits has a
\* thread that runs, or one that died of a panic.
OneSchedule ==
    /\ Cardinality({k \in Threads : thread[k].pc # "none"}) = (IF running THEN 1 ELSE 0)
    /\ queue # <<>> => running \/ count.panics > 0

\* The pace: clumps leave at most one per interval, and one at once for
\* every thread started.
PaceKept == count.clumps <= (now \div Interval) + count.starts

\* Every admitted target is delivered, reported, lost to a panic, or still
\* owed; and every report is in the ring, evicted or drained.
OrphanTargets == SumOf(orphans, "left")
InFlight == SumOf(queue, "left") + Held("left") + OrphanTargets
SentNow == Total([k \in Threads |-> thread[k].sent])
TargetsSettled ==
    /\ count.admitted = count.delivered + count.deferred + count.lost + InFlight - SentNow
    /\ count.deferred = Len(reports) + count.dropped + count.drained

\* Whatever the queue holds, a mirror call would answer for each of its
\* targets once: the admitted ones are a prefix, the rest is listed in
\* order, also when the submission is rolled back.
OutcomeWhole ==
    \A n \in Sizes : \A a \in {Admitted(n), 0} :
        LET o == FanOut(n, a) IN
        /\ o.sent + Len(o.failed) = n
        /\ \A i \in 1..Len(o.failed) : o.failed[i].target = o.sent + i

\* A snapshot token is never the 0 that means "off" and its mark is open
\* when it is handed out, across the wrap of the counter.
MarkNeverZero == [][lastMark' # lastMark => lastMark' # 0 /\ lastMark' \in marksOpen']_pacerVars

\* What was admitted leaves the queue, short of a panic.
QueueDrains == (queue # <<>>) ~> (queue = <<>> \/ count.panics > 0)

\* The pacer keeps its counts, one schedule and its pace, and answers for
\* every target once.
PacerSafe ==
    /\ PacerTypeOK /\ ConfigHonoured /\ PendingExact /\ OneSchedule
    /\ PaceKept /\ TargetsSettled /\ OutcomeWhole
================================================================================
