------------------------------- MODULE Reflector -------------------------------
(***************************************************************************)
(* The per-server datagram reflector (datagram_reflector.rs and the        *)
(* read task that uses it, lib.rs) on top of the batched socket.  A read   *)
(* task answers a matching datagram with a rewritten copy of its first     *)
(* bytes: the reply is queued for the one sender thread, which marks the   *)
(* peer for the ring bypass and hands the reply to the connection.         *)
(*                                                                         *)
(* A rule keeps the shape of the code: what it matches and the operations  *)
(* that rewrite the copy.  A datagram is a sequence of small numbers, a    *)
(* time stamp is `Stamp' bytes (8 in the code) with the value "ns".        *)
(***************************************************************************)
EXTENDS UdpBatch

CONSTANTS
    Owners,         \* servers
    OwnerOf,        \* the server of a driver's connection
    RuleInputs,     \* rules JavaScript asks for
    Datagrams,      \* datagrams that arrive
    MaxReply,       \* MAX_REPLY_LENGTH
    MaxMatches,     \* MAX_MATCHES
    MaxOps,         \* MAX_OPS
    Stamp,          \* bytes of a time stamp
    QueueCapacity,  \* REFLECT_QUEUE_CAPACITY
    NoRule,
    MaxHits         \* bound: datagrams reflected

VARIABLES
    rules,          \* the rule store
    jobs,           \* replies queued for the sender thread
    sender,         \* the sender thread: its control point and the peer it answers
    tally,          \* hits, sent, errors, queueFull and the replies lost to a panic
    marks           \* hints marked by replies, per peer

reflectVars == <<rules, jobs, sender, tally, marks>>

Idle == [pc |-> "idle", peer |-> "none"]
Nothing == [hits |-> 0, sent |-> 0, errors |-> 0, queueFull |-> 0, panicked |-> 0]

ReflectInit ==
    /\ rules = [o \in Owners |-> NoRule] /\ jobs = <<>> /\ sender = Idle
    /\ tally = Nothing /\ marks = [d \in Drivers |-> 0]

-----------------------------------------------------------------------------
(* compile, matches and apply.                                             *)

\* range_in: start .. start + length within the bound, not empty.
RangeIn(start, length, bound) == length > 0 /\ start + length <= bound

\* The bytes an operation reads and writes, by its kind.
OpCompiles(op, reply) ==
    CASE op.op = "copy" -> RangeIn(op.from, op.length, reply) /\ RangeIn(op.to, op.length, reply)
      [] op.op \in {"nowNs", "holdNs"} -> RangeIn(op.at, Stamp, reply)
      [] op.op = "zero" -> RangeIn(op.at, op.length, reply)
      [] op.op = "set" -> op.value <= 255 /\ RangeIn(op.at, 1, reply)

Compiles(r) ==
    /\ r.reply > 0 /\ r.reply <= r.min /\ r.min <= MaxReply
    /\ Len(r.matches) \in 1..MaxMatches /\ Len(r.ops) <= MaxOps
    /\ \A i \in 1..Len(r.matches) : RangeIn(r.matches[i].offset, Len(r.matches[i].bytes), r.min)
    /\ \A i \in 1..Len(r.ops) : OpCompiles(r.ops[i], r.reply)

\* Bytes at..at+n-1 (from 0, as in the code) of a sequence.
At(s, at, n) == SubSeq(s, at + 1, at + n)

RuleMatches(r, g) ==
    /\ Len(g) >= r.min
    /\ \A i \in 1..Len(r.matches) :
         At(g, r.matches[i].offset, Len(r.matches[i].bytes)) = r.matches[i].bytes

\* copy_within reads its source before it writes.
Rewrite(s, op) ==
    LET Over(at, new) == [i \in 1..Len(s) |-> IF i > at /\ i <= at + Len(new) THEN new[i - at] ELSE s[i]]
    IN  CASE op.op = "copy" -> Over(op.to, At(s, op.from, op.length))
          [] op.op \in {"nowNs", "holdNs"} -> Over(op.at, [i \in 1..Stamp |-> 99])
          [] op.op = "zero" -> Over(op.at, [i \in 1..op.length |-> 0])
          [] op.op = "set" -> Over(op.at, <<op.value>>)

RuleApply(r, g) == FoldLeft(LAMBDA s, op : Rewrite(s, op), SubSeq(g, 1, r.reply), r.ops)

-----------------------------------------------------------------------------
(* Actions.                                                                *)

\* setDatagramReflector: a rule that compiles is stored, one that does not
\* leaves the old one; close and a null rule clear it.
SetRule(o, r) ==
    /\ Compiles(r)
    /\ rules' = [rules EXCEPT ![o] = r]
    /\ UNCHANGED <<batchVars, jobs, sender, tally, marks>>

ClearOwner(o) ==
    /\ rules[o] # NoRule
    /\ rules' = [rules EXCEPT ![o] = NoRule]
    /\ UNCHANGED <<batchVars, jobs, sender, tally, marks>>

Counted(field) == tally' = [tally EXCEPT ![field] = @ + 1]

\* The read task: a reply that finds the queue full is dropped and counted.
Reflect(d, g) ==
    LET r == rules[OwnerOf[d]] IN
    /\ tally.hits < MaxHits
    /\ r # NoRule /\ RuleMatches(r, g)
    /\ IF Len(jobs) >= QueueCapacity
       THEN /\ tally' = [tally EXCEPT !.hits = @ + 1, !.queueFull = @ + 1]
            /\ UNCHANGED jobs
       ELSE /\ jobs' = Append(jobs, [peer |-> d, reply |-> RuleApply(r, g)])
            /\ Counted("hits")
    /\ UNCHANGED <<batchVars, rules, sender, marks>>

\* The sender thread takes a reply and marks its peer before the send.
JobMark ==
    /\ sender.pc = "idle" /\ jobs # <<>>
    /\ sender' = [pc |-> "send", peer |-> Head(jobs).peer]
    /\ jobs' = Tail(jobs)
    /\ hint' = HintMark(hint, Head(jobs).peer)
    /\ marks' = [marks EXCEPT ![Head(jobs).peer] = @ + 1]
    /\ UNCHANGED <<pressureVars, ring, used, flusher, driver, recvVars, sentVars, rules, tally>>

\* The connection takes the reply, refuses it, or the job panics, which
\* the thread survives.
JobSend ==
    /\ sender.pc = "send"
    /\ \/ Counted("sent") /\ sender' = Idle
       \/ sender' = [sender EXCEPT !.pc = "cancel"] /\ UNCHANGED tally
       \/ Counted("panicked") /\ sender' = Idle
    /\ UNCHANGED <<batchVars, rules, jobs, marks>>

JobCancel ==
    /\ sender.pc = "cancel"
    /\ hint' = HintTake(hint, sender.peer)
    /\ Counted("errors")
    /\ sender' = Idle
    /\ UNCHANGED <<pressureVars, ring, used, flusher, driver, recvVars, sentVars, rules, jobs, marks>>

SenderStep == JobMark \/ JobSend \/ JobCancel

ReflectNext ==
    \/ \E o \in Owners : ClearOwner(o) \/ \E r \in RuleInputs : SetRule(o, r)
    \/ \E d \in Drivers, g \in Datagrams : Reflect(d, g)
    \/ SenderStep
    \/ \E d \in Drivers : HintExpires(d) /\ UNCHANGED reflectVars

ReflectFairness == WF_reflectVars(SenderStep)

-----------------------------------------------------------------------------
(* Properties.                                                             *)

\* No stored rule can send more than it received or index outside the
\* bytes it has: for each datagram it matches the reply is a rewrite of
\* the first bytes, of the length the rule names, and every byte no
\* operation writes is the datagram's.
Writes(op) == CASE op.op = "copy" -> op.to + 1 .. op.to + op.length
                [] op.op \in {"nowNs", "holdNs"} -> op.at + 1 .. op.at + Stamp
                [] op.op = "zero" -> op.at + 1 .. op.at + op.length
                [] op.op = "set" -> {op.at + 1}
Reads(op) == IF op.op = "copy" THEN op.from + 1 .. op.from + op.length ELSE {}
RuleSafe(r, g) ==
    /\ r.reply <= Len(g)
    /\ \A i \in 1..Len(r.ops) : Writes(r.ops[i]) \cup Reads(r.ops[i]) \subseteq 1..r.reply
    /\ \A k \in 1..r.reply :
         (\A i \in 1..Len(r.ops) : k \notin Writes(r.ops[i])) => RuleApply(r, g)[k] = g[k]
ReplyNeverAmplifies ==
    \A o \in Owners, g \in Datagrams :
        rules[o] # NoRule /\ RuleMatches(rules[o], g) => RuleSafe(rules[o], g)

\* Every hit is accounted for: sent, refused by the connection, dropped at
\* a full queue, lost to a caught panic, queued or in the sender's hands.
RepliesAccounted ==
    tally.hits = tally.sent + tally.errors + tally.queueFull + tally.panicked
                    + Len(jobs) + (IF sender.pc = "idle" THEN 0 ELSE 1)

\* A hint lets one transmit past the ring: a peer never has more direct
\* writes than replies that marked it, however the take, the restore and
\* the expiry of hints interleave.
HintOncePerReply ==
    \A d \in Drivers : Cardinality({x \in direct : x[1] = d}) <= marks[d]

\* The sender thread answers every queued reply, panics included.
RepliesLeave == (jobs # <<>>) ~> (jobs = <<>>)

\* Replies are no larger than what they answer and each is accounted for.
ReplySafe == ReplyNeverAmplifies /\ RepliesAccounted /\ HintOncePerReply
================================================================================
