---------------------------- MODULE TokenBuckets -----------------------------
(***************************************************************************)
(* The native server's token buckets (rate_limit.rs): handshakes, stream   *)
(* openings and datagrams of one address, per server.  The three maps run  *)
(* the same code; this is one of them.  An attempt holds its entry for its *)
(* whole length.  The periodic cleanup reads the clock once and then goes  *)
(* from entry to entry, so attempts happen in between.                     *)
(***************************************************************************)
EXTENDS Integers

CONSTANTS
    BucketServers, BucketIps,
    Unit,           \* one token
    RefillRate,     \* rate_per_sec, in the same measure and per tick
    BucketBurst,    \* burst
    MaxIdle,        \* max_idle_secs of the cleanup
    ClockBound      \* bound: ticks

ASSUME BucketAssumption ==
    /\ Unit \in Nat \ {0} /\ RefillRate \in Nat /\ BucketBurst \in Nat
    /\ MaxIdle \in Nat /\ ClockBound \in Nat

\* ScopedKey
BucketKeys == BucketServers \X BucketIps

VARIABLES
    clock,      \* Instant::now()
    bucket,     \* [key -> [there, tokens, last]], the map and its entries
    sweepAt,    \* the time the running cleanup read
    sweepLeft,  \* entries it has still to visit
    forgotten,  \* history: servers whose entries a close removed
    taken,      \* history: [key -> attempts granted]
    since       \* history: a moment, [at, taken]

bucketVars == <<clock, bucket, sweepAt, sweepLeft, forgotten, taken, since>>

NoBucket == [there |-> FALSE, tokens |-> 0, last |-> 0]

BucketInit ==
    /\ clock = 0 /\ sweepAt = 0 /\ sweepLeft = {} /\ forgotten = {}
    /\ bucket = [k \in BucketKeys |-> NoBucket]
    /\ taken = [k \in BucketKeys |-> 0]
    /\ since = [at |-> 0, taken |-> [k \in BucketKeys |-> 0]]

\* What the bucket holds now.
Refill(b) ==
    LET tokens == b.tokens + RefillRate * (clock - b.last) IN
    IF tokens < BucketBurst THEN tokens ELSE BucketBurst

\* or_insert_with: a new entry is full.
EntryOf(k) ==
    IF bucket[k].there THEN bucket[k] ELSE [there |-> TRUE, tokens |-> BucketBurst, last |-> clock]

\* try_acquire_token: a refusal stores nothing, neither tokens nor time.
Acquire(k) ==
    LET b == EntryOf(k)
        granted == Refill(b) >= Unit
    IN
    /\ bucket' = [bucket EXCEPT ![k] =
                    IF granted THEN [there |-> TRUE, tokens |-> Refill(b) - Unit, last |-> clock] ELSE b]
    /\ taken' = [taken EXCEPT ![k] = IF granted THEN @ + 1 ELSE @]
    /\ UNCHANGED <<clock, sweepAt, sweepLeft, forgotten, since>>

\* cleanup_stale_entries: the clock is read before the first map is locked.
SweepStart ==
    /\ sweepLeft = {}
    /\ sweepAt' = clock /\ sweepLeft' = BucketKeys
    /\ UNCHANGED <<clock, bucket, forgotten, taken, since>>

\* Mutant: whatever holds less than its burst goes.
Unsettled(b) == b.tokens < BucketBurst
\* Not retain_bucket.
IdleTooLong(b) == sweepAt - b.last >= MaxIdle

SweepKey(k) ==
    /\ k \in sweepLeft
    /\ sweepLeft' = sweepLeft \ {k}
    /\ bucket' = IF bucket[k].there /\ IdleTooLong(bucket[k]) THEN [bucket EXCEPT ![k] = NoBucket] ELSE bucket
    /\ UNCHANGED <<clock, sweepAt, forgotten, taken, since>>

\* cleanup_server_entries, from close(): sessions may still be running and
\* make new entries.
ForgetServer(s) ==
    /\ s \notin forgotten /\ forgotten' = forgotten \cup {s}
    /\ bucket' = [k \in BucketKeys |-> IF k[1] = s THEN NoBucket ELSE bucket[k]]
    /\ UNCHANGED <<clock, sweepAt, sweepLeft, taken, since>>

TimePasses ==
    /\ clock < ClockBound /\ clock' = clock + 1
    /\ UNCHANGED <<bucket, sweepAt, sweepLeft, forgotten, taken, since>>

\* Somebody starts to count.
Observe ==
    /\ since' = [at |-> clock, taken |-> taken]
    /\ UNCHANGED <<clock, bucket, sweepAt, sweepLeft, forgotten, taken>>

BucketNext ==
    \/ \E k \in BucketKeys : Acquire(k) \/ SweepKey(k)
    \/ \E s \in BucketServers : ForgetServer(s)
    \/ SweepStart \/ TimePasses \/ Observe

BucketSpec == BucketInit /\ [][BucketNext]_bucketVars

-----------------------------------------------------------------------------
(* Properties                                                              *)

\* The state keeps its type: no bucket holds more than its burst, none was
\* refilled in the future, and the cleanup's clock is not ahead.
BucketTypeOK ==
    /\ clock \in Nat /\ sweepAt \in 0..clock /\ sweepLeft \subseteq BucketKeys /\ forgotten \subseteq BucketServers
    /\ bucket \in [BucketKeys -> [there: BOOLEAN, tokens: 0..BucketBurst, last: 0..clock]]
    /\ taken \in [BucketKeys -> Nat]
    /\ since \in [at: 0..clock, taken: [BucketKeys -> Nat]]

\* An idle entry has had the time to fill up again when the cleanup drops it;
\* with the defaults (20, 200 and 2000 a second, bursts of 40, 400 and 5000,
\* 300 seconds) it has.
IdleRefills == RefillRate * MaxIdle >= BucketBurst

\* From any moment on, an address of a server that was not closed is granted
\* at most a burst and what the time since then refilled, whatever attempts,
\* refusals, cleanups with a stale clock and new entries come in between
\* (rate_limit.rs:239-269, 301-312).
WindowRate ==
    IdleRefills => \A k \in BucketKeys :
        k[1] \notin forgotten =>
            (taken[k] - since.taken[k]) * Unit <= BucketBurst + RefillRate * (clock - since.at)
=============================================================================
