----------------------------- MODULE PeerLimiter -----------------------------
(***************************************************************************)
(* PeerRateLimiter of the WebAssembly endpoint (governor.rs): a token      *)
(* bucket per address and one per network prefix, in two capped maps whose *)
(* idle entries are evicted, and the connections that pin them.            *)
(***************************************************************************)
EXTENDS Integers, FiniteSets, Functions

CONSTANTS
    Peers, PeerPrefix,  \* [Peers -> prefix]
    LimitConns,     \* connection ids
    MaxBuckets,     \* PeerRateLimiter.max_buckets
    RateScale,      \* RATE_LIMIT_FP_SCALE: fixed-point units of one token
    Second,         \* ticks of the clock in a second
    Rate, Burst,    \* tokens per second, tokens
    Multiplier,     \* AGGREGATE_RATE_MULTIPLIER
    IdleTtl,        \* in ticks
    MaxTime         \* bound: ticks

\* WasmLimits::validate and WasmRateLimits::validate, of what is used here.
ASSUME LimiterAssumption ==
    /\ IsFiniteSet(Peers) /\ IsFiniteSet(LimitConns)
    /\ MaxBuckets \in Nat \ {0} /\ RateScale \in Nat \ {0} /\ Second \in Nat \ {0}
    /\ Rate \in Nat \ {0} /\ Burst \in Nat /\ Burst >= Rate
    /\ IdleTtl \in Nat \ {0} /\ Multiplier \in Nat \ {0} /\ MaxTime \in Nat

PeerPrefixes == {PeerPrefix[p] : p \in Peers}

VARIABLES
    buckets,    \* [some peers -> bucket]
    prefixes,   \* [some prefixes -> bucket]
    owners,     \* connection_owners: [some connections -> peer]
    now,
    admitted,   \* history: [Peers -> checks admitted]
    passed,     \* history: [PeerPrefixes -> checks admitted]
    verdict     \* history: the last answer: "ok", "limited", "prefix", "capacity", "prefix capacity"

limiterVars == <<buckets, prefixes, owners, now, admitted, passed, verdict>>

Max2(a, b) == IF a > b THEN a ELSE b
NewBucket(times) == [tokens |-> Burst * times * RateScale, refilled |-> now, owners |-> 0, touched |-> now]

\* refill: nothing, and no new time stamp, while less than one unit came in.
Refilled(b, times) ==
    LET more == ((now - b.refilled) * Rate * times * RateScale) \div Second
        full == Burst * times * RateScale
    IN  IF more = 0 THEN b
        ELSE [b EXCEPT !.tokens = IF @ + more > full THEN full ELSE @ + more, !.refilled = now]

\* evict_idle_zero_owner's test.
LiveBucket(b) == b.owners > 0 \/ now - b.touched < IdleTtl
Kept(map) == Restrict(map, {k \in DOMAIN map : LiveBucket(map[k])})

Room(map, key) == key \in DOMAIN map \/ Cardinality(DOMAIN map) < MaxBuckets
With(map, key, b) == [k \in DOMAIN map \cup {key} |-> IF k = key THEN b ELSE map[k]]
Ensured(map, key, times) == IF key \in DOMAIN map THEN map[key] ELSE NewBucket(times)

Touch(b) == [b EXCEPT !.touched = now]

-----------------------------------------------------------------------------

\* Mutant: the address's bucket is charged though the prefix refuses.
ChargesPeer(peerReady, prefixReady) == peerReady

\* Both buckets must have a token before either is charged.
Charges(peerReady, prefixReady) == peerReady /\ prefixReady

\* A bucket as a check finds it: made if it is missing, touched, refilled.
Ready(map, key, times) == Refilled(Touch(Ensured(Kept(map), key, times)), times)
HasToken(b) == b.tokens >= RateScale
Charged(spend, b) == IF spend THEN [b EXCEPT !.tokens = Max2(0, @ - RateScale)] ELSE b

\* ensure_bucket of the address refuses, then that of the prefix.
CheckNoRoom(p) ==
    /\ ~Room(Kept(buckets), p)
    /\ buckets' = Kept(buckets) /\ prefixes' = Kept(prefixes)
    /\ verdict' = "capacity" /\ UNCHANGED <<admitted, passed>>
CheckNoPrefixRoom(p) ==
    /\ Room(Kept(buckets), p) /\ ~Room(Kept(prefixes), PeerPrefix[p])
    /\ buckets' = With(Kept(buckets), p, Ensured(Kept(buckets), p, 1))
    /\ prefixes' = Kept(prefixes)
    /\ verdict' = "prefix capacity" /\ UNCHANGED <<admitted, passed>>
CheckTokens(p) ==
    LET q == PeerPrefix[p]
        b == Ready(buckets, p, 1)
        c == Ready(prefixes, q, Multiplier)
        spend == Charges(HasToken(b), HasToken(c))
    IN
    /\ Room(Kept(buckets), p) /\ Room(Kept(prefixes), q)
    /\ buckets' = With(Kept(buckets), p, Charged(spend, b))
    /\ prefixes' = With(Kept(prefixes), q, Charged(spend, c))
    /\ IF HasToken(b) /\ HasToken(c)
       THEN /\ verdict' = "ok"
            /\ admitted' = [admitted EXCEPT ![p] = @ + 1] /\ passed' = [passed EXCEPT ![q] = @ + 1]
       ELSE verdict' = (IF HasToken(c) THEN "limited" ELSE "prefix") /\ UNCHANGED <<admitted, passed>>

\* check / check_peer.
Check(p) == (CheckNoRoom(p) \/ CheckNoPrefixRoom(p) \/ CheckTokens(p)) /\ UNCHANGED <<owners, now>>

\* check_connection: a connection nobody attached fails without a bucket.
CheckConnection(c) == c \in DOMAIN owners /\ Check(owners[c])

Unpinned(b) == Touch([b EXCEPT !.owners = Max2(0, @ - 1)])
Fewer(map, key) == IF key \notin DOMAIN map THEN map ELSE [map EXCEPT ![key] = Unpinned(@)]
More(map, key, times) == With(map, key, Touch([Ensured(map, key, times) EXCEPT !.owners = @ + 1]))

\* decrement_owner of the connection's owner, if it has one, and the eviction
\* that follows it.
FreedBuckets(c) == IF c \in DOMAIN owners THEN Kept(Fewer(buckets, owners[c])) ELSE buckets
FreedPrefixes(c) == IF c \in DOMAIN owners THEN Kept(Fewer(prefixes, PeerPrefix[owners[c]])) ELSE prefixes
Without(c) == Restrict(owners, DOMAIN owners \ {c})

\* attach_connection: a failing second half leaves the first half done.
AttachNoRoom(c, p) ==
    /\ ~Room(Kept(FreedBuckets(c)), p)
    /\ buckets' = Kept(FreedBuckets(c)) /\ prefixes' = Kept(FreedPrefixes(c))
    /\ owners' = Without(c) /\ verdict' = "capacity"
AttachNoPrefixRoom(c, p) ==
    /\ Room(Kept(FreedBuckets(c)), p) /\ ~Room(Kept(FreedPrefixes(c)), PeerPrefix[p])
    /\ buckets' = More(Kept(FreedBuckets(c)), p, 1) /\ prefixes' = Kept(FreedPrefixes(c))
    /\ owners' = Without(c) /\ verdict' = "prefix capacity"
AttachPins(c, p) ==
    /\ Room(Kept(FreedBuckets(c)), p) /\ Room(Kept(FreedPrefixes(c)), PeerPrefix[p])
    /\ buckets' = More(Kept(FreedBuckets(c)), p, 1)
    /\ prefixes' = More(Kept(FreedPrefixes(c)), PeerPrefix[p], Multiplier)
    /\ owners' = With(Without(c), c, p) /\ verdict' = "ok"
Attach(c, p) ==
    /\ AttachNoRoom(c, p) \/ AttachNoPrefixRoom(c, p) \/ AttachPins(c, p)
    /\ UNCHANGED <<now, admitted, passed>>

Release(c) ==
    /\ c \in DOMAIN owners
    /\ buckets' = FreedBuckets(c) /\ prefixes' = FreedPrefixes(c) /\ owners' = Without(c)
    /\ UNCHANGED <<now, admitted, passed, verdict>>

\* close_all: the endpoint shuts down; admissions are counted anew.
Clear ==
    /\ buckets' = << >> /\ prefixes' = << >> /\ owners' = << >>
    /\ admitted' = [p \in Peers |-> 0] /\ passed' = [q \in PeerPrefixes |-> 0]
    /\ UNCHANGED <<now, verdict>>

PassTime ==
    /\ now < MaxTime /\ now' = now + 1
    /\ UNCHANGED <<buckets, prefixes, owners, admitted, passed, verdict>>

LimiterInit ==
    /\ buckets = << >> /\ prefixes = << >> /\ owners = << >> /\ now = 0
    /\ admitted = [p \in Peers |-> 0] /\ passed = [q \in PeerPrefixes |-> 0] /\ verdict = "ok"

LimiterNext ==
    \/ \E p \in Peers : Check(p)
    \/ \E c \in LimitConns : CheckConnection(c) \/ Release(c) \/ \E p \in Peers : Attach(c, p)
    \/ Clear \/ PassTime

LimiterSpec == LimiterInit /\ [][LimiterNext]_limiterVars

-----------------------------------------------------------------------------
(* Properties                                                              *)

\* The state keeps its type; no bucket holds more than its burst.
LimiterTypeOK ==
    /\ DOMAIN buckets \subseteq Peers /\ DOMAIN prefixes \subseteq PeerPrefixes
    /\ \A k \in DOMAIN buckets : buckets[k].tokens \in 0..Burst * RateScale
    /\ \A k \in DOMAIN prefixes : prefixes[k].tokens \in 0..Burst * Multiplier * RateScale
    /\ DOMAIN owners \subseteq LimitConns /\ now \in 0..MaxTime

\* A bucket is pinned by exactly the connections attached to it: no pair of
\* attach, re-attach, failed attach, release and eviction leaks a pin or
\* loses one (governor.rs:454-482).
OwnersExact ==
    /\ \A c \in DOMAIN owners : owners[c] \in DOMAIN buckets /\ PeerPrefix[owners[c]] \in DOMAIN prefixes
    /\ \A p \in DOMAIN buckets : buckets[p].owners = Cardinality({c \in DOMAIN owners : owners[c] = p})
    /\ \A q \in DOMAIN prefixes :
         prefixes[q].owners = Cardinality({c \in DOMAIN owners : PeerPrefix[owners[c]] = q})

\* The prefix map is never the one that is full: each of its entries is kept
\* alive by an address bucket, so the half-done attach never happens.
PrefixNeverFull ==
    /\ \A q \in DOMAIN prefixes : \E p \in DOMAIN buckets : PeerPrefix[p] = q
    /\ verdict # "prefix capacity"

\* No order of checks, evictions and re-creations lets an address or a prefix
\* pass more than its burst and what time refilled, when the idle time is
\* long enough to refill a bucket.
RateBound ==
    (IdleTtl * Rate >= Burst * Second) =>
        /\ \A p \in Peers : admitted[p] * Second <= Burst * Second + now * Rate
        /\ \A q \in PeerPrefixes : passed[q] * Second <= Multiplier * (Burst * Second + now * Rate)

\* A refused check costs nobody a token.
RefusedIsFree ==
    [][verdict' \in {"limited", "prefix"} =>
         \A p \in DOMAIN buckets : p \in DOMAIN buckets' => buckets'[p].tokens >= buckets[p].tokens]_limiterVars

\* The limiter counts owners exactly, bounds what it admits, and a refusal is
\* free.
LimiterSafe == []LimiterTypeOK /\ []OwnersExact /\ []PrefixNeverFull /\ []RateBound /\ RefusedIsFree
=============================================================================
