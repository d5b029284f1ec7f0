---------------------------- MODULE ClientConnect ----------------------------
(***************************************************************************)
(* How a client connects (crates/native/src/client.rs run_connect,         *)
(* client_pool.rs, zero_rtt.rs): through an endpoint shared in the pool,   *)
(* with a resumption ticket of the identity's shared store, or plainly.    *)
(* Pooling excludes certificate pins and 0-RTT, so a connect takes exactly *)
(* one of the three ways.  The handshake is external: it succeeds, fails   *)
(* or times out.                                                           *)
(*                                                                         *)
(* A pool entry is named by the connect that created it.  A ticket store   *)
(* is a function on the server names it knows: a name stays known when its *)
(* last ticket is taken, as in the code's map.                             *)
(***************************************************************************)
EXTENDS Integers, FiniteSets, Sequences

CONSTANTS
    Connects,       \* calls of connect()
    Keys,           \* PoolKey values
    MaxPoolEntries, \* MAX_POOL_ENTRIES
    MaxPerKey,      \* MAX_SESSIONS_PER_KEY
    IdleTimeout,    \* POOL_IDLE_TIMEOUT_MS
    MaxNow,         \* bound: the wall clock
    Identities,     \* TlsIdentityKey values
    Servers,        \* server names
    Tickets,        \* TLS 1.3 tickets, in the order they can be issued
    EarlyTickets,   \* those with an early-data allowance
    MaxPerServer,   \* MAX_TICKETS_PER_SERVER
    MaxServers,     \* MAX_SERVERS
    Vaults,         \* vault tokens
    NoEntry         \* no pool entry

ASSUME ConnectAssumption ==
    /\ {MaxPoolEntries, MaxPerKey, MaxPerServer, MaxServers} \subseteq Nat \ {0}
    /\ IdleTimeout \in Nat /\ MaxNow \in Nat
    /\ EarlyTickets \subseteq Tickets /\ NoEntry \notin Connects

VARIABLES
    pool,     \* entries: the entry under each key
    refs,     \* active_refs of each entry
    stamp,    \* last_used_ms of each entry
    now,      \* the wall clock
    conns,    \* what each connect is doing
    store,    \* tickets of each identity and server, oldest first
    takes,    \* early_takes
    vault,    \* what each vault token holds: server -> tickets
    spent     \* tickets taken, by the connect that took them

poolVars == <<pool, refs, stamp, now>>
ticketVars == <<store, takes, vault, spent>>
connectVars == <<poolVars, ticketVars, conns>>

Idle == [pc |-> "idle"]
NoTickets == [s \in {} |-> <<>>]

ConnectInit ==
    /\ pool = [k \in Keys |-> NoEntry]
    /\ refs = [e \in Connects |-> 0] /\ stamp = [e \in Connects |-> 0]
    /\ now = 0
    /\ conns = [c \in Connects |-> Idle]
    /\ store = [i \in Identities |-> NoTickets]
    /\ takes = [i \in Identities |-> [s \in Servers |-> 0]]
    /\ vault = NoTickets
    /\ spent = {}

-----------------------------------------------------------------------------
(* run_connect: which way a connect takes.                                 *)

Options == [allowPooling : BOOLEAN, pinned : BOOLEAN, enable0Rtt : BOOLEAN]

\* Pinned hashes and 0-RTT are refused together with pooling.
Route(o) ==
    IF o.allowPooling
    THEN IF o.pinned \/ o.enable0Rtt THEN "rejected" ELSE "pool"
    ELSE IF o.enable0Rtt THEN "dial0rtt" ELSE "plain"

Dial(c, o) ==
    /\ conns[c].pc = "idle"
    /\ conns' = [conns EXCEPT ![c] = [pc |-> Route(o)]]
    /\ UNCHANGED <<poolVars, ticketVars>>

\* An endpoint of its own, the handshake under handshakeTimeoutMs.
PlainConnect(c) ==
    /\ conns[c].pc = "plain"
    /\ \E end \in {"connected", "rejected"} : conns' = [conns EXCEPT ![c].pc = end]
    /\ UNCHANGED <<poolVars, ticketVars>>

-----------------------------------------------------------------------------
(* The endpoint pool.                                                      *)

Pooled == {k \in Keys : pool[k] # NoEntry}
Idles == {k \in Pooled : refs[pool[k]] = 0}
Without(out) == [k \in Keys |-> IF k \in out THEN NoEntry ELSE pool[k]]

\* evict_idle_under_lock: unreferenced and unused for longer than the timeout.
EvictIdle == {k \in Idles : now - stamp[pool[k]] > IdleTimeout}

\* evict_one_under_lock: the least recently used of the other unreferenced ones.
EvictOne ==
    LET rest == Idles \ EvictIdle
    IN  {k \in rest : \A j \in rest : stamp[pool[k]] <= stamp[pool[j]]}

\* The keys a new key's acquire evicts: none where neither rule finds room.
Headroom ==
    IF Cardinality(Pooled \ EvictIdle) < MaxPoolEntries THEN {EvictIdle}
    ELSE {EvictIdle \cup {v} : v \in EvictOne}

\* acquire_connect, the part under the pool lock, for a key that has an entry:
\* a reference while the entry's cap allows one, else E_LIMIT_EXCEEDED.
AcquireHit(c, k) ==
    /\ conns[c].pc = "pool" /\ k \in Pooled \ EvictIdle
    /\ pool' = Without(EvictIdle)
    /\ IF refs[pool[k]] < MaxPerKey
       THEN /\ refs' = [refs EXCEPT ![pool[k]] = @ + 1]
            /\ conns' = [conns EXCEPT ![c] = [pc |-> "handshake", key |-> k, entry |-> pool[k]]]
       ELSE conns' = [conns EXCEPT ![c] = [pc |-> "rejected"]] /\ UNCHANGED refs
    /\ UNCHANGED <<stamp, now, ticketVars>>

\* For a new key: headroom, a new endpoint, an entry with this call's reference.
AcquireMiss(c, k) ==
    /\ conns[c].pc = "pool" /\ k \notin Pooled \ EvictIdle
    /\ \E out \in Headroom :
          /\ pool' = [Without(out) EXCEPT ![k] = c]
          /\ refs' = [refs EXCEPT ![c] = 1]
          /\ stamp' = [stamp EXCEPT ![c] = now]
          /\ conns' = [conns EXCEPT ![c] = [pc |-> "handshake", key |-> k, entry |-> c]]
    /\ UNCHANGED <<now, ticketVars>>

\* A new key with every entry busy: E_LIMIT_EXCEEDED rather than growth past the
\* cap; or create_endpoint fails.
AcquireFails(c, k) ==
    /\ conns[c].pc = "pool" /\ k \notin Pooled \ EvictIdle
    /\ \E out \in IF Headroom = {} THEN {EvictIdle} ELSE Headroom : pool' = Without(out)
    /\ conns' = [conns EXCEPT ![c] = [pc |-> "rejected"]]
    /\ UNCHANGED <<refs, stamp, now, ticketVars>>

HandshakeDone(c) ==
    /\ conns[c].pc = "handshake"
    /\ conns' = [conns EXCEPT ![c].pc = "live"]
    /\ UNCHANGED <<poolVars, ticketVars>>

DropRefLiveOnly(c) ==
    /\ \/ conns[c].pc = "live" /\ conns' = [conns EXCEPT ![c].pc = "dropped"]
       \/ conns[c].pc = "handshake" /\ conns' = [conns EXCEPT ![c].pc = "failed"]
    /\ refs' = IF conns[c].pc = "live" THEN [refs EXCEPT ![conns[c].entry] = @ - 1] ELSE refs
    /\ UNCHANGED <<pool, stamp, now, ticketVars>>

\* The reference is given back first, last_used_ms follows, and only then the
\* lock is taken again.  A live session's guard drops when its task ends
\* (PoolReleaseGuard); a failed or timed out handshake is release_failed_entry.
DropRef(c) ==
    /\ \/ conns[c].pc = "live" /\ conns' = [conns EXCEPT ![c].pc = "dropped"]
       \/ conns[c].pc = "handshake" /\ conns' = [conns EXCEPT ![c].pc = "failed"]
    /\ refs' = [refs EXCEPT ![conns[c].entry] = @ - 1]
    /\ UNCHANGED <<pool, stamp, now, ticketVars>>

Touch(c) ==
    /\ conns[c].pc \in {"dropped", "failed"}
    /\ stamp' = [stamp EXCEPT ![conns[c].entry] = now]
    /\ conns' = [conns EXCEPT ![c].pc = IF @ = "failed" THEN "evicting" ELSE "closed"]
    /\ UNCHANGED <<pool, refs, now, ticketVars>>

\* The entry leaves the pool if it is still the one under its key.
EvictBroken(c) ==
    /\ conns[c].pc = "evicting"
    /\ pool' = IF pool[conns[c].key] = conns[c].entry
               THEN [pool EXCEPT ![conns[c].key] = NoEntry] ELSE pool
    /\ conns' = [conns EXCEPT ![c].pc = "closed"]
    /\ UNCHANGED <<refs, stamp, now, ticketVars>>

Tick ==
    /\ now < MaxNow
    /\ now' = now + 1
    /\ UNCHANGED <<pool, refs, stamp, conns, ticketVars>>

-----------------------------------------------------------------------------
(* 0-RTT: the take-once ticket store of an identity, and the vault.        *)

Elems(q) == {q[n] : n \in 1..Len(q)}

Fresh(t) ==
    /\ t \notin {x[1] : x \in spent}
    /\ \A i \in Identities : \A s \in DOMAIN store[i] : t \notin Elems(store[i][s])
    /\ \A v \in DOMAIN vault : \A s \in DOMAIN vault[v] : t \notin Elems(vault[v][s])

\* push_back with the oldest dropped at the cap.
Push(q, t) == Append(IF Len(q) >= MaxPerServer THEN Tail(q) ELSE q, t)

\* insert_tls13_ticket, called by rustls for a connection of the identity; a
\* store full of servers gives up an arbitrary one for the new name.
TicketIssued(i, s, t) ==
    /\ Fresh(t)
    /\ LET known == DOMAIN store[i]
       IN  \E keep \in IF Cardinality(known) >= MaxServers /\ s \notin known
                       THEN {known \ {x} : x \in known} ELSE {known} :
              store' = [store EXCEPT ![i] = [x \in keep \cup {s} |->
                  IF x = s THEN Push(IF s \in known THEN @[s] ELSE <<>>, t) ELSE @[x]]]
    /\ UNCHANGED <<takes, vault, spent, conns, poolVars>>

\* run_connect_0rtt up to its await: the shared store and the count before.
Begin0Rtt(c, i, s) ==
    /\ conns[c].pc = "dial0rtt"
    /\ conns' = [conns EXCEPT ![c] =
          [pc |-> "early", id |-> i, server |-> s, before |-> takes[i][s]]]
    /\ UNCHANGED <<ticketVars, poolVars>>

\* take_tls13_ticket inside connect_0rtt: oldest first, each at most once.
TakeTicket(c) ==
    LET i == conns[c].id
        s == conns[c].server
    IN  /\ conns[c].pc = "early"
        /\ IF s \notin DOMAIN store[i] \/ store[i][s] = <<>>
           THEN UNCHANGED <<store, takes, spent>>
           ELSE /\ store' = [store EXCEPT ![i][s] = Tail(@)]
                /\ spent' = spent \cup {<<Head(store[i][s]), c>>}
                /\ takes' = IF Head(store[i][s]) \in EarlyTickets
                            THEN [takes EXCEPT ![i][s] = @ + 1] ELSE takes
        /\ conns' = [conns EXCEPT ![c].pc = "hello"]
        /\ UNCHANGED <<vault, poolVars>>

\* connect_0rtt resolved: has_0rtt is a larger count than before.  `accepted`
\* is set at once when no early data went out, else by the watcher below.
Resolve0Rtt(c) ==
    LET early == \E t \in EarlyTickets : <<t, c>> \in spent
    IN  /\ conns[c].pc = "hello"
        /\ conns' = [conns EXCEPT ![c] =
              [pc |-> "resumed",
               has0Rtt |-> takes[@.id][@.server] > @.before,
               accepted |-> IF early THEN "pending" ELSE "no"]]
        /\ UNCHANGED <<ticketVars, poolVars>>

Fail0Rtt(c) ==
    /\ conns[c].pc \in {"early", "hello"}
    /\ conns' = [conns EXCEPT ![c] = [pc |-> "rejected"]]
    /\ UNCHANGED <<ticketVars, poolVars>>

\* The watcher: handshake_confirmed() says whether the server took the data.
Confirm0Rtt(c) ==
    /\ conns[c].pc = "resumed" /\ conns[c].accepted = "pending"
    /\ \E a \in {"yes", "no"} : conns' = [conns EXCEPT ![c].accepted = a]
    /\ UNCHANGED <<ticketVars, poolVars>>

\* export_vault_inner: drain one server or all of them behind a new token;
\* where the store knows none of them there is no token.
ExportVault(i, some, v) ==
    LET known == DOMAIN store[i]
    IN  /\ v \notin DOMAIN vault
        /\ known \cap some # {}
        /\ vault' = [x \in DOMAIN vault \cup {v} |->
              IF x = v THEN [s \in known \cap some |-> store[i][s]] ELSE vault[x]]
        /\ store' = [store EXCEPT ![i] = [s \in known \ some |-> @[s]]]
        /\ UNCHANGED <<takes, spent, conns, poolVars>>

\* absorb for one server: past MAX_SERVERS the queue is dropped, else merged
\* under the per-server cap.
Merge(q, more) ==
    LET all == q \o more
    IN  SubSeq(all, IF Len(all) > MaxPerServer THEN Len(all) - MaxPerServer + 1 ELSE 1, Len(all))

\* import_vault_inner: the token is consumed; servers are absorbed in an
\* arbitrary order, so a store short of room keeps an arbitrary part.
ImportVault(i, v) ==
    /\ v \in DOMAIN vault
    /\ LET known == DOMAIN store[i]
           fresh == DOMAIN vault[v] \ known
           room == MaxServers - Cardinality(known)
       IN  \E kept \in SUBSET fresh :
              /\ Cardinality(kept) = IF Cardinality(fresh) < room THEN Cardinality(fresh) ELSE room
              /\ store' = [store EXCEPT ![i] = [s \in known \cup kept |->
                    Merge(IF s \in known THEN @[s] ELSE <<>>,
                          IF s \in DOMAIN vault[v] THEN vault[v][s] ELSE <<>>)]]
    /\ vault' = [x \in DOMAIN vault \ {v} |-> vault[x]]
    /\ UNCHANGED <<takes, spent, conns, poolVars>>

-----------------------------------------------------------------------------
RouteNext == \E c \in Connects : PlainConnect(c) \/ \E o \in Options : Dial(c, o)

PoolNext ==
    \/ Tick
    \/ \E c \in Connects :
          \/ \E k \in Keys : AcquireHit(c, k) \/ AcquireMiss(c, k) \/ AcquireFails(c, k)
          \/ HandshakeDone(c) \/ DropRef(c) \/ Touch(c) \/ EvictBroken(c)

TicketNext ==
    \/ \E i \in Identities, s \in Servers, t \in Tickets : TicketIssued(i, s, t)
    \/ \E c \in Connects :
          \/ \E i \in Identities, s \in Servers : Begin0Rtt(c, i, s)
          \/ TakeTicket(c) \/ Resolve0Rtt(c) \/ Fail0Rtt(c) \/ Confirm0Rtt(c)
    \/ \E i \in Identities, v \in Vaults :
          \/ \E some \in {{s} : s \in Servers} \cup {Servers} : ExportVault(i, some, v)
          \/ ImportVault(i, v)

ConnectNext == RouteNext \/ PoolNext \/ TicketNext

ConnectSpec == ConnectInit /\ [][ConnectNext]_connectVars

-----------------------------------------------------------------------------
\* The connects whose reference an entry counts.
Users(e) == {c \in Connects : conns[c].pc \in {"handshake", "live"} /\ conns[c].entry = e}

\* Every reference is given back exactly once, on success, failure and timeout
\* alike, also for an entry that has left the pool meanwhile.
RefsExact == \A e \in Connects : refs[e] = Cardinality(Users(e))

\* The pool keeps within its entry cap and an entry within its session cap,
\* however many connects race for the last place.
PoolBounded ==
    /\ Cardinality(Pooled) <= MaxPoolEntries
    /\ \A e \in Connects : refs[e] <= MaxPerKey

\* Only a connect that failed over it takes an entry out of the pool while
\* others use it: neither eviction does, and a late failure does not hit the
\* entry that took its own entry's place.
BusyStaysPooled ==
    [][\A k \in Keys :
         pool[k] # NoEntry /\ pool'[k] # pool[k] /\ Users(pool[k]) # {}
            => \E c \in Connects : conns[c].pc = "evicting" /\ conns[c].entry = pool[k]]_connectVars

\* Where ticket t is in a store or a vault: server and position.
Copies(f, t) == {p \in Servers \X (1..MaxPerServer) :
                    p[1] \in DOMAIN f /\ p[2] <= Len(f[p[1]]) /\ f[p[1]][p[2]] = t}

\* A ticket is in one place at most: moving it through a vault, merging it
\* back and taking it never leave a second copy to be used again.
TicketOnce ==
    \A t \in Tickets :
        Cardinality({x \in Identities \X (Servers \X (1..MaxPerServer)) :
                        x[2] \in Copies(store[x[1]], t)})
        + Cardinality({x \in Vaults \X (Servers \X (1..MaxPerServer)) :
                        x[1] \in DOMAIN vault /\ x[2] \in Copies(vault[x[1]], t)})
        + Cardinality({x \in spent : x[1] = t}) <= 1

\* The store keeps within both caps whichever way tickets come in.
StoreBounded ==
    \A i \in Identities :
        /\ Cardinality(DOMAIN store[i]) <= MaxServers
        /\ \A s \in DOMAIN store[i] : Len(store[i][s]) <= MaxPerServer

\* A connect that offered early data says so.
OfferReported ==
    \A c \in Connects :
        conns[c].pc = "resumed" /\ (\E t \in EarlyTickets : <<t, c>> \in spent)
            => conns[c].has0Rtt

\* Pool references and tickets are neither lost nor doubled, both stores keep
\* their bounds, and an offer of early data is reported.
ConnectSafe == RefsExact /\ PoolBounded /\ TicketOnce /\ StoreBounded /\ OfferReported
=============================================================================
