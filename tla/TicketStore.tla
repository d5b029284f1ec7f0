----------------------------- MODULE TicketStore -----------------------------
(***************************************************************************)
(* The session-ticket store of the WebAssembly crate (ticket_store.rs):    *)
(* tickets per server name, the process-wide vault behind the opaque blobs *)
(* a host keeps, and the server's single-use session keys.  Each map has   *)
(* an order queue beside it that must name the same entries.               *)
(***************************************************************************)
EXTENDS Integers, FiniteSets, Sequences, SequencesExt

CONSTANTS
    Stores,         \* InMemoryTicketStore instances
    ServerNames,
    MaxServers,     \* InMemoryTicketStore.max_servers
    MaxTickets,     \* MAX_TLS13_TICKETS_PER_SERVER
    MaxVault,       \* MAX_CLIENT_TICKET_VAULT_ENTRIES
    SessionKeys, MaxServerEntries,
    TicketBound,    \* bound: tickets ever issued
    PutBound        \* bound: server sessions ever stored

ASSUME TicketAssumption ==
    {MaxServers, MaxTickets, MaxVault, MaxServerEntries} \subseteq Nat \ {0}

VARIABLES
    client,   \* [Stores -> [some names -> [kx, tls13]]]
    corder,   \* [Stores -> client_order]
    vault,    \* [token -> [name, kx, tls13]]
    vorder,   \* ClientTicketVault.order
    server,   \* [some keys -> the put that stored the value]
    sorder,   \* server_order
    issued,   \* history: tickets and vault tokens drawn so far
    offered,  \* history: tickets given to a handshake
    stored,   \* history: server sessions put so far
    resumed   \* history: sequence of puts that take() handed out

ticketVars == <<client, corder, vault, vorder, server, sorder, issued, offered, stored, resumed>>

Keep(map, keys) == [k \in DOMAIN map \cap keys |-> map[k]]
Put(map, key, value) == [k \in DOMAIN map \cup {key} |-> IF k = key THEN value ELSE map[k]]
\* touch_client_name: to the back of the queue.
Touched(order, key) == Append(SelectSeq(order, LAMBDA k : k # key), key)
Drop(order, key) == SelectSeq(order, LAMBDA k : k # key)

\* Mutant: the name that was touched last goes.
TrimmedNewest(map, order, max) ==
    LET over == Cardinality(DOMAIN map) - max IN
    IF over <= 0 THEN [map |-> map, order |-> order]
    ELSE [map |-> Keep(map, DOMAIN map \ ToSet(SubSeq(order, Len(order) - over + 1, Len(order)))),
          order |-> SubSeq(order, 1, Len(order) - over)]

\* While the map is over its cap the front of the queue goes.
Trimmed(map, order, max) ==
    LET over == Cardinality(DOMAIN map) - max IN
    IF over <= 0 THEN [map |-> map, order |-> order]
    ELSE [map |-> Keep(map, DOMAIN map \ ToSet(SubSeq(order, 1, over))),
          order |-> SubSeq(order, over + 1, Len(order))]

DataOf(map, n) == IF n \in DOMAIN map THEN map[n] ELSE [kx |-> FALSE, tls13 |-> <<>>]

\* The oldest ticket makes room.
Pushed(tickets, t) == Append(IF Len(tickets) >= MaxTickets THEN Tail(tickets) ELSE tickets, t)

SetClient(s, map, order) ==
    LET trimmed == Trimmed(map, order, MaxServers) IN
    /\ client' = [client EXCEPT ![s] = trimmed.map]
    /\ corder' = [corder EXCEPT ![s] = trimmed.order]

-----------------------------------------------------------------------------
(* ClientSessionStore, called by rustls during handshakes.                 *)

set_kx_hint(s, n) ==
    /\ SetClient(s, Put(client[s], n, [DataOf(client[s], n) EXCEPT !.kx = TRUE]), Touched(corder[s], n))
    /\ UNCHANGED <<vault, vorder, server, sorder, issued, offered, stored, resumed>>

insert_tls13_ticket(s, n) ==
    /\ issued < TicketBound /\ issued' = issued + 1
    /\ SetClient(s, Put(client[s], n, [DataOf(client[s], n) EXCEPT !.tls13 = Pushed(@, issued + 1)]),
                 Touched(corder[s], n))
    /\ UNCHANGED <<vault, vorder, server, sorder, offered, stored, resumed>>

\* pop_back.
Offered(tickets) == Front(tickets)

take_tls13_ticket(s, n) ==
    /\ n \in DOMAIN client[s] /\ client[s][n].tls13 # <<>>
    /\ offered' = Append(offered, Last(client[s][n].tls13))
    /\ client' = [client EXCEPT ![s][n].tls13 = Offered(@)]
    /\ UNCHANGED <<corder, vault, vorder, server, sorder, issued, stored, resumed>>

-----------------------------------------------------------------------------
(* The vault.  A blob is its token.                                        *)

\* export_client_tickets and client_ticket_vault_put: room is made first.
Export(s, n) ==
    LET data == client[s][n]
        room == Trimmed(vault, vorder, MaxVault - 1) IN
    /\ n \in DOMAIN client[s] /\ issued < TicketBound
    /\ client' = [client EXCEPT ![s] = Keep(@, DOMAIN @ \ {n})]
    /\ corder' = [corder EXCEPT ![s] = Drop(@, n)]
    /\ IF data.tls13 = <<>> /\ ~data.kx
       THEN UNCHANGED <<vault, vorder, issued>>
       ELSE /\ issued' = issued + 1
            /\ vault' = Put(room.map, issued + 1, [name |-> n, kx |-> data.kx, tls13 |-> data.tls13])
            /\ vorder' = Append(room.order, issued + 1)
    /\ UNCHANGED <<server, sorder, offered, stored, resumed>>

\* client_ticket_vault_restore, after client_ticket_vault_take: under the same
\* token, at the back of the queue.
Restored(token, entry) ==
    LET taken == Keep(vault, DOMAIN vault \ {token})
        back  == Trimmed(Put(taken, token, entry), Append(Drop(vorder, token), token), MaxVault)
    IN  vault' = back.map /\ vorder' = back.order

\* client_ticket_vault_take.
Taken(token) ==
    vault' = Keep(vault, DOMAIN vault \ {token}) /\ vorder' = Drop(vorder, token)

\* import_client_tickets, with a token the host got from some export.
Import(s, n, token) ==
    LET e == vault[token]
        d == DataOf(client[s], n)
        \* one insert_tls13_ticket after the other
        pushed[i \in 0..Len(e.tls13)] == IF i = 0 THEN d.tls13 ELSE Pushed(pushed[i - 1], e.tls13[i])
    IN
    /\ token \in DOMAIN vault
    /\ IF e.name # n
       THEN Restored(token, e) /\ UNCHANGED <<client, corder>>
       ELSE /\ Taken(token)
            /\ SetClient(s, Put(client[s], n, [kx |-> d.kx \/ e.kx, tls13 |-> pushed[Len(e.tls13)]]),
                         Touched(corder[s], n))
    /\ UNCHANGED <<server, sorder, issued, offered, stored, resumed>>

-----------------------------------------------------------------------------
(* StoresServerSessions.                                                   *)

put(k) ==
    LET trimmed == Trimmed(Put(server, k, stored + 1), Touched(sorder, k), MaxServerEntries) IN
    /\ stored < PutBound /\ stored' = stored + 1
    /\ server' = trimmed.map /\ sorder' = trimmed.order
    /\ UNCHANGED <<client, corder, vault, vorder, issued, offered, resumed>>

take(k) ==
    /\ k \in DOMAIN server
    /\ resumed' = Append(resumed, server[k])
    /\ server' = Keep(server, DOMAIN server \ {k}) /\ sorder' = Drop(sorder, k)
    /\ UNCHANGED <<client, corder, vault, vorder, issued, offered, stored>>

-----------------------------------------------------------------------------
TicketInit ==
    /\ client = [s \in Stores |-> << >>] /\ corder = [s \in Stores |-> <<>>]
    /\ vault = << >> /\ vorder = <<>> /\ server = << >> /\ sorder = <<>>
    /\ issued = 0 /\ offered = <<>> /\ stored = 0 /\ resumed = <<>>

ClientStep ==
    \/ \E s \in Stores, n \in ServerNames :
         \/ set_kx_hint(s, n) \/ insert_tls13_ticket(s, n) \/ take_tls13_ticket(s, n) \/ Export(s, n)
         \/ \E token \in 1..issued : Import(s, n, token)

ServerStep == \E k \in SessionKeys : put(k) \/ take(k)

TicketNext == ClientStep \/ ServerStep

-----------------------------------------------------------------------------
(* Properties                                                              *)

Same(map, order) == DOMAIN map = ToSet(order) /\ Cardinality(DOMAIN map) = Len(order)

\* The queues name exactly the entries of their maps, and all stay within
\* their caps.
TicketTypeOK ==
    /\ \A s \in Stores : Same(client[s], corder[s]) /\ Len(corder[s]) <= MaxServers
    /\ Same(vault, vorder) /\ Len(vorder) <= MaxVault
    /\ Same(server, sorder) /\ Len(sorder) <= MaxServerEntries
    /\ \A s \in Stores : \A n \in DOMAIN client[s] : Len(client[s][n].tls13) <= MaxTickets

\* A ticket is in one place at most: one store, the vault, or spent in one
\* handshake, however blobs travel between stores.
TicketOnce ==
    LET inStore == {<<s, n>> \in Stores \X ServerNames : n \in DOMAIN client[s]}
        held == UNION {{<<x, i, client[x[1]][x[2]].tls13[i]>> :
                            i \in DOMAIN client[x[1]][x[2]].tls13} : x \in inStore}
                \cup UNION {{<<<<"vault", v>>, i, vault[v].tls13[i]>> : i \in DOMAIN vault[v].tls13} :
                            v \in DOMAIN vault}
                \cup {<<<<"offered", 0>>, i, offered[i]>> : i \in DOMAIN offered}
    IN  \A a, b \in held : a[3] = b[3] => a[1] = b[1] /\ a[2] = b[2]

\* A server session is resumed at most once: early data cannot be replayed
\* through the stateful store.
ResumedOnce == \A i, j \in DOMAIN resumed : resumed[i] = resumed[j] => i = j

\* A blob stays valid through every import for another name, until it is
\* imported for its own or pushed out by newer exports.
BlobStaysValid ==
    [][\A v \in DOMAIN vault :
         v \notin DOMAIN vault' =>
             \/ issued' > issued /\ v = Head(vorder) /\ Len(vorder) = MaxVault
             \/ \E s \in Stores :
                   /\ vault[v].name \in DOMAIN client'[s]
                   /\ vault[v].tls13 = <<>> \/ Last(vault[v].tls13) \in ToSet(client'[s][vault[v].name].tls13)]_ticketVars

\* Making room never drops what was just put: a ticket that rustls stored and
\* a token that an export handed out are there to be taken.
NewestKept ==
    [][issued' > issued =>
         \/ issued' \in DOMAIN vault'
         \/ \E s \in Stores : \E n \in DOMAIN client'[s] : issued' \in ToSet(client'[s][n].tls13)]_ticketVars

\* A ticket is used once; making room and failed imports lose none that
\* should be there.
TicketsSafe == []TicketTypeOK /\ []TicketOnce /\ []ResumedOnce /\ BlobStaysValid /\ NewestKept
=============================================================================
