------------------------------- MODULE MCParts --------------------------------
(***************************************************************************)
(* The parts that stand by themselves, one scene at a time.                *)
(***************************************************************************)
EXTENDS Qpack, PeerLimiter, TicketStore, WireCodec, ReadGroup, SendDiagnostics, PayloadBuffer, TokenBuckets

VARIABLE scene

handVars == <<groupVars, diagVars, payloadVars, bucketVars>>
mcVars == <<scene, qpackVars, limiterVars, ticketVars, codecVars, handVars>>

MCNameLen(n) == IF n = "x" THEN 40 ELSE 7
F(n, v) == [n |-> n, v |-> v]
MCSections == {<<F("s", "1")>>, <<F("s", "2"), F("x", "1")>>, <<F("s", "2")>>}
\* Roomy tables, a table of two entries, a peer that advertises less, and
\* the literal-only default.
MCConfs == {[enc |-> 200, dec |-> 200, blocked |-> 3], [enc |-> 90, dec |-> 90, blocked |-> 1],
            [enc |-> 90, dec |-> 64, blocked |-> 2], [enc |-> 0, dec |-> 0, blocked |-> 0]}

\* Two addresses of one network and one of another.
MCPeerPrefix == [p \in Peers |-> IF p = "c" THEN "n2" ELSE "n1"]

\* Reasons of one- and two-byte characters around the limit, capsules of no
\* known type, a close without its code, a length beyond the cap.
Close(code, reason) == [kind |-> "close", code |-> code, reason |-> reason]
Drained == [kind |-> "drain"]
Odd(kind) == [kind |-> kind, reason |-> <<1>>]
MCScripts ==
    {<<>>, <<Drained, Close(258, <<97, 195, 169, 98>>)>>, <<Odd("other"), Close(0, <<97, 98, 195, 169>>)>>,
     <<Close(7, <<195, 169>>), Odd("short"), Drained>>, <<Drained, Odd("huge")>>}

MCInit ==
    /\ scene \in {"own", "rfc", "rate", "tickets", "sessions", "codec", "group", "diag", "payload", "bucket"}
    /\ QpackInit /\ LimiterInit /\ TicketInit /\ CodecInit /\ rfc = (scene = "rfc") /\ (rfc => conf.dec \in {0, 90})
    /\ scene \notin {"own", "rfc"} => conf.enc = 0
    /\ scene # "codec" => number = 0 /\ meantCaps = <<>>
    /\ GroupInit /\ DiagInit /\ PayloadInit /\ BucketInit /\ \A o \in Owners : owner[o].comp = 1

\* The foreign encoder uses one name, two streams and three inserts, enough
\* to evict and to come near the wrap of the insert count.
QpackScene ==
    /\ scene \in {"own", "rfc"}
    /\ QpackNext
    /\ scene = "rfc" => /\ \A i \in DOMAIN inserted' : inserted'[i].n = "s"
                       /\ Len(inserted') <= 3 /\ section'[3] = <<>>
                       /\ \A s \in {1, 2} : meant'[s] # <<>> => meant'[s][2].v = "1"

\* The first stream meets every fault, the second is only cancelled; the group
\* closes while both are owned.
GroupScene ==
    /\ scene = "group" /\ GroupNext
    /\ feeder'[2].pc # "refused" /\ feeder'[2].got \in {"nothing", "data"} /\ (2 \in owned' \/ sink'[2].state = "gone")
    /\ gclosed' => owned' = Keys /\ \A k \in Keys : feeder'[k].got \in {"nothing", "data"}

\* Both owners work on one component, the second on its gauge alone.
DiagScene == scene = "diag" /\ DiagNext /\ owner'[2].op # "finish" /\ holding'[2] # "interval"

\* One address is busy, the other server's is granted once; the count starts
\* once.
BucketScene ==
    /\ scene = "bucket" /\ BucketNext
    /\ taken'[<<2, "i">>] <= 1 /\ (since' = since \/ since.at = 0)

MCNext ==
    \/ QpackScene /\ UNCHANGED <<scene, limiterVars, ticketVars, codecVars, handVars>>
    \/ scene = "rate" /\ LimiterNext /\ UNCHANGED <<scene, qpackVars, ticketVars, codecVars, handVars>>
    \/ scene = "tickets" /\ ClientStep /\ UNCHANGED <<scene, qpackVars, limiterVars, codecVars, handVars>>
    \/ scene = "sessions" /\ ServerStep /\ UNCHANGED <<scene, qpackVars, limiterVars, codecVars, handVars>>
    \/ scene = "codec" /\ CodecNext /\ UNCHANGED <<scene, qpackVars, limiterVars, ticketVars, handVars>>
    \/ /\ UNCHANGED <<scene, qpackVars, limiterVars, ticketVars, codecVars>>
       /\ \/ GroupScene /\ UNCHANGED <<diagVars, payloadVars, bucketVars>>
          \/ DiagScene /\ UNCHANGED <<groupVars, payloadVars, bucketVars>>
          \/ scene = "payload" /\ PayloadNext /\ UNCHANGED <<groupVars, diagVars, bucketVars>>
          \/ BucketScene /\ UNCHANGED <<groupVars, diagVars, payloadVars>>

MCSpec == MCInit /\ [][MCNext]_mcVars

\* HTTP/3 on the wire: header sections, capsules and integers.
WireSafe == QpackSafe /\ CodecSafe

\* What is handed to JavaScript: chunks of a read group, and payloads.
HandoverSafe == GroupSafe /\ PayloadSafe
=============================================================================
