---------------------------- MODULE MCByteBudget ----------------------------
(* Instances of ByteBudget.  A behaviour plays one scene: the requests it  *)
(* makes; the others stay idle.                                            *)
EXTENDS ByteBudget

CONSTANTS s1, s2

VARIABLE scene   \* the requests of this behaviour

\* A send of one session and an inbound datagram of the other.
Datagrams == {"send", "ingress"}
\* Two chunks of one stream beside a try-send of the same session.
Shared == {"try", "chunk1", "chunk2"}

MCKindOf == [send |-> "send", ingress |-> "ingress", try |-> "trySend",
             chunk1 |-> "stream", chunk2 |-> "stream"]
MCSessionOf == [r \in Requests |-> IF r = "ingress" THEN s1 ELSE s2]
MCStreamOf == [r \in Requests |-> CASE r = "ingress" -> "t1"
                                    [] r \in {"chunk1", "chunk2"} -> "t2"
                                    [] OTHER -> "t3"]
MCBytesOf == [send |-> {1, 2}, ingress |-> {3, 4, 10}, try |-> {5, 6}, chunk1 |-> {7}, chunk2 |-> {8, 9}]

MCInit == Init /\ scene \in {Datagrams, Shared}
MCNext ==
    /\ Next
    /\ \A r \in Requests \ scene : stage'[r] = "idle"
    /\ scene = Shared => fwd' = fwd      \* no datagram arrives
    /\ UNCHANGED scene
MCSpec == MCInit /\ [][MCNext]_<<vars, scene>> /\ Fairness
=============================================================================
