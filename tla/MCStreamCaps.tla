---------------------------- MODULE MCStreamCaps ----------------------------
(* Instances of StreamCaps: one lane.  A behaviour plays one scene: who    *)
(* opens streams, and which calls the application makes beside them.       *)
EXTENDS StreamCaps

CONSTANTS l1, s1

VARIABLE scene

OneSession == [l \in Lanes |-> s1]
\* Streams p1 and p2 are the peer's, c1 is the application's.
MCLaneOf == [st \in Streams |-> l1]
MCOriginOf == [st \in Streams |-> IF st \in {"p1", "p2"} THEN "peer" ELSE "local"]

\* "open": both sides open streams, three in all; "wait": one each beside a
\* wait for capacity; "pull": the application takes the peer's streams from
\* the channel and discards them.
MCInit == Init /\ scene \in {"open", "wait", "pull"}
MCNext ==
    /\ Next
    /\ scene # "pull" => pull'[l1] = "idle" /\ disc'[l1] = "idle"
    /\ scene # "wait" => wait'[l1] = "idle"
    /\ scene = "wait" => stage'["p2"] = "none"
    /\ scene = "pull" => stage'["c1"] = "none"
    /\ UNCHANGED scene
MCSpec == MCInit /\ [][MCNext]_<<vars, scene>> /\ Fairness
=============================================================================
