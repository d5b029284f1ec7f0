----------------------------- MODULE MCSinkRing -----------------------------
(* Instances of SinkRing.  A behaviour plays one scene: records that go    *)
(* round the ring in either overflow mode, frames, or a slow consumer with *)
(* timers and a stop.                                                      *)
EXTENDS SinkRing

VARIABLE scene
Scenes == {"block", "drop", "frames", "timers", "idle"}
Limit == CASE scene = "block" -> 7 [] scene = "drop" -> 6 [] scene = "frames" -> 2 [] OTHER -> 4

MCInit ==
    /\ SinkInit /\ scene \in Scenes
    /\ mode = IF scene \in {"drop", "idle"} THEN "drop" ELSE "block"
    /\ framed = (scene = "frames") /\ idle = (scene = "idle")
    /\ scene # "frames" => frame = 1
MCNext ==
    /\ SinkNext
    /\ chunks' <= Limit
    /\ scene # "timers" => UNCHANGED flag
    /\ scene \notin {"timers", "idle"} => UNCHANGED <<stall, watch>> \/ pc \in {"push", "commit"}
    /\ scene \in {"block", "drop"} => wire' \in {"open", "eof"}
    /\ scene \in {"timers", "idle"} => \A i \in 1..Len(frames') : frames'[i] = 3
    /\ UNCHANGED scene
MCSpec == MCInit /\ [][MCNext]_<<sinkVars, scene>> /\ SinkFairness
=============================================================================
