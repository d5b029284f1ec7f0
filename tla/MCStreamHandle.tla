--------------------------- MODULE MCStreamHandle ---------------------------
(* Instances of StreamHandle.  A behaviour plays one scene: two reads that *)
(* overlap, one after the other beside the native sink and the finalizer,  *)
(* or the write half.                                                      *)
EXTENDS StreamHandle

CONSTANTS r1, r2, w1, w2

VARIABLES
    scene,
    starts    \* read calls so far

Limit == CASE scene = "overlap" -> 2 [] scene = "alone" -> 2 [] scene = "write" -> 0

MCInit ==
    /\ Init /\ scene \in {"overlap", "alone", "write"} /\ starts = 0
    /\ scene = "write" => kind # "uniRecv" /\ ~busy
    /\ scene = "overlap" => kind = "bidi"
    /\ scene = "alone" => kind = "uniRecv"
MCNext ==
    /\ Next
    /\ starts' = starts + Cardinality({r \in Readers : rd[r].pc = "idle" /\ rd'[r].pc # "idle"})
    /\ starts' <= Limit
    /\ busy' => busy
    /\ Cardinality(called') <= IF kind = "bidi" THEN 1 ELSE 2
    /\ scene = "write" => UNCHANGED <<arrived, ended>> /\ "sink" \notin called'
    /\ scene # "write" => UNCHANGED <<wr, fw>> /\ called' \cap {"finish", "reset"} = {}
    /\ scene = "overlap" =>
          /\ ~final' /\ ("sink" \in called' => bridge # "none") /\ big' = {} /\ ended' \in {"open", "reset"}
          /\ (ended' # ended => arrived <= 1)
          /\ ~rd'[r1].batch /\ (rd'[r2].batch => called' = {}) /\ (rd[r1] = Idle => rd'[r2] = Idle)
    /\ scene = "alone" =>
          /\ rd'[r2] = rd[r2] /\ big' \subseteq {2} /\ ~busy
          /\ (ended' # ended => called = {}) /\ (final' => Cardinality(called) <= 1)
          /\ (Cardinality(called') = 2 => starts' <= 1)
    /\ UNCHANGED scene
MCSpec == MCInit /\ [][MCNext]_<<vars, scene, starts>> /\ Fairness
=============================================================================
