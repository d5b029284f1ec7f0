------------------------------- MODULE MCServer -------------------------------
(***************************************************************************)
(* A server's life for TLC, one scene at a time: two instances starting in *)
(* one steering group, instances that cannot share a port, the drain with  *)
(* tasks, with a panic, with a stalled task and with operations, the       *)
(* certificates, and the connection ids.                                   *)
(***************************************************************************)
EXTENDS TaskDrain, ServerSetup

VARIABLE scene

mcVars == <<scene, lb, drainVars, startVars, tlsVars>>

Options(reuse, port0, steering, lbOn, attach, pacer) ==
    [reusePort |-> reuse, port0 |-> port0, steering |-> steering, quicLb |-> lbOn,
     attach |-> attach, pacer |-> pacer, key |-> 1]
MCOptionsOf == [i \in Instances |->
    CASE i = "lead"   -> Options(TRUE, FALSE, TRUE, TRUE, TRUE, TRUE)
      [] i = "twin"   -> Options(TRUE, FALSE, TRUE, TRUE, FALSE, FALSE)
      [] i = "plain"  -> Options(FALSE, FALSE, FALSE, FALSE, FALSE, TRUE)
      [] OTHER        -> Options(TRUE, TRUE, FALSE, FALSE, FALSE, FALSE)]
MCShardOf == [t \in 1..MaxTasks |-> t % 2]

\* Two spellings of one name, one below the wildcard, one not a name.
MCCanon == [s \in Spelled |->
    CASE s \in {"a", "A."} -> "a" [] s = "b" -> "b" [] s = "*" -> "*" [] OTHER -> "invalid"]
MCWildcardOf == [n \in Names |-> IF n = "b" THEN "*" ELSE "invalid"]

\* No entry, one, a wildcard beside a name it covers, one name spelled twice,
\* a bad name and a bad PEM behind a good entry.
Entry(n, p) == [name |-> n, pem |-> p]
MCSniLists == {<<>>, <<Entry("A.", "c1")>>, <<Entry("*", "c1"), Entry("b", "c2")>>,
               <<Entry("a", "c1"), Entry("A.", "c2")>>, <<Entry("a", "c2"), Entry("?", "c1")>>,
               <<Entry("*", "c2"), Entry("b", "bad-pem")>>}

MCLbConfigs == {[id |-> id, nonce |-> n, rotation |-> r] :
                 id \in {<<>>, <<0>>, <<255>>, <<1, 2>>, [i \in 1..15 |-> 9], [i \in 1..16 |-> 9]},
                 n \in 3..5, r \in {0, 6, 7}}

AnyConfig == CHOOSE config \in LbConfigs : TRUE

MCInit ==
    /\ scene \in {"steer", "port", "tasks", "panic", "stall", "ops", "tls", "cid"}
    /\ DrainInit /\ StartInit /\ TlsInit
    /\ LbInit /\ lb.random = 255
    /\ scene # "cid" => lb = [issuer |-> AnyConfig, other |-> AnyConfig, first |-> 0, random |-> 255]
    /\ scene # "tls" => default # "dev" /\ default = CHOOSE c \in Certs : TRUE

Starting == IF scene = "steer" THEN {"lead", "twin"} ELSE {"plain", "twin", "odd"}

\* What a scene leaves out is nobody's obligation: spawns, faults and calls.
DrainScene ==
    /\ scene \in {"tasks", "panic", "stall", "ops"}
    /\ DrainNext
    /\ scene # "tasks" => life'[MaxTasks] = "free"
    /\ scene # "panic" => panicked' = {}
    /\ scene # "stall" => stalled' = {}
    /\ scene # "ops" => ops' = ops

StartScene ==
    /\ scene \in {"steer", "port"}
    /\ StartNext
    /\ \A i \in Instances \ Starting : ctor'[i] = "new"

MCNext ==
    \/ DrainScene /\ UNCHANGED <<scene, lb, startVars, tlsVars>>
    \/ StartScene /\ UNCHANGED <<scene, lb, drainVars, tlsVars>>
    \/ scene = "tls" /\ TlsNext /\ UNCHANGED <<scene, lb, drainVars, startVars>>

MCSpec == MCInit /\ [][MCNext]_mcVars /\ DrainFairness /\ StartFairness

\* close() settles, panics are torn down, starting leaves no orphan and what
\* is up serves.
ServerSettles == DrainSettles /\ NoOrphan /\ UpServes
=============================================================================
