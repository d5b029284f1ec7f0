------------------------------- MODULE MCEgress -------------------------------
(***************************************************************************)
(* The way out for TLC, one scene at a time: drivers, the flusher and the  *)
(* receiver of the batched socket; the reflector and its hints, with the   *)
(* drivers going past the ring; the pacer's queue and thread; and the      *)
(* process-wide configuration of the pacer with its snapshot marks.        *)
(***************************************************************************)
EXTENDS Reflector, EgressPacer

VARIABLE scene

mcVars == <<scene, batchVars, reflectVars, pacerVars>>

\* The rules JavaScript offers: two that compile, and three that do not
\* (a reply longer than the least datagram, a range past the reply, a
\* match past the least datagram).
Match(o, bytes) == [offset |-> o, bytes |-> bytes]
Rule(min, reply, match, ops) == [min |-> min, reply |-> reply, matches |-> <<match>>, ops |-> ops]
FirstRule == Rule(3, 3, Match(0, <<1>>), <<[op |-> "copy", from |-> 0, to |-> 1, length |-> 2],
                                              [op |-> "set", at |-> 0, value |-> 7]>>)
MCRules == {FirstRule,
    Rule(3, 2, Match(2, <<3>>), <<[op |-> "nowNs", at |-> 0], [op |-> "zero", at |-> 1, length |-> 1]>>),
    Rule(2, 3, Match(0, <<1>>), <<>>),
    Rule(3, 2, Match(0, <<1>>), <<[op |-> "zero", at |-> 1, length |-> 2]>>),
    Rule(2, 2, Match(1, <<2, 3>>), <<>>)}
MCDatagrams == {<<1, 2>>, <<1, 2, 3>>, <<1, 2, 3, 4>>}
MCSegments == [t \in Transmits |-> IF t = 3 THEN 2 ELSE 1]
MCOwnerOf == [d \in Drivers |-> CHOOSE o \in Owners : TRUE]
MCWanted == [s \in Servers |-> s]

\* A scene of its own begins with the flusher waiting on a socket that
\* does not take its batch and one more transmit in the ring, so that the
\* two drivers meet the budget before they meet a full ring.
Stalled ==
    /\ ring = <<3>> /\ used = [count |-> 3, bytes |-> 4] /\ accepted = <<1, 2, 3>>
    /\ flusher = [pc |-> "wait", pending |-> <<1, 2>>, off |-> 0, seg |-> 0]

\* The receiver runs in a scene of its own and has left in the others;
\* the reflector's scene starts with the first rule in place.
MCInit ==
    /\ scene \in {"batch", "budget", "recv", "rules", "reflect", "pacer", "config"}
    /\ gen = 0 /\ full = FALSE /\ wakers = {} /\ woken = {}
    /\ terminal = NoError /\ failing = [at |-> "no", by |-> "none"]
    /\ IF scene = "budget" THEN Stalled
       ELSE /\ ring = <<>> /\ used = [count |-> 0, bytes |-> 0] /\ accepted = <<>>
            /\ flusher = [pc |-> "top", pending |-> <<>>, off |-> 0, seg |-> 0]
    /\ driver = [d \in Drivers |-> [pc |-> "idle", t |-> 0, seen |-> 0, restored |-> FALSE]]
    /\ receiver = (IF scene = "recv" THEN "idle" ELSE "ended")
    /\ recvWaker = FALSE /\ recvWoken = FALSE
    /\ hint = [d \in Drivers |-> "none"] /\ wire = <<>> /\ direct = {}
    /\ rules = [o \in Owners |-> IF scene = "reflect" THEN FirstRule ELSE NoRule]
    /\ jobs = <<>> /\ sender = Idle /\ tally = Nothing /\ marks = [d \in Drivers |-> 0]
    /\ PacerInit

\* Transmits are numbers: they are produced in order, in some scenes few.
\* The reflector's scene runs the flusher only to let it leave.
NextTransmit(d, most) ==
    \E t \in Transmits :
        t <= most /\ (\A u \in Transmits : u < t => u \in Produced) /\ TrySend(d, t)

\* One driver and the thread it can make fail, with the receiver.
OneDriver == CHOOSE d \in Drivers : TRUE

\* The second submission is the other server's.
FirstServer == CHOOSE s \in Servers : TRUE

InScene ==
    \/ /\ scene = "batch"
       /\ \/ \E d \in Drivers : DriverStep(d) \/ DropPoller(d) \/ NextTransmit(d, 3)
          \/ FlusherStep \/ WaitEnds \/ FailStep \/ DropSocket
       /\ UNCHANGED <<reflectVars, pacerVars>>
    \/ /\ scene = "budget"
       /\ \/ \E d \in Drivers : DriverStep(d) \/ NextTransmit(d, 5)
          \/ FlusherStep \/ WaitEnds
       /\ flusher'.pc # "fail"
       /\ UNCHANGED <<reflectVars, pacerVars>>
    \/ /\ scene = "recv"
       /\ \/ DriverStep(OneDriver) \/ NextTransmit(OneDriver, 1)
          \/ \E d \in Drivers : DropPoller(d)
          \/ FlusherStep \/ WaitEnds \/ FailStep \/ RecvStep \/ PacketArrives \/ DropSocket
       /\ UNCHANGED <<reflectVars, pacerVars>>
    \/ scene = "rules" /\ ReflectNext /\ UNCHANGED pacerVars
    \/ /\ scene = "reflect"
       /\ \/ \E d \in Drivers : Reflect(d, <<1, 2, 3>>)
          \/ SenderStep
          \/ /\ UNCHANGED reflectVars
             /\ \/ \E d \in Drivers : HintExpires(d)
                \/ NextTransmit(OneDriver, 2) \/ DriverStep(OneDriver)
                \/ (Failed /\ FlusherStep) \/ FailStep
       /\ UNCHANGED pacerVars
    \/ /\ scene = "pacer"
       /\ QueueNext
       /\ (count'.submits > count.submits /\ queue' # <<>>) =>
             (Last(queue').owner = FirstServer <=> count.submits # 1)
       /\ UNCHANGED <<batchVars, reflectVars>>
    \/ scene = "config" /\ (ConfigNext \/ Snapshot) /\ UNCHANGED <<batchVars, reflectVars>>

MCNext == InScene /\ UNCHANGED scene

\* The modules' fairness, each in the scenes that take its steps.
Sock == scene \in {"batch", "budget", "recv", "reflect"}
SceneFairness ==
    /\ \A d \in Drivers : WF_batchVars(Sock /\ DriverStep(d))
    /\ WF_batchVars(Sock /\ (scene = "reflect" => Failed) /\ FlusherStep)
    /\ WF_batchVars(Sock /\ FailStep)
    /\ WF_batchVars(scene = "recv" /\ RecvStep)
    /\ WF_reflectVars(scene \in {"rules", "reflect"} /\ SenderStep)
    /\ \A k \in Threads : WF_pacerVars(scene = "pacer" /\ ThreadStep(k))
    /\ WF_pacerVars(scene = "pacer" /\ Tick) /\ WF_pacerVars(scene = "pacer" /\ ReportOrphan)

MCSpec == MCInit /\ [][MCNext]_mcVars /\ SceneFairness

\* What goes through the batched socket, replies included, goes once, in
\* order and within its credits.
SocketSafe == BatchSafe /\ ReplySafe

\* Nobody on the way out waits for ever: drivers, the flusher, replies and
\* paced targets, and every snapshot gets its mark.
EgressSettles ==
    /\ EveryoneTold /\ ParkedResumes /\ FlusherJoins
    /\ RepliesLeave /\ QueueDrains /\ MarkNeverZero
================================================================================
