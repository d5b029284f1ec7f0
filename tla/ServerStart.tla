----------------------------- MODULE ServerStart -----------------------------
(***************************************************************************)
(* From `new ServerHandle` to an accept loop: the constructor's refusals   *)
(* (server_napi.rs), the start-up handshake with its time-out and retry    *)
(* (server_spawn.rs), the start-up task on the runtime (lib.rs), and the   *)
(* steering slot several instances of one port compete for                 *)
(* (reuseport_steering.rs).                                                *)
(*                                                                         *)
(* The constructor and the start-up task run on different threads: the     *)
(* constructor may give up while the task is still binding.  What then     *)
(* stops the task is the shutdown sender the constructor dropped.          *)
(***************************************************************************)
EXTENDS Integers, FiniteSets

CONSTANTS
    Instances,   \* servers of this process, all asked for the same port
    OptionsOf,   \* [Instances -> options the constructor is called with]
    Slots,       \* keys of the pinned sockarray
    Retries,     \* max_retries (the constructor passes 1)
    StartFaults       \* subset of {"late", "late-retry", "fail", "pacer", "attach"}

NoOne == "none"

ASSUME StartAssumption ==
    /\ Retries \in Nat \ {0} /\ NoOne \notin Instances
    /\ \A i \in Instances :
         OptionsOf[i].key \in Slots
         /\ {OptionsOf[i].reusePort, OptionsOf[i].port0, OptionsOf[i].steering, OptionsOf[i].quicLb,
             OptionsOf[i].attach, OptionsOf[i].pacer} \subseteq BOOLEAN

VARIABLES
    ctor,      \* [Instances -> "new" | "wait" | "pacer" | "up" | "closed" | "error"]
    attempt,   \* [Instances -> start-up attempts made]
    reply,     \* [Instances -> "none" | "ok" | "inUse" | "err"]: the start-up channel
    heard,     \* [Instances -> the constructor still reads that channel]
    signal,    \* [Instances -> "held" | "fired"]: the shutdown sender was used or dropped
    boot,      \* [Instances -> where the start-up task and the accept loop are]
    sockets,   \* instances that hold a bound socket
    slot,      \* [Slots -> the instance whose socket is in the sockarray]
    program,   \* the steering program is attached to the group
    readers    \* instances whose dedicated receive thread runs

startVars == <<ctor, attempt, reply, heard, signal, boot, sockets, slot, program, readers>>

Boots == {"none", "bind", "steer", "attach", "runtime", "report", "spawn", "accepting", "over"}

\* Type of the instances' start-up and of the steering slots.
StartTypeOK ==
    /\ ctor \in [Instances -> {"new", "wait", "pacer", "up", "closed", "error"}]
    /\ attempt \in [Instances -> 0..Retries]
    /\ reply \in [Instances -> {"none", "ok", "inUse", "err"}]
    /\ heard \in [Instances -> BOOLEAN]
    /\ signal \in [Instances -> {"held", "fired"}]
    /\ boot \in [Instances -> Boots]
    /\ sockets \subseteq Instances /\ readers \subseteq Instances
    /\ slot \in [Slots -> Instances \cup {NoOne}] /\ program \in BOOLEAN

StartInit ==
    /\ ctor = [i \in Instances |-> "new"] /\ attempt = [i \in Instances |-> 0]
    /\ reply = [i \in Instances |-> "none"] /\ heard = [i \in Instances |-> FALSE]
    /\ signal = [i \in Instances |-> "held"] /\ boot = [i \in Instances |-> "none"]
    /\ sockets = {} /\ slot = [k \in Slots |-> NoOne] /\ program = FALSE /\ readers = {}

-----------------------------------------------------------------------------
(* The constructor's thread.                                               *)

\* What the options must satisfy before anything is started.
Refused(o) ==
    \/ o.steering /\ (~o.reusePort \/ ~o.quicLb)
    \/ o.reusePort /\ o.port0

\* One attempt: fresh shutdown and start-up channels, a fresh task.
Attempt(i) ==
    /\ attempt' = [attempt EXCEPT ![i] = @ + 1]
    /\ reply' = [reply EXCEPT ![i] = "none"]
    /\ heard' = [heard EXCEPT ![i] = TRUE]
    /\ signal' = [signal EXCEPT ![i] = "held"]
    /\ boot' = [boot EXCEPT ![i] = "bind"]

Construct(i) ==
    /\ ctor[i] = "new"
    /\ IF Refused(OptionsOf[i])
       THEN /\ ctor' = [ctor EXCEPT ![i] = "error"]
            /\ UNCHANGED <<attempt, reply, heard, signal, boot>>
       ELSE ctor' = [ctor EXCEPT ![i] = "wait"] /\ Attempt(i)
    /\ UNCHANGED <<sockets, slot, program, readers>>

\* The constructor leaves: its ends of both channels go out of scope.
GiveUp(i) ==
    /\ ctor' = [ctor EXCEPT ![i] = "error"]
    /\ heard' = [heard EXCEPT ![i] = FALSE]
    /\ signal' = [signal EXCEPT ![i] = "fired"]

\* startup_rx.recv_timeout answered.
Answered(i) ==
    /\ ctor[i] = "wait" /\ reply[i] # "none"
    /\ CASE reply[i] = "ok" ->
              /\ ctor' = [ctor EXCEPT ![i] = "pacer"]
              /\ heard' = [heard EXCEPT ![i] = FALSE]
              /\ UNCHANGED <<attempt, reply, signal, boot>>
         [] reply[i] = "inUse" /\ attempt[i] < Retries ->
              Attempt(i) /\ UNCHANGED ctor
         [] OTHER -> GiveUp(i) /\ UNCHANGED <<attempt, reply, boot>>
    /\ UNCHANGED <<sockets, slot, program, readers>>

\* The 5 s are over before the task answered.
TimedOut(i) ==
    /\ "late" \in StartFaults
    /\ ctor[i] = "wait" /\ reply[i] = "none"
    /\ GiveUp(i)
    /\ UNCHANGED <<attempt, reply, boot, sockets, slot, program, readers>>

\* egress_pacer::install_config loses against another server's configuration:
\* the server that is already listening is told to stop.
InstallPacer(i) ==
    /\ ctor[i] = "pacer"
    /\ \/ ctor' = [ctor EXCEPT ![i] = "up"] /\ UNCHANGED signal
       \/ /\ OptionsOf[i].pacer /\ "pacer" \in StartFaults
          /\ ctor' = [ctor EXCEPT ![i] = "error"]
          /\ signal' = [signal EXCEPT ![i] = "fired"]
    /\ UNCHANGED <<attempt, reply, heard, boot, sockets, slot, program, readers>>

\* ServerHandle::close.
CloseServer(i) ==
    /\ ctor[i] = "up"
    /\ ctor' = [ctor EXCEPT ![i] = "closed"]
    /\ signal' = [signal EXCEPT ![i] = "fired"]
    /\ UNCHANGED <<attempt, reply, heard, boot, sockets, slot, program, readers>>

-----------------------------------------------------------------------------
(* The start-up task.                                                      *)

\* report_startup(Err) and return: what was bound is dropped with the task.
Fails(i, why) ==
    /\ boot' = [boot EXCEPT ![i] = "over"]
    /\ reply' = IF heard[i] THEN [reply EXCEPT ![i] = why] ELSE reply
    /\ sockets' = sockets \ {i}
    /\ readers' = readers \ {i}

Goto(i, b) == boot' = [boot EXCEPT ![i] = b]

\* The kernel admits a socket next to others only if all set SO_REUSEPORT
\* (external).
PortFree(i) ==
    \A j \in sockets \ {i} : OptionsOf[i].port0 \/ OptionsOf[j].port0
                               \/ (OptionsOf[i].reusePort /\ OptionsOf[j].reusePort)

Bind(i) ==
    /\ boot[i] = "bind"
    /\ \/ ~PortFree(i) /\ Fails(i, "inUse")
       \/ "fail" \in StartFaults /\ Fails(i, "err")
       \/ /\ PortFree(i)
          /\ sockets' = sockets \cup {i}
          /\ Goto(i, IF OptionsOf[i].steering THEN "steer" ELSE "runtime")
          /\ UNCHANGED <<reply, readers>>
    /\ UNCHANGED <<ctor, attempt, heard, signal, slot, program>>

\* reuseport_steering::install: BPF_NOEXIST, an occupied slot is an error
\* whose text the retry test takes for an address in use.
Steer(i) ==
    /\ boot[i] = "steer"
    /\ IF slot[OptionsOf[i].key] # NoOne
       THEN Fails(i, "inUse") /\ UNCHANGED slot
       ELSE /\ slot' = [slot EXCEPT ![OptionsOf[i].key] = i]
            /\ Goto(i, IF OptionsOf[i].attach THEN "attach" ELSE "runtime")
            /\ UNCHANGED <<sockets, reply, readers>>
    /\ UNCHANGED <<ctor, attempt, heard, signal, program>>

\* Mutant: a program that cannot be attached is passed over.
AttachOptional(i) ==
    /\ boot[i] = "attach"
    /\ \/ program' = TRUE /\ Goto(i, "runtime") /\ UNCHANGED <<sockets, reply, readers>>
       \/ "attach" \in StartFaults /\ Goto(i, "runtime") /\ UNCHANGED <<sockets, reply, readers, program>>
    /\ UNCHANGED <<ctor, attempt, heard, signal, slot>>

Attach(i) ==
    /\ boot[i] = "attach"
    /\ \/ program' = TRUE /\ Goto(i, "runtime") /\ UNCHANGED <<sockets, reply, readers>>
       \/ "attach" \in StartFaults /\ Fails(i, "err") /\ UNCHANGED program
    /\ UNCHANGED <<ctor, attempt, heard, signal, slot>>

\* Idle time-out, the dedicated receive runtime, the endpoint itself.
Runtime(i) ==
    /\ boot[i] = "runtime"
    /\ \/ "fail" \in StartFaults /\ Fails(i, "err")
       \/ readers' = readers \cup {i} /\ Goto(i, "report") /\ UNCHANGED <<sockets, reply>>
    /\ UNCHANGED <<ctor, attempt, heard, signal, slot, program>>

\* report_startup(Ok(port)): before the accept loop exists.
Report(i) ==
    /\ boot[i] = "report"
    /\ reply' = IF heard[i] THEN [reply EXCEPT ![i] = "ok"] ELSE reply
    /\ Goto(i, "spawn")
    /\ UNCHANGED <<ctor, attempt, heard, signal, sockets, slot, program, readers>>

SpawnAccept(i) ==
    /\ boot[i] = "spawn"
    /\ Goto(i, "accepting")
    /\ UNCHANGED <<ctor, attempt, reply, heard, signal, sockets, slot, program, readers>>

\* shutdown_rx.changed() completes on a message and on a dropped sender.
AcceptStops(i) ==
    /\ boot[i] = "accepting" /\ signal[i] = "fired"
    /\ Goto(i, "over")
    /\ sockets' = sockets \ {i} /\ readers' = readers \ {i}
    /\ UNCHANGED <<ctor, attempt, reply, heard, signal, slot, program>>

\* The kernel removes the entry of a closed socket, a little later (external).
SlotFreed(k) ==
    /\ slot[k] # NoOne /\ slot[k] \notin sockets
    /\ slot' = [slot EXCEPT ![k] = NoOne]
    /\ program' = (program /\ sockets # {})
    /\ UNCHANGED <<ctor, attempt, reply, heard, signal, boot, sockets, readers>>

Boot(i) ==
    \/ Bind(i) \/ Steer(i) \/ Attach(i) \/ Runtime(i) \/ Report(i) \/ SpawnAccept(i) \/ AcceptStops(i)

StartNext ==
    \/ \E i \in Instances :
          Construct(i) \/ Answered(i) \/ TimedOut(i) \/ InstallPacer(i) \/ CloseServer(i) \/ Boot(i)
    \/ \E k \in Slots : SlotFreed(k)

\* The runtime polls the start-up task and the accept loop; the constructor
\* blocks its thread in recv_timeout only; the kernel drops closed sockets.
StartFairness ==
    /\ \A i \in Instances :
         /\ WF_startVars(Boot(i)) /\ WF_startVars(Answered(i) \/ TimedOut(i)) /\ WF_startVars(InstallPacer(i))
    /\ \A k \in Slots : WF_startVars(SlotFreed(k))

StartSpec == StartInit /\ [][StartNext]_startVars /\ StartFairness

-----------------------------------------------------------------------------
(* Properties                                                              *)

\* A constructor that threw leaves no server behind: the socket, the receive
\* thread and the steering slot of an attempt it gave up on all go away, even
\* when the task finishes binding after the time-out (server_spawn.rs:173).
NoOrphan ==
    <>[](\A i \in Instances :
            ctor[i] = "error" => /\ i \notin sockets /\ i \notin readers
                                 /\ \A k \in Slots : slot[k] # i)

\* A constructor that returned has an accept loop, or will: the port it
\* reported is served until the server is closed.
UpServes == <>[](\A i \in Instances : ctor[i] = "up" => boot[i] = "accepting")

\* Fail closed (reuseport_steering.rs:8-11): an instance that is up and was
\* asked to be steered holds its slot; the one that attaches the program has
\* attached it.
SteeredOrFailed ==
    \A i \in Instances :
        ctor[i] = "up" /\ OptionsOf[i].steering =>
            /\ slot[OptionsOf[i].key] = i
            /\ OptionsOf[i].attach => program

\* A live instance is never evicted from its slot by a mis-keyed sibling.
NoEviction ==
    [][\A k \in Slots : slot[k] \in sockets /\ slot[k] \in sockets' => slot'[k] = slot[k]]_startVars
=============================================================================
