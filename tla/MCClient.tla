------------------------------- MODULE MCClient -------------------------------
(***************************************************************************)
(* The client for TLC.  A scene says which part of it runs: the session's  *)
(* receive side, its send side, its streams and connect callback, the ways *)
(* to connect, the endpoint pool, or the 0-RTT tickets.  What a scene      *)
(* leaves alone stays in its initial state, JavaScript already holding the *)
(* handle where the scene is not about the callback.                       *)
(***************************************************************************)
EXTENDS ClientSession, ClientConnect

CONSTANT MaxDials  \* bound: connects of the ticket scene

VARIABLE scene

mcVars == <<scene, sessionVars, connectVars>>

\* The session's scenes after the callback: the handle has been taken.
Taken ==
    /\ boot = "taken" /\ handle = TRUE
    /\ conn = "up" /\ closed = FALSE /\ closeReq = FALSE
    /\ term = "open" /\ onClosed = 0
    /\ fwd = "next" /\ fwdWoken = FALSE /\ recvq = 0
    /\ lock = NoReader /\ reader = [r \in Readers |-> "idle"] /\ readWoken = {}
    /\ sendq = 0 /\ sendTask = "run" /\ sender = [s \in Senders |-> "idle"]
    /\ stranded = 0 /\ queued = 0
    /\ chan = [k \in Kinds |-> <<>>] /\ caller = [c \in Callers |-> "idle"]
    /\ streams = 0 /\ entry = FALSE

MCInit ==
    /\ scene \in {"receive", "send", "streams", "routes", "pool", "tickets"}
    /\ IF scene \in {"receive", "send"} THEN Taken ELSE SessionInit
    /\ ConnectInit

\* Connects are interchangeable numbers: they start in order, one at
\* a time as far as the step that follows the dial.
Dialled == {c \in Connects : conns[c].pc # "idle"}
OneRouted == Cardinality({c \in Connects : conns[c].pc \in {"pool", "dial0rtt"}}) <= 1
InOrder(some) == \A c \in some, d \in Connects : d < c => d \in some

\* The connects of a scene all take its way.
Dials(way) == \E c \in Connects, o \in Options : Route(o) = way /\ Dial(c, o)

\* So are the tickets that are nowhere: the least of them is issued.
Nowhere == {t \in Tickets : Fresh(t)}
LeastFirst == \A t \in Nowhere \ Nowhere', u \in Nowhere : t <= u

Ends == Close \/ ConnectionLost \/ TermStep \/ ForwardEnds \/ ForwardLeave \/ ForwardDrain

InScene ==
    \/ /\ scene = "receive"
       /\ \/ Close \/ ConnectionLost \/ TermStep
          \/ ForwardGot \/ ForwardStep
          \/ \E r \in Readers : ReadStart(r) \/ ReadLock(r) \/ ReadStep(r)
       /\ UNCHANGED connectVars
    \/ /\ scene = "send"
       /\ \/ Ends \/ TrySend \/ SendTaskStep \/ ForwardGot \/ ForwardStep
          \/ \E s \in Senders : SendReserve(s) \/ SendEnqueue(s) \/ SendRefund(s)
       /\ UNCHANGED connectVars
    \/ /\ scene = "streams"
       /\ \/ Ends \/ BootStep
          \/ \E c \in Callers : StreamReleased(c) \/ \E k \in Kinds : RequestStream(c, k)
          \/ \E k \in Kinds : StreamReady(k) \/ StreamFails(k)
       /\ UNCHANGED connectVars
    \/ scene = "routes" /\ RouteNext /\ UNCHANGED sessionVars
    \/ /\ scene = "pool"
       /\ (PoolNext \/ Dials("pool"))
       /\ InOrder(Dialled') /\ OneRouted'
       /\ UNCHANGED sessionVars
    \/ /\ scene = "tickets"
       /\ TicketNext \/ Dials("dial0rtt")
       /\ Cardinality(Dialled') <= MaxDials /\ InOrder(Dialled') /\ OneRouted' /\ LeastFirst
       /\ UNCHANGED sessionVars

MCNext == InScene /\ UNCHANGED scene

MCSpec == MCInit /\ [][MCNext]_mcVars /\ SessionFairness

\* The client's promises about later: its session settles, and an endpoint in
\* use stays pooled.
ClientSettles == SessionSettles /\ BusyStaysPooled
================================================================================
