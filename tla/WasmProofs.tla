----------------------------- MODULE WasmProofs -----------------------------
(***************************************************************************)
(* TLAPS proofs about the WebAssembly endpoint, for any number of          *)
(* connections and streams, and any limits and queue sizes.                *)
(*                                                                         *)
(* A handler is a function from endpoint to endpoint, so a lemma per       *)
(* handler says what it Keeps: a sane endpoint becomes a sane endpoint,    *)
(* tables only shrink, and a stream that stays in them is left alone.      *)
(* The handlers that do more (a stream is opened, classified, stopped) are *)
(* treated with their actions.                                             *)
(*                                                                         *)
(* Nobody is stranded because of where an unread stream is: its connection *)
(* waits for capacity, or the pump in progress has it before it (Placed);  *)
(* and whoever began to wait met a full queue or a used-up budget, so that *)
(* there is something to release, or else the waiters are few enough for   *)
(* the wake-ups that are left (WakesLeft).                                 *)
(***************************************************************************)
EXTENDS WasmEndpoint, FiniteSetTheorems, TLAPS

-----------------------------------------------------------------------------
(* A sane endpoint. *)

Fields == {"server", "phase", "hs", "sess", "str", "ses", "ins", "cls", "own", "idx", "half",
           "ssn", "paused", "events", "tokens", "next", "waiters", "lost"}
SessionFields == {"primary", "est", "shut", "extras", "pend", "stuck", "dyn", "settings"}
Phases == {"absent", "handshake", "up", "closed", "gone"}
Classes == {"none", "new", "connect", "wt", "mine"}
Halves == {None, {}, {"recv"}, {"send"}}
Kinds == {"note", "data", "dgram", "opened", "reset", "sclosed", "closed", "draining",
          "established", "connected", "stopped"}
Event == {ev \in [k : Kinds, c : Conns \cup {None}, s : Streams \cup {None}, n : Int] :
             Charged(ev) => ev.c \in Conns}

SessionTyped(ss) ==
    /\ DOMAIN ss = SessionFields
    /\ ss.primary \in Streams \cup {None} /\ ss.est \in BOOLEAN /\ ss.shut \in BOOLEAN
    /\ ss.extras \subseteq Streams /\ ss.pend \subseteq Streams

Typed(e) ==
    /\ DOMAIN e = Fields
    /\ e.server \in BOOLEAN /\ e.phase \in [Conns -> Phases]
    /\ e.hs \subseteq Conns /\ e.sess \subseteq Conns
    /\ e.str \subseteq Streams /\ e.idx \subseteq Streams
    /\ e.ins \subseteq Streams /\ e.own \subseteq Streams
    /\ e.cls \in [Streams -> Classes] /\ e.half \in [Streams -> Halves]
    /\ DOMAIN e.ses = Conns /\ \A c \in Conns : SessionTyped(e.ses[c])
    /\ e.events \in Seq(Event) /\ IsFiniteSet(DOMAIN e.tokens)
    /\ e.waiters \in Seq(Conns)

\* Reservations: BudgetTracksStreams, with the phases before "up".
Reserved(e) ==
    /\ e.str \subseteq e.idx
    /\ \A s \in e.idx : e.phase[Info[s].c] # "gone"
    /\ \A s \in e.idx : e.phase[Info[s].c] # "closed" => s \in e.str
    /\ e.hs \subseteq e.sess
    /\ \A c \in e.sess : e.phase[c] \in {"handshake", "up"}

\* A connection that is not up yet, or has been forgotten, has nothing.
Quiet(e) ==
    \A c \in Conns : e.phase[c] \in {"absent", "handshake", "gone"} =>
        /\ ~e.ses[c].est /\ Resolvable(e.ses[c]) = {}
        /\ \A s \in e.ins \cup e.own : Info[s].c # c

\* Sessions are counted before they are answered, and none is opened on top
\* of a connection that is not established.
Bounded(e) ==
    \A c \in Conns :
        /\ Active(e.ses[c]) <= WtMax
        /\ ~e.ses[c].est => e.ses[c].extras = {} /\ e.ses[c].pend = {}

\* Which streams are what.
Sorted(e) ==
    /\ \A s \in e.ins : ~Local(e, s) /\ e.cls[s] \in {"new", "connect", "wt"}
    /\ \A s \in e.own : e.cls[s] = "mine" /\ Info[s].kind = "data" /\ Info[s].local
    /\ \A s \in Streams : /\ e.cls[s] = "connect" => Info[s].kind = "connect"
                          /\ e.cls[s] = "wt" => Info[s].kind = "data"
    /\ \A c \in Conns : \A s \in Resolvable(e.ses[c]) :
          Info[s].kind = "connect" /\ Info[s].c = c /\ (e.server => e.cls[s] = "connect")

Sane(e) == Typed(e) /\ Reserved(e) /\ Quiet(e) /\ Bounded(e) /\ Sorted(e)

-----------------------------------------------------------------------------
(* What most handlers do. *)

Keeps(e, f) ==
    /\ f.server = e.server /\ f.cls = e.cls /\ f.waiters = e.waiters /\ f.tokens = e.tokens
    /\ Len(e.events) <= Len(f.events)
    /\ f.ins \subseteq e.ins /\ f.own \subseteq e.own
    /\ \A c \in Conns : f.phase[c] = "up" => e.phase[c] = "up"
    /\ \A s \in f.ins \cup f.own :
          /\ s \in f.idx <=> s \in e.idx
          /\ s \in f.paused <=> s \in e.paused
          /\ f.half[s] = e.half[s]

-----------------------------------------------------------------------------
(* Streams, waiters and the call in progress. *)

Dead(s) == net[s].q = <<>> /\ net[s].end # "open"
NetTyped ==
    /\ DOMAIN net = Streams
    /\ \A s \in Streams : /\ DOMAIN net[s] = {"q", "end", "seen", "stop"}
                          /\ net[s].q \in Seq(Frames \cup {"head", "b"})
NetOK ==
    /\ NetTyped /\ DOMAIN dgs = Conns
    /\ \A s \in Streams :
          /\ net[s].end = "reset" => net[s].q = <<>>
          /\ Info[s].kind = "data" /\ Info[s].local /\ net[s].q # <<>> => ep.cls[s] = "mine"
    /\ \A s \in ep.ins \cup ep.own :
          ep.cls[s] \in {"wt", "mine"} /\ (ep.half[s] = {"recv"} \/ s \notin ep.idx) => Dead(s)

JobOK ==
    /\ DOMAIN job = {"c", "cur", "wasConn", "wasPrim", "slots", "fresh", "dg", "ids", "cids",
                     "then", "wake"}
    /\ job.c \in Conns \cup {None} /\ job.dg \in BOOLEAN
    /\ job.slots \in 0..2 /\ job.wake \in Nat

\* A stream the pump has to read.
Pending(s) ==
    /\ net[s].q # <<>>
    /\ \/ s \in ep.ins /\ ep.cls[s] = "new"
       \/ s \in ep.ins /\ ep.cls[s] = "wt" /\ s \notin ep.paused
       \/ s \in ep.own /\ s \notin ep.paused

Waits(c) == Contains(ep.waiters, c)
Distinct(q) == \A i, j \in 1..Len(q) : q[i] = q[j] => i = j
Placed ==
    /\ \A s \in Streams : ep.phase[Info[s].c] = "up" /\ Pending(s) =>
          Waits(Info[s].c) \/ (job.c = Info[s].c /\ (job.dg \/ s \in job.ids))
    /\ \A c \in Conns : ep.phase[c] = "up" /\ dgs[c].wait > 0 =>
          Waits(c) \/ (job.c = c /\ job.dg)

Releasable(e) == e.events # <<>> \/ DOMAIN e.tokens # {}
WakesLeft ==
    /\ Distinct(ep.waiters)
    /\ Releasable(ep) \/ Len(ep.waiters) <= job.wake

EndpointInvariant == Sane(ep) /\ NetOK /\ JobOK /\ Placed /\ WakesLeft

-----------------------------------------------------------------------------
(* The handlers: the event queue. *)

LEMMA Appended ==
    ASSUME NEW S, NEW q \in Seq(S), NEW x \in S
    PROVE  Append(q, x) \in Seq(S) /\ Len(q) <= Len(Append(q, x))
  OBVIOUS

LEMMA Joined ==
    ASSUME NEW S, NEW q \in Seq(S), NEW r \in Seq(S)
    PROVE  q \o r \in Seq(S) /\ Len(q) <= Len(q \o r)
  <1>1. q \o r \in Seq(S) /\ Len(q \o r) = Len(q) + Len(r) /\ Len(q) \in Nat /\ Len(r) \in Nat
    OBVIOUS
  <1>. QED BY <1>1

LEMMA Repeated ==
    ASSUME NEW S, NEW x \in S, NEW k \in Int
    PROVE  [i \in 1..k |-> x] \in Seq(S)
  <1>1. PICK m \in Nat : 1..k = 1..m
    <2>1. CASE k >= 0
      BY <2>1
    <2>2. CASE k < 0
      <3>1. 1..k = 1..0
        BY <2>2
      <3>. QED BY <3>1
    <2>. QED BY <2>1, <2>2
  <1>. QED BY <1>1

LEMMA LeastOfTwo ==
    ASSUME NEW a \in Int, NEW b \in Int
    PROVE  Min({a, b}) = IF a <= b THEN a ELSE b
  <1>1. CASE a <= b
    BY <1>1 DEF Min
  <1>2. CASE ~(a <= b)
    BY <1>2 DEF Min
  <1>. QED BY <1>1, <1>2

LEMMA KeepsItself ==
    ASSUME NEW e PROVE Keeps(e, e) \/ ~Typed(e)
  <1>. SUFFICES ASSUME Typed(e) PROVE Keeps(e, e)
    OBVIOUS
  <1>1. Len(e.events) \in Nat
    BY DEF Typed
  <1>. QED BY <1>1 DEF Keeps

LEMMA KeepsOn ==
    ASSUME NEW e, NEW f, NEW g, Typed(e), Typed(f), Typed(g), Keeps(e, f), Keeps(f, g)
    PROVE  Keeps(e, g)
  <1>1. Len(e.events) <= Len(g.events)
    <2>1. Len(e.events) \in Nat /\ Len(f.events) \in Nat /\ Len(g.events) \in Nat
      BY DEF Typed
    <2>2. Len(e.events) <= Len(f.events) /\ Len(f.events) <= Len(g.events)
      BY DEF Keeps
    <2>. QED BY <2>1, <2>2
  <1>2. /\ g.server = e.server /\ g.cls = e.cls /\ g.waiters = e.waiters /\ g.tokens = e.tokens
        /\ g.ins \subseteq e.ins /\ g.own \subseteq e.own
        /\ \A c \in Conns : g.phase[c] = "up" => e.phase[c] = "up"
    BY Zenon DEF Keeps
  <1>3. ASSUME NEW s \in g.ins \cup g.own
        PROVE  /\ s \in g.idx <=> s \in e.idx
               /\ s \in g.paused <=> s \in e.paused
               /\ g.half[s] = e.half[s]
    BY <1>3, Zenon DEF Keeps
  <1>. QED BY <1>1, <1>2, <1>3, Zenon DEF Keeps

\* The parts of an endpoint that sanity is about are untouched, save for a
\* handshake slot that may be freed.
Alike(e, f) ==
    /\ DOMAIN f = Fields
    /\ f.server = e.server /\ f.phase = e.phase /\ f.hs \subseteq e.hs /\ f.sess = e.sess
    /\ f.str = e.str /\ f.ses = e.ses /\ f.ins = e.ins /\ f.cls = e.cls /\ f.own = e.own
    /\ f.idx = e.idx /\ f.half = e.half /\ f.waiters = e.waiters /\ f.tokens = e.tokens

LEMMA AlikeSane ==
    ASSUME NEW e, NEW f, Sane(e), Alike(e, f), f.events \in Seq(Event)
    PROVE  Sane(f)
  <1>1. Typed(f)
    BY DEF Sane, Alike, Typed
  <1>2. Reserved(f)
    BY DEF Sane, Alike, Reserved
  <1>3. Quiet(f)
    BY DEF Sane, Alike, Quiet
  <1>4. Bounded(f)
    BY DEF Sane, Alike, Bounded
  <1>5. Sorted(f)
    BY DEF Sane, Alike, Sorted, Local
  <1>. QED BY <1>1, <1>2, <1>3, <1>4, <1>5 DEF Sane

LEMMA PushKeeps ==
    ASSUME NEW e, Sane(e), NEW k \in Kinds, NEW c \in Conns,
           NEW s \in Streams \cup {None}, NEW n \in Int
    PROVE  LET f == PushEvent(e, Ev(k, c, s, n))
           IN  Sane(f) /\ Keeps(e, f) /\ Alike(e, f) /\ f.paused = e.paused
  <1>. DEFINE f == PushEvent(e, Ev(k, c, s, n))
  <1>0. DOMAIN e = Fields /\ e.events \in Seq(Event)
    BY DEF Sane, Typed
  <1>1. Ev(k, c, s, n) \in Event /\ Note \in Event
    BY DEF Ev, Note, Event, Kinds, Charged
  <1>2. /\ Alike(e, f) /\ f.paused = e.paused
        /\ \/ f.events = e.events
           \/ f.events = Append(e.events, Ev(k, c, s, n))
           \/ f.events = Append(e.events, Note)
    BY <1>0 DEF PushEvent, Alike, Fields
  <1>. HIDE DEF f
  <1>3. f.events \in Seq(Event) /\ Len(e.events) <= Len(f.events)
    <2>1. Len(e.events) <= Len(e.events)
      BY <1>0
    <2>. QED BY <1>0, <1>1, <1>2, <2>1, Appended, Zenon
  <1>4. Keeps(e, f)
    BY <1>2, <1>3, Zenon DEF Keeps, Alike
  <1>. QED BY <1>2, <1>3, <1>4, AlikeSane DEF f

LEMMA NotesKeep ==
    ASSUME NEW e, Sane(e), NEW n \in Nat
    PROVE  LET f == PushNotes(e, n)
           IN  Sane(f) /\ Keeps(e, f) /\ Alike(e, f) /\ f.paused = e.paused
  <1>. DEFINE f == PushNotes(e, n)
              k == Min({n, EventCap - Len(e.events)})
  <1>0. DOMAIN e = Fields /\ e.events \in Seq(Event) /\ Note \in Event
    BY DEF Sane, Typed, Ev, Note, Event, Kinds, Charged
  <1>1. k \in Int
    <2>1. EventCap - Len(e.events) \in Int
      BY <1>0, EventsAssumption
    <2>. QED BY <2>1, LeastOfTwo
  <1>2. /\ Alike(e, f) /\ f.paused = e.paused
        /\ f.events = e.events \o [i \in 1..k |-> Note]
    BY <1>0 DEF PushNotes, Alike, Fields
  <1>. HIDE DEF f, k
  <1>3. [i \in 1..k |-> Note] \in Seq(Event)
    BY <1>0, <1>1, Repeated
  <1>4. f.events \in Seq(Event) /\ Len(e.events) <= Len(f.events)
    BY <1>0, <1>2, <1>3, Joined, Zenon
  <1>5. Keeps(e, f)
    BY <1>2, <1>4, Zenon DEF Keeps, Alike
  <1>. QED BY <1>2, <1>4, <1>5, AlikeSane DEF f

-----------------------------------------------------------------------------
(* The handlers: streams leave the tables. *)

\* Streams leave, each with its reservation; those that stay are left alone.
Shrinks(e, f) ==
    /\ DOMAIN f = Fields
    /\ f.server = e.server /\ f.phase = e.phase /\ f.hs = e.hs /\ f.sess = e.sess
    /\ f.ses = e.ses /\ f.cls = e.cls /\ f.waiters = e.waiters /\ f.tokens = e.tokens
    /\ f.events = e.events
    /\ f.ins \subseteq e.ins /\ f.own \subseteq e.own
    /\ f.idx \subseteq e.idx /\ f.str = e.str \cap f.idx
    /\ f.half \in [Streams -> Halves]

LEMMA ShrinksSane ==
    ASSUME NEW e, NEW f, Sane(e), Shrinks(e, f)
    PROVE  Sane(f)
  <1>1. Typed(f)
    BY DEF Sane, Shrinks, Typed
  <1>2. Reserved(f)
    BY DEF Sane, Shrinks, Reserved
  <1>3. Quiet(f)
    BY DEF Sane, Shrinks, Quiet
  <1>4. Bounded(f)
    BY DEF Sane, Shrinks, Bounded
  <1>5. Sorted(f)
    BY DEF Sane, Shrinks, Sorted, Local
  <1>. QED BY <1>1, <1>2, <1>3, <1>4, <1>5 DEF Sane

LEMMA ShrinksKeeps ==
    ASSUME NEW e, NEW f, Sane(e), Shrinks(e, f),
           \A s \in f.ins \cup f.own : /\ s \in f.idx <=> s \in e.idx
                                       /\ s \in f.paused <=> s \in e.paused
                                       /\ f.half[s] = e.half[s]
    PROVE  Keeps(e, f)
  <1>1. Len(e.events) <= Len(f.events)
    <2>1. Len(e.events) \in Nat
      BY DEF Sane, Typed
    <2>. QED BY <2>1 DEF Shrinks
  <1>. QED BY <1>1, Zenon DEF Shrinks, Keeps

\* mark_stream_half_done: the second half takes the stream out of the tables.
LEMMA HalfDoneIs ==
    ASSUME NEW e, Sane(e), NEW s \in Streams, NEW bit \in {"recv", "send"}
    PROVE  LET f == HalfDone(e, s, bit)
           IN  /\ Shrinks(e, f) /\ f.ins = e.ins /\ f.own = e.own
               /\ \A t \in Streams \ {s} : /\ t \in f.idx <=> t \in e.idx
                                           /\ t \in f.paused <=> t \in e.paused
                                           /\ f.half[t] = e.half[t]
               /\ \/ /\ e.half[s] \in {{"recv"}, {"send"}} /\ e.half[s] # {bit}
                     /\ f.idx = e.idx \ {s} /\ f.half[s] = None
                  \/ f.half[s] = {bit} /\ f.idx = e.idx /\ f.paused = e.paused
  <1>. DEFINE f == HalfDone(e, s, bit)
              bits == (IF e.half[s] = None THEN {} ELSE e.half[s]) \cup {bit}
  <1>0. /\ DOMAIN e = Fields /\ e.half \in [Streams -> Halves] /\ e.str \subseteq e.idx
        /\ e.idx \subseteq Streams
    BY DEF Sane, Typed, Reserved
  <1>1. bits = {"recv", "send"} => e.half[s] \in {{"recv"}, {"send"}} /\ e.half[s] # {bit}
    BY <1>0 DEF Halves
  <1>2. bits # {"recv", "send"} => bits = {bit}
    BY <1>0 DEF Halves
  <1>3. CASE bits = {"recv", "send"}
    <2>1. f = [e EXCEPT !.half[s] = None, !.idx = @ \ {s}, !.ssn = @ \ {s},
                        !.paused = @ \ {s}, !.str = @ \ {s}]
      BY <1>3 DEF HalfDone
    <2>. HIDE DEF f
    <2>2. /\ f.half = [e.half EXCEPT ![s] = None] /\ f.idx = e.idx \ {s}
          /\ f.paused = e.paused \ {s} /\ f.str = e.str \ {s} /\ f.ins = e.ins /\ f.own = e.own
          /\ DOMAIN f = Fields
          /\ f.server = e.server /\ f.phase = e.phase /\ f.hs = e.hs /\ f.sess = e.sess
          /\ f.ses = e.ses /\ f.cls = e.cls /\ f.waiters = e.waiters /\ f.tokens = e.tokens
          /\ f.events = e.events
      BY <1>0, <2>1 DEF Fields
    <2>3. f.half \in [Streams -> Halves] /\ f.half[s] = None
          /\ \A t \in Streams \ {s} : f.half[t] = e.half[t]
      BY <1>0, <2>2 DEF Halves
    <2>4. Shrinks(e, f)
      BY <1>0, <2>2, <2>3 DEF Shrinks
    <2>. QED BY <1>1, <1>3, <2>2, <2>3, <2>4 DEF f
  <1>4. CASE bits # {"recv", "send"}
    <2>1. f = [e EXCEPT !.half[s] = {bit}]
      BY <1>2, <1>4 DEF HalfDone
    <2>. HIDE DEF f
    <2>2. /\ f.half = [e.half EXCEPT ![s] = {bit}] /\ f.idx = e.idx
          /\ f.paused = e.paused /\ f.str = e.str /\ f.ins = e.ins /\ f.own = e.own
          /\ DOMAIN f = Fields
          /\ f.server = e.server /\ f.phase = e.phase /\ f.hs = e.hs /\ f.sess = e.sess
          /\ f.ses = e.ses /\ f.cls = e.cls /\ f.waiters = e.waiters /\ f.tokens = e.tokens
          /\ f.events = e.events
      BY <1>0, <2>1 DEF Fields
    <2>3. f.half \in [Streams -> Halves] /\ f.half[s] = {bit}
          /\ \A t \in Streams \ {s} : f.half[t] = e.half[t]
      BY <1>0, <2>2 DEF Halves
    <2>4. Shrinks(e, f)
      BY <1>0, <2>2, <2>3 DEF Shrinks
    <2>. QED BY <2>2, <2>3, <2>4 DEF f
  <1>. QED BY <1>3, <1>4

LEMMA HalfDoneKeeps ==
    ASSUME NEW e, Sane(e), NEW s \in Streams, NEW bit \in {"recv", "send"}, s \notin e.ins \cup e.own
    PROVE  Sane(HalfDone(e, s, bit)) /\ Keeps(e, HalfDone(e, s, bit))
  <1>. DEFINE f == HalfDone(e, s, bit)
  <1>1. /\ Shrinks(e, f) /\ f.ins = e.ins /\ f.own = e.own
        /\ \A t \in Streams \ {s} : /\ t \in f.idx <=> t \in e.idx
                                    /\ t \in f.paused <=> t \in e.paused
                                    /\ f.half[t] = e.half[t]
    BY HalfDoneIs
  <1>2. f.ins \cup f.own \subseteq Streams \ {s}
    BY <1>1 DEF Sane, Typed
  <1>. HIDE DEF f
  <1>3. Sane(f) /\ Keeps(e, f)
    BY <1>1, <1>2, ShrinksSane, ShrinksKeeps
  <1>. QED BY <1>3 DEF f

LEMMA RetireKeeps ==
    ASSUME NEW e, Sane(e), NEW s \in e.ins
    PROVE  Sane(RetireIn(e, s)) /\ Keeps(e, RetireIn(e, s)) /\ s \notin RetireIn(e, s).ins
  <1>0. DOMAIN e = Fields /\ s \in Streams /\ s \notin e.own /\ e.half \in [Streams -> Halves]
        /\ e.str \subseteq e.idx /\ e.ins \cup e.own \subseteq Streams
    BY DEF Sane, Typed, Sorted, Reserved
  <1>1. CASE e.cls[s] = "wt"
    <2>. DEFINE f == [[e EXCEPT !.ins = @ \ {s}] EXCEPT !.paused = @ \ {s}]
    <2>1. RetireIn(e, s) = HalfDone(f, s, "recv")
      BY <1>1 DEF RetireIn
    <2>2. /\ Shrinks(e, f) /\ f.ins = e.ins \ {s} /\ f.own = e.own /\ f.idx = e.idx
          /\ f.half = e.half /\ \A t \in Streams \ {s} : t \in f.paused <=> t \in e.paused
      BY <1>0 DEF Shrinks, Fields
    <2>. HIDE DEF f
    <2>3. Sane(f) /\ Keeps(e, f)
      <3>1. f.ins \cup f.own \subseteq Streams \ {s}
        BY <1>0, <2>2
      <3>. QED BY <2>2, <3>1, ShrinksSane, ShrinksKeeps
    <2>4. s \notin f.ins \cup f.own
      BY <1>0, <2>2
    <2>5. Sane(RetireIn(e, s)) /\ Keeps(f, RetireIn(e, s))
      BY <1>0, <2>1, <2>3, <2>4, HalfDoneKeeps
    <2>6. Keeps(e, RetireIn(e, s))
      BY <2>3, <2>5, KeepsOn DEF Sane
    <2>. QED BY <2>4, <2>5, <2>6 DEF Keeps
  <1>2. CASE e.cls[s] # "wt"
    <2>. DEFINE f == [e EXCEPT !.ins = @ \ {s}]
    <2>1. RetireIn(e, s) = f
      BY <1>2 DEF RetireIn
    <2>2. /\ Shrinks(e, f) /\ f.ins = e.ins \ {s} /\ f.own = e.own /\ f.idx = e.idx
          /\ f.half = e.half /\ f.paused = e.paused
      BY <1>0 DEF Shrinks, Fields
    <2>. HIDE DEF f
    <2>3. Sane(f) /\ Keeps(e, f)
      BY <2>2, ShrinksSane, ShrinksKeeps
    <2>. QED BY <2>1, <2>2, <2>3
  <1>. QED BY <1>1, <1>2

LEMMA RecvOverKeeps ==
    ASSUME NEW e, Sane(e), NEW s \in e.ins \cup e.own
    PROVE  Sane(RecvOver(e, s)) /\ Keeps(e, RecvOver(e, s)) /\ s \notin RecvOver(e, s).ins
           /\ s \notin RecvOver(e, s).own
  <1>0. DOMAIN e = Fields /\ s \in Streams /\ ~(s \in e.ins /\ s \in e.own)
        /\ e.half \in [Streams -> Halves]
        /\ e.str \subseteq e.idx /\ e.ins \cup e.own \subseteq Streams
    BY DEF Sane, Typed, Sorted, Reserved
  <1>1. CASE s \in e.ins
    <2>1. RecvOver(e, s) = RetireIn(e, s)
      BY <1>1 DEF RecvOver
    <2>2. Sane(RetireIn(e, s)) /\ Keeps(e, RetireIn(e, s)) /\ s \notin RetireIn(e, s).ins
      BY <1>1, RetireKeeps
    <2>. QED BY <1>0, <1>1, <2>1, <2>2 DEF Keeps
  <1>2. CASE s \notin e.ins
    <2>. DEFINE f == [e EXCEPT !.own = @ \ {s}, !.paused = @ \ {s}]
    <2>1. RecvOver(e, s) = HalfDone(f, s, "recv")
      BY <1>2 DEF RecvOver
    <2>2. /\ Shrinks(e, f) /\ f.ins = e.ins /\ f.own = e.own \ {s} /\ f.idx = e.idx
          /\ f.half = e.half /\ \A t \in Streams \ {s} : t \in f.paused <=> t \in e.paused
      BY <1>0 DEF Shrinks, Fields
    <2>. HIDE DEF f
    <2>3. Sane(f) /\ Keeps(e, f)
      <3>1. f.ins \cup f.own \subseteq Streams \ {s}
        BY <1>0, <1>2, <2>2
      <3>. QED BY <2>2, <3>1, ShrinksSane, ShrinksKeeps
    <2>4. s \notin f.ins \cup f.own
      BY <1>2, <2>2
    <2>5. Sane(RecvOver(e, s)) /\ Keeps(f, RecvOver(e, s))
      BY <1>0, <2>1, <2>3, <2>4, HalfDoneKeeps
    <2>6. Keeps(e, RecvOver(e, s))
      BY <2>3, <2>5, KeepsOn DEF Sane
    <2>. QED BY <2>4, <2>5, <2>6 DEF Keeps
  <1>. QED BY <1>1, <1>2

LEMMA ResetKeeps ==
    ASSUME NEW e, Sane(e), NEW c \in Conns, NEW x
    PROVE  Sane(ResetSessionStreams(e, c, x)) /\ Keeps(e, ResetSessionStreams(e, c, x))
           /\ ResetSessionStreams(e, c, x).phase = e.phase /\ ResetSessionStreams(e, c, x).ses = e.ses
  <1>. DEFINE gone == {s \in e.idx \cap e.ssn : Info[s].c = c /\ Info[s].sess = x}
              f == [e EXCEPT !.own = @ \ gone, !.ins = @ \ gone, !.paused = @ \ gone,
                             !.str = @ \ gone, !.idx = @ \ gone, !.ssn = @ \ gone,
                             !.half = [s \in Streams |-> IF s \in gone THEN None ELSE @[s]]]
  <1>0. DOMAIN e = Fields /\ e.idx \subseteq Streams /\ e.half \in [Streams -> Halves]
        /\ e.str \subseteq e.idx /\ e.ins \cup e.own \subseteq Streams
    BY DEF Sane, Typed, Reserved
  <1>1. gone \subseteq Streams /\ Cardinality(gone) \in Nat
    <2>1. gone \subseteq Streams
      BY <1>0
    <2>. HIDE DEF gone
    <2>. QED BY <2>1, StreamsAssumption, FS_Subset, FS_CardinalityType
  <1>2. ResetSessionStreams(e, c, x) = PushNotes(f, Cardinality(gone))
    BY DEF ResetSessionStreams
  <1>. HIDE DEF gone
  <1>3. /\ f.ins = e.ins \ gone /\ f.own = e.own \ gone /\ f.idx = e.idx \ gone
        /\ f.str = e.str \ gone /\ f.paused = e.paused \ gone
        /\ f.half = [s \in Streams |-> IF s \in gone THEN None ELSE e.half[s]]
        /\ DOMAIN f = Fields
        /\ f.server = e.server /\ f.phase = e.phase /\ f.hs = e.hs /\ f.sess = e.sess
        /\ f.ses = e.ses /\ f.cls = e.cls /\ f.waiters = e.waiters /\ f.tokens = e.tokens
        /\ f.events = e.events
    BY <1>0 DEF Fields
  <1>. HIDE DEF f
  <1>4. f.half \in [Streams -> Halves]
    BY <1>0, <1>3 DEF Halves
  <1>5. Shrinks(e, f)
    BY <1>0, <1>3, <1>4 DEF Shrinks
  <1>6. Sane(f) /\ Keeps(e, f)
    <2>1. \A s \in f.ins \cup f.own : /\ s \in f.idx <=> s \in e.idx
                                      /\ s \in f.paused <=> s \in e.paused
                                      /\ f.half[s] = e.half[s]
      BY <1>0, <1>3
    <2>. QED BY <1>5, <2>1, ShrinksSane, ShrinksKeeps
  <1>. DEFINE g == PushNotes(f, Cardinality(gone))
  <1>7. Sane(g) /\ Keeps(f, g) /\ Alike(f, g)
    BY <1>1, <1>6, NotesKeep
  <1>. HIDE DEF g
  <1>8. Keeps(e, g)
    BY <1>6, <1>7, KeepsOn DEF Sane
  <1>9. g.phase = e.phase /\ g.ses = e.ses
    BY <1>3, <1>7 DEF Alike
  <1>. QED BY <1>2, <1>7, <1>8, <1>9 DEF g

-----------------------------------------------------------------------------
(* The handlers: sessions. *)

\* One connection's session record becomes ss; a handshake slot may be freed.
Sets(e, f, c, ss) ==
    /\ DOMAIN f = Fields
    /\ f.server = e.server /\ f.phase = e.phase /\ f.sess = e.sess
    /\ f.hs \subseteq e.hs
    /\ f.str = e.str /\ f.ins = e.ins /\ f.cls = e.cls /\ f.own = e.own
    /\ f.idx = e.idx /\ f.half = e.half /\ f.waiters = e.waiters /\ f.tokens = e.tokens
    /\ f.events = e.events /\ f.paused = e.paused
    /\ f.ses = [e.ses EXCEPT ![c] = ss]

LEMMA SetsKeeps ==
    ASSUME NEW e, NEW f, NEW c \in Conns, NEW ss, Sane(e), Sets(e, f, c, ss), SessionTyped(ss),
           Active(ss) <= WtMax,
           ~ss.est => ss.extras = {} /\ ss.pend = {},
           \A s \in Resolvable(ss) : /\ Info[s].kind = "connect" /\ Info[s].c = c
                                     /\ e.server => e.cls[s] = "connect",
           e.phase[c] \in {"absent", "handshake", "gone"} => ~ss.est /\ Resolvable(ss) = {}
    PROVE  Sane(f) /\ Keeps(e, f)
  <1>0. DOMAIN e.ses = Conns
    BY DEF Sane, Typed
  <1>1. f.ses[c] = ss /\ DOMAIN f.ses = Conns /\ \A d \in Conns \ {c} : f.ses[d] = e.ses[d]
    BY <1>0 DEF Sets
  <1>2. Typed(f)
    BY <1>1 DEF Sane, Sets, Typed
  <1>3. Reserved(f)
    BY DEF Sane, Sets, Reserved
  <1>4. Quiet(f)
    BY <1>1 DEF Sane, Sets, Quiet
  <1>5. Bounded(f)
    BY <1>1 DEF Sane, Sets, Bounded
  <1>6. Sorted(f)
    <2>1. ASSUME NEW d \in Conns, NEW s \in Resolvable(f.ses[d])
          PROVE  Info[s].kind = "connect" /\ Info[s].c = d /\ (f.server => f.cls[s] = "connect")
      <3>1. CASE d = c
        BY <1>1, <2>1, <3>1 DEF Sets
      <3>2. CASE d # c
        BY <1>1, <2>1, <3>2 DEF Sane, Sorted, Sets
      <3>. QED BY <3>1, <3>2
    <2>2. /\ \A s \in f.ins : ~Local(f, s) /\ f.cls[s] \in {"new", "connect", "wt"}
          /\ \A s \in f.own : f.cls[s] = "mine" /\ Info[s].kind = "data" /\ Info[s].local
          /\ \A s \in Streams : /\ f.cls[s] = "connect" => Info[s].kind = "connect"
                                /\ f.cls[s] = "wt" => Info[s].kind = "data"
      BY DEF Sane, Sorted, Sets, Local
    <2>. QED BY <2>1, <2>2, Zenon DEF Sorted
  <1>7. Keeps(e, f)
    <2>1. Len(e.events) <= Len(f.events)
      BY <1>2 DEF Sets, Typed
    <2>. QED BY <2>1, Zenon DEF Sets, Keeps
  <1>. QED BY <1>2, <1>3, <1>4, <1>5, <1>6, <1>7 DEF Sane

LEMMA AddedOne ==
    ASSUME NEW S, IsFiniteSet(S), NEW x
    PROVE  /\ IsFiniteSet(S \cup {x}) /\ Cardinality(S \cup {x}) \in Nat /\ Cardinality(S) \in Nat
           /\ Cardinality(S \cup {x}) <= Cardinality(S) + 1
  <1>1. Cardinality(S) \in Nat
    BY FS_CardinalityType
  <1>2. CASE x \in S
    <2>1. S \cup {x} = S
      BY <1>2
    <2>2. Cardinality(S) <= Cardinality(S) + 1
      BY <1>1
    <2>. QED BY <1>1, <2>1, <2>2, Zenon
  <1>3. CASE x \notin S
    BY <1>1, <1>3, FS_AddElement
  <1>. QED BY <1>2, <1>3

LEMMA UnionSmall ==
    ASSUME NEW S, IsFiniteSet(S), NEW T, IsFiniteSet(T)
    PROVE  IsFiniteSet(S \cup T) /\ Cardinality(S \cup T) <= Cardinality(S) + Cardinality(T)
  <1>1. /\ IsFiniteSet(S \cup T) /\ IsFiniteSet(S \cap T)
        /\ Cardinality(S \cup T) = Cardinality(S) + Cardinality(T) - Cardinality(S \cap T)
    BY FS_Union, FS_Intersection
  <1>2. Cardinality(S) \in Nat /\ Cardinality(T) \in Nat /\ Cardinality(S \cap T) \in Nat
    BY <1>1, FS_CardinalityType
  <1>. QED BY <1>1, <1>2

\* active_wt_count, when a session record loses sessions.
LEMMA FewerActive ==
    ASSUME NEW a, NEW b, SessionTyped(a), SessionTyped(b),
           b.extras \subseteq a.extras, b.pend \subseteq a.pend, Live(b) => Live(a)
    PROVE  Active(b) <= Active(a) /\ Active(a) \in Nat /\ Active(b) \in Nat
  <1>1. /\ IsFiniteSet(a.extras) /\ IsFiniteSet(a.pend) /\ IsFiniteSet(b.extras) /\ IsFiniteSet(b.pend)
    BY StreamsAssumption, FS_Subset DEF SessionTyped
  <1>2. Cardinality(b.extras) <= Cardinality(a.extras) /\ Cardinality(b.pend) <= Cardinality(a.pend)
    BY <1>1, FS_Subset
  <1>3. /\ Cardinality(a.extras) \in Nat /\ Cardinality(a.pend) \in Nat
        /\ Cardinality(b.extras) \in Nat /\ Cardinality(b.pend) \in Nat
    BY <1>1, FS_CardinalityType
  <1>. QED BY <1>2, <1>3 DEF Active

LEMMA OneMoreExtra ==
    ASSUME NEW a, NEW b, SessionTyped(a), SessionTyped(b), NEW s \in Streams,
           b.extras = a.extras \cup {s}, b.pend = a.pend, Live(b) => Live(a)
    PROVE  Active(b) <= Active(a) + 1 /\ Active(a) \in Nat /\ Active(b) \in Nat
  <1>1. IsFiniteSet(a.extras) /\ IsFiniteSet(a.pend)
    BY StreamsAssumption, FS_Subset DEF SessionTyped
  <1>2. Cardinality(b.extras) \in Nat /\ Cardinality(b.extras) <= Cardinality(a.extras) + 1
    BY <1>1, AddedOne
  <1>3. Cardinality(a.extras) \in Nat /\ Cardinality(a.pend) \in Nat
    BY <1>1, FS_CardinalityType
  <1>. QED BY <1>2, <1>3 DEF Active

LEMMA OneMorePending ==
    ASSUME NEW a, NEW b, SessionTyped(a), SessionTyped(b), NEW s \in Streams,
           b.pend = a.pend \cup {s}, b.extras = a.extras, Live(b) => Live(a)
    PROVE  Active(b) <= Active(a) + 1 /\ Active(a) \in Nat /\ Active(b) \in Nat
  <1>1. IsFiniteSet(a.extras) /\ IsFiniteSet(a.pend)
    BY StreamsAssumption, FS_Subset DEF SessionTyped
  <1>2. Cardinality(b.pend) \in Nat /\ Cardinality(b.pend) <= Cardinality(a.pend) + 1
    BY <1>1, AddedOne
  <1>3. Cardinality(a.extras) \in Nat /\ Cardinality(a.pend) \in Nat
    BY <1>1, FS_CardinalityType
  <1>. QED BY <1>2, <1>3 DEF Active

\* A pending session is answered: it was counted and it still is.
LEMMA PendingAnswered ==
    ASSUME NEW a, NEW b, SessionTyped(a), SessionTyped(b), NEW s \in a.pend,
           b.pend = a.pend \ {s}, b.extras \subseteq a.extras \cup {s}, Live(b) => Live(a)
    PROVE  Active(b) <= Active(a) /\ Active(a) \in Nat /\ Active(b) \in Nat
  <1>1. IsFiniteSet(a.extras) /\ IsFiniteSet(a.pend)
    BY StreamsAssumption, FS_Subset DEF SessionTyped
  <1>2. Cardinality(a.extras \cup {s}) \in Nat /\ Cardinality(a.extras \cup {s}) <= Cardinality(a.extras) + 1
        /\ IsFiniteSet(a.extras \cup {s})
    BY <1>1, AddedOne
  <1>3. Cardinality(b.extras) \in Nat /\ Cardinality(b.extras) <= Cardinality(a.extras \cup {s})
    BY <1>2, FS_Subset, FS_CardinalityType
  <1>4. Cardinality(b.pend) = Cardinality(a.pend) - 1
    BY <1>1, FS_RemoveElement
  <1>5. Cardinality(a.extras) \in Nat /\ Cardinality(a.pend) \in Nat
    BY <1>1, FS_CardinalityType
  <1>6. Cardinality(b.extras) + Cardinality(b.pend) <= Cardinality(a.extras) + Cardinality(a.pend)
        /\ Cardinality(b.pend) \in Nat
    <2>1. Cardinality(a.pend) >= 1
      BY <1>1, <1>5, FS_EmptySet
    <2>. QED BY <1>2, <1>3, <1>4, <1>5, <2>1
  <1>. QED BY <1>3, <1>5, <1>6 DEF Active

\* A session record that loses sessions keeps an endpoint sane.
LEMMA LosesSession ==
    ASSUME NEW e, NEW f, NEW c \in Conns, NEW ss, Sane(e), Sets(e, f, c, ss), SessionTyped(ss),
           ss.extras \subseteq e.ses[c].extras, ss.pend \subseteq e.ses[c].pend,
           ss.primary = e.ses[c].primary, ss.est = e.ses[c].est, ~ss.shut => ~e.ses[c].shut
    PROVE  Sane(f) /\ Keeps(e, f)
  <1>0. /\ SessionTyped(e.ses[c]) /\ Active(e.ses[c]) <= WtMax
        /\ ~e.ses[c].est => e.ses[c].extras = {} /\ e.ses[c].pend = {}
    BY DEF Sane, Typed, Bounded
  <1>1. Live(ss) => Live(e.ses[c])
    BY DEF Live
  <1>2. Active(ss) <= WtMax
    <2>1. Active(ss) <= Active(e.ses[c]) /\ Active(e.ses[c]) \in Nat /\ Active(ss) \in Nat
      BY <1>0, <1>1, FewerActive
    <2>. QED BY <1>0, <2>1, LimitsAssumption
  <1>3. Resolvable(ss) \subseteq Resolvable(e.ses[c])
    BY DEF Resolvable, WtConnects
  <1>4. \A s \in Resolvable(ss) : /\ Info[s].kind = "connect" /\ Info[s].c = c
                                  /\ e.server => e.cls[s] = "connect"
    BY <1>3 DEF Sane, Sorted
  <1>5. e.phase[c] \in {"absent", "handshake", "gone"} => ~ss.est /\ Resolvable(ss) = {}
    BY <1>3 DEF Sane, Quiet
  <1>6. ~ss.est => ss.extras = {} /\ ss.pend = {}
    BY <1>0
  <1>. QED BY <1>2, <1>4, <1>5, <1>6, SetsKeeps

LEMMA ClosedKeeps ==
    ASSUME NEW e, Sane(e), NEW c \in Conns, NEW x \in Streams
    PROVE  LET f == SessionClosed(e, c, x)
           IN  Sane(f) /\ Keeps(e, f) /\ f.phase = e.phase /\ f.ses = e.ses
  <1>1. "sclosed" \in Kinds
    BY DEF Kinds
  <1>. QED BY <1>1, PushKeeps DEF SessionClosed, Alike

\* end_wt_session, on any stream of the connection.
LEMMA EndSessionKeeps ==
    ASSUME NEW e, Sane(e), NEW c \in Conns, NEW x \in Streams
    PROVE  Sane(EndWtSession(e, c, x)) /\ Keeps(e, EndWtSession(e, c, x))
  <1>. DEFINE ss == IF e.ses[c].primary = x THEN [e.ses[c] EXCEPT !.shut = TRUE]
                    ELSE [e.ses[c] EXCEPT !.extras = @ \ {x}]
              f == IF e.ses[c].primary = x THEN [e EXCEPT !.ses[c].shut = TRUE]
                   ELSE [e EXCEPT !.ses[c].extras = @ \ {x}]
              g == ResetSessionStreams(f, c, x)
              h == SessionClosed(g, c, x)
  <1>0. DOMAIN e = Fields /\ SessionTyped(e.ses[c]) /\ DOMAIN e.ses = Conns
    BY DEF Sane, Typed
  <1>1. Sets(e, f, c, ss)
    BY <1>0 DEF Sets, Fields
  <1>2. /\ SessionTyped(ss) /\ ss.extras \subseteq e.ses[c].extras /\ ss.pend \subseteq e.ses[c].pend
        /\ ss.primary = e.ses[c].primary /\ ss.est = e.ses[c].est /\ (~ss.shut => ~e.ses[c].shut)
    BY <1>0 DEF SessionTyped, SessionFields
  <1>3. EndWtSession(e, c, x) = f \/ EndWtSession(e, c, x) = h
    BY DEF EndWtSession
  <1>. HIDE DEF f, ss
  <1>4. Sane(f) /\ Keeps(e, f)
    BY <1>1, <1>2, LosesSession
  <1>5. Sane(g) /\ Keeps(f, g)
    BY <1>4, ResetKeeps
  <1>. HIDE DEF g
  <1>6. Sane(h) /\ Keeps(g, h)
    BY <1>5, ClosedKeeps
  <1>. HIDE DEF h
  <1>7. Keeps(e, g)
    BY <1>4, <1>5, KeepsOn DEF Sane
  <1>8. Keeps(e, h)
    BY <1>5, <1>6, <1>7, KeepsOn DEF Sane
  <1>. QED BY <1>3, <1>4, <1>6, <1>8

\* What Connection::close and release_connection_budget leave.
Closes(e, f, c) ==
    /\ DOMAIN f = Fields
    /\ f.server = e.server /\ f.phase = [e.phase EXCEPT ![c] = "closed"]
    /\ f.hs = e.hs \ {c} /\ f.sess = e.sess \ {c} /\ f.str = e.str \ (e.idx \cap Of(c))
    /\ f.ses = e.ses /\ f.ins = e.ins /\ f.cls = e.cls /\ f.own = e.own
    /\ f.idx = e.idx /\ f.half = e.half /\ f.waiters = e.waiters /\ f.tokens = e.tokens
    /\ f.events = e.events /\ f.paused = e.paused

LEMMA ClosesKeeps ==
    ASSUME NEW e, NEW f, NEW c \in Conns, Sane(e), Closes(e, f, c), e.phase[c] # "gone"
    PROVE  Sane(f) /\ Keeps(e, f)
  <1>0. /\ e.phase \in [Conns -> Phases] /\ e.idx \subseteq Streams
        /\ \A s \in Streams : Info[s].c \in Conns
    BY StreamsAssumption DEF Sane, Typed
  <1>1. f.phase[c] = "closed" /\ \A d \in Conns \ {c} : f.phase[d] = e.phase[d]
    BY <1>0 DEF Closes
  <1>2. Typed(f)
    BY <1>0 DEF Sane, Closes, Typed, Phases
  <1>3. Reserved(f)
    BY <1>0, <1>1 DEF Sane, Closes, Reserved, Of
  <1>4. Quiet(f)
    BY <1>1 DEF Sane, Closes, Quiet
  <1>5. Bounded(f)
    BY DEF Sane, Closes, Bounded
  <1>6. Sorted(f)
    BY DEF Sane, Closes, Sorted, Local
  <1>7. Keeps(e, f)
    <2>1. Len(e.events) <= Len(f.events)
      BY <1>2 DEF Closes, Typed
    <2>2. \A d \in Conns : f.phase[d] = "up" => e.phase[d] = "up"
      BY <1>1
    <2>. QED BY <2>1, <2>2, Zenon DEF Closes, Keeps
  <1>. QED BY <1>2, <1>3, <1>4, <1>5, <1>6, <1>7 DEF Sane

LEMMA ProtocolErrorKeeps ==
    ASSUME NEW e, Sane(e), NEW c \in Conns, e.phase[c] # "gone"
    PROVE  Sane(CloseProtocolError(e, c)) /\ Keeps(e, CloseProtocolError(e, c))
  <1>. DEFINE g == PushEvent(e, Ev("closed", c, None, 0))
              f == CloseProtocolError(e, c)
  <1>1. Sane(g) /\ Keeps(e, g) /\ Alike(e, g)
    <2>1. "closed" \in Kinds /\ None \in Streams \cup {None} /\ 0 \in Int
      BY DEF Kinds
    <2>. QED BY <2>1, PushKeeps
  <1>2. f = ReleaseBudget(QuinnCloses(g, c), c)
    BY DEF CloseProtocolError
  <1>. HIDE DEF g, f
  <1>3. Closes(g, f, c)
    BY <1>1, <1>2 DEF ReleaseBudget, QuinnCloses, Closes, Alike, Fields
  <1>4. Sane(f) /\ Keeps(g, f)
    BY <1>1, <1>3, ClosesKeeps DEF Alike
  <1>. QED BY <1>1, <1>4, KeepsOn DEF Sane, f

LEMMA FailKeeps ==
    ASSUME NEW e, Sane(e), NEW c \in Conns, e.phase[c] # "gone"
    PROVE  Sane(FailBeforeEstablish(e, c)) /\ Keeps(e, FailBeforeEstablish(e, c))
  <1>. DEFINE ss == [e.ses[c] EXCEPT !.shut = TRUE, !.extras = {}]
              d == [e EXCEPT !.ses[c].shut = TRUE, !.ses[c].extras = {}]
              g == PushEvent(d, Ev("closed", c, None, 0))
              f == ReleaseBudget(QuinnCloses(g, c), c)
  <1>0. DOMAIN e = Fields /\ SessionTyped(e.ses[c]) /\ DOMAIN e.ses = Conns
    BY DEF Sane, Typed
  <1>1. CASE e.ses[c].shut
    BY <1>1, KeepsItself DEF FailBeforeEstablish, Sane
  <1>2. CASE ~e.ses[c].shut
    <2>1. Sets(e, d, c, ss)
      BY <1>0 DEF Sets, Fields
    <2>2. /\ SessionTyped(ss) /\ ss.extras \subseteq e.ses[c].extras /\ ss.pend \subseteq e.ses[c].pend
          /\ ss.primary = e.ses[c].primary /\ ss.est = e.ses[c].est /\ (~ss.shut => ~e.ses[c].shut)
      BY <1>0 DEF SessionTyped, SessionFields
    <2>3. FailBeforeEstablish(e, c) = f
      BY <1>2 DEF FailBeforeEstablish
    <2>. HIDE DEF ss, d
    <2>4. Sane(d) /\ Keeps(e, d) /\ d.phase = e.phase
      BY <2>1, <2>2, LosesSession DEF Sets
    <2>5. Sane(g) /\ Keeps(d, g) /\ Alike(d, g)
      <3>1. "closed" \in Kinds
        BY DEF Kinds
      <3>. QED BY <2>4, <3>1, PushKeeps
    <2>. HIDE DEF g
    <2>6. Closes(g, f, c)
      BY <2>5 DEF ReleaseBudget, QuinnCloses, Closes, Alike, Fields
    <2>7. Sane(f) /\ Keeps(g, f)
      BY <2>4, <2>5, <2>6, ClosesKeeps DEF Alike
    <2>. HIDE DEF f
    <2>8. Keeps(e, g)
      BY <2>4, <2>5, KeepsOn DEF Sane
    <2>9. Keeps(e, f)
      BY <2>5, <2>7, <2>8, KeepsOn DEF Sane
    <2>. QED BY <2>3, <2>7, <2>9
  <1>. QED BY <1>1, <1>2

LEMMA CleanupKeeps ==
    ASSUME NEW e, Sane(e), NEW c \in Conns
    PROVE  LET f == Cleanup(e, c) IN Sane(f) /\ Keeps(e, f) /\ f.phase[c] = "gone"
  <1>. DEFINE mine == e.idx \cap Of(c)
              f == Cleanup(e, c)
  <1>0. /\ DOMAIN e = Fields /\ e.phase \in [Conns -> Phases] /\ DOMAIN e.ses = Conns
        /\ e.idx \subseteq Streams /\ e.half \in [Streams -> Halves]
        /\ e.ins \cup e.own \subseteq Streams /\ \A s \in Streams : Info[s].c \in Conns
    BY StreamsAssumption DEF Sane, Typed
  <1>1. /\ DOMAIN f = Fields
        /\ f.server = e.server /\ f.phase = [e.phase EXCEPT ![c] = "gone"]
        /\ f.hs = e.hs \ {c} /\ f.sess = e.sess \ {c} /\ f.str = e.str \ mine
        /\ f.ses = [e.ses EXCEPT ![c] = Blank] /\ f.ins = e.ins \ Of(c) /\ f.cls = e.cls
        /\ f.own = e.own \ Of(c) /\ f.idx = e.idx \ mine
        /\ f.half = [s \in Streams |-> IF s \in mine THEN None ELSE e.half[s]]
        /\ f.waiters = e.waiters /\ f.tokens = e.tokens
        /\ f.events = e.events /\ f.paused = e.paused \ mine
    BY <1>0 DEF Cleanup, Fields
  <1>. HIDE DEF f
  <1>2. /\ f.phase[c] = "gone" /\ f.phase \in [Conns -> Phases]
        /\ \A d \in Conns \ {c} : f.phase[d] = e.phase[d]
    BY <1>0, <1>1 DEF Phases
  <1>3. /\ f.ses[c] = Blank /\ DOMAIN f.ses = Conns
        /\ \A d \in Conns \ {c} : f.ses[d] = e.ses[d]
    BY <1>0, <1>1
  <1>4. /\ SessionTyped(Blank) /\ ~Blank.est /\ Resolvable(Blank) = {} /\ Active(Blank) = 0
        /\ Blank.extras = {} /\ Blank.pend = {}
    BY FS_EmptySet DEF Blank, SessionTyped, SessionFields, Resolvable, WtConnects, Active, Live
  <1>5. f.half \in [Streams -> Halves]
    BY <1>0, <1>1 DEF Halves
  <1>6. Typed(f)
    BY <1>1, <1>2, <1>3, <1>4, <1>5 DEF Sane, Typed
  <1>7. Reserved(f)
    BY <1>0, <1>1, <1>2 DEF Sane, Reserved, Of
  <1>8. Quiet(f)
    <2>1. ASSUME NEW d \in Conns, f.phase[d] \in {"absent", "handshake", "gone"}
          PROVE  /\ ~f.ses[d].est /\ Resolvable(f.ses[d]) = {}
                 /\ \A s \in f.ins \cup f.own : Info[s].c # d
      <3>1. CASE d = c
        BY <1>0, <1>1, <1>3, <1>4, <3>1 DEF Of
      <3>2. CASE d # c
        BY <1>1, <1>2, <1>3, <2>1, <3>2 DEF Sane, Quiet
      <3>. QED BY <3>1, <3>2
    <2>. QED BY <2>1 DEF Quiet
  <1>9. Bounded(f)
    BY <1>3, <1>4, LimitsAssumption DEF Sane, Bounded
  <1>10. Sorted(f)
    <2>1. ASSUME NEW d \in Conns, NEW s \in Resolvable(f.ses[d])
          PROVE  Info[s].kind = "connect" /\ Info[s].c = d /\ (f.server => f.cls[s] = "connect")
      <3>1. CASE d = c
        BY <1>3, <1>4, <2>1, <3>1
      <3>2. CASE d # c
        BY <1>1, <1>3, <2>1, <3>2 DEF Sane, Sorted
      <3>. QED BY <3>1, <3>2
    <2>2. /\ \A s \in f.ins : ~Local(f, s) /\ f.cls[s] \in {"new", "connect", "wt"}
          /\ \A s \in f.own : f.cls[s] = "mine" /\ Info[s].kind = "data" /\ Info[s].local
          /\ \A s \in Streams : /\ f.cls[s] = "connect" => Info[s].kind = "connect"
                                /\ f.cls[s] = "wt" => Info[s].kind = "data"
      BY <1>1 DEF Sane, Sorted, Local
    <2>. QED BY <2>1, <2>2, Zenon DEF Sorted
  <1>11. Keeps(e, f)
    <2>1. Len(e.events) <= Len(f.events)
      BY <1>1, <1>6 DEF Typed
    <2>2. \A d \in Conns : f.phase[d] = "up" => e.phase[d] = "up"
      BY <1>2
    <2>3. \A s \in f.ins \cup f.own : /\ s \in f.idx <=> s \in e.idx
                                      /\ s \in f.paused <=> s \in e.paused
                                      /\ f.half[s] = e.half[s]
      BY <1>0, <1>1 DEF Of
    <2>. QED BY <1>1, <2>1, <2>2, <2>3 DEF Keeps
  <1>. QED BY <1>2, <1>6, <1>7, <1>8, <1>9, <1>10, <1>11 DEF Sane, f

LEMMA CloseConnKeeps ==
    ASSUME NEW e, Sane(e), NEW c \in Conns
    PROVE  LET f == CloseConn(e, c) IN Sane(f) /\ Keeps(e, f) /\ f.phase[c] = "gone"
  <1>. DEFINE g == PushEvent(e, Ev("closed", c, None, 0))
              f == Cleanup(g, c)
  <1>1. Sane(g) /\ Keeps(e, g) /\ Alike(e, g)
    <2>1. "closed" \in Kinds /\ None \in Streams \cup {None} /\ 0 \in Int
      BY DEF Kinds
    <2>. QED BY <2>1, PushKeeps
  <1>2. CloseConn(e, c) = f
    BY DEF CloseConn
  <1>. HIDE DEF g
  <1>3. Sane(f) /\ Keeps(g, f) /\ f.phase[c] = "gone"
    BY <1>1, CleanupKeeps
  <1>. HIDE DEF f
  <1>4. Keeps(e, f)
    BY <1>1, <1>3, KeepsOn DEF Sane
  <1>. QED BY <1>2, <1>3, <1>4

-----------------------------------------------------------------------------
(* The handlers: frames of a CONNECT stream. *)

\* A session or a stream places its connection: it is up or closing.
LEMMA PlacesUp ==
    ASSUME NEW e, Sane(e), NEW c \in Conns, NEW s \in Streams,
           s \in Resolvable(e.ses[c]) \/ (s \in e.ins \cup e.own /\ Info[s].c = c)
    PROVE  e.phase[c] \in {"up", "closed"}
  <1>1. e.phase[c] \in Phases
    BY DEF Sane, Typed
  <1>2. e.phase[c] \notin {"absent", "handshake", "gone"}
    BY DEF Sane, Quiet
  <1>. QED BY <1>1, <1>2 DEF Phases

LEMMA ConnectEndedKeeps ==
    ASSUME NEW e, Sane(e), NEW c \in Conns, NEW s \in Streams, NEW prim, e.phase[c] # "gone"
    PROVE  Sane(ConnectEnded(e, c, s, prim)) /\ Keeps(e, ConnectEnded(e, c, s, prim))
  <1>1. CASE prim /\ ~e.ses[c].est
    BY <1>1, FailKeeps DEF ConnectEnded
  <1>2. CASE ~(prim /\ ~e.ses[c].est)
    BY <1>2, EndSessionKeeps DEF ConnectEnded
  <1>. QED BY <1>1, <1>2

LEMMA CapsuleKeeps ==
    ASSUME NEW e, Sane(e), NEW c \in Conns, NEW s \in Streams, NEW f \in Capsules
    PROVE  Sane(Capsule(e, c, s, f)) /\ Keeps(e, Capsule(e, c, s, f))
  <1>1. CASE f = "drain"
    <2>1. "draining" \in Kinds
      BY DEF Kinds
    <2>2. Capsule(e, c, s, f) = PushEvent(e, Ev("draining", c, s, 0))
      BY <1>1 DEF Capsule
    <2>. DEFINE g == PushEvent(e, Ev("draining", c, s, 0))
    <2>3. Sane(g) /\ Keeps(e, g) /\ Alike(e, g)
      BY <2>1, PushKeeps
    <2>. QED BY <2>2, <2>3
  <1>2. CASE f \in {"close", "badcap"}
    <2>1. Capsule(e, c, s, f) = EndWtSession(e, c, s)
      BY <1>2 DEF Capsule
    <2>. QED BY <2>1, EndSessionKeeps
  <1>. QED BY <1>1, <1>2 DEF Capsules

LEMMA NoteBlockedKeeps ==
    ASSUME NEW e, Sane(e), NEW c \in Conns, NEW s \in Streams, e.phase[c] # "gone"
    PROVE  Sane(NoteBlocked(e, c, s)) /\ Keeps(e, NoteBlocked(e, c, s))
  <1>. DEFINE ss == [e.ses[c] EXCEPT !.stuck = @ \cup {s}]
              f == [e EXCEPT !.ses[c].stuck = @ \cup {s}]
  <1>0. DOMAIN e = Fields /\ SessionTyped(e.ses[c]) /\ DOMAIN e.ses = Conns
    BY DEF Sane, Typed
  <1>1. Sets(e, f, c, ss)
    BY <1>0 DEF Sets, Fields
  <1>2. /\ SessionTyped(ss) /\ ss.extras \subseteq e.ses[c].extras /\ ss.pend \subseteq e.ses[c].pend
        /\ ss.primary = e.ses[c].primary /\ ss.est = e.ses[c].est /\ (~ss.shut => ~e.ses[c].shut)
    BY <1>0 DEF SessionTyped, SessionFields
  <1>3. NoteBlocked(e, c, s) = f \/ NoteBlocked(e, c, s) = CloseProtocolError(e, c)
    BY DEF NoteBlocked
  <1>. HIDE DEF f, ss
  <1>4. Sane(f) /\ Keeps(e, f)
    BY <1>1, <1>2, LosesSession
  <1>. QED BY <1>3, <1>4, ProtocolErrorKeeps

LEMMA EstablishedKeeps ==
    ASSUME NEW e, Sane(e), NEW c \in Conns, NEW s \in Streams
    PROVE  Sane(Established(e, c, s)) /\ Keeps(e, Established(e, c, s))
  <1>. DEFINE f == [e EXCEPT !.hs = @ \ {c}]
              g == PushEvent(f, Ev("established", c, s, 0))
  <1>0. DOMAIN e = Fields /\ e.events \in Seq(Event) /\ Len(e.events) \in Nat
    BY DEF Sane, Typed
  <1>1. Alike(e, f) /\ f.events = e.events /\ f.paused = e.paused
    BY <1>0 DEF Alike, Fields
  <1>2. Established(e, c, s) = g
    BY DEF Established
  <1>. HIDE DEF f
  <1>3. Sane(f)
    BY <1>0, <1>1, AlikeSane
  <1>4. Keeps(e, f)
    <2>1. Len(e.events) <= Len(f.events)
      BY <1>0, <1>1
    <2>. QED BY <1>1, <2>1, Zenon DEF Alike, Keeps
  <1>5. Sane(g) /\ Keeps(f, g) /\ Alike(f, g)
    <2>1. "established" \in Kinds
      BY DEF Kinds
    <2>. QED BY <1>3, <2>1, PushKeeps
  <1>. HIDE DEF g
  <1>6. Keeps(e, g)
    BY <1>3, <1>4, <1>5, KeepsOn DEF Sane
  <1>. QED BY <1>2, <1>5, <1>6

\* A session record changes and the session is announced.
LEMMA AnsweredKeeps ==
    ASSUME NEW e, NEW d, NEW c \in Conns, NEW s \in Streams, Sane(e), Sane(d), Keeps(e, d)
    PROVE  Sane(Established(d, c, s)) /\ Keeps(e, Established(d, c, s))
  <1>. DEFINE g == Established(d, c, s)
  <1>1. Sane(g) /\ Keeps(d, g)
    BY EstablishedKeeps
  <1>. HIDE DEF g
  <1>2. Keeps(e, g)
    BY <1>1, KeepsOn DEF Sane
  <1>. QED BY <1>1, <1>2 DEF g

LEMMA ClientFrameKeeps ==
    ASSUME NEW e, Sane(e), NEW c \in Conns, NEW s \in Streams, NEW f, e.ses[c].primary = s
    PROVE  Sane(ClientFrame(e, c, s, f)) /\ Keeps(e, ClientFrame(e, c, s, f))
  <1>. DEFINE ss == [e.ses[c] EXCEPT !.est = TRUE, !.stuck = @ \ {s}]
              d == [e EXCEPT !.ses[c].est = TRUE, !.ses[c].stuck = @ \ {s}]
  <1>0. DOMAIN e = Fields /\ SessionTyped(e.ses[c]) /\ DOMAIN e.ses = Conns
    BY DEF Sane, Typed
  <1>1. e.phase[c] \in {"up", "closed"}
    <2>1. s \in Resolvable(e.ses[c])
      BY StreamsAssumption DEF Resolvable, WtConnects
    <2>. QED BY <2>1, PlacesUp
  <1>2. Keeps(e, e)
    BY KeepsItself DEF Sane
  <1>3. CASE f = "bad"
    <2>1. ClientFrame(e, c, s, f) = CloseProtocolError(e, c)
      BY <1>3 DEF ClientFrame, Capsules
    <2>. QED BY <1>1, <2>1, ProtocolErrorKeeps
  <1>4. CASE f \in Capsules
    <2>1. ClientFrame(e, c, s, f) = Capsule(e, c, s, f) \/ ClientFrame(e, c, s, f) = e
      BY <1>4 DEF ClientFrame, Capsules
    <2>. QED BY <1>2, <1>4, <2>1, CapsuleKeeps
  <1>5. CASE f = "ok" /\ ~e.ses[c].shut /\ ~e.ses[c].est
    <2>1. ClientFrame(e, c, s, f) = Established(d, c, s)
      BY <1>5 DEF ClientFrame, Capsules
    <2>2. Sets(e, d, c, ss)
      BY <1>0 DEF Sets, Fields
    <2>3. /\ SessionTyped(ss) /\ ss.extras = {} /\ ss.pend = {} /\ ss.est
          /\ ss.primary = s
      BY <1>0, <1>5 DEF SessionTyped, SessionFields, Sane, Bounded
    <2>4. e.ses[c].extras = {} /\ e.ses[c].pend = {}
      BY <1>5 DEF Sane, Bounded
    <2>. HIDE DEF d, ss
    <2>5. Active(ss) <= WtMax
      BY <2>3, FS_EmptySet, LimitsAssumption DEF Active
    <2>6. Resolvable(ss) \subseteq Resolvable(e.ses[c])
      BY <2>3 DEF Resolvable, WtConnects
    <2>7. \A t \in Resolvable(ss) : /\ Info[t].kind = "connect" /\ Info[t].c = c
                                    /\ e.server => e.cls[t] = "connect"
      BY <2>6 DEF Sane, Sorted
    <2>8. Sane(d) /\ Keeps(e, d)
      BY <1>1, <2>2, <2>3, <2>5, <2>7, SetsKeeps
    <2>. QED BY <2>1, <2>8, AnsweredKeeps
  <1>6. CASE f = "fail" /\ ~e.ses[c].shut /\ ~e.ses[c].est
    <2>1. ClientFrame(e, c, s, f) = FailBeforeEstablish(e, c)
      BY <1>6 DEF ClientFrame, Capsules
    <2>. QED BY <1>1, <2>1, FailKeeps
  <1>7. CASE /\ f # "bad" /\ f \notin Capsules
             /\ ~(f = "ok" /\ ~e.ses[c].shut /\ ~e.ses[c].est)
             /\ ~(f = "fail" /\ ~e.ses[c].shut /\ ~e.ses[c].est)
    <2>1. ClientFrame(e, c, s, f) = e
      BY <1>7 DEF ClientFrame
    <2>. QED BY <1>2, <2>1
  <1>. QED BY <1>3, <1>4, <1>5, <1>6, <1>7

LEMMA PendingFrameKeeps ==
    ASSUME NEW e, Sane(e), NEW c \in Conns, NEW s \in Streams, NEW f, s \in e.ses[c].pend
    PROVE  Sane(PendingFrame(e, c, s, f)) /\ Keeps(e, PendingFrame(e, c, s, f))
  <1>. DEFINE s1 == [e.ses[c] EXCEPT !.pend = @ \ {s}, !.stuck = @ \ {s}]
              e1 == [e EXCEPT !.ses[c].pend = @ \ {s}, !.ses[c].stuck = @ \ {s}]
              s2 == [s1 EXCEPT !.extras = @ \cup {s}]
              e2 == [e1 EXCEPT !.ses[c].extras = @ \cup {s}]
  <1>0. /\ DOMAIN e = Fields /\ SessionTyped(e.ses[c]) /\ DOMAIN e.ses = Conns
        /\ Active(e.ses[c]) <= WtMax /\ (~e.ses[c].est => e.ses[c].pend = {})
    BY DEF Sane, Typed, Bounded
  <1>1. e.phase[c] \in {"up", "closed"} /\ s \in Resolvable(e.ses[c]) /\ e.ses[c].est
    <2>1. s \in Resolvable(e.ses[c])
      BY DEF Resolvable
    <2>. QED BY <1>0, <2>1, PlacesUp
  <1>2. Keeps(e, e)
    BY KeepsItself DEF Sane
  <1>3. CASE f = "bad"
    <2>1. PendingFrame(e, c, s, f) = CloseProtocolError(e, c)
      BY <1>3 DEF PendingFrame
    <2>. QED BY <1>1, <2>1, ProtocolErrorKeeps
  <1>4. CASE f = "ok"
    <2>1. PendingFrame(e, c, s, f) = Established(e2, c, s)
      BY <1>4 DEF PendingFrame
    <2>2. Sets(e, e2, c, s2)
      <3>1. Sets(e, e1, c, s1)
        BY <1>0 DEF Sets, Fields
      <3>2. e1.ses[c] = s1
        BY <1>0, <3>1 DEF Sets
      <3>. HIDE DEF e1, s1
      <3>3. e2.ses = [e1.ses EXCEPT ![c] = s2]
        BY <3>1, <3>2 DEF Sets, Fields
      <3>4. e2.ses = [e.ses EXCEPT ![c] = s2]
        BY <1>0, <3>1, <3>3 DEF Sets
      <3>. QED BY <3>1, <3>4 DEF Sets, Fields
    <2>3. /\ SessionTyped(s2) /\ s2.extras = e.ses[c].extras \cup {s}
          /\ s2.pend = e.ses[c].pend \ {s} /\ s2.est
          /\ s2.primary = e.ses[c].primary /\ s2.shut = e.ses[c].shut
      BY <1>0, <1>1 DEF SessionTyped, SessionFields
    <2>. HIDE DEF e1, s1, e2, s2
    <2>4. Active(s2) <= WtMax
      <3>1. Live(s2) => Live(e.ses[c])
        BY <1>1, <2>3 DEF Live
      <3>2. Active(s2) <= Active(e.ses[c]) /\ Active(e.ses[c]) \in Nat /\ Active(s2) \in Nat
        BY <1>0, <2>3, <3>1, PendingAnswered
      <3>. QED BY <1>0, <3>2, LimitsAssumption
    <2>5. Resolvable(s2) \subseteq Resolvable(e.ses[c])
      BY <2>3 DEF Resolvable, WtConnects
    <2>6. \A t \in Resolvable(s2) : /\ Info[t].kind = "connect" /\ Info[t].c = c
                                    /\ e.server => e.cls[t] = "connect"
      BY <2>5 DEF Sane, Sorted
    <2>7. Sane(e2) /\ Keeps(e, e2)
      BY <1>1, <2>2, <2>3, <2>4, <2>6, SetsKeeps
    <2>. QED BY <2>1, <2>7, AnsweredKeeps
  <1>5. CASE f = "fail"
    <2>1. PendingFrame(e, c, s, f) = SessionClosed(e1, c, s)
      BY <1>5 DEF PendingFrame
    <2>2. Sets(e, e1, c, s1)
      BY <1>0 DEF Sets, Fields
    <2>3. /\ SessionTyped(s1) /\ s1.extras \subseteq e.ses[c].extras /\ s1.pend \subseteq e.ses[c].pend
          /\ s1.primary = e.ses[c].primary /\ s1.est = e.ses[c].est /\ (~s1.shut => ~e.ses[c].shut)
      BY <1>0 DEF SessionTyped, SessionFields
    <2>. HIDE DEF e1, s1
    <2>4. Sane(e1) /\ Keeps(e, e1)
      BY <2>2, <2>3, LosesSession
    <2>. DEFINE g == SessionClosed(e1, c, s)
    <2>5. Sane(g) /\ Keeps(e1, g)
      BY <2>4, ClosedKeeps
    <2>. HIDE DEF g
    <2>6. Keeps(e, g)
      BY <2>4, <2>5, KeepsOn DEF Sane
    <2>. QED BY <2>1, <2>5, <2>6 DEF g
  <1>6. CASE f \notin {"bad", "ok", "fail"}
    <2>1. PendingFrame(e, c, s, f) = e
      BY <1>6 DEF PendingFrame
    <2>. QED BY <1>2, <2>1
  <1>. QED BY <1>3, <1>4, <1>5, <1>6

LEMMA ExtraFrameKeeps ==
    ASSUME NEW e, Sane(e), NEW c \in Conns, NEW s \in Streams, NEW f, e.phase[c] # "gone"
    PROVE  Sane(ExtraFrame(e, c, s, f)) /\ Keeps(e, ExtraFrame(e, c, s, f))
  <1>1. CASE f = "bad"
    <2>1. ExtraFrame(e, c, s, f) = CloseProtocolError(e, c)
      BY <1>1 DEF ExtraFrame, Capsules
    <2>. QED BY <2>1, ProtocolErrorKeeps
  <1>2. CASE f \in Capsules
    <2>1. ExtraFrame(e, c, s, f) = Capsule(e, c, s, f)
      BY <1>2 DEF ExtraFrame, Capsules
    <2>. QED BY <1>2, <2>1, CapsuleKeeps
  <1>3. CASE f # "bad" /\ f \notin Capsules
    <2>1. ExtraFrame(e, c, s, f) = e
      BY <1>3 DEF ExtraFrame
    <2>. QED BY <2>1, KeepsItself DEF Sane
  <1>. QED BY <1>1, <1>2, <1>3

LEMMA ServerFrameKeeps ==
    ASSUME NEW e, Sane(e), NEW c \in Conns, NEW s \in e.ins, NEW f,
           Info[s].c = c, e.cls[s] = "connect"
    PROVE  Sane(ServerFrame(e, c, s, f)) /\ Keeps(e, ServerFrame(e, c, s, f))
  <1>. DEFINE a == e.ses[c]
              s1 == [a EXCEPT !.stuck = @ \ {s}]
              e1 == [e EXCEPT !.ses[c].stuck = @ \ {s}]
              first == ~a.est \/ a.primary = None
              s2 == [s1 EXCEPT !.primary = s, !.est = TRUE, !.shut = FALSE]
              e2 == [e1 EXCEPT !.ses[c].primary = s, !.ses[c].est = TRUE, !.ses[c].shut = FALSE]
              s3 == [s1 EXCEPT !.extras = @ \cup {s}]
              e3 == [e1 EXCEPT !.ses[c].extras = @ \cup {s}]
  <1>0. /\ DOMAIN e = Fields /\ SessionTyped(a) /\ DOMAIN e.ses = Conns /\ s \in Streams
        /\ Active(a) <= WtMax /\ (~a.est => a.extras = {} /\ a.pend = {})
    BY DEF Sane, Typed, Bounded
  <1>1. e.phase[c] \in {"up", "closed"} /\ Info[s].kind = "connect"
    BY <1>0, PlacesUp DEF Sane, Sorted
  <1>2. Keeps(e, e)
    BY KeepsItself DEF Sane
  <1>3. Sets(e, e1, c, s1) /\ e1.ses[c] = s1
    <2>1. Sets(e, e1, c, s1)
      BY <1>0 DEF Sets, Fields
    <2>. QED BY <1>0, <2>1 DEF Sets
  <1>4. /\ SessionTyped(s1) /\ s1.extras = a.extras /\ s1.pend = a.pend
        /\ s1.primary = a.primary /\ s1.est = a.est /\ s1.shut = a.shut
    BY <1>0 DEF SessionTyped, SessionFields
  <1>5. Sane(e1) /\ Keeps(e, e1)
    <2>. HIDE DEF s1, e1
    <2>. QED BY <1>3, <1>4, LosesSession
  <1>6. /\ SessionTyped(s2) /\ s2.extras = a.extras /\ s2.pend = a.pend
        /\ s2.primary = s /\ s2.est /\ ~s2.shut
    BY <1>0 DEF SessionTyped, SessionFields
  <1>7. /\ SessionTyped(s3) /\ s3.extras = a.extras \cup {s} /\ s3.pend = a.pend
        /\ s3.primary = a.primary /\ s3.est = a.est /\ s3.shut = a.shut
    BY <1>0 DEF SessionTyped, SessionFields
  <1>8. CASE f = "bad"
    <2>1. ServerFrame(e, c, s, f) = CloseProtocolError(e, c)
      BY <1>8 DEF ServerFrame, Capsules
    <2>. QED BY <1>1, <2>1, ProtocolErrorKeeps
  <1>9. CASE f \in Capsules
    <2>1. ServerFrame(e, c, s, f) = Capsule(e, c, s, f) \/ ServerFrame(e, c, s, f) = e
      BY <1>9 DEF ServerFrame, Capsules
    <2>. QED BY <1>0, <1>2, <1>9, <2>1, CapsuleKeeps
  <1>10. CASE f = "ok" /\ s \notin WtConnects(a) /\ Active(a) < WtMax
    <2>1. ServerFrame(e, c, s, f) = Established(IF first THEN e2 ELSE e3, c, s)
      BY <1>10 DEF ServerFrame, Capsules
    <2>2. CASE first
      <3>1. Sets(e, e2, c, s2)
        <4>. HIDE DEF e1, s1
        <4>1. e2.ses = [e1.ses EXCEPT ![c] = s2]
          BY <1>3, <1>4 DEF Sets, Fields
        <4>2. e2.ses = [e.ses EXCEPT ![c] = s2]
          BY <1>0, <1>3, <4>1 DEF Sets
        <4>. QED BY <1>3, <4>2 DEF Sets, Fields
      <3>. HIDE DEF e1, s1, e2, s2
      <3>2. Active(s2) <= WtMax
        <4>1. ~Live(a)
          BY <2>2 DEF Live
        <4>2. IsFiniteSet(a.extras) /\ IsFiniteSet(a.pend)
          BY <1>0, StreamsAssumption, FS_Subset DEF SessionTyped
        <4>3. Cardinality(a.extras) \in Nat /\ Cardinality(a.pend) \in Nat
          BY <4>2, FS_CardinalityType
        <4>. QED BY <1>6, <1>10, <4>1, <4>3, LimitsAssumption DEF Active
      <3>3. Resolvable(s2) \subseteq Resolvable(a) \cup {s}
        BY <1>6 DEF Resolvable, WtConnects
      <3>4. \A t \in Resolvable(s2) : /\ Info[t].kind = "connect" /\ Info[t].c = c
                                      /\ e.server => e.cls[t] = "connect"
        BY <1>1, <3>3 DEF Sane, Sorted
      <3>5. Sane(e2) /\ Keeps(e, e2)
        BY <1>1, <1>6, <3>1, <3>2, <3>4, SetsKeeps
      <3>. QED BY <1>0, <2>1, <2>2, <3>5, AnsweredKeeps
    <2>3. CASE ~first
      <3>1. Sets(e, e3, c, s3)
        <4>. HIDE DEF e1, s1
        <4>1. e3.ses = [e1.ses EXCEPT ![c] = s3]
          BY <1>3, <1>4 DEF Sets, Fields
        <4>2. e3.ses = [e.ses EXCEPT ![c] = s3]
          BY <1>0, <1>3, <4>1 DEF Sets
        <4>. QED BY <1>3, <4>2 DEF Sets, Fields
      <3>. HIDE DEF e1, s1, e3, s3
      <3>2. Active(s3) <= WtMax
        <4>1. Live(s3) => Live(a)
          BY <1>7 DEF Live
        <4>2. Active(s3) <= Active(a) + 1 /\ Active(a) \in Nat /\ Active(s3) \in Nat
          BY <1>0, <1>7, <4>1, OneMoreExtra
        <4>. QED BY <1>10, <4>2, LimitsAssumption
      <3>3. Resolvable(s3) \subseteq Resolvable(a) \cup {s}
        BY <1>7 DEF Resolvable, WtConnects
      <3>4. \A t \in Resolvable(s3) : /\ Info[t].kind = "connect" /\ Info[t].c = c
                                      /\ e.server => e.cls[t] = "connect"
        BY <1>1, <3>3 DEF Sane, Sorted
      <3>5. s3.est
        BY <1>7, <2>3
      <3>6. Sane(e3) /\ Keeps(e, e3)
        BY <1>1, <1>7, <3>1, <3>2, <3>4, <3>5, SetsKeeps
      <3>. QED BY <1>0, <2>1, <2>3, <3>6, AnsweredKeeps
    <2>. QED BY <2>2, <2>3
  <1>11. CASE f # "bad" /\ f \notin Capsules /\ ~(f = "ok" /\ s \notin WtConnects(a) /\ Active(a) < WtMax)
    <2>1. ServerFrame(e, c, s, f) = e1
      BY <1>11 DEF ServerFrame
    <2>. HIDE DEF e1
    <2>. QED BY <1>5, <2>1
  <1>. QED BY <1>8, <1>9, <1>10, <1>11

\* Where read_one finds a CONNECT stream.
LEMMA BranchConnect ==
    ASSUME NEW e, Sane(e), NEW s \in Streams, Branch(e, s) \in ConnectBranches
    PROVE  /\ Branch(e, s) = "primary" => e.ses[Info[s].c].primary = s
           /\ Branch(e, s) = "pending" => s \in e.ses[Info[s].c].pend
           /\ Branch(e, s) = "extra" => s \in e.ses[Info[s].c].extras
           /\ Branch(e, s) = "connect" => s \in e.ins /\ e.cls[s] = "connect"
           /\ s \notin e.own /\ (s \in e.ins => e.cls[s] = "connect")
           /\ e.phase[Info[s].c] \in {"up", "closed"} /\ Info[s].c \in Conns
  <1>. DEFINE ss == e.ses[Info[s].c]
  <1>0. Info[s].c \in Conns /\ (s \in e.ins => e.cls[s] \in {"new", "connect", "wt"})
        /\ s \in Streams \ {None}
    BY StreamsAssumption DEF Sane, Sorted
  <1>1. /\ Branch(e, s) = "primary" => ~e.server /\ ss.primary = s
        /\ Branch(e, s) = "pending" => s \in ss.pend
        /\ Branch(e, s) = "extra" => s \in ss.extras
        /\ Branch(e, s) = "connect" => s \in e.ins /\ e.cls[s] = "connect"
    BY <1>0 DEF Branch
  <1>2. s \in Resolvable(ss) \/ (s \in e.ins /\ e.cls[s] = "connect")
    BY <1>0, <1>1 DEF ConnectBranches, Resolvable, WtConnects
  <1>3. Info[s].kind = "connect"
    BY <1>0, <1>2 DEF Sane, Sorted
  <1>4. s \notin e.own
    BY <1>3 DEF Sane, Sorted
  <1>5. s \in e.ins => e.cls[s] = "connect"
    <2>. SUFFICES ASSUME s \in e.ins PROVE e.cls[s] = "connect"
      OBVIOUS
    <2>1. e.server
      BY <1>3 DEF Sane, Sorted, Local
    <2>. QED BY <1>0, <1>2, <2>1 DEF Sane, Sorted
  <1>6. e.phase[Info[s].c] \in {"up", "closed"}
    BY <1>0, <1>2, PlacesUp
  <1>. QED BY <1>0, <1>1, <1>4, <1>5, <1>6

LEMMA FrameKeeps ==
    ASSUME NEW e, Sane(e), NEW s \in Streams, NEW f, Branch(e, s) \in ConnectBranches
    PROVE  Sane(Frame(e, Info[s].c, s, f)) /\ Keeps(e, Frame(e, Info[s].c, s, f))
  <1>. DEFINE c == Info[s].c
  <1>0. /\ Branch(e, s) = "primary" => e.ses[Info[s].c].primary = s
        /\ Branch(e, s) = "pending" => s \in e.ses[Info[s].c].pend
        /\ Branch(e, s) = "connect" => s \in e.ins /\ e.cls[s] = "connect"
        /\ e.phase[c] # "gone" /\ c \in Conns
    BY BranchConnect
  <1>1. CASE Branch(e, s) = "primary"
    <2>1. Frame(e, c, s, f) = ClientFrame(e, c, s, f)
      BY <1>1 DEF Frame
    <2>. QED BY <1>0, <1>1, <2>1, ClientFrameKeeps
  <1>2. CASE Branch(e, s) = "pending"
    <2>1. Frame(e, c, s, f) = PendingFrame(e, c, s, f)
      BY <1>2 DEF Frame
    <2>. QED BY <1>0, <1>2, <2>1, PendingFrameKeeps
  <1>3. CASE Branch(e, s) = "extra"
    <2>1. Frame(e, c, s, f) = ExtraFrame(e, c, s, f)
      BY <1>3 DEF Frame
    <2>. QED BY <1>0, <1>3, <2>1, ExtraFrameKeeps
  <1>4. CASE Branch(e, s) = "connect"
    <2>1. Frame(e, c, s, f) = ServerFrame(e, c, s, f)
      BY <1>4 DEF Frame
    <2>. QED BY <1>0, <1>4, <2>1, ServerFrameKeeps
  <1>. QED BY <1>1, <1>2, <1>3, <1>4 DEF ConnectBranches

-----------------------------------------------------------------------------
(* The budgets and the waiters. *)

LEMMA CountedTo ==
    ASSUME NEW n \in Nat PROVE IsFiniteSet(1..n) /\ Cardinality(1..n) = n
  <1>1. IsFiniteSet(1..n) /\ Cardinality(1..n) = IF 1 > n THEN 0 ELSE n - 1 + 1
    BY FS_Interval
  <1>. QED BY <1>1

LEMMA BytesCount ==
    ASSUME NEW f, IsFiniteSet(DOMAIN f), NEW cs, NEW ss
    PROVE  Bytes(f, cs, ss) \in Nat /\ (DOMAIN f = {} => Bytes(f, cs, ss) = 0)
  <1>. DEFINE all == (DOMAIN f) \X (1..QGlobal)
              T == {p \in all : p[2] <= f[p[1]].n /\ f[p[1]].c \in cs /\ f[p[1]].s \in ss}
  <1>1. IsFiniteSet(all)
    <2>1. IsFiniteSet(1..QGlobal)
      BY LimitsAssumption, FS_Interval
    <2>. QED BY <2>1, FS_Product
  <1>2. T \in SUBSET all
    OBVIOUS
  <1>3. Bytes(f, cs, ss) = Cardinality(T)
    BY DEF Bytes
  <1>4. DOMAIN f = {} => T = {}
    OBVIOUS
  <1>. HIDE DEF T, all
  <1>5. Cardinality(T) \in Nat
    BY <1>1, <1>2, FS_Subset, FS_CardinalityType
  <1>. QED BY <1>3, <1>4, <1>5, FS_EmptySet

LEMMA LeftIs ==
    ASSUME NEW n \in Nat \ {0}, NEW u \in Nat
    PROVE  Left(n, u) \in Nat /\ (u = 0 => Left(n, u) > 0)
  BY DEF Left

LEMMA LeastOfThree ==
    ASSUME NEW a \in Nat, NEW b \in Nat, NEW d \in Nat
    PROVE  Min({a, b} \cup {d}) \in {a, b, d}
  <1>. DEFINE S == {a, b} \cup {d}
  <1>1. \E x \in S : \A y \in S : x <= y
    <2>1. CASE a <= b /\ a <= d
      BY <2>1
    <2>2. CASE b <= a /\ b <= d
      BY <2>2
    <2>3. CASE d <= a /\ d <= b
      BY <2>3
    <2>. QED BY <2>1, <2>2, <2>3
  <1>2. Min(S) \in S
    BY <1>1 DEF Min
  <1>. QED BY <1>2

LEMMA LeastIn ==
    ASSUME NEW a \in Nat, NEW b \in Nat
    PROVE  Min({a, b} \cup {}) \in {a, b}
  <1>1. {a, b} \cup {} = {a, b}
    OBVIOUS
  <1>. QED BY <1>1, LeastOfTwo

\* available_event_bytes is positive when nothing is queued and no token is
\* out: a used-up budget has something to release.
LEMMA RoomIs ==
    ASSUME NEW e, Sane(e), NEW c, NEW s
    PROVE  Room(e, c, s) \in Nat /\ (~Releasable(e) => Room(e, c, s) > 0)
  <1>0. /\ IsFiniteSet(DOMAIN e.events) /\ IsFiniteSet(DOMAIN e.tokens)
        /\ (e.events = <<>> => DOMAIN e.events = {})
    <2>1. e.events \in Seq(Event) /\ IsFiniteSet(DOMAIN e.tokens)
      BY DEF Sane, Typed
    <2>2. DOMAIN e.events = 1..Len(e.events) /\ Len(e.events) \in Nat
      BY <2>1
    <2>3. e.events = <<>> => DOMAIN e.events = {}
      OBVIOUS
    <2>. QED BY <2>1, <2>2, <2>3, CountedTo, Zenon
  <1>1. ASSUME NEW cs, NEW ss
        PROVE  Queued(e, cs, ss) \in Nat /\ (~Releasable(e) => Queued(e, cs, ss) = 0)
    <2>1. /\ Bytes(e.events, cs, ss) \in Nat /\ (DOMAIN e.events = {} => Bytes(e.events, cs, ss) = 0)
          /\ Bytes(e.tokens, cs, ss) \in Nat /\ (DOMAIN e.tokens = {} => Bytes(e.tokens, cs, ss) = 0)
      BY <1>0, BytesCount
    <2>. QED BY <1>0, <2>1 DEF Queued, Releasable
  <1>. DEFINE a == Left(QGlobal, Queued(e, Conns, AnyStream))
              b == Left(QSession, Queued(e, {c}, AnyStream))
              d == Left(QStream, Queued(e, {c}, {s}))
  <1>2. a \in Nat /\ b \in Nat /\ d \in Nat /\ (~Releasable(e) => a > 0 /\ b > 0 /\ d > 0)
    BY <1>1, LeftIs, LimitsAssumption
  <1>3. Room(e, c, s) = Min({a, b} \cup IF s = None THEN {} ELSE {d})
    BY DEF Room
  <1>. HIDE DEF a, b, d
  <1>4. Room(e, c, s) \in {a, b, d}
    BY <1>2, <1>3, LeastOfThree, LeastIn
  <1>. QED BY <1>2, <1>4

LEMMA NoRepeats ==
    ASSUME NEW S, IsFiniteSet(S), NEW q \in Seq(S), Distinct(q)
    PROVE  Len(q) <= Cardinality(S)
  <1>1. q \in [1..Len(q) -> S] /\ Len(q) \in Nat
    OBVIOUS
  <1>2. IsFiniteSet(1..Len(q)) /\ Cardinality(1..Len(q)) = Len(q)
    BY <1>1, CountedTo, Zenon
  <1>3. Cardinality(S) \in Nat
    BY FS_CardinalityType
  <1>4. ~(Cardinality(S) < Len(q))
    BY <1>1, <1>2, FS_PigeonHole DEF Distinct
  <1>. QED BY <1>1, <1>3, <1>4

\* resume_waiting_after_capacity_change has a wake-up for every waiter.
LEMMA WakesSuffice ==
    ASSUME NEW e, Sane(e), Distinct(e.waiters)
    PROVE  Len(e.waiters) <= WakeMax
  <1>1. e.waiters \in Seq(Conns)
    BY DEF Sane, Typed
  <1>2. Len(e.waiters) <= Cardinality(Conns)
    BY <1>1, NoRepeats, StreamsAssumption
  <1>3. Cardinality(Conns) \in Nat /\ Len(e.waiters) \in Nat /\ WakeMax \in Nat
    BY <1>1, FS_CardinalityType, StreamsAssumption, LimitsAssumption
  <1>. QED BY <1>2, <1>3, WakeCoversConns

-----------------------------------------------------------------------------
(* Steps: what they leave of the streams, the waiters and the call. *)

Leaves(e, f) ==
    /\ f.server = e.server /\ f.cls = e.cls /\ f.waiters = e.waiters
    /\ f.ins \subseteq e.ins /\ f.own \subseteq e.own
    /\ \A c \in Conns : f.phase[c] = "up" => e.phase[c] = "up"
    /\ \A s \in f.ins \cup f.own :
          /\ s \in f.idx <=> s \in e.idx
          /\ s \in f.paused <=> s \in e.paused
          /\ f.half[s] = e.half[s]

NetShrinks ==
    /\ NetTyped'
    /\ \A s \in Streams : /\ net'[s].q # <<>> => net[s].q # <<>>
                          /\ Dead(s) => Dead(s)'
                          /\ net'[s].end = "reset" => net'[s].q = <<>>

DatagramsShrink ==
    DOMAIN dgs' = Conns /\ \A c \in Conns : dgs'[c].wait > 0 => dgs[c].wait > 0

LEMMA KeepsLeaves ==
    ASSUME NEW e, NEW f, Keeps(e, f) PROVE Leaves(e, f)
  BY Zenon DEF Keeps, Leaves

LEMMA NetStays ==
    ASSUME Sane(ep), Sane(ep'), NetOK, Leaves(ep, ep'), NetShrinks, DOMAIN dgs' = Conns
    PROVE  NetOK'
  <1>1. /\ ep'.cls = ep.cls /\ ep'.ins \cup ep'.own \subseteq ep.ins \cup ep.own
        /\ ep'.ins \cup ep'.own \subseteq Streams
        /\ \A s \in ep'.ins \cup ep'.own : ep'.half[s] = ep.half[s] /\ (s \in ep'.idx <=> s \in ep.idx)
    BY DEF Leaves, Sane, Typed
  <1>2. ASSUME NEW s \in Streams
        PROVE  /\ net'[s].end = "reset" => net'[s].q = <<>>
               /\ Info[s].kind = "data" /\ Info[s].local /\ net'[s].q # <<>> => ep'.cls[s] = "mine"
    BY <1>1, Zenon DEF NetShrinks, NetOK
  <1>3. ASSUME NEW s \in ep'.ins \cup ep'.own,
               ep'.cls[s] \in {"wt", "mine"} /\ (ep'.half[s] = {"recv"} \/ s \notin ep'.idx)
        PROVE  Dead(s)'
    <2>1. Dead(s)
      BY <1>1, <1>3, Zenon DEF NetOK
    <2>. QED BY <1>1, <2>1, Zenon DEF NetShrinks
  <1>4. NetTyped'
    BY DEF NetShrinks
  <1>. QED BY <1>2, <1>3, <1>4, Zenon DEF NetOK

LEMMA PendingStays ==
    ASSUME Sane(ep'), Leaves(ep, ep'), NetShrinks, NEW s \in Streams,
           ep'.phase[Info[s].c] = "up", Pending(s)'
    PROVE  ep.phase[Info[s].c] = "up" /\ Pending(s)
  <1>1. Info[s].c \in Conns
    BY StreamsAssumption
  <1>2. ep.phase[Info[s].c] = "up"
    BY <1>1, Zenon DEF Leaves
  <1>3. net[s].q # <<>>
    BY Zenon DEF NetShrinks, Pending
  <1>. QED BY <1>2, <1>3, Zenon DEF Leaves, Pending

\* A stream or a datagram is placed because it is before the pump now, because
\* its connection waits, or because it was unread already and out of the pump.
LEMMA PlacedOn ==
    ASSUME Placed,
           \A s \in Streams : ep'.phase[Info[s].c] = "up" /\ Pending(s)' =>
              \/ Waits(Info[s].c)'
              \/ job'.c = Info[s].c /\ (job'.dg \/ s \in job'.ids)
              \/ /\ ep.phase[Info[s].c] = "up" /\ Pending(s)
                 /\ ~(job.c = Info[s].c /\ (job.dg \/ s \in job.ids)),
           \A c \in Conns : ep'.phase[c] = "up" /\ dgs'[c].wait > 0 =>
              \/ Waits(c)'
              \/ job'.c = c /\ job'.dg
              \/ ep.phase[c] = "up" /\ dgs[c].wait > 0 /\ ~(job.c = c /\ job.dg),
           \A c \in Conns : Waits(c) /\ ep'.phase[c] = "up" => Waits(c)' \/ (job'.c = c /\ job'.dg)
    PROVE  Placed'
  <1>1. ASSUME NEW s \in Streams, ep'.phase[Info[s].c] = "up", Pending(s)'
        PROVE  Waits(Info[s].c)' \/ (job'.c = Info[s].c /\ (job'.dg \/ s \in job'.ids))
    <2>1. Info[s].c \in Conns
      BY StreamsAssumption
    <2>2. CASE ep.phase[Info[s].c] = "up" /\ Pending(s)
               /\ ~(job.c = Info[s].c /\ (job.dg \/ s \in job.ids))
      <3>1. Waits(Info[s].c)
        BY <2>2, Zenon DEF Placed
      <3>. QED BY <1>1, <2>1, <3>1, Zenon
    <2>. QED BY <1>1, <2>2, Zenon
  <1>2. ASSUME NEW c \in Conns, ep'.phase[c] = "up", dgs'[c].wait > 0
        PROVE  Waits(c)' \/ (job'.c = c /\ job'.dg)
    <2>1. CASE ep.phase[c] = "up" /\ dgs[c].wait > 0 /\ ~(job.c = c /\ job.dg)
      <3>1. Waits(c)
        BY <2>1, Zenon DEF Placed
      <3>. QED BY <1>2, <3>1, Zenon
    <2>. QED BY <1>2, <2>1, Zenon
  <1>. QED BY <1>1, <1>2, Zenon DEF Placed

\* What was before the pump still is, or is not to be read any more.
LEMMA JobStep ==
    ASSUME EndpointInvariant, Sane(ep'), NetOK', JobOK', job.wake <= job'.wake,
           ep'.waiters = ep.waiters, Releasable(ep) => Releasable(ep'),
           \A s \in Streams : ep'.phase[Info[s].c] = "up" /\ Pending(s)' =>
                                ep.phase[Info[s].c] = "up" /\ Pending(s),
           \A c \in Conns : ep'.phase[c] = "up" /\ dgs'[c].wait > 0 =>
                               ep.phase[c] = "up" /\ dgs[c].wait > 0,
           \A s \in Streams : Pending(s)' /\ job.c = Info[s].c /\ (job.dg \/ s \in job.ids) =>
                                job'.c = job.c /\ (job'.dg \/ s \in job'.ids),
           job.c \in Conns /\ job.dg => job'.c = job.c /\ job'.dg
    PROVE  EndpointInvariant'
  <1>0. Sane(ep) /\ JobOK /\ Placed /\ WakesLeft
    BY DEF EndpointInvariant
  <1>1. \A c : Waits(c)' <=> Waits(c)
    BY DEF Waits
  <1>2. Placed'
    <2>1. ASSUME NEW s \in Streams, ep'.phase[Info[s].c] = "up", Pending(s)'
          PROVE  \/ job'.c = Info[s].c /\ (job'.dg \/ s \in job'.ids)
                 \/ /\ ep.phase[Info[s].c] = "up" /\ Pending(s)
                    /\ ~(job.c = Info[s].c /\ (job.dg \/ s \in job.ids))
      BY <2>1, Zenon
    <2>2. ASSUME NEW c \in Conns, ep'.phase[c] = "up", dgs'[c].wait > 0
          PROVE  \/ job'.c = c /\ job'.dg
                 \/ ep.phase[c] = "up" /\ dgs[c].wait > 0 /\ ~(job.c = c /\ job.dg)
      BY <2>2, Zenon
    <2>. QED BY <1>0, <1>1, <2>1, <2>2, PlacedOn, Zenon
  <1>3. WakesLeft'
    <2>1. Len(ep.waiters) \in Nat /\ job.wake \in Nat /\ job'.wake \in Nat
      BY <1>0 DEF Sane, Typed, JobOK
    <2>2. CASE Releasable(ep)
      BY <1>0, <2>2 DEF WakesLeft
    <2>3. CASE ~Releasable(ep)
      <3>1. Len(ep'.waiters) <= job'.wake
        BY <1>0, <2>1, <2>3 DEF WakesLeft
      <3>. QED BY <1>0, <3>1 DEF WakesLeft
    <2>. QED BY <2>2, <2>3
  <1>. QED BY <1>2, <1>3, Zenon DEF EndpointInvariant

LEMMA StaysReleasable ==
    ASSUME NEW e, NEW f, Sane(e), Sane(f), Keeps(e, f), Releasable(e)
    PROVE  Releasable(f)
  <1>1. e.events \in Seq(Event) /\ f.events \in Seq(Event)
    BY DEF Sane, Typed
  <1>2. e.events # <<>> => f.events # <<>>
    BY <1>1 DEF Keeps
  <1>. QED BY <1>2 DEF Releasable, Keeps

\* A handler runs, and the call in progress still has its streams before it.
LEMMA KeptStep ==
    ASSUME EndpointInvariant, Sane(ep'), Keeps(ep, ep'), NetShrinks, DatagramsShrink, JobOK',
           job.wake <= job'.wake,
           \A s \in Streams : Pending(s)' /\ job.c = Info[s].c /\ (job.dg \/ s \in job.ids) =>
                                job'.c = job.c /\ (job'.dg \/ s \in job'.ids),
           job.c \in Conns /\ job.dg => job'.c = job.c /\ job'.dg
    PROVE  EndpointInvariant'
  <1>0. Sane(ep) /\ NetOK /\ Leaves(ep, ep') /\ ep'.waiters = ep.waiters
    BY KeepsLeaves DEF EndpointInvariant, Keeps
  <1>1. NetOK'
    BY <1>0, NetStays DEF DatagramsShrink
  <1>2. Releasable(ep) => Releasable(ep')
    BY <1>0, StaysReleasable
  <1>3. ASSUME NEW s \in Streams, ep'.phase[Info[s].c] = "up", Pending(s)'
        PROVE  ep.phase[Info[s].c] = "up" /\ Pending(s)
    BY <1>0, <1>3, PendingStays
  <1>4. ASSUME NEW c \in Conns, ep'.phase[c] = "up", dgs'[c].wait > 0
        PROVE  ep.phase[c] = "up" /\ dgs[c].wait > 0
    BY <1>0, <1>4, Zenon DEF DatagramsShrink, Leaves
  <1>. QED BY <1>0, <1>1, <1>2, <1>3, <1>4, JobStep, Zenon

\* drive(c): all of c is read, whatever has arrived for it.
LEMMA DriveStep ==
    ASSUME EndpointInvariant, NEW c \in Conns, Polling(c), Sane(ep'), NetOK', job' = Drive(c),
           ep'.waiters = ep.waiters, Releasable(ep) => Releasable(ep'),
           \A s \in Streams : Info[s].c # c /\ ep'.phase[Info[s].c] = "up" /\ Pending(s)' =>
                                ep.phase[Info[s].c] = "up" /\ Pending(s),
           \A d \in Conns \ {c} : ep'.phase[d] = "up" /\ dgs'[d].wait > 0 =>
                                    ep.phase[d] = "up" /\ dgs[d].wait > 0
    PROVE  EndpointInvariant'
  <1>0. Placed /\ WakesLeft
    BY DEF EndpointInvariant
  <1>1. job.c \in {None, c} /\ job.wake = 0 /\ None \notin Conns
    <2>1. Resting.c = None /\ Resting.wake = 0 /\ Drive(c).c = c /\ Drive(c).wake = 0
      BY DEF Drive, Resting
    <2>2. job = Resting \/ job = Drive(c)
      BY DEF Polling, Idle
    <2>. QED BY <2>1, <2>2, StreamsAssumption, Zenon
  <1>2. JobOK' /\ job'.c = c /\ job'.dg /\ job'.wake = 0
    BY DEF JobOK, Drive, Resting
  <1>3. \A d : Waits(d)' <=> Waits(d)
    BY DEF Waits
  <1>4. Placed'
    <2>1. ASSUME NEW s \in Streams, ep'.phase[Info[s].c] = "up", Pending(s)'
          PROVE  \/ job'.c = Info[s].c /\ (job'.dg \/ s \in job'.ids)
                 \/ /\ ep.phase[Info[s].c] = "up" /\ Pending(s)
                    /\ ~(job.c = Info[s].c /\ (job.dg \/ s \in job.ids))
      <3>1. Info[s].c \in Conns
        BY StreamsAssumption
      <3>2. CASE Info[s].c = c
        BY <1>2, <3>2
      <3>3. CASE Info[s].c # c
        BY <1>1, <2>1, <3>1, <3>3, Zenon
      <3>. QED BY <3>2, <3>3
    <2>2. ASSUME NEW d \in Conns, ep'.phase[d] = "up", dgs'[d].wait > 0
          PROVE  \/ job'.c = d /\ job'.dg
                 \/ ep.phase[d] = "up" /\ dgs[d].wait > 0 /\ ~(job.c = d /\ job.dg)
      <3>1. CASE d = c
        BY <1>2, <3>1
      <3>2. CASE d # c
        <4>1. d \in Conns \ {c} /\ job.c # d
          BY <1>1, <3>2
        <4>. QED BY <2>2, <4>1, Zenon
      <3>. QED BY <3>1, <3>2
    <2>. QED BY <1>0, <1>3, <2>1, <2>2, PlacedOn, Zenon
  <1>5. WakesLeft'
    BY <1>0, <1>1, <1>2 DEF WakesLeft
  <1>. QED BY <1>2, <1>4, <1>5, Zenon DEF EndpointInvariant

\* A capacity change: what is unread waits as before, and every waiter will be
\* woken.
LEMMA ResumeStep ==
    ASSUME EndpointInvariant, Idle, Sane(ep'), NetShrinks, DatagramsShrink, Leaves(ep, ep'),
           job' = Resume
    PROVE  EndpointInvariant'
  <1>0. Sane(ep) /\ NetOK /\ Placed /\ WakesLeft /\ ep'.waiters = ep.waiters
    BY DEF EndpointInvariant, Leaves
  <1>1. NetOK'
    BY <1>0, NetStays DEF DatagramsShrink
  <1>2. \A c : Waits(c)' <=> Waits(c)
    BY <1>0 DEF Waits
  <1>3. job.c = None /\ job'.c = None /\ job'.wake = WakeMax /\ JobOK' /\ None \notin Conns
    BY StreamsAssumption, LimitsAssumption DEF Idle, Resume, Resting, JobOK
  <1>4. Placed'
    <2>1. ASSUME NEW s \in Streams, ep'.phase[Info[s].c] = "up", Pending(s)'
          PROVE  /\ ep.phase[Info[s].c] = "up" /\ Pending(s)
                 /\ ~(job.c = Info[s].c /\ (job.dg \/ s \in job.ids))
      <3>1. ep.phase[Info[s].c] = "up" /\ Pending(s)
        BY <1>0, <2>1, PendingStays
      <3>2. Info[s].c \in Conns
        BY StreamsAssumption
      <3>. QED BY <1>3, <3>1, <3>2, Zenon
    <2>2. ASSUME NEW c \in Conns, ep'.phase[c] = "up", dgs'[c].wait > 0
          PROVE  ep.phase[c] = "up" /\ dgs[c].wait > 0 /\ ~(job.c = c /\ job.dg)
      BY <1>0, <1>3, <2>2, Zenon DEF DatagramsShrink, Leaves
    <2>. QED BY <1>0, <1>2, <2>1, <2>2, PlacedOn, Zenon
  <1>5. WakesLeft'
    <2>1. Distinct(ep'.waiters)
      BY <1>0 DEF WakesLeft
    <2>2. Len(ep'.waiters) <= WakeMax
      <3>1. PICK f : f = ep'
        OBVIOUS
      <3>. QED BY <2>1, <3>1, WakesSuffice
    <2>. QED BY <1>3, <2>1, <2>2 DEF WakesLeft
  <1>. QED BY <1>1, <1>3, <1>4, <1>5, Zenon DEF EndpointInvariant

-----------------------------------------------------------------------------
(* Waiting for capacity. *)

\* Only the queue, the tokens, the waiters and what is paused differ.
SameTables(e, f) ==
    /\ DOMAIN f = Fields
    /\ f.server = e.server /\ f.phase = e.phase /\ f.hs = e.hs /\ f.sess = e.sess
    /\ f.str = e.str /\ f.ses = e.ses /\ f.ins = e.ins /\ f.cls = e.cls /\ f.own = e.own
    /\ f.idx = e.idx /\ f.half = e.half

LEMMA SameTablesSane ==
    ASSUME NEW e, NEW f, Sane(e), SameTables(e, f), f.events \in Seq(Event),
           IsFiniteSet(DOMAIN f.tokens), f.waiters \in Seq(Conns)
    PROVE  Sane(f)
  <1>1. Typed(f)
    BY DEF Sane, SameTables, Typed
  <1>2. Reserved(f)
    BY DEF Sane, SameTables, Reserved
  <1>3. Quiet(f)
    BY DEF Sane, SameTables, Quiet
  <1>4. Bounded(f)
    BY DEF Sane, SameTables, Bounded
  <1>5. Sorted(f)
    BY DEF Sane, SameTables, Sorted, Local
  <1>. QED BY <1>1, <1>2, <1>3, <1>4, <1>5 DEF Sane

LEMMA LastInLine ==
    ASSUME NEW S, NEW q \in Seq(S), NEW x \in S, ~Contains(q, x),
           Distinct(q)
    PROVE  LET r == Append(q, x)
           IN  /\ r \in Seq(S) /\ Contains(r, x)
               /\ Distinct(r)
               /\ \A y : Contains(q, y) => Contains(r, y)
  <1>. DEFINE r == Append(q, x)
  <1>1. /\ r \in Seq(S) /\ Len(q) \in Nat /\ Len(r) = Len(q) + 1 /\ r[Len(q) + 1] = x
        /\ \A i \in 1..Len(q) : r[i] = q[i]
    OBVIOUS
  <1>. HIDE DEF r
  <1>2. Contains(r, x)
    BY <1>1 DEF Contains
  <1>3. ASSUME NEW i \in 1..Len(r), NEW j \in 1..Len(r), r[i] = r[j]
        PROVE  i = j
    BY <1>1, <1>3 DEF Contains, Distinct
  <1>4. ASSUME NEW y, NEW i \in 1..Len(q), q[i] = y
        PROVE  \E k \in 1..Len(r) : r[k] = y
    BY <1>1, <1>4
  <1>. QED BY <1>1, <1>2, <1>3, <1>4 DEF r, Contains, Distinct

LEMMA FirstInLine ==
    ASSUME NEW S, NEW q \in Seq(S), q # <<>>, Distinct(q)
    PROVE  LET r == Tail(q)
           IN  /\ Head(q) \in S /\ r \in Seq(S) /\ Len(r) = Len(q) - 1
               /\ Distinct(r)
               /\ \A y : Contains(q, y) => y = Head(q) \/ Contains(r, y)
  <1>. DEFINE r == Tail(q)
  <1>1. /\ Head(q) \in S /\ r \in Seq(S) /\ Len(q) \in Nat /\ Len(r) = Len(q) - 1
        /\ Head(q) = q[1]
        /\ \A i \in 1..Len(r) : r[i] = q[i + 1]
    OBVIOUS
  <1>. HIDE DEF r
  <1>2. ASSUME NEW i \in 1..Len(r), NEW j \in 1..Len(r), r[i] = r[j]
        PROVE  i = j
    <2>1. i + 1 \in 1..Len(q) /\ j + 1 \in 1..Len(q) /\ q[i + 1] = q[j + 1]
      BY <1>1, <1>2
    <2>2. i + 1 = j + 1
      BY <2>1 DEF Distinct
    <2>. QED BY <2>2
  <1>3. ASSUME NEW y, NEW i \in 1..Len(q), q[i] = y, y # Head(q)
        PROVE  \E k \in 1..Len(r) : r[k] = y
    <2>1. i # 1
      BY <1>1, <1>3
    <2>2. i - 1 \in 1..Len(r) /\ (i - 1) + 1 = i
      BY <1>1, <2>1
    <2>3. r[i - 1] = y
      BY <1>1, <1>3, <2>2
    <2>. QED BY <2>2, <2>3
  <1>. QED BY <1>1, <1>2, <1>3 DEF r, Contains, Distinct

\* enqueue_capacity_waiter
LEMMA WaitIs ==
    ASSUME NEW e, Sane(e), NEW c \in Conns,
           Distinct(e.waiters)
    PROVE  LET f == WaitForCapacity(e, c)
           IN  /\ Sane(f) /\ SameTables(e, f) /\ f.paused = e.paused
               /\ f.events = e.events /\ f.tokens = e.tokens
               /\ e.phase[c] # "gone" => Contains(f.waiters, c)
               /\ Distinct(f.waiters)
               /\ \A d : Contains(e.waiters, d) => Contains(f.waiters, d)
  <1>. DEFINE f == WaitForCapacity(e, c)
  <1>0. /\ DOMAIN e = Fields /\ e.waiters \in Seq(Conns) /\ e.events \in Seq(Event)
        /\ IsFiniteSet(DOMAIN e.tokens)
    BY DEF Sane, Typed
  <1>1. CASE Contains(e.waiters, c) \/ e.phase[c] = "gone"
    <2>1. f = e
      BY <1>1 DEF WaitForCapacity
    <2>2. SameTables(e, e)
      BY <1>0 DEF SameTables
    <2>. QED BY <1>1, <2>1, <2>2, Zenon
  <1>2. CASE ~Contains(e.waiters, c) /\ e.phase[c] # "gone"
    <2>1. f = [e EXCEPT !.waiters = Append(@, c)]
      BY <1>2 DEF WaitForCapacity
    <2>2. /\ SameTables(e, f) /\ f.paused = e.paused /\ f.events = e.events /\ f.tokens = e.tokens
          /\ f.waiters = Append(e.waiters, c)
      BY <1>0, <2>1 DEF SameTables, Fields
    <2>. HIDE DEF f
    <2>4. /\ f.waiters \in Seq(Conns) /\ Contains(f.waiters, c)
          /\ Distinct(f.waiters)
          /\ \A d : Contains(e.waiters, d) => Contains(f.waiters, d)
      <3>1. PICK q : q = e.waiters
        OBVIOUS
      <3>2. PICK r : r = Append(q, c)
        OBVIOUS
      <3>3. r \in Seq(Conns) /\ Contains(r, c) /\ Distinct(r) /\ \A y : Contains(q, y) => Contains(r, y)
        BY <1>0, <1>2, <3>1, <3>2, LastInLine
      <3>4. f.waiters = r
        BY <2>2, <3>1, <3>2
      <3>. QED BY <3>1, <3>3, <3>4, Zenon
    <2>5. Sane(f)
      BY <1>0, <2>2, <2>4, SameTablesSane
    <2>. QED BY <2>2, <2>4, <2>5, Zenon DEF f
  <1>. QED BY <1>1, <1>2

LEMMA SameNetStays ==
    ASSUME NetOK, ep'.cls = ep.cls, ep'.ins = ep.ins, ep'.own = ep.own, ep'.idx = ep.idx,
           ep'.half = ep.half, UNCHANGED <<net, dgs>>
    PROVE  NetOK'
  BY DEF NetOK, NetTyped, Dead

\* The pump meets a full queue or a used-up budget: its connection waits, and
\* there is something to release.
LEMMA ParkStep ==
    ASSUME EndpointInvariant, NEW c \in Conns, job.c = c, ep' = WaitForCapacity(ep, c),
           Releasable(ep), JobOK', UNCHANGED <<net, dgs>>
    PROVE  EndpointInvariant'
  <1>0. Sane(ep) /\ NetOK /\ Placed /\ WakesLeft
    BY DEF EndpointInvariant
  <1>1. /\ Sane(ep') /\ SameTables(ep, ep') /\ ep'.paused = ep.paused
        /\ ep'.events = ep.events /\ ep'.tokens = ep.tokens
        /\ ep.phase[c] # "gone" => Waits(c)'
        /\ Distinct(ep'.waiters)
        /\ \A d : Waits(d) => Waits(d)'
    <2>1. PICK e : e = ep
      OBVIOUS
    <2>2. PICK f : f = WaitForCapacity(e, c)
      OBVIOUS
    <2>3. ep' = f
      BY <2>1, <2>2
    <2>4. Sane(e) /\ Distinct(e.waiters)
      BY <1>0, <2>1 DEF WakesLeft
    <2>5. /\ Sane(f) /\ SameTables(e, f) /\ f.paused = e.paused
          /\ f.events = e.events /\ f.tokens = e.tokens
          /\ e.phase[c] # "gone" => Contains(f.waiters, c)
          /\ Distinct(f.waiters)
          /\ \A d : Contains(e.waiters, d) => Contains(f.waiters, d)
      BY <2>2, <2>4, WaitIs, Zenon
    <2>. QED BY <2>1, <2>3, <2>5, Zenon DEF Waits
  <1>2. NetOK'
    BY <1>0, <1>1, SameNetStays DEF SameTables
  <1>3. ASSUME NEW s \in Streams, Pending(s)'
        PROVE  Pending(s)
    BY <1>1, <1>3 DEF Pending, SameTables
  <1>4. Placed'
    <2>1. ASSUME NEW s \in Streams, ep'.phase[Info[s].c] = "up", Pending(s)'
          PROVE  \/ Waits(Info[s].c)'
                 \/ /\ ep.phase[Info[s].c] = "up" /\ Pending(s)
                    /\ ~(job.c = Info[s].c /\ (job.dg \/ s \in job.ids))
      <3>1. ep.phase[Info[s].c] = "up" /\ Pending(s)
        BY <1>1, <1>3, <2>1 DEF SameTables
      <3>. QED BY <1>1, <3>1
    <2>2. ASSUME NEW d \in Conns, ep'.phase[d] = "up", dgs'[d].wait > 0
          PROVE  \/ Waits(d)'
                 \/ ep.phase[d] = "up" /\ dgs[d].wait > 0 /\ ~(job.c = d /\ job.dg)
      <3>1. ep.phase[d] = "up" /\ dgs[d].wait > 0
        BY <1>1, <2>2 DEF SameTables
      <3>. QED BY <1>1, <3>1
    <2>. QED BY <1>0, <1>1, <2>1, <2>2, PlacedOn, Zenon
  <1>5. WakesLeft'
    BY <1>1 DEF WakesLeft, Releasable
  <1>. QED BY <1>1, <1>2, <1>4, <1>5, Zenon DEF EndpointInvariant

-----------------------------------------------------------------------------
(* The snapshot of read_streams. *)

JobFields == {"c", "cur", "wasConn", "wasPrim", "slots", "fresh", "dg", "ids", "cids",
              "then", "wake"}

\* It has every stream that is to be read.
LEMMA SnapshotHas ==
    ASSUME NEW e, Sane(e), NEW j, DOMAIN j = JobFields
    PROVE  LET k == Snapshot(e, j)
           IN  /\ DOMAIN k = JobFields /\ k.c = j.c /\ k.dg = FALSE
               /\ k.slots = j.slots /\ k.wake = j.wake
               /\ \A s \in Streams :
                     /\ Info[s].c = j.c /\ net[s].q # <<>>
                     /\ \/ s \in e.ins /\ e.cls[s] = "new"
                        \/ s \in e.ins /\ e.cls[s] = "wt" /\ s \notin e.paused
                        \/ s \in e.own /\ s \notin e.paused
                     => s \in k.ids
  <1>. DEFINE c == j.c
              ss == e.ses[c]
              live == {s \in Of(c) : net[s].q # <<>> \/ net[s].end # "open"}
              open == {s \in e.ins \cap Of(c) : IF e.cls[s] = "connect" THEN s \in live
                                                 ELSE ~(e.cls[s] = "wt" /\ s \in e.paused)}
                        \cup {s \in e.own \cap Of(c) : s \notin e.paused}
              k == Snapshot(e, j)
  <1>1. /\ DOMAIN k = JobFields /\ k.c = j.c /\ k.dg = FALSE
        /\ k.slots = j.slots /\ k.wake = j.wake
        /\ k.ids = (open \ WtConnects(ss)) \cup (ss.pend \cap live)
    BY DEF Snapshot, JobFields
  <1>2. ASSUME NEW s \in Streams, Info[s].c = j.c,
               \/ s \in e.ins /\ e.cls[s] = "new"
               \/ s \in e.ins /\ e.cls[s] = "wt" /\ s \notin e.paused
               \/ s \in e.own /\ s \notin e.paused
        PROVE  s \in open \ WtConnects(ss)
    <2>1. s \in open
      BY <1>2 DEF Of
    <2>2. s \notin WtConnects(ss)
      <3>. SUFFICES ASSUME s \in WtConnects(ss) PROVE FALSE
        OBVIOUS
      <3>1. c \in Conns /\ s \in Resolvable(ss)
        BY <1>2, StreamsAssumption DEF Resolvable
      <3>2. Info[s].kind = "connect" /\ (e.server => e.cls[s] = "connect")
        BY <3>1 DEF Sane, Sorted
      <3>3. s \notin e.own
        BY <3>2 DEF Sane, Sorted
      <3>4. s \in e.ins /\ e.cls[s] # "connect"
        BY <1>2, <3>3
      <3>5. ~Local(e, s)
        BY <3>4 DEF Sane, Sorted
      <3>. QED BY <3>2, <3>4, <3>5 DEF Local
    <2>. QED BY <2>1, <2>2
  <1>. HIDE DEF k
  <1>3. ASSUME NEW s \in Streams, Info[s].c = j.c,
               \/ s \in e.ins /\ e.cls[s] = "new"
               \/ s \in e.ins /\ e.cls[s] = "wt" /\ s \notin e.paused
               \/ s \in e.own /\ s \notin e.paused
        PROVE  s \in k.ids
    <2>1. s \in open \ WtConnects(ss)
      BY <1>2, <1>3, Zenon
    <2>. HIDE DEF open, live, ss
    <2>. QED BY <1>1, <2>1
  <1>. QED BY <1>1, <1>3, Zenon DEF k

\* read_streams begins: what is unread of c is in its snapshot.
LEMMA SnapshotStep ==
    ASSUME EndpointInvariant, NEW c \in Conns, job.c \in {None, c}, Sane(ep'), NetOK', net' = net,
           NEW STATE j, DOMAIN j = JobFields, j.c = c, j.slots \in 0..2, j.wake \in Nat,
           job.wake <= j.wake, job' = Snapshot(ep', j),
           ep'.waiters = ep.waiters, Releasable(ep) => Releasable(ep'),
           \A s \in Streams : Info[s].c # c /\ ep'.phase[Info[s].c] = "up" /\ Pending(s)' =>
                                ep.phase[Info[s].c] = "up" /\ Pending(s),
           \A d \in Conns \ {c} : ep'.phase[d] = "up" /\ dgs'[d].wait > 0 =>
                                    ep.phase[d] = "up" /\ dgs[d].wait > 0,
           ep'.phase[c] = "up" /\ dgs'[c].wait > 0 => Waits(c)
    PROVE  EndpointInvariant'
  <1>0. Placed /\ WakesLeft /\ JobOK /\ Sane(ep)
    BY DEF EndpointInvariant
  <1>1. /\ DOMAIN job' = JobFields /\ job'.c = c /\ job'.dg = FALSE
        /\ job'.slots = j.slots /\ job'.wake = j.wake
        /\ \A s \in Streams : Info[s].c = c /\ Pending(s)' => s \in job'.ids
    <2>1. PICK f : f = ep'
      OBVIOUS
    <2>2. PICK i : i = j
      OBVIOUS
    <2>3. PICK k : k = Snapshot(f, i)
      OBVIOUS
    <2>4. job' = k
      BY <2>1, <2>2, <2>3
    <2>5. /\ DOMAIN k = JobFields /\ k.c = i.c /\ k.dg = FALSE
          /\ k.slots = i.slots /\ k.wake = i.wake
          /\ \A s \in Streams :
                /\ Info[s].c = i.c /\ net[s].q # <<>>
                /\ \/ s \in f.ins /\ f.cls[s] = "new"
                   \/ s \in f.ins /\ f.cls[s] = "wt" /\ s \notin f.paused
                   \/ s \in f.own /\ s \notin f.paused
                => s \in k.ids
      BY <2>1, <2>2, <2>3, SnapshotHas, Zenon
    <2>6. ASSUME NEW s \in Streams, Info[s].c = c, Pending(s)'
          PROVE  s \in job'.ids
      <3>1. /\ net[s].q # <<>>
            /\ \/ s \in f.ins /\ f.cls[s] = "new"
               \/ s \in f.ins /\ f.cls[s] = "wt" /\ s \notin f.paused
               \/ s \in f.own /\ s \notin f.paused
        BY <2>1, <2>6, Zenon DEF Pending
      <3>. QED BY <2>2, <2>4, <2>5, <2>6, <3>1, Zenon
    <2>. QED BY <2>2, <2>4, <2>5, <2>6, Zenon
  <1>2. JobOK'
    BY <1>1 DEF JobOK, JobFields
  <1>3. \A d : Waits(d)' <=> Waits(d)
    BY DEF Waits
  <1>4. None \notin Conns /\ \A s \in Streams : Info[s].c \in Conns
    BY StreamsAssumption
  <1>5. Placed'
    <2>1. ASSUME NEW s \in Streams, ep'.phase[Info[s].c] = "up", Pending(s)'
          PROVE  \/ job'.c = Info[s].c /\ (job'.dg \/ s \in job'.ids)
                 \/ /\ ep.phase[Info[s].c] = "up" /\ Pending(s)
                    /\ ~(job.c = Info[s].c /\ (job.dg \/ s \in job.ids))
      <3>1. CASE Info[s].c = c
        BY <1>1, <2>1, <3>1, Zenon
      <3>2. CASE Info[s].c # c
        <4>1. job.c # Info[s].c
          BY <1>4, <3>2
        <4>. QED BY <2>1, <3>2, <4>1, Zenon
      <3>. QED BY <3>1, <3>2
    <2>2. ASSUME NEW d \in Conns, ep'.phase[d] = "up", dgs'[d].wait > 0
          PROVE  \/ Waits(d)'
                 \/ ep.phase[d] = "up" /\ dgs[d].wait > 0 /\ ~(job.c = d /\ job.dg)
      <3>1. CASE d = c
        BY <1>3, <2>2, <3>1, Zenon
      <3>2. CASE d # c
        <4>1. job.c # d /\ d \in Conns \ {c}
          BY <1>4, <3>2
        <4>. QED BY <2>2, <4>1, Zenon
      <3>. QED BY <3>1, <3>2
    <2>. QED BY <1>0, <1>3, <2>1, <2>2, PlacedOn, Zenon
  <1>6. WakesLeft'
    <2>1. Len(ep.waiters) \in Nat /\ job.wake \in Nat
      BY <1>0 DEF Sane, Typed, JobOK
    <2>2. CASE Releasable(ep)
      BY <1>0, <2>2 DEF WakesLeft
    <2>3. CASE ~Releasable(ep)
      <3>1. Len(ep'.waiters) <= job'.wake
        BY <1>0, <1>1, <2>1, <2>3 DEF WakesLeft
      <3>. QED BY <1>0, <3>1 DEF WakesLeft
    <2>. QED BY <2>2, <2>3
  <1>. QED BY <1>2, <1>5, <1>6, Zenon DEF EndpointInvariant

-----------------------------------------------------------------------------
(* The pump, one lemma for an action. *)

LEMMA SlotsFew == ASSUME JobOK, NEW s PROVE Slots(s) \in 0..2
  BY DEF JobOK, Slots, SlotsNewStream

LEMMA FullQueue ==
    ASSUME NEW e, Sane(e), NEW n \in 0..2, ~EventSlots(e, n)
    PROVE  Releasable(e)
  <1>1. e.events \in Seq(Event) /\ Len(e.events) \in Nat
    BY DEF Sane, Typed
  <1>2. Len(e.events) > 0
    BY <1>1, EventsAssumption DEF EventSlots
  <1>. QED BY <1>1, <1>2 DEF Releasable

LEMMA AgainIs ==
    ASSUME JobOK, NEW s, Again(s)
    PROVE  /\ JobOK' /\ job'.c = job.c /\ job'.dg = job.dg /\ job'.wake = job.wake
           /\ job.wake <= job'.wake /\ job'.ids = job.ids
  <1>1. Slots(s) \in 0..2
    BY SlotsFew
  <1>. QED BY <1>1 DEF JobOK, Again

LEMMA FinishedIs ==
    ASSUME JobOK, NEW s, Finished(s)
    PROVE  /\ JobOK' /\ job'.c = job.c /\ job'.dg = job.dg /\ job'.wake = job.wake
           /\ job.wake <= job'.wake /\ job'.ids = job.ids \ {s}
  BY DEF JobOK, Finished

LEMMA NetSame ==
    ASSUME NetOK, net' = net, dgs' = dgs
    PROVE  NetShrinks /\ DatagramsShrink
  BY DEF NetOK, NetShrinks, DatagramsShrink, NetTyped, Dead

LEMMA NetTaken ==
    ASSUME NetOK, NEW s \in Streams, NEW STATE r, r \in Seq(Frames \cup {"head", "b"}),
           net' = [net EXCEPT ![s].q = r], net[s].q = <<>> => r = <<>>
    PROVE  NetShrinks /\ net'[s].q = r
  <1>0. NetTyped
    BY DEF NetOK
  <1>1. /\ DOMAIN net' = Streams /\ \A t \in Streams \ {s} : net'[t] = net[t]
        /\ net'[s] = [net[s] EXCEPT !.q = r]
    BY <1>0 DEF NetTyped
  <1>2. net'[s].q = r /\ net'[s].end = net[s].end /\ DOMAIN net'[s] = {"q", "end", "seen", "stop"}
    BY <1>0, <1>1 DEF NetTyped
  <1>3. NetTyped'
    BY <1>0, <1>1, <1>2 DEF NetTyped
  <1>4. ASSUME NEW t \in Streams
        PROVE  /\ net'[t].q # <<>> => net[t].q # <<>>
               /\ Dead(t) => Dead(t)'
               /\ net'[t].end = "reset" => net'[t].q = <<>>
    <2>1. CASE t = s
      BY <1>2, <2>1 DEF Dead, NetOK
    <2>2. CASE t # s
      BY <1>1, <2>2 DEF Dead, NetOK
    <2>. QED BY <2>1, <2>2
  <1>. QED BY <1>2, <1>3, <1>4 DEF NetShrinks

LEMMA NetDropped ==
    ASSUME NetOK, NEW s \in Streams, net' = [net EXCEPT ![s] = [@ EXCEPT !.q = <<>>, !.end = "fin"]]
    PROVE  NetShrinks /\ net'[s].q = <<>> /\ Dead(s)'
  <1>0. NetTyped
    BY DEF NetOK
  <1>1. /\ DOMAIN net' = Streams /\ \A t \in Streams \ {s} : net'[t] = net[t]
        /\ net'[s] = [net[s] EXCEPT !.q = <<>>, !.end = "fin"]
    BY <1>0 DEF NetTyped
  <1>2. net'[s].q = <<>> /\ net'[s].end = "fin" /\ DOMAIN net'[s] = {"q", "end", "seen", "stop"}
    BY <1>0, <1>1 DEF NetTyped
  <1>3. NetTyped'
    <2>1. <<>> \in Seq(Frames \cup {"head", "b"})
      OBVIOUS
    <2>. QED BY <1>0, <1>1, <1>2, <2>1 DEF NetTyped
  <1>4. Dead(s)'
    BY <1>2 DEF Dead
  <1>5. ASSUME NEW t \in Streams
        PROVE  /\ net'[t].q # <<>> => net[t].q # <<>>
               /\ Dead(t) => Dead(t)'
               /\ net'[t].end = "reset" => net'[t].q = <<>>
    <2>1. CASE t = s
      BY <1>2, <1>4, <2>1
    <2>2. CASE t # s
      BY <1>1, <2>2 DEF Dead, NetOK
    <2>. QED BY <2>1, <2>2
  <1>. QED BY <1>2, <1>3, <1>4, <1>5 DEF NetShrinks

\* The pump stays with its stream.
LEMMA AgainStep ==
    ASSUME EndpointInvariant, Sane(ep'), Keeps(ep, ep'), NetShrinks, dgs' = dgs, NEW s, Again(s)
    PROVE  EndpointInvariant'
  <1>1. JobOK /\ NetOK
    BY DEF EndpointInvariant
  <1>2. /\ JobOK' /\ job'.c = job.c /\ job'.dg = job.dg /\ job'.wake = job.wake
        /\ job.wake <= job'.wake /\ job'.ids = job.ids
    BY <1>1, AgainIs
  <1>3. DatagramsShrink
    BY <1>1 DEF DatagramsShrink, NetOK
  <1>. QED BY <1>2, <1>3, KeptStep, Zenon

\* The pump is done with a stream that has nothing left to read.
LEMMA DoneStep ==
    ASSUME EndpointInvariant, Sane(ep'), Keeps(ep, ep'), NetShrinks, dgs' = dgs,
           NEW s \in Streams, Finished(s), ~Pending(s)'
    PROVE  EndpointInvariant'
  <1>1. JobOK /\ NetOK
    BY DEF EndpointInvariant
  <1>2. /\ JobOK' /\ job'.c = job.c /\ job'.dg = job.dg /\ job'.wake = job.wake
        /\ job.wake <= job'.wake /\ job'.ids = job.ids \ {s}
    BY <1>1, FinishedIs
  <1>3. DatagramsShrink
    BY <1>1 DEF DatagramsShrink, NetOK
  <1>4. ASSUME NEW t \in Streams, Pending(t)', job.dg \/ t \in job.ids
        PROVE  job'.dg \/ t \in job'.ids
    <2>1. t # s
      BY <1>4
    <2>. QED BY <1>2, <1>4, <2>1
  <1>. QED BY <1>2, <1>3, <1>4, KeptStep, Zenon

LEMMA ReadParksStep ==
    ASSUME EndpointInvariant, NEW s \in Streams, ReadParks(s)
    PROVE  EndpointInvariant'
  <1>0. Sane(ep) /\ JobOK /\ job.c = Info[s].c /\ Info[s].c \in Conns
    BY StreamsAssumption DEF EndpointInvariant, ReadParks, Turn
  <1>1. Slots(s) \in 0..2
    BY <1>0, SlotsFew
  <1>2. Releasable(ep)
    BY <1>0, <1>1, FullQueue DEF ReadParks, NoSlots
  <1>3. JobOK'
    BY <1>0, FinishedIs DEF ReadParks
  <1>4. ep' = WaitForCapacity(ep, job.c) /\ UNCHANGED <<net, dgs>>
    BY DEF ReadParks
  <1>. QED BY <1>0, <1>2, <1>3, <1>4, ParkStep

LEMMA ReadFrameStep ==
    ASSUME EndpointInvariant, NEW s \in Streams, ReadFrame(s)
    PROVE  EndpointInvariant'
  <1>. DEFINE f == IF Head(net[s].q) = "blocked" THEN "ok" ELSE Head(net[s].q)
              over == Branch(ep, s) = "pending" /\ f \in {"ok", "fail"}
              r == IF over THEN <<>> ELSE Tail(net[s].q)
  <1>0. /\ Sane(ep) /\ NetOK /\ job.c = Info[s].c /\ Branch(ep, s) \in ConnectBranches
        /\ net[s].q # <<>> /\ net[s].q \in Seq(Frames \cup {"head", "b"})
    BY DEF EndpointInvariant, ReadFrame, Turn, NetOK, NetTyped
  <1>1. /\ ep' = Frame(ep, Info[s].c, s, f) /\ net' = [net EXCEPT ![s].q = r] /\ dgs' = dgs
        /\ (IF over THEN Finished(s) ELSE Again(s))
    <2>1. /\ ep' = Frame(ep, Info[s].c, s, f) /\ dgs' = dgs
          /\ net' = [net EXCEPT ![s].q = IF over THEN <<>> ELSE Tail(@)]
          /\ (IF over THEN Finished(s) ELSE Again(s))
      BY <1>0 DEF ReadFrame
    <2>2. DOMAIN net = Streams
      BY <1>0 DEF NetOK, NetTyped
    <2>3. [net EXCEPT ![s].q = IF over THEN <<>> ELSE Tail(@)] = [net EXCEPT ![s].q = r]
      BY <2>2
    <2>. QED BY <2>1, <2>3
  <1>2. Sane(ep') /\ Keeps(ep, ep')
    BY <1>0, <1>1, FrameKeeps
  <1>3. r \in Seq(Frames \cup {"head", "b"}) /\ (over => r = <<>>)
    BY <1>0
  <1>. HIDE DEF over, r, f
  <1>4. NetShrinks /\ net'[s].q = r
    BY <1>0, <1>1, <1>3, NetTaken
  <1>5. CASE over
    <2>1. ~Pending(s)'
      BY <1>3, <1>4, <1>5 DEF Pending
    <2>. QED BY <1>1, <1>2, <1>4, <1>5, <2>1, DoneStep
  <1>6. CASE ~over
    BY <1>1, <1>2, <1>4, <1>6, AgainStep
  <1>. QED BY <1>5, <1>6

LEMMA ReadBlockedStep ==
    ASSUME EndpointInvariant, NEW s \in Streams, ReadBlocked(s)
    PROVE  EndpointInvariant'
  <1>0. /\ Sane(ep) /\ NetOK /\ job.c = Info[s].c /\ Branch(ep, s) \in ConnectBranches
        /\ net[s].q # <<>> /\ ep' = NoteBlocked(ep, Info[s].c, s) /\ dgs' = dgs
    BY DEF EndpointInvariant, ReadBlocked, Turn, Stuck, ConnectBranches
  <1>1. /\ s \notin ep.own /\ (s \in ep.ins => ep.cls[s] = "connect")
        /\ ep.phase[Info[s].c] # "gone" /\ Info[s].c \in Conns
    BY <1>0, BranchConnect
  <1>2. Sane(ep') /\ Keeps(ep, ep')
    BY <1>0, <1>1, NoteBlockedKeeps
  <1>3. ~Pending(s)'
    BY <1>1, <1>2 DEF Pending, Keeps
  <1>4. CASE net[s].end = "open"
    <2>1. net' = net /\ Finished(s)
      BY <1>4 DEF ReadBlocked
    <2>. QED BY <1>0, <1>2, <1>3, <2>1, NetSame, DoneStep
  <1>5. CASE net[s].end # "open"
    <2>1. net' = [net EXCEPT ![s].q = <<>>] /\ Again(s)
      BY <1>5 DEF ReadBlocked
    <2>2. NetShrinks
      <3>1. <<>> \in Seq(Frames \cup {"head", "b"})
        OBVIOUS
      <3>. QED BY <1>0, <2>1, <3>1, NetTaken
    <2>. QED BY <1>0, <1>2, <2>1, <2>2, AgainStep
  <1>. QED BY <1>4, <1>5

LEMMA ReadNothingStep ==
    ASSUME EndpointInvariant, NEW s \in Streams, ReadNothing(s)
    PROVE  EndpointInvariant'
  <1>0. Sane(ep) /\ NetOK /\ ep' = ep /\ net' = net /\ dgs' = dgs /\ Finished(s)
        /\ Branch(ep, s) = "nothing"
    BY DEF EndpointInvariant, ReadNothing
  <1>1. Keeps(ep, ep') /\ Sane(ep')
    <2>1. Keeps(ep, ep)
      BY <1>0, KeepsItself DEF Sane
    <2>. QED BY <1>0, <2>1
  <1>2. s \notin ep.ins /\ s \notin ep.own
    <2>1. s \in ep.ins => ep.cls[s] \in {"new", "connect", "wt"}
      BY <1>0 DEF Sane, Sorted
    <2>. QED BY <1>0, <2>1 DEF Branch
  <1>3. ~Pending(s)'
    BY <1>0, <1>2 DEF Pending
  <1>. QED BY <1>0, <1>1, <1>3, NetSame, DoneStep

\* A pending session is given up.
LEMMA PendingGoneKeeps ==
    ASSUME NEW e, Sane(e), NEW c \in Conns, NEW s \in Streams
    PROVE  LET f == SessionClosed([e EXCEPT !.ses[c].pend = @ \ {s}], c, s)
           IN  Sane(f) /\ Keeps(e, f)
  <1>. DEFINE ss == [e.ses[c] EXCEPT !.pend = @ \ {s}]
              d == [e EXCEPT !.ses[c].pend = @ \ {s}]
              f == SessionClosed(d, c, s)
  <1>0. DOMAIN e = Fields /\ SessionTyped(e.ses[c]) /\ DOMAIN e.ses = Conns
    BY DEF Sane, Typed
  <1>1. Sets(e, d, c, ss)
    BY <1>0 DEF Sets, Fields
  <1>2. /\ SessionTyped(ss) /\ ss.extras \subseteq e.ses[c].extras /\ ss.pend \subseteq e.ses[c].pend
        /\ ss.primary = e.ses[c].primary /\ ss.est = e.ses[c].est /\ (~ss.shut => ~e.ses[c].shut)
    BY <1>0 DEF SessionTyped, SessionFields
  <1>. HIDE DEF d, ss
  <1>3. Sane(d) /\ Keeps(e, d)
    BY <1>1, <1>2, LosesSession
  <1>4. Sane(f) /\ Keeps(d, f)
    BY <1>3, ClosedKeeps
  <1>. HIDE DEF f
  <1>5. Keeps(e, f)
    BY <1>3, <1>4, KeepsOn DEF Sane
  <1>. QED BY <1>4, <1>5 DEF f, d

LEMMA ConnectGoneKeeps ==
    ASSUME NEW e, Sane(e), NEW s \in e.ins, e.cls[s] = "connect", NEW c \in Conns, Info[s].c = c, NEW prim
    PROVE  LET f == ConnectEnded(RetireIn(e, s), c, s, prim)
           IN  Sane(f) /\ Keeps(e, f)
  <1>. DEFINE d == RetireIn(e, s)
              f == ConnectEnded(d, c, s, prim)
  <1>0. DOMAIN e = Fields /\ s \in Streams
    BY DEF Sane, Typed
  <1>1. Sane(d) /\ Keeps(e, d)
    BY RetireKeeps
  <1>2. d.phase = e.phase
    BY <1>0 DEF RetireIn, Fields
  <1>3. e.phase[c] \in {"up", "closed"}
    BY <1>0, PlacesUp
  <1>. HIDE DEF d
  <1>4. Sane(f) /\ Keeps(d, f)
    BY <1>0, <1>1, <1>2, <1>3, ConnectEndedKeeps
  <1>. HIDE DEF f
  <1>5. Keeps(e, f)
    BY <1>1, <1>4, KeepsOn DEF Sane
  <1>. QED BY <1>4, <1>5 DEF f, d

LEMMA ReadConnectEndStep ==
    ASSUME EndpointInvariant, NEW s \in Streams, ReadConnectEnd(s)
    PROVE  EndpointInvariant'
  <1>. DEFINE c == Info[s].c
  <1>0. /\ Sane(ep) /\ NetOK /\ job.c = c /\ Branch(ep, s) \in ConnectBranches
        /\ net[s].q = <<>> /\ net' = net /\ dgs' = dgs /\ Finished(s)
    BY DEF EndpointInvariant, ReadConnectEnd, Turn
  <1>1. ~Pending(s)'
    BY <1>0 DEF Pending
  <1>2. /\ ep.phase[c] # "gone" /\ c \in Conns
        /\ Branch(ep, s) = "connect" => s \in ep.ins /\ ep.cls[s] = "connect"
    BY <1>0, BranchConnect
  <1>3. IF net[s].end = "open" THEN ep' = ep
        ELSE ep' = CASE Branch(ep, s) = "primary" -> ConnectEnded(ep, c, s, TRUE)
                     [] Branch(ep, s) = "pending" ->
                          SessionClosed([ep EXCEPT !.ses[c].pend = @ \ {s}], c, s)
                     [] Branch(ep, s) = "extra" -> EndWtSession(ep, c, s)
                     [] Branch(ep, s) = "connect" ->
                          IF WasConn(s) THEN ConnectEnded(RetireIn(ep, s), c, s, WasPrim(s))
                          ELSE RetireIn(ep, s)
    BY <1>0 DEF ReadConnectEnd
  <1>. HIDE DEF c
  <1>4. Sane(ep') /\ Keeps(ep, ep')
    <2>1. CASE ep' = ep
      <3>1. Keeps(ep, ep)
        BY <1>0, KeepsItself DEF Sane
      <3>. QED BY <1>0, <2>1, <3>1
    <2>2. CASE ep' = ConnectEnded(ep, c, s, TRUE)
      BY <1>0, <1>2, <2>2, ConnectEndedKeeps
    <2>3. CASE ep' = SessionClosed([ep EXCEPT !.ses[c].pend = @ \ {s}], c, s)
      BY <1>0, <1>2, <2>3, PendingGoneKeeps
    <2>4. CASE ep' = EndWtSession(ep, c, s)
      BY <1>0, <1>2, <2>4, EndSessionKeeps
    <2>5. CASE Branch(ep, s) = "connect" /\ ep' = ConnectEnded(RetireIn(ep, s), c, s, WasPrim(s))
      <3>1. PICK p : p = WasPrim(s)
        OBVIOUS
      <3>. QED BY <1>0, <1>2, <2>5, <3>1, ConnectGoneKeeps DEF c
    <2>6. CASE Branch(ep, s) = "connect" /\ ep' = RetireIn(ep, s)
      BY <1>0, <1>2, <2>6, RetireKeeps
    <2>7. CASE net[s].end = "open"
      BY <1>3, <2>1, <2>7
    <2>8. CASE net[s].end # "open" /\ Branch(ep, s) = "primary"
      BY <1>3, <2>2, <2>8
    <2>9. CASE net[s].end # "open" /\ Branch(ep, s) = "pending"
      BY <1>3, <2>3, <2>9
    <2>10. CASE net[s].end # "open" /\ Branch(ep, s) = "extra"
      <3>1. ep' = EndWtSession(ep, c, s)
        BY <1>3, <2>10
      <3>. QED BY <2>4, <3>1
    <2>11. CASE net[s].end # "open" /\ Branch(ep, s) = "connect"
      BY <1>3, <2>5, <2>6, <2>11
    <2>. QED BY <1>0, <2>7, <2>8, <2>9, <2>10, <2>11 DEF ConnectBranches
  <1>. QED BY <1>0, <1>1, <1>4, NetSame, DoneStep

LEMMA RejectStep ==
    ASSUME EndpointInvariant, NEW s \in Streams, s \in ep.ins, Reject(s), dgs' = dgs
    PROVE  EndpointInvariant'
  <1>0. /\ Sane(ep) /\ NetOK /\ Finished(s) /\ ep' = RetireIn(ep, s)
        /\ net' = [net EXCEPT ![s] = [@ EXCEPT !.q = <<>>, !.end = "fin"]]
    BY DEF EndpointInvariant, Reject
  <1>1. Sane(ep') /\ Keeps(ep, ep')
    BY <1>0, RetireKeeps
  <1>2. NetShrinks /\ net'[s].q = <<>>
    BY <1>0, NetDropped, Zenon
  <1>3. ~Pending(s)'
    BY <1>2 DEF Pending
  <1>. QED BY <1>0, <1>1, <1>2, <1>3, DoneStep

\* A stream of the peer turns out to be a CONNECT stream.
LEMMA LatchSane ==
    ASSUME NEW e, Sane(e), NEW s \in e.ins, Info[s].kind = "connect"
    PROVE  Sane([e EXCEPT !.cls[s] = "connect"])
  <1>. DEFINE f == [e EXCEPT !.cls[s] = "connect"]
  <1>0. DOMAIN e = Fields /\ s \in Streams /\ e.cls \in [Streams -> Classes] /\ s \notin e.own
    BY DEF Sane, Typed, Sorted
  <1>1. /\ DOMAIN f = Fields /\ f.server = e.server /\ f.phase = e.phase /\ f.hs = e.hs
        /\ f.sess = e.sess /\ f.str = e.str /\ f.ses = e.ses /\ f.ins = e.ins /\ f.own = e.own
        /\ f.idx = e.idx /\ f.half = e.half /\ f.events = e.events /\ f.tokens = e.tokens
        /\ f.waiters = e.waiters /\ f.cls = [e.cls EXCEPT ![s] = "connect"]
    BY <1>0 DEF Fields
  <1>. HIDE DEF f
  <1>2. /\ f.cls \in [Streams -> Classes] /\ f.cls[s] = "connect"
        /\ \A t \in Streams \ {s} : f.cls[t] = e.cls[t]
    BY <1>0, <1>1 DEF Classes
  <1>3. Typed(f)
    BY <1>1, <1>2 DEF Sane, Typed
  <1>4. Reserved(f) /\ Quiet(f) /\ Bounded(f)
    BY <1>1 DEF Sane, Reserved, Quiet, Bounded
  <1>5. Sorted(f)
    <2>1. \A t \in f.ins : ~Local(f, t) /\ f.cls[t] \in {"new", "connect", "wt"}
      BY <1>0, <1>1, <1>2 DEF Sane, Typed, Sorted, Local
    <2>2. \A t \in f.own : f.cls[t] = "mine" /\ Info[t].kind = "data" /\ Info[t].local
      BY <1>0, <1>1, <1>2 DEF Sane, Typed, Sorted
    <2>3. \A t \in Streams : /\ f.cls[t] = "connect" => Info[t].kind = "connect"
                             /\ f.cls[t] = "wt" => Info[t].kind = "data"
      BY <1>0, <1>2 DEF Sane, Sorted
    <2>4. ASSUME NEW c \in Conns, NEW t \in Resolvable(f.ses[c])
          PROVE  Info[t].kind = "connect" /\ Info[t].c = c /\ (f.server => f.cls[t] = "connect")
      <3>1. Info[t].kind = "connect" /\ Info[t].c = c /\ (e.server => e.cls[t] = "connect")
        BY <1>1, <2>4 DEF Sane, Sorted
      <3>2. t \in Streams
        BY <1>1, <2>4 DEF Sane, Typed, SessionTyped, Resolvable, WtConnects
      <3>. QED BY <1>1, <1>2, <3>1, <3>2
    <2>. QED BY <2>1, <2>2, <2>3, <2>4, Zenon DEF Sorted
  <1>. QED BY <1>3, <1>4, <1>5 DEF Sane, f

\* A stream of the peer turns out to carry a session's data.
LEMMA AdmitSane ==
    ASSUME NEW e, Sane(e), NEW s \in e.ins, Info[s].kind = "data", NEW h \in {{}, {"send"}}
    PROVE  Sane(Register([e EXCEPT !.cls[s] = "wt"], s, h))
  <1>. DEFINE f == Register([e EXCEPT !.cls[s] = "wt"], s, h)
  <1>0. /\ DOMAIN e = Fields /\ s \in Streams /\ e.cls \in [Streams -> Classes] /\ s \notin e.own
        /\ e.half \in [Streams -> Halves] /\ Info[s].c \in Conns
    BY StreamsAssumption DEF Sane, Typed, Sorted
  <1>1. /\ DOMAIN f = Fields /\ f.server = e.server /\ f.phase = e.phase /\ f.hs = e.hs
        /\ f.sess = e.sess /\ f.ses = e.ses /\ f.ins = e.ins /\ f.own = e.own
        /\ f.events = e.events /\ f.tokens = e.tokens /\ f.waiters = e.waiters
        /\ f.cls = [e.cls EXCEPT ![s] = "wt"] /\ f.half = [e.half EXCEPT ![s] = h]
        /\ f.idx = e.idx \cup {s} /\ f.str = e.str \cup {s}
    BY <1>0 DEF Fields, Register
  <1>. HIDE DEF f
  <1>2. /\ f.cls \in [Streams -> Classes] /\ f.cls[s] = "wt" /\ f.half \in [Streams -> Halves]
        /\ \A t \in Streams \ {s} : f.cls[t] = e.cls[t]
    BY <1>0, <1>1 DEF Classes, Halves
  <1>3. Typed(f)
    BY <1>0, <1>1, <1>2 DEF Sane, Typed
  <1>4. Reserved(f)
    <2>1. e.phase[Info[s].c] \in {"up", "closed"}
      BY <1>0, PlacesUp
    <2>. QED BY <1>1, <2>1 DEF Sane, Reserved
  <1>5. Quiet(f)
    BY <1>1, Zenon DEF Sane, Quiet
  <1>6. Bounded(f)
    BY <1>1, Zenon DEF Sane, Bounded
  <1>7. Sorted(f)
    <2>1. \A t \in f.ins : ~Local(f, t) /\ f.cls[t] \in {"new", "connect", "wt"}
      BY <1>0, <1>1, <1>2 DEF Sane, Typed, Sorted, Local
    <2>2. \A t \in f.own : f.cls[t] = "mine" /\ Info[t].kind = "data" /\ Info[t].local
      BY <1>0, <1>1, <1>2 DEF Sane, Typed, Sorted
    <2>3. \A t \in Streams : /\ f.cls[t] = "connect" => Info[t].kind = "connect"
                             /\ f.cls[t] = "wt" => Info[t].kind = "data"
      BY <1>0, <1>2 DEF Sane, Sorted
    <2>4. ASSUME NEW c \in Conns, NEW t \in Resolvable(f.ses[c])
          PROVE  Info[t].kind = "connect" /\ Info[t].c = c /\ (f.server => f.cls[t] = "connect")
      <3>1. Info[t].kind = "connect" /\ Info[t].c = c /\ (e.server => e.cls[t] = "connect")
        BY <1>1, <2>4 DEF Sane, Sorted
      <3>2. t \in Streams
        BY <1>1, <2>4 DEF Sane, Typed, SessionTyped, Resolvable, WtConnects
      <3>. QED BY <1>1, <1>2, <3>1, <3>2
    <2>. QED BY <2>1, <2>2, <2>3, <2>4, Zenon DEF Sorted
  <1>. QED BY <1>3, <1>4, <1>5, <1>6, <1>7 DEF Sane, f

LEMMA LatchStep ==
    ASSUME EndpointInvariant, NEW s \in Streams, s \in ep.ins, Info[s].kind = "connect",
           ep' = [ep EXCEPT !.cls[s] = "connect"], Again(s), net' = net, dgs' = dgs
    PROVE  EndpointInvariant'
  <1>0. /\ Sane(ep) /\ NetOK /\ JobOK /\ DOMAIN ep = Fields /\ ep.cls \in [Streams -> Classes]
        /\ s \notin ep.own /\ ep.ins \subseteq Streams /\ ep.own \subseteq Streams
    BY DEF EndpointInvariant, Sane, Typed, Sorted
  <1>1. Sane(ep')
    BY <1>0, LatchSane
  <1>2. /\ ep'.ins = ep.ins /\ ep'.own = ep.own /\ ep'.idx = ep.idx /\ ep'.half = ep.half
        /\ ep'.paused = ep.paused /\ ep'.phase = ep.phase /\ ep'.waiters = ep.waiters
        /\ ep'.events = ep.events /\ ep'.tokens = ep.tokens
        /\ ep'.cls[s] = "connect" /\ \A t \in Streams \ {s} : ep'.cls[t] = ep.cls[t]
    BY <1>0 DEF Fields
  <1>3. NetOK'
    <2>1. NetTyped' /\ DOMAIN dgs' = Conns
      BY <1>0 DEF NetOK, NetTyped
    <2>2. ASSUME NEW t \in Streams
          PROVE  /\ net'[t].end = "reset" => net'[t].q = <<>>
                 /\ Info[t].kind = "data" /\ Info[t].local /\ net'[t].q # <<>> => ep'.cls[t] = "mine"
      BY <1>0, <1>2 DEF NetOK
    <2>3. ASSUME NEW t \in ep'.ins \cup ep'.own,
                 ep'.cls[t] \in {"wt", "mine"} /\ (ep'.half[t] = {"recv"} \/ t \notin ep'.idx)
          PROVE  Dead(t)'
      <3>1. ep.cls[t] \in {"wt", "mine"} /\ (ep.half[t] = {"recv"} \/ t \notin ep.idx)
        BY <1>0, <1>2, <2>3
      <3>2. Dead(t)
        BY <1>0, <1>2, <3>1 DEF NetOK
      <3>. QED BY <3>2 DEF Dead
    <2>. QED BY <2>1, <2>2, <2>3, Zenon DEF NetOK
  <1>4. ASSUME NEW t \in Streams, Pending(t)'
        PROVE  Pending(t)
    BY <1>0, <1>2, <1>4 DEF Pending
  <1>5. /\ JobOK' /\ job'.c = job.c /\ job'.dg = job.dg
        /\ job.wake <= job'.wake /\ job'.ids = job.ids
    BY <1>0, AgainIs
  <1>6. Releasable(ep) => Releasable(ep')
    BY <1>2 DEF Releasable
  <1>. QED BY <1>1, <1>2, <1>3, <1>4, <1>5, <1>6, JobStep, Zenon

LEMMA AdmitStep ==
    ASSUME EndpointInvariant, NEW s \in Streams, s \in ep.ins, ep.cls[s] = "new", net[s].q # <<>>,
           Info[s].kind = "data", NEW c \in Conns, NEW h \in {{}, {"send"}},
           ep' = PushEvent(Register([ep EXCEPT !.cls[s] = "wt"], s, h), Ev("opened", c, s, 0)),
           net' = [net EXCEPT ![s].q = Tail(@)], Again(s), dgs' = dgs
    PROVE  EndpointInvariant'
  <1>0. /\ Sane(ep) /\ NetOK /\ JobOK /\ DOMAIN ep = Fields /\ ep.cls \in [Streams -> Classes]
        /\ s \notin ep.own /\ ep.ins \subseteq Streams /\ ep.own \subseteq Streams
        /\ ep.half \in [Streams -> Halves]
    BY DEF EndpointInvariant, Sane, Typed, Sorted
  <1>. DEFINE f == Register([ep EXCEPT !.cls[s] = "wt"], s, h)
  <1>1. Sane(f)
    BY <1>0, AdmitSane
  <1>2. /\ f.ins = ep.ins /\ f.own = ep.own /\ f.idx = ep.idx \cup {s} /\ f.half = [ep.half EXCEPT ![s] = h]
        /\ f.paused = ep.paused /\ f.phase = ep.phase /\ f.waiters = ep.waiters
        /\ f.events = ep.events /\ f.tokens = ep.tokens /\ f.cls = [ep.cls EXCEPT ![s] = "wt"]
    BY <1>0 DEF Fields, Register
  <1>. HIDE DEF f
  <1>3. Sane(ep') /\ Keeps(f, ep') /\ Alike(f, ep') /\ ep'.paused = f.paused
    <2>1. ep' = PushEvent(f, Ev("opened", c, s, 0)) /\ "opened" \in Kinds
      BY DEF f, Kinds
    <2>. QED BY <1>1, <2>1, PushKeeps
  <1>4. /\ ep'.ins = ep.ins /\ ep'.own = ep.own /\ ep'.idx = ep.idx \cup {s} /\ ep'.half[s] = h
        /\ ep'.paused = ep.paused /\ ep'.phase = ep.phase /\ ep'.waiters = ep.waiters
        /\ ep'.cls[s] = "wt"
        /\ \A t \in Streams \ {s} : ep'.cls[t] = ep.cls[t] /\ ep'.half[t] = ep.half[t]
    BY <1>0, <1>2, <1>3 DEF Alike
  <1>5. NetShrinks /\ net'[s].q = Tail(net[s].q)
    <2>1. DOMAIN net = Streams /\ net[s].q \in Seq(Frames \cup {"head", "b"})
      BY <1>0 DEF NetOK, NetTyped
    <2>2. Tail(net[s].q) \in Seq(Frames \cup {"head", "b"})
      BY <2>1
    <2>3. net' = [net EXCEPT ![s].q = Tail(net[s].q)]
      BY <2>1
    <2>. QED BY <1>0, <2>2, <2>3, NetTaken
  <1>6. NetOK'
    <2>1. NetTyped' /\ DOMAIN dgs' = Conns
      BY <1>0, <1>5 DEF NetOK, NetShrinks
    <2>2. ASSUME NEW t \in Streams
          PROVE  /\ net'[t].end = "reset" => net'[t].q = <<>>
                 /\ Info[t].kind = "data" /\ Info[t].local /\ net'[t].q # <<>> => ep'.cls[t] = "mine"
      <3>1. CASE t = s
        <4>1. ~Local(ep, s)
          BY <1>0 DEF Sane, Sorted
        <4>2. ~Info[s].local
          BY <4>1 DEF Local
        <4>. QED BY <1>5, <3>1, <4>2, Zenon DEF NetShrinks
      <3>2. CASE t # s
        BY <1>0, <1>4, <1>5, <3>2 DEF NetOK, NetShrinks
      <3>. QED BY <3>1, <3>2
    <2>3. ASSUME NEW t \in ep'.ins \cup ep'.own,
                 ep'.cls[t] \in {"wt", "mine"} /\ (ep'.half[t] = {"recv"} \/ t \notin ep'.idx)
          PROVE  Dead(t)'
      <3>1. t # s
        BY <1>4, <2>3
      <3>2. t \in Streams /\ t \in ep.ins \cup ep.own
        BY <1>0, <1>4
      <3>3. ep.cls[t] \in {"wt", "mine"} /\ (ep.half[t] = {"recv"} \/ t \notin ep.idx)
        BY <1>4, <2>3, <3>1, <3>2
      <3>4. Dead(t)
        BY <1>0, <3>2, <3>3 DEF NetOK
      <3>. QED BY <1>5, <3>2, <3>4 DEF NetShrinks
    <2>. QED BY <2>1, <2>2, <2>3, Zenon DEF NetOK
  <1>7. ASSUME NEW t \in Streams, Pending(t)'
        PROVE  Pending(t)
    <2>1. net[t].q # <<>>
      BY <1>5, <1>7, Zenon DEF NetShrinks, Pending
    <2>2. CASE t = s
      BY <2>1, <2>2 DEF Pending
    <2>3. CASE t # s
      BY <1>4, <1>7, <2>1, <2>3 DEF Pending
    <2>. QED BY <2>2, <2>3
  <1>8. /\ JobOK' /\ job'.c = job.c /\ job'.dg = job.dg
        /\ job.wake <= job'.wake /\ job'.ids = job.ids
    BY <1>0, AgainIs
  <1>9. Releasable(ep) => Releasable(ep')
    <2>1. Releasable(ep) => Releasable(f)
      BY <1>2 DEF Releasable
    <2>. QED BY <1>1, <1>3, <2>1, StaysReleasable
  <1>. QED BY <1>3, <1>4, <1>6, <1>7, <1>8, <1>9, JobStep, Zenon

LEMMA ClassifyStep ==
    ASSUME EndpointInvariant, NEW s \in Streams, Classify(s)
    PROVE  EndpointInvariant'
  <1>. DEFINE ss == ep.ses[job.c]
  <1>0. Sane(ep) /\ NetOK /\ job.c = Info[s].c /\ Info[s].c \in Conns /\ dgs' = dgs
    BY StreamsAssumption DEF EndpointInvariant, Classify, Turn
  <1>1. s \in ep.ins /\ ep.cls[s] = "new"
    BY DEF Classify, Branch
  <1>2. CASE /\ net[s].q = <<>>
             /\ ep' = IF net[s].end = "open" THEN ep ELSE RetireIn(ep, s)
             /\ Finished(s) /\ UNCHANGED net
    <2>1. Keeps(ep, ep)
      BY <1>0, KeepsItself DEF Sane
    <2>2. Sane(ep') /\ Keeps(ep, ep')
      BY <1>0, <1>1, <1>2, <2>1, RetireKeeps
    <2>3. ~Pending(s)'
      BY <1>2 DEF Pending
    <2>. QED BY <1>0, <1>2, <2>2, <2>3, NetSame, DoneStep
  <1>3. CASE Info[s].kind = "connect" /\ ep' = [ep EXCEPT !.cls[s] = "connect"] /\ Again(s) /\ net' = net
    BY <1>0, <1>1, <1>3, LatchStep
  <1>4. CASE Reject(s)
    BY <1>0, <1>1, <1>4, RejectStep
  <1>5. CASE /\ net[s].q # <<>> /\ Info[s].kind = "data"
             /\ ep' = PushEvent(Register([ep EXCEPT !.cls[s] = "wt"], s,
                                          IF Info[s].bidi THEN {} ELSE {"send"}),
                                 Ev("opened", job.c, s, 0))
             /\ net' = [net EXCEPT ![s].q = Tail(@)]
             /\ Again(s)
    <2>1. PICK h \in {{}, {"send"}} : h = IF Info[s].bidi THEN {} ELSE {"send"}
      OBVIOUS
    <2>2. ep' = PushEvent(Register([ep EXCEPT !.cls[s] = "wt"], s, h), Ev("opened", Info[s].c, s, 0))
      BY <1>0, <1>5, <2>1
    <2>. QED BY <1>0, <1>1, <1>5, <2>2, AdmitStep
  <1>. QED BY <1>2, <1>3, <1>4, <1>5 DEF Classify

LEMMA RestOf ==
    ASSUME NEW S, NEW q \in Seq(S), NEW n \in 0..Len(q)
    PROVE  /\ SubSeq(q, n + 1, Len(q)) \in Seq(S)
           /\ n = Len(q) => SubSeq(q, n + 1, Len(q)) = <<>>
           /\ q = <<>> => SubSeq(q, n + 1, Len(q)) = <<>>
  <1>1. Len(q) \in Nat
    OBVIOUS
  <1>2. SubSeq(q, n + 1, Len(q)) \in Seq(S)
    OBVIOUS
  <1>3. ASSUME n = Len(q) PROVE SubSeq(q, n + 1, Len(q)) = <<>>
    BY <1>1, <1>3
  <1>. QED BY <1>1, <1>2, <1>3

LEMMA RecvDoneKeeps ==
    ASSUME NEW e, Sane(e), NEW s \in e.ins \cup e.own, NEW k \in Kinds, NEW c \in Conns, NEW n \in Int
    PROVE  LET f == RecvOver(PushEvent(e, Ev(k, c, s, n)), s)
           IN  Sane(f) /\ Keeps(e, f)
  <1>. DEFINE d == PushEvent(e, Ev(k, c, s, n))
              f == RecvOver(d, s)
  <1>0. s \in Streams
    BY DEF Sane, Typed
  <1>1. Sane(d) /\ Keeps(e, d) /\ Alike(e, d)
    BY <1>0, PushKeeps
  <1>. HIDE DEF d
  <1>2. s \in d.ins \cup d.own
    BY <1>1 DEF Alike
  <1>3. Sane(f) /\ Keeps(d, f)
    BY <1>1, <1>2, RecvOverKeeps
  <1>. HIDE DEF f
  <1>4. Keeps(e, f)
    BY <1>1, <1>3, KeepsOn DEF Sane
  <1>. QED BY <1>3, <1>4 DEF f, d

LEMMA ReadPayloadStep ==
    ASSUME EndpointInvariant, NEW s \in Streams, ReadPayload(s)
    PROVE  EndpointInvariant'
  <1>. DEFINE c == Info[s].c
              limit == Room(ep, c, s)
              q == net[s].q
              n == Min({limit, Len(q)})
              over == q = <<>> /\ net[s].end # "open"
              fin == net[s].end = "fin" /\ n = Len(q) /\ (n < limit \/ over)
              e1 == IF n > 0 \/ fin THEN PushEvent(ep, Ev("data", c, s, n)) ELSE ep
              r == SubSeq(q, n + 1, Len(q))
  <1>0. /\ Sane(ep) /\ NetOK /\ JobOK /\ job.c = c /\ c \in Conns
        /\ dgs' = dgs /\ DOMAIN net = Streams /\ q \in Seq(Frames \cup {"head", "b"})
    BY StreamsAssumption DEF EndpointInvariant, ReadPayload, Turn, NetOK, NetTyped
  <1>1. s \in ep.ins \cup ep.own
    BY DEF ReadPayload, Branch
  <1>2. limit \in Nat /\ (~Releasable(ep) => limit > 0)
    BY <1>0, RoomIs
  <1>3. n = IF limit <= Len(q) THEN limit ELSE Len(q)
    <2>1. Len(q) \in Nat
      BY <1>0
    <2>. HIDE DEF limit, q
    <2>. QED BY <1>2, <2>1, LeastOfTwo
  <1>4. \/ /\ limit = 0 /\ ~over
           /\ ep' = WaitForCapacity(ep, c)
           /\ Finished(s) /\ UNCHANGED net
        \/ /\ limit > 0 \/ over
           /\ net' = [net EXCEPT ![s].q = SubSeq(@, n + 1, Len(@))]
           /\ ep' = CASE fin -> RecvOver(e1, s)
                       [] net[s].end = "reset" ->
                            RecvOver(PushEvent(ep, Ev("reset", c, s, 0)), s)
                       [] OTHER -> e1
           /\ IF n > 0 /\ ~fin THEN Again(s) ELSE Finished(s)
    BY <1>0 DEF ReadPayload
  <1>5. CASE /\ limit = 0 /\ ~over
             /\ ep' = WaitForCapacity(ep, c)
             /\ Finished(s) /\ UNCHANGED net
    <2>1. Releasable(ep)
      BY <1>2, <1>5
    <2>2. JobOK'
      BY <1>0, <1>5, FinishedIs
    <2>. QED BY <1>0, <1>5, <2>1, <2>2, ParkStep
  <1>6. CASE /\ limit > 0 \/ over
             /\ net' = [net EXCEPT ![s].q = SubSeq(@, n + 1, Len(@))]
             /\ ep' = CASE fin -> RecvOver(e1, s)
                         [] net[s].end = "reset" ->
                              RecvOver(PushEvent(ep, Ev("reset", c, s, 0)), s)
                         [] OTHER -> e1
             /\ IF n > 0 /\ ~fin THEN Again(s) ELSE Finished(s)
    <2>1. Len(q) \in Nat /\ n \in Nat /\ n \in 0..Len(q)
      <3>1. Len(q) \in Nat
        BY <1>0
      <3>. HIDE DEF limit, q, n
      <3>. QED BY <1>2, <1>3, <3>1
    <2>2. /\ r \in Seq(Frames \cup {"head", "b"}) /\ (n = Len(q) => r = <<>>)
          /\ (q = <<>> => r = <<>>)
      <3>. HIDE DEF q, n
      <3>. QED BY <1>0, <2>1, RestOf
    <2>3. net' = [net EXCEPT ![s].q = r]
      <3>. HIDE DEF n
      <3>. QED BY <1>0, <1>6
    <2>4. NetShrinks /\ net'[s].q = r
      <3>. HIDE DEF r
      <3>. QED BY <1>0, <2>2, <2>3, NetTaken
    <2>5. ~(n > 0 /\ ~fin) => r = <<>>
      <3>1. CASE fin
        BY <2>2, <3>1
      <3>2. CASE ~(n > 0)
        <4>1. over => r = <<>>
          BY <2>2
        <4>2. limit > 0 => n = Len(q)
          <5>. HIDE DEF limit, q, n
          <5>. QED BY <1>2, <1>3, <2>1, <3>2
        <4>. QED BY <1>6, <2>2, <4>1, <4>2
      <3>. QED BY <3>1, <3>2
    <2>6. Sane(ep') /\ Keeps(ep, ep')
      <3>0. "data" \in Kinds /\ "reset" \in Kinds /\ n \in Int /\ 0 \in Int /\ s \in Streams \cup {None}
            /\ c \in Conns \cup {None}
        BY <1>0, <2>1 DEF Kinds
      <3>. DEFINE d == PushEvent(ep, Ev("data", c, s, n))
                  g == RecvOver(d, s)
                  h == RecvOver(PushEvent(ep, Ev("reset", c, s, 0)), s)
      <3>1. Sane(d) /\ Keeps(ep, d) /\ Alike(ep, d)
        <4>. HIDE DEF n
        <4>. QED BY <1>0, <3>0, PushKeeps
      <3>2. Sane(g) /\ Keeps(ep, g)
        <4>. HIDE DEF n
        <4>. QED BY <1>0, <1>1, <3>0, RecvDoneKeeps
      <3>3. Sane(h) /\ Keeps(ep, h)
        BY <1>0, <1>1, <3>0, RecvDoneKeeps
      <3>4. Keeps(ep, ep)
        BY <1>0, KeepsItself DEF Sane
      <3>5. fin => e1 = d
        OBVIOUS
      <3>6. e1 = d \/ e1 = ep
        OBVIOUS
      <3>7. CASE fin
        <4>1. net[s].end # "reset"
          BY <3>7
        <4>2. ep' = RecvOver(e1, s)
          <5>. HIDE DEF e1, fin
          <5>. QED BY <1>6, <3>7, <4>1
        <4>3. ep' = g
          <5>. HIDE DEF e1, d, fin
          <5>. QED BY <3>5, <3>7, <4>2
        <4>. HIDE DEF g
        <4>. QED BY <3>2, <4>3
      <3>8. CASE ~fin /\ net[s].end = "reset"
        <4>1. ep' = h
          <5>. HIDE DEF e1, fin
          <5>. QED BY <1>6, <3>8
        <4>. HIDE DEF h
        <4>. QED BY <3>3, <4>1
      <3>9. CASE ~fin /\ net[s].end # "reset"
        <4>1. ep' = e1
          <5>. HIDE DEF e1, fin
          <5>. QED BY <1>6, <3>9
        <4>. HIDE DEF e1, d
        <4>. QED BY <1>0, <3>1, <3>4, <3>6, <4>1
      <3>. QED BY <3>7, <3>8, <3>9
    <2>7. CASE n > 0 /\ ~fin
      <3>1. Again(s)
        BY <1>6, <2>7
      <3>. QED BY <1>0, <2>4, <2>6, <3>1, AgainStep
    <2>8. CASE ~(n > 0 /\ ~fin)
      <3>1. Finished(s)
        BY <1>6, <2>8
      <3>2. ~Pending(s)'
        BY <2>4, <2>5, <2>8 DEF Pending
      <3>. QED BY <1>0, <2>4, <2>6, <3>1, <3>2, DoneStep
    <2>. QED BY <2>7, <2>8
  <1>. QED BY <1>4, <1>5, <1>6

LEMMA PumpEndsStep ==
    ASSUME EndpointInvariant, PumpEnds
    PROVE  EndpointInvariant'
  <1>0. /\ Sane(ep) /\ NetOK /\ JobOK /\ job.c \in Conns /\ ~job.dg /\ job.ids = {}
        /\ net' = net /\ dgs' = dgs /\ job' = [Resting EXCEPT !.wake = job.wake]
    BY DEF EndpointInvariant, PumpEnds, JobOK
  <1>1. Sane(ep') /\ Keeps(ep, ep')
    <2>1. Keeps(ep, ep)
      BY <1>0, KeepsItself DEF Sane
    <2>2. ep' \in {ep, CloseConn(ep, job.c), Cleanup(ep, job.c)}
      BY DEF PumpEnds
    <2>3. CASE ep' = ep
      BY <1>0, <2>1, <2>3
    <2>4. CASE ep' = CloseConn(ep, job.c)
      BY <1>0, <2>4, CloseConnKeeps
    <2>5. CASE ep' = Cleanup(ep, job.c)
      BY <1>0, <2>5, CleanupKeeps
    <2>. QED BY <2>2, <2>3, <2>4, <2>5
  <1>2. JobOK' /\ job.wake <= job'.wake
    BY <1>0 DEF JobOK, Resting
  <1>3. NetShrinks /\ DatagramsShrink
    BY <1>0, NetSame
  <1>. QED BY <1>0, <1>1, <1>2, <1>3, KeptStep

LEMMA NextWaiterStep ==
    ASSUME EndpointInvariant, NextWaiter
    PROVE  EndpointInvariant'
  <1>0. /\ Sane(ep) /\ NetOK /\ JobOK /\ Placed /\ WakesLeft /\ job.c = None /\ job.wake > 0
        /\ net' = net /\ dgs' = dgs /\ None \notin Conns /\ \A s \in Streams : Info[s].c \in Conns
    BY StreamsAssumption DEF EndpointInvariant, NextWaiter
  <1>1. ep.waiters \in Seq(Conns) /\ ep.events \in Seq(Event) /\ job.wake \in Nat
    BY <1>0 DEF Sane, Typed, JobOK
  <1>2. CASE ep.waiters = <<>> \/ (job.wake < WakeMax /\ Len(ep.events) >= EventCap)
    <2>1. ep' = ep /\ job' = Resting
      BY <1>2 DEF NextWaiter
    <2>2. JobOK' /\ job'.wake = 0
      BY <2>1 DEF JobOK, Resting
    <2>3. NetOK'
      BY <1>0, <2>1, SameNetStays
    <2>4. \A d : Waits(d)' <=> Waits(d)
      BY <2>1 DEF Waits
    <2>5. ASSUME NEW s \in Streams, Pending(s)' PROVE Pending(s)
      BY <1>0, <2>1, <2>5 DEF Pending
    <2>6. Placed'
      BY <1>0, <2>1, <2>4, <2>5, PlacedOn, Zenon
    <2>7. WakesLeft'
      <3>1. Releasable(ep) \/ Len(ep.waiters) <= 0
        <4>1. CASE ep.waiters = <<>>
          BY <4>1
        <4>2. CASE Len(ep.events) >= EventCap
          BY <1>1, <4>2, EventsAssumption DEF Releasable
        <4>. QED BY <1>2, <4>1, <4>2
      <3>. QED BY <1>0, <2>1, <2>2, <3>1 DEF WakesLeft
    <2>. QED BY <1>0, <2>1, <2>2, <2>3, <2>6, <2>7, Zenon DEF EndpointInvariant
  <1>3. CASE ~(ep.waiters = <<>> \/ (job.wake < WakeMax /\ Len(ep.events) >= EventCap))
    <2>. DEFINE c == Head(ep.waiters)
    <2>1. /\ ep' = [ep EXCEPT !.waiters = Tail(@)] /\ ep.waiters # <<>>
          /\ job' = IF ep.phase[c] = "gone" THEN [job EXCEPT !.wake = @ - 1]
                    ELSE Woken(c, job.wake - 1)
      BY <1>3 DEF NextWaiter
    <2>2. /\ SameTables(ep, ep') /\ ep'.paused = ep.paused /\ ep'.events = ep.events
          /\ ep'.tokens = ep.tokens /\ ep'.waiters = Tail(ep.waiters)
      <3>1. DOMAIN ep = Fields
        BY <1>0 DEF Sane, Typed
      <3>. QED BY <2>1, <3>1 DEF SameTables, Fields
    <2>3. /\ c \in Conns /\ ep'.waiters \in Seq(Conns) /\ Len(ep'.waiters) = Len(ep.waiters) - 1
          /\ Distinct(ep'.waiters)
          /\ \A y : Contains(ep.waiters, y) => y = c \/ Contains(ep'.waiters, y)
      <3>1. PICK q : q = ep.waiters
        OBVIOUS
      <3>2. PICK r : r = Tail(q)
        OBVIOUS
      <3>3. q \in Seq(Conns) /\ q # <<>> /\ Distinct(q)
        BY <1>0, <1>1, <2>1, <3>1 DEF WakesLeft
      <3>4. /\ Head(q) \in Conns /\ r \in Seq(Conns) /\ Len(r) = Len(q) - 1 /\ Distinct(r)
            /\ \A y : Contains(q, y) => y = Head(q) \/ Contains(r, y)
        BY <3>2, <3>3, FirstInLine
      <3>5. ep'.waiters = r
        BY <2>2, <3>1, <3>2
      <3>. QED BY <3>1, <3>4, <3>5, Zenon
    <2>. HIDE DEF c
    <2>4. Sane(ep')
      <3>1. IsFiniteSet(DOMAIN ep.tokens)
        BY <1>0 DEF Sane, Typed
      <3>2. ep'.events \in Seq(Event) /\ IsFiniteSet(DOMAIN ep'.tokens)
        BY <1>1, <2>2, <3>1
      <3>. QED BY <1>0, <2>2, <2>3, <3>2, SameTablesSane
    <2>5. NetOK'
      BY <1>0, <2>2, SameNetStays DEF SameTables
    <2>6. /\ JobOK' /\ job'.wake = job.wake - 1
          /\ ep.phase[c] # "gone" => job'.c = c /\ job'.dg
      <3>1. CASE ep.phase[c] = "gone"
        BY <1>0, <1>1, <2>1, <3>1 DEF JobOK
      <3>2. CASE ep.phase[c] # "gone"
        BY <1>0, <1>1, <2>1, <2>3, <3>2 DEF JobOK, Woken, Resting
      <3>. QED BY <3>1, <3>2
    <2>7. ASSUME NEW s \in Streams, Pending(s)' PROVE Pending(s)
      BY <1>0, <2>2, <2>7 DEF Pending, SameTables
    <2>8. Placed'
      <3>1. ASSUME NEW d \in Conns, Waits(d), ep'.phase[d] = "up"
            PROVE  Waits(d)' \/ (job'.c = d /\ job'.dg)
        <4>1. ep.phase[d] # "gone"
          BY <2>2, <3>1 DEF SameTables
        <4>2. d = c \/ Waits(d)'
          BY <2>3, <3>1, Zenon DEF Waits
        <4>. QED BY <2>6, <4>1, <4>2, Zenon
      <3>2. ep'.phase = ep.phase
        BY <2>2 DEF SameTables
      <3>. QED BY <1>0, <2>7, <3>1, <3>2, PlacedOn, Zenon
    <2>9. WakesLeft'
      <3>1. Len(ep.waiters) \in Nat
        BY <1>1
      <3>2. Releasable(ep') \/ Len(ep'.waiters) <= job'.wake
        <4>1. CASE Releasable(ep)
          BY <2>2, <4>1 DEF Releasable
        <4>2. CASE ~Releasable(ep)
          BY <1>0, <1>1, <2>3, <2>6, <3>1, <4>2 DEF WakesLeft
        <4>. QED BY <4>1, <4>2
      <3>. QED BY <2>3, <3>2 DEF WakesLeft
    <2>. QED BY <2>4, <2>5, <2>6, <2>8, <2>9, Zenon DEF EndpointInvariant
  <1>. QED BY <1>2, <1>3

LEMMA DrainStopsStep ==
    ASSUME EndpointInvariant, DrainStops
    PROVE  EndpointInvariant'
  <1>. DEFINE c == job.c
              full == ~EventSlots(ep, 1) \/ Room(ep, c, None) = 0
  <1>0. /\ Sane(ep) /\ NetOK /\ JobOK /\ c \in Conns /\ job.dg /\ net' = net /\ dgs' = dgs
        /\ (full \/ dgs[c].wait = 0) /\ ep' = IF full THEN WaitForCapacity(ep, c) ELSE ep
        /\ job' = Snapshot(ep', job)
    BY DEF EndpointInvariant, DrainStops, JobOK
  <1>1. DOMAIN job = JobFields /\ job.slots \in 0..2 /\ job.wake \in Nat
    BY <1>0 DEF JobOK, JobFields
  <1>2. CASE full
    <2>1. Releasable(ep)
      <3>1. CASE ~EventSlots(ep, 1)
        <4>1. 1 \in 0..2
          OBVIOUS
        <4>. QED BY <1>0, <3>1, <4>1, FullQueue
      <3>2. CASE Room(ep, c, None) = 0
        BY <1>0, <3>2, RoomIs
      <3>. QED BY <1>2, <3>1, <3>2
    <2>2. JobOK'
      <3>1. PICK f : f = ep'
        OBVIOUS
      <3>2. PICK i : i = job
        OBVIOUS
      <3>3. PICK k : k = Snapshot(f, i)
        OBVIOUS
      <3>4. Sane(f)
        <4>1. Distinct(ep.waiters)
          BY DEF EndpointInvariant, WakesLeft
        <4>2. Sane(WaitForCapacity(ep, c))
          BY <1>0, <4>1, WaitIs
        <4>. QED BY <1>0, <1>2, <3>1, <4>2
      <3>5. DOMAIN k = JobFields /\ k.c = i.c /\ k.dg = FALSE /\ k.slots = i.slots /\ k.wake = i.wake
        BY <1>1, <3>2, <3>3, <3>4, SnapshotHas, Zenon
      <3>6. job' = k
        BY <1>0, <3>1, <3>2, <3>3
      <3>. QED BY <1>0, <1>1, <3>2, <3>5, <3>6 DEF JobOK, JobFields
    <2>. QED BY <1>0, <1>2, <2>1, <2>2, ParkStep
  <1>3. CASE ~full
    <2>1. ep' = ep /\ dgs[c].wait = 0
      BY <1>0, <1>3
    <2>2. NetOK'
      BY <1>0, <2>1, SameNetStays
    <2>3. ASSUME NEW s \in Streams, Pending(s)' PROVE Pending(s)
      BY <1>0, <2>1, <2>3 DEF Pending
    <2>4. job.wake <= job.wake /\ ~(dgs'[c].wait > 0)
      BY <1>0, <1>1, <2>1
    <2>5. Sane(ep') /\ ep'.waiters = ep.waiters /\ (Releasable(ep) => Releasable(ep'))
      BY <1>0, <2>1
    <2>6. job.c \in {None, c}
      OBVIOUS
    <2>7. /\ \A s \in Streams : Info[s].c # c /\ ep'.phase[Info[s].c] = "up" /\ Pending(s)' =>
                                  ep.phase[Info[s].c] = "up" /\ Pending(s)
          /\ \A d \in Conns \ {c} : ep'.phase[d] = "up" /\ dgs'[d].wait > 0 =>
                                      ep.phase[d] = "up" /\ dgs[d].wait > 0
      BY <1>0, <2>1, <2>3, Zenon
    <2>. HIDE DEF c
    <2>8. job.c = c
      BY DEF c
    <2>. QED BY <1>0, <1>1, <2>2, <2>4, <2>5, <2>6, <2>7, <2>8, SnapshotStep, Zenon
  <1>. QED BY <1>2, <1>3

LEMMA DrainDatagramStep ==
    ASSUME EndpointInvariant, DrainDatagram
    PROVE  EndpointInvariant'
  <1>. DEFINE c == job.c
  <1>0. /\ Sane(ep) /\ NetOK /\ JobOK /\ c \in Conns /\ net' = net
        /\ dgs[c].wait > 0 /\ dgs' = [dgs EXCEPT ![c].wait = @ - 1] /\ DOMAIN dgs = Conns
    BY DEF EndpointInvariant, DrainDatagram, JobOK, NetOK
  <1>1. DOMAIN job = JobFields /\ job.slots \in 0..2 /\ job.wake \in Nat /\ job.wake <= job.wake
    BY <1>0 DEF JobOK, JobFields
  <1>2. NetShrinks /\ DatagramsShrink
    <2>1. NetShrinks
      BY <1>0 DEF NetOK, NetShrinks, NetTyped, Dead
    <2>2. DOMAIN dgs' = Conns /\ \A d \in Conns \ {c} : dgs'[d] = dgs[d]
      BY <1>0
    <2>. QED BY <1>0, <2>1, <2>2 DEF DatagramsShrink
  <1>3. CASE job' = job /\ Sane(ep') /\ Keeps(ep, ep')
    <2>1. JobOK' /\ job.wake <= job'.wake
      BY <1>0, <1>1, <1>3 DEF JobOK
    <2>. QED BY <1>2, <1>3, <2>1, KeptStep, Zenon
  <1>4. CASE ep' = CloseConn(ep, c) /\ job' = Snapshot(ep', job)
    <2>1. Sane(ep') /\ Keeps(ep, ep') /\ ep'.phase[c] = "gone"
      BY <1>0, <1>4, CloseConnKeeps
    <2>2. Leaves(ep, ep') /\ ep'.waiters = ep.waiters
      BY <2>1, KeepsLeaves DEF Keeps
    <2>3. NetOK'
      BY <1>0, <1>2, <2>1, <2>2, NetStays DEF DatagramsShrink
    <2>4. Releasable(ep) => Releasable(ep')
      BY <1>0, <2>1, StaysReleasable
    <2>5. ASSUME NEW s \in Streams, ep'.phase[Info[s].c] = "up", Pending(s)'
          PROVE  ep.phase[Info[s].c] = "up" /\ Pending(s)
      BY <1>2, <2>1, <2>2, <2>5, PendingStays
    <2>6. ASSUME NEW d \in Conns, ep'.phase[d] = "up", dgs'[d].wait > 0
          PROVE  ep.phase[d] = "up" /\ dgs[d].wait > 0
      BY <1>2, <2>2, <2>6, Zenon DEF Leaves, DatagramsShrink
    <2>7. job.c \in {None, c} /\ ep'.phase[c] # "up"
      BY <2>1
    <2>. HIDE DEF c
    <2>8. job.c = c
      BY DEF c
    <2>. QED BY <1>0, <1>1, <1>4, <2>1, <2>2, <2>3, <2>4, <2>5, <2>6, <2>7, <2>8, SnapshotStep
  <1>5. CASE ep' = ep /\ job' = job
    <2>1. Keeps(ep, ep)
      BY <1>0, KeepsItself DEF Sane
    <2>. QED BY <1>0, <1>3, <1>5, <2>1
  <1>6. CASE ep' = PushEvent(ep, Ev("dgram", c, None, DatagramLen)) /\ job' = job
    <2>1. "dgram" \in Kinds /\ DatagramLen \in Int /\ None \in Streams \cup {None} /\ c \in Conns \cup {None}
      BY <1>0, LimitsAssumption DEF Kinds
    <2>2. Sane(ep') /\ Keeps(ep, ep') /\ Alike(ep, ep')
      BY <1>0, <1>6, <2>1, PushKeeps
    <2>. QED BY <1>3, <1>6, <2>2
  <1>. QED BY <1>4, <1>5, <1>6 DEF DrainDatagram

LEMMA PumpStep == ASSUME EndpointInvariant, Pump PROVE EndpointInvariant'
  BY DrainStopsStep, DrainDatagramStep, PumpEndsStep, NextWaiterStep, ReadFrameStep, ReadBlockedStep,
     ReadConnectEndStep, ReadNothingStep, ReadParksStep, ClassifyStep, ReadPayloadStep, Zenon DEF Pump

-----------------------------------------------------------------------------
(* What quinn reports, one lemma for an action. *)

\* A handler runs and c is driven.
LEMMA KeptDrive ==
    ASSUME EndpointInvariant, NEW c \in Conns, Polling(c), Sane(ep'), Keeps(ep, ep'), NetShrinks,
           dgs' = dgs, job' = Drive(c)
    PROVE  EndpointInvariant'
  <1>0. Sane(ep) /\ NetOK /\ Leaves(ep, ep') /\ ep'.waiters = ep.waiters /\ DOMAIN dgs' = Conns
    BY KeepsLeaves DEF EndpointInvariant, Keeps, NetOK
  <1>1. NetOK'
    BY <1>0, NetStays
  <1>2. Releasable(ep) => Releasable(ep')
    BY <1>0, StaysReleasable
  <1>3. ASSUME NEW s \in Streams, ep'.phase[Info[s].c] = "up", Pending(s)'
        PROVE  ep.phase[Info[s].c] = "up" /\ Pending(s)
    BY <1>0, <1>3, PendingStays
  <1>4. ASSUME NEW d \in Conns, ep'.phase[d] = "up", dgs'[d].wait > 0
        PROVE  ep.phase[d] = "up" /\ dgs[d].wait > 0
    BY <1>0, <1>4, Zenon DEF Leaves
  <1>5. \A d \in Conns \ {c} : ep'.phase[d] = "up" /\ dgs'[d].wait > 0 =>
                                 ep.phase[d] = "up" /\ dgs[d].wait > 0
    BY <1>4
  <1>. QED BY <1>0, <1>1, <1>2, <1>3, <1>5, DriveStep, Zenon

\* A handler runs between two calls.
LEMMA KeptCall ==
    ASSUME EndpointInvariant, Sane(ep'), Keeps(ep, ep'), NetShrinks, UNCHANGED <<dgs, job>>
    PROVE  EndpointInvariant'
  <1>0. JobOK /\ NetOK
    BY DEF EndpointInvariant
  <1>1. JobOK' /\ job.wake <= job'.wake
    BY <1>0 DEF JobOK
  <1>2. DatagramsShrink
    BY <1>0 DEF DatagramsShrink, NetOK
  <1>. QED BY <1>1, <1>2, KeptStep, Zenon

LEMMA NewConnectionStep ==
    ASSUME EndpointInvariant, NEW c \in Conns, NewConnection(c)
    PROVE  EndpointInvariant'
  <1>0. /\ Sane(ep) /\ NetOK /\ DOMAIN ep = Fields /\ ep.phase \in [Conns -> Phases]
        /\ ep.phase[c] = "absent" /\ UNCHANGED <<net, dgs, job>> /\ Len(ep.events) \in Nat
        /\ \A s \in Streams : Info[s].c \in Conns
    BY StreamsAssumption DEF EndpointInvariant, NewConnection, Sane, Typed
  <1>1. /\ DOMAIN ep' = Fields /\ ep'.server = ep.server
        /\ ep'.phase = [ep.phase EXCEPT ![c] = "handshake"]
        /\ ep'.hs = ep.hs \cup {c} /\ ep'.sess = ep.sess \cup {c}
        /\ ep'.str = ep.str /\ ep'.ses = ep.ses /\ ep'.ins = ep.ins /\ ep'.cls = ep.cls
        /\ ep'.own = ep.own /\ ep'.idx = ep.idx /\ ep'.half = ep.half /\ ep'.paused = ep.paused
        /\ ep'.events = ep.events /\ ep'.tokens = ep.tokens /\ ep'.waiters = ep.waiters
    BY <1>0 DEF NewConnection, Fields
  <1>2. /\ ep'.phase[c] = "handshake" /\ ep'.phase \in [Conns -> Phases]
        /\ \A d \in Conns \ {c} : ep'.phase[d] = ep.phase[d]
    BY <1>0, <1>1 DEF Phases
  <1>3. Sane(ep')
    <2>1. Typed(ep')
      BY <1>0, <1>1, <1>2 DEF Sane, Typed
    <2>2. Reserved(ep')
      <3>1. ep.idx \subseteq Streams
        BY <1>0 DEF Sane, Typed
      <3>. QED BY <1>0, <1>1, <1>2, <3>1 DEF Sane, Reserved
    <2>3. Quiet(ep')
      BY <1>0, <1>1, <1>2 DEF Sane, Quiet
    <2>4. Bounded(ep')
      BY <1>0, <1>1, Zenon DEF Sane, Bounded
    <2>5. Sorted(ep')
      BY <1>0, <1>1 DEF Sane, Sorted, Local
    <2>. QED BY <2>1, <2>2, <2>3, <2>4, <2>5 DEF Sane
  <1>4. Keeps(ep, ep')
    BY <1>0, <1>1, <1>2 DEF Keeps
  <1>. QED BY <1>0, <1>3, <1>4, NetSame, KeptCall

LEMMA AttachRefusedStep ==
    ASSUME EndpointInvariant, NEW c \in Conns, AttachRefused(c)
    PROVE  EndpointInvariant'
  <1>0. Sane(ep) /\ NetOK /\ ep' = CloseConn(ep, c) /\ UNCHANGED <<net, dgs, job>>
    BY DEF EndpointInvariant, AttachRefused
  <1>1. Sane(ep') /\ Keeps(ep, ep')
    BY <1>0, CloseConnKeeps
  <1>. QED BY <1>0, <1>1, NetSame, KeptCall

\* on_connected: the connection has no session yet.
LEMMA ConnectedSane ==
    ASSUME NEW e, Sane(e), NEW c \in Conns, e.phase[c] = "handshake", NEW x \in Streams \cup {None},
           x # None => ~e.server /\ Info[x].kind = "connect" /\ Info[x].c = c
    PROVE  Sane([e EXCEPT !.phase[c] = "up", !.ses[c].primary = x])
  <1>. DEFINE f == [e EXCEPT !.phase[c] = "up", !.ses[c].primary = x]
              a == e.ses[c]
              b == [a EXCEPT !.primary = x]
  <1>0. /\ DOMAIN e = Fields /\ e.phase \in [Conns -> Phases] /\ DOMAIN e.ses = Conns
        /\ SessionTyped(a) /\ ~a.est /\ a.extras = {} /\ a.pend = {}
        /\ \A s \in Streams : Info[s].c \in Conns
    BY StreamsAssumption DEF Sane, Typed, Quiet, Bounded
  <1>1. /\ DOMAIN f = Fields /\ f.server = e.server /\ f.phase = [e.phase EXCEPT ![c] = "up"]
        /\ f.hs = e.hs /\ f.sess = e.sess /\ f.ses = [e.ses EXCEPT ![c] = b]
        /\ f.str = e.str /\ f.ins = e.ins /\ f.cls = e.cls
        /\ f.own = e.own /\ f.idx = e.idx /\ f.half = e.half
        /\ f.events = e.events /\ f.tokens = e.tokens /\ f.waiters = e.waiters
    BY <1>0 DEF Fields
  <1>2. /\ f.phase[c] = "up" /\ f.phase \in [Conns -> Phases]
        /\ \A d \in Conns \ {c} : f.phase[d] = e.phase[d]
    BY <1>0, <1>1 DEF Phases
  <1>3. /\ DOMAIN f.ses = Conns /\ f.ses[c] = b /\ \A d \in Conns \ {c} : f.ses[d] = e.ses[d]
    BY <1>0, <1>1
  <1>4. SessionTyped(b) /\ ~b.est /\ b.extras = {} /\ b.pend = {} /\ b.primary = x
    BY <1>0 DEF SessionTyped, SessionFields
  <1>. HIDE DEF f, a, b
  <1>5. Typed(f)
    BY <1>0, <1>1, <1>2, <1>3, <1>4 DEF Sane, Typed
  <1>6. Reserved(f)
    <2>1. e.idx \subseteq Streams
      BY <1>0 DEF Sane, Typed
    <2>. QED BY <1>0, <1>1, <1>2, <2>1 DEF Sane, Reserved
  <1>7. Quiet(f)
    BY <1>0, <1>1, <1>2, <1>3 DEF Sane, Quiet
  <1>8. Bounded(f)
    <2>1. Active(b) <= WtMax
      <3>1. Active(b) = 0
        BY <1>4, FS_EmptySet DEF Active, Live
      <3>. QED BY <3>1, LimitsAssumption
    <2>. QED BY <1>3, <1>4, <2>1 DEF Sane, Bounded
  <1>9. Sorted(f)
    <2>1. \A s \in f.ins : ~Local(f, s) /\ f.cls[s] \in {"new", "connect", "wt"}
      BY <1>1 DEF Sane, Sorted, Local
    <2>2. \A s \in f.own : f.cls[s] = "mine" /\ Info[s].kind = "data" /\ Info[s].local
      BY <1>1 DEF Sane, Sorted
    <2>3. \A s \in Streams : /\ f.cls[s] = "connect" => Info[s].kind = "connect"
                             /\ f.cls[s] = "wt" => Info[s].kind = "data"
      BY <1>1 DEF Sane, Sorted
    <2>4. ASSUME NEW d \in Conns, NEW s \in Resolvable(f.ses[d])
          PROVE  Info[s].kind = "connect" /\ Info[s].c = d /\ (f.server => f.cls[s] = "connect")
      <3>1. CASE d = c
        <4>1. s = x /\ x # None
          BY <1>3, <1>4, <2>4, <3>1 DEF Resolvable, WtConnects
        <4>. QED BY <1>1, <3>1, <4>1
      <3>2. CASE d # c
        BY <1>1, <1>3, <2>4, <3>2 DEF Sane, Sorted
      <3>. QED BY <3>1, <3>2
    <2>. QED BY <2>1, <2>2, <2>3, <2>4, Zenon DEF Sorted
  <1>. QED BY <1>5, <1>6, <1>7, <1>8, <1>9 DEF Sane, f

LEMMA FirstIs ==
    ASSUME NEW c \in Conns
    PROVE  First(c) \in Streams /\ Info[First(c)].kind = "connect" /\ Info[First(c)].c = c
  <1>1. \E s \in Connects(c) : TRUE
    BY StreamsAssumption DEF Connects, Of
  <1>2. First(c) \in Connects(c)
    BY <1>1 DEF First
  <1>. QED BY <1>2 DEF Connects, Of

LEMMA ConnectedStep ==
    ASSUME EndpointInvariant, NEW c \in Conns, Connected(c)
    PROVE  EndpointInvariant'
  <1>0. /\ Sane(ep) /\ NetOK /\ ep.phase[c] = "handshake" /\ Polling(c) /\ job' = Drive(c)
        /\ net' = net /\ dgs' = dgs /\ DOMAIN ep = Fields
    BY DEF EndpointInvariant, Connected, Sane, Typed, Polling
  <1>1. PICK x \in IF ep.server THEN {None} ELSE {None, First(c)} :
          ep' = PushEvent([ep EXCEPT !.phase[c] = "up", !.ses[c].primary = x],
                          Ev("connected", c, None, 0))
    BY Zenon DEF Connected
  <1>2. x \in Streams \cup {None} /\ (x # None => ~ep.server /\ Info[x].kind = "connect" /\ Info[x].c = c)
    BY <1>1, FirstIs
  <1>. DEFINE f == [ep EXCEPT !.phase[c] = "up", !.ses[c].primary = x]
  <1>3. Sane(f)
    BY <1>0, <1>2, ConnectedSane, Zenon
  <1>4. /\ f.ins = ep.ins /\ f.own = ep.own /\ f.cls = ep.cls /\ f.idx = ep.idx /\ f.half = ep.half
        /\ f.paused = ep.paused /\ f.waiters = ep.waiters /\ f.events = ep.events /\ f.tokens = ep.tokens
        /\ \A d \in Conns \ {c} : f.phase[d] = ep.phase[d]
    <2>1. ep.phase \in [Conns -> Phases]
      BY <1>0 DEF Sane, Typed
    <2>. QED BY <1>0, <2>1 DEF Fields
  <1>5. Sane(ep') /\ Keeps(f, ep') /\ Alike(f, ep') /\ ep'.paused = f.paused
    <2>1. "connected" \in Kinds /\ None \in Streams \cup {None} /\ 0 \in Int
      BY DEF Kinds
    <2>2. ep' = PushEvent(f, Ev("connected", c, None, 0))
      BY <1>1
    <2>. HIDE DEF f
    <2>. QED BY <1>3, <2>1, <2>2, PushKeeps
  <1>. HIDE DEF f
  <1>6. /\ ep'.ins = ep.ins /\ ep'.own = ep.own /\ ep'.cls = ep.cls /\ ep'.idx = ep.idx
        /\ ep'.half = ep.half /\ ep'.paused = ep.paused /\ ep'.waiters = ep.waiters
        /\ \A d \in Conns \ {c} : ep'.phase[d] = ep.phase[d]
    BY <1>4, <1>5 DEF Alike
  <1>7. NetOK'
    BY <1>0, <1>6, SameNetStays
  <1>8. Releasable(ep) => Releasable(ep')
    <2>1. Releasable(ep) => Releasable(f)
      BY <1>4 DEF Releasable
    <2>. QED BY <1>3, <1>5, <2>1, StaysReleasable
  <1>9. ASSUME NEW s \in Streams, Info[s].c # c, ep'.phase[Info[s].c] = "up", Pending(s)'
        PROVE  ep.phase[Info[s].c] = "up" /\ Pending(s)
    <2>1. Info[s].c \in Conns \ {c}
      BY <1>9, StreamsAssumption
    <2>2. Pending(s)
      BY <1>0, <1>6, <1>9 DEF Pending
    <2>. QED BY <1>6, <1>9, <2>1, <2>2, Zenon
  <1>10. ASSUME NEW d \in Conns \ {c}, ep'.phase[d] = "up", dgs'[d].wait > 0
         PROVE  ep.phase[d] = "up" /\ dgs[d].wait > 0
    BY <1>0, <1>6, <1>10, Zenon
  <1>. QED BY <1>0, <1>5, <1>6, <1>7, <1>8, <1>9, <1>10, DriveStep, Zenon

\* accept_streams: a stream of the peer enters.
LEMMA AcceptSane ==
    ASSUME NEW e, Sane(e), NEW s \in Streams, ~Local(e, s), e.cls[s] = "none",
           e.phase[Info[s].c] = "up"
    PROVE  Sane([e EXCEPT !.ins = @ \cup {s}, !.cls[s] = "new"])
  <1>. DEFINE f == [e EXCEPT !.ins = @ \cup {s}, !.cls[s] = "new"]
  <1>0. DOMAIN e = Fields /\ e.cls \in [Streams -> Classes] /\ s \notin e.own /\ s \notin e.ins
    BY DEF Sane, Typed, Sorted
  <1>1. /\ DOMAIN f = Fields /\ f.server = e.server /\ f.phase = e.phase /\ f.hs = e.hs
        /\ f.sess = e.sess /\ f.str = e.str /\ f.ses = e.ses /\ f.own = e.own
        /\ f.idx = e.idx /\ f.half = e.half /\ f.events = e.events /\ f.tokens = e.tokens
        /\ f.waiters = e.waiters /\ f.cls = [e.cls EXCEPT ![s] = "new"] /\ f.ins = e.ins \cup {s}
    BY <1>0 DEF Fields
  <1>. HIDE DEF f
  <1>2. /\ f.cls \in [Streams -> Classes] /\ f.cls[s] = "new"
        /\ \A t \in Streams \ {s} : f.cls[t] = e.cls[t]
    BY <1>0, <1>1 DEF Classes
  <1>3. Typed(f)
    BY <1>1, <1>2 DEF Sane, Typed
  <1>4. Reserved(f)
    BY <1>1 DEF Sane, Reserved
  <1>5. Quiet(f)
    BY <1>1 DEF Sane, Quiet
  <1>6. Bounded(f)
    BY <1>1 DEF Sane, Bounded
  <1>7. Sorted(f)
    <2>1. \A t \in f.ins : ~Local(f, t) /\ f.cls[t] \in {"new", "connect", "wt"}
      BY <1>0, <1>1, <1>2 DEF Sane, Typed, Sorted, Local
    <2>2. \A t \in f.own : f.cls[t] = "mine" /\ Info[t].kind = "data" /\ Info[t].local
      BY <1>0, <1>1, <1>2 DEF Sane, Typed, Sorted
    <2>3. \A t \in Streams : /\ f.cls[t] = "connect" => Info[t].kind = "connect"
                             /\ f.cls[t] = "wt" => Info[t].kind = "data"
      BY <1>0, <1>2 DEF Sane, Sorted
    <2>4. ASSUME NEW c \in Conns, NEW t \in Resolvable(f.ses[c])
          PROVE  Info[t].kind = "connect" /\ Info[t].c = c /\ (f.server => f.cls[t] = "connect")
      <3>1. Info[t].kind = "connect" /\ Info[t].c = c /\ (e.server => e.cls[t] = "connect")
        BY <1>1, <2>4 DEF Sane, Sorted
      <3>2. t \in Streams
        BY <1>1, <2>4 DEF Sane, Typed, SessionTyped, Resolvable, WtConnects
      <3>. QED BY <1>1, <1>2, <3>1, <3>2
    <2>. QED BY <2>1, <2>2, <2>3, <2>4, Zenon DEF Sorted
  <1>. QED BY <1>3, <1>4, <1>5, <1>6, <1>7 DEF Sane, f

LEMMA PeerSendsStep ==
    ASSUME EndpointInvariant, NEW s \in Streams, NEW f \in Frames \cup {"head", "b"}, PeerSends(s, f)
    PROVE  EndpointInvariant'
  <1>. DEFINE c == Info[s].c
              g == [ep EXCEPT !.ins = @ \cup {s}, !.cls[s] = "new"]
  <1>0. /\ Sane(ep) /\ NetOK /\ NetTyped /\ c \in Conns /\ Polling(c) /\ ep.phase[c] = "up"
        /\ net[s].end = "open" /\ job' = Drive(c) /\ dgs' = dgs /\ DOMAIN ep = Fields
        /\ ep.cls \in [Streams -> Classes] /\ ep.ins \cup ep.own \subseteq Streams
    BY StreamsAssumption DEF EndpointInvariant, PeerSends, NetOK, Sane, Typed
  <1>1. ep' = ep \/ (ep' = g /\ ~Local(ep, s) /\ ep.cls[s] = "none")
    BY DEF PeerSends
  <1>2. Sane(ep')
    <2>1. CASE ep' = ep
      BY <1>0, <2>1
    <2>2. CASE ep' = g /\ ~Local(ep, s) /\ ep.cls[s] = "none"
      BY <1>0, <2>2, AcceptSane, Zenon
    <2>. QED BY <1>1, <2>1, <2>2
  <1>3. /\ ep'.phase = ep.phase /\ ep'.own = ep.own /\ ep'.idx = ep.idx /\ ep'.half = ep.half
        /\ ep'.paused = ep.paused /\ ep'.waiters = ep.waiters /\ ep'.events = ep.events
        /\ ep'.tokens = ep.tokens /\ ep.ins \subseteq ep'.ins /\ ep'.ins \subseteq ep.ins \cup {s}
        /\ \A t \in Streams \ {s} : ep'.cls[t] = ep.cls[t]
        /\ ep'.cls[s] # "new" => ep'.cls[s] = ep.cls[s] /\ ep'.ins = ep.ins
    <2>1. CASE ep' = ep
      BY <2>1
    <2>2. CASE ep' = g
      BY <1>0, <2>2 DEF Fields
    <2>. QED BY <1>1, <2>1, <2>2
  <1>4. /\ DOMAIN net' = Streams /\ \A t \in Streams \ {s} : net'[t] = net[t]
        /\ net'[s].end = "open" /\ net'[s].q \in Seq(Frames \cup {"head", "b"})
        /\ DOMAIN net'[s] = {"q", "end", "seen", "stop"}
    <2>1. net' = [net EXCEPT ![s].q = Append(@, f), ![s].seen = @ + 1]
      BY DEF PeerSends
    <2>2. /\ DOMAIN net = Streams /\ DOMAIN net[s] = {"q", "end", "seen", "stop"}
          /\ net[s].q \in Seq(Frames \cup {"head", "b"})
      BY <1>0 DEF NetTyped
    <2>3. /\ DOMAIN net' = Streams /\ \A t \in Streams \ {s} : net'[t] = net[t]
          /\ net'[s] = [net[s] EXCEPT !.q = Append(@, f), !.seen = @ + 1]
      BY <2>1, <2>2
    <2>4. /\ net'[s].end = "open" /\ net'[s].q = Append(net[s].q, f)
          /\ DOMAIN net'[s] = {"q", "end", "seen", "stop"}
      BY <1>0, <2>2, <2>3
    <2>5. Append(net[s].q, f) \in Seq(Frames \cup {"head", "b"})
      BY <2>2
    <2>. QED BY <2>3, <2>4, <2>5, Zenon
  <1>5. NetOK'
    <2>1. NetTyped'
      BY <1>0, <1>4 DEF NetTyped
    <2>2. ASSUME NEW t \in Streams
          PROVE  /\ net'[t].end = "reset" => net'[t].q = <<>>
                 /\ Info[t].kind = "data" /\ Info[t].local /\ net'[t].q # <<>> => ep'.cls[t] = "mine"
      <3>1. CASE t = s
        <4>1. ASSUME Info[s].kind = "data", Info[s].local
              PROVE  ep'.cls[s] = "mine"
          <5>1. Local(ep, s)
            BY <4>1 DEF Local
          <5>2. ep' = ep /\ s \in Resolvable(ep.ses[c]) \cup ep.own
            BY <1>1, <5>1 DEF PeerSends, CanCarry
          <5>3. s \notin Resolvable(ep.ses[c])
            BY <1>0, <4>1 DEF Sane, Sorted
          <5>. QED BY <1>0, <5>2, <5>3 DEF Sane, Sorted
        <4>. QED BY <1>4, <3>1, <4>1
      <3>2. CASE t # s
        BY <1>0, <1>3, <1>4, <3>2 DEF NetOK
      <3>. QED BY <3>1, <3>2
    <2>3. ASSUME NEW t \in ep'.ins \cup ep'.own,
                 ep'.cls[t] \in {"wt", "mine"} /\ (ep'.half[t] = {"recv"} \/ t \notin ep'.idx)
          PROVE  Dead(t)'
      <3>1. t \in ep.ins \cup ep.own /\ ep'.cls[t] = ep.cls[t]
        BY <1>0, <1>3, <2>3
      <3>2. Dead(t)
        BY <1>0, <1>3, <2>3, <3>1 DEF NetOK
      <3>3. t # s /\ t \in Streams
        BY <1>0, <3>1, <3>2 DEF Dead
      <3>. QED BY <1>4, <3>2, <3>3 DEF Dead
    <2>. QED BY <1>0, <2>1, <2>2, <2>3, Zenon DEF NetOK
  <1>6. Releasable(ep) => Releasable(ep')
    BY <1>3 DEF Releasable
  <1>7. ASSUME NEW t \in Streams, Info[t].c # c, ep'.phase[Info[t].c] = "up", Pending(t)'
        PROVE  ep.phase[Info[t].c] = "up" /\ Pending(t)
    <2>1. t # s
      BY <1>7
    <2>2. Pending(t)
      BY <1>3, <1>4, <1>7, <2>1 DEF Pending
    <2>. QED BY <1>3, <1>7, <2>2
  <1>8. ASSUME NEW d \in Conns \ {c}, ep'.phase[d] = "up", dgs'[d].wait > 0
        PROVE  ep.phase[d] = "up" /\ dgs[d].wait > 0
    BY <1>0, <1>3, <1>8
  <1>. HIDE DEF c
  <1>. QED BY <1>0, <1>2, <1>3, <1>5, <1>6, <1>7, <1>8, DriveStep, Zenon

LEMMA PeerEndsStep ==
    ASSUME EndpointInvariant, NEW s \in Streams, NEW how \in {"fin", "reset"}, PeerEnds(s, how)
    PROVE  EndpointInvariant'
  <1>. DEFINE c == Info[s].c
              r == IF how = "reset" THEN <<>> ELSE net[s].q
  <1>0. /\ Sane(ep) /\ NetOK /\ NetTyped /\ c \in Conns /\ Polling(c) /\ net[s].end = "open"
        /\ job' = Drive(c) /\ ep' = ep /\ dgs' = dgs
    BY StreamsAssumption DEF EndpointInvariant, PeerEnds, NetOK
  <1>1. /\ DOMAIN net = Streams /\ DOMAIN net[s] = {"q", "end", "seen", "stop"}
        /\ net[s].q \in Seq(Frames \cup {"head", "b"})
    BY <1>0 DEF NetTyped
  <1>2. /\ DOMAIN net' = Streams /\ \A t \in Streams \ {s} : net'[t] = net[t]
        /\ net'[s] = [net[s] EXCEPT !.end = how, !.q = r]
    BY <1>1 DEF PeerEnds
  <1>3. net'[s].end = how /\ net'[s].q = r /\ DOMAIN net'[s] = {"q", "end", "seen", "stop"}
    BY <1>1, <1>2
  <1>4. /\ r \in Seq(Frames \cup {"head", "b"}) /\ (r # <<>> => net[s].q # <<>>)
        /\ (how = "reset" => r = <<>>)
    BY <1>1
  <1>. HIDE DEF r
  <1>5. NetShrinks
    <2>1. NetTyped'
      <3>1. ASSUME NEW t \in Streams
            PROVE  /\ DOMAIN net'[t] = {"q", "end", "seen", "stop"}
                   /\ net'[t].q \in Seq(Frames \cup {"head", "b"})
        <4>1. CASE t = s
          BY <1>3, <1>4, <4>1, Zenon
        <4>2. CASE t # s
          BY <1>0, <1>2, <4>2 DEF NetTyped
        <4>. QED BY <4>1, <4>2
      <3>. QED BY <1>2, <3>1, Zenon DEF NetTyped
    <2>2. ASSUME NEW t \in Streams
          PROVE  /\ net'[t].q # <<>> => net[t].q # <<>>
                 /\ Dead(t) => Dead(t)'
                 /\ net'[t].end = "reset" => net'[t].q = <<>>
      <3>1. CASE t = s
        BY <1>0, <1>3, <1>4, <3>1 DEF Dead
      <3>2. CASE t # s
        BY <1>0, <1>2, <3>2 DEF Dead, NetOK
      <3>. QED BY <3>1, <3>2
    <2>. QED BY <2>1, <2>2 DEF NetShrinks
  <1>6. Sane(ep') /\ Keeps(ep, ep')
    <2>1. Keeps(ep, ep)
      BY <1>0, KeepsItself DEF Sane
    <2>. QED BY <1>0, <2>1
  <1>. HIDE DEF c
  <1>. QED BY <1>0, <1>5, <1>6, KeptDrive

\* mark_stream_half_done for the send half, of a stream that may still be read:
\* when its receive half was over, nothing of it is unread.
LEMMA SendDone ==
    ASSUME Sane(ep), NetOK, NEW s \in Streams, NEW STATE d, Sane(d), Alike(ep, d), d.paused = ep.paused,
           Keeps(ep, d), ep' = HalfDone(d, s, "send"), NetShrinks, dgs' = dgs
    PROVE  /\ Sane(ep') /\ NetOK' /\ ep'.waiters = ep.waiters /\ ep'.phase = ep.phase
           /\ Releasable(ep) => Releasable(ep')
           /\ \A t \in Streams : Pending(t)' => Pending(t)
  <1>1. /\ Shrinks(d, ep') /\ ep'.ins = d.ins /\ ep'.own = d.own
        /\ \A t \in Streams \ {s} : /\ t \in ep'.idx <=> t \in d.idx
                                    /\ t \in ep'.paused <=> t \in d.paused
                                    /\ ep'.half[t] = d.half[t]
        /\ \/ d.half[s] = {"recv"} /\ ep'.half[s] = None
           \/ ep'.half[s] = {"send"} /\ ep'.idx = d.idx /\ ep'.paused = d.paused
    <2>1. PICK b \in {"recv", "send"} : b = "send"
      OBVIOUS
    <2>2. PICK e : e = d
      OBVIOUS
    <2>3. PICK f : f = HalfDone(e, s, b)
      OBVIOUS
    <2>4. /\ Shrinks(e, f) /\ f.ins = e.ins /\ f.own = e.own
          /\ \A t \in Streams \ {s} : /\ t \in f.idx <=> t \in e.idx
                                      /\ t \in f.paused <=> t \in e.paused
                                      /\ f.half[t] = e.half[t]
          /\ \/ /\ e.half[s] \in {{"recv"}, {"send"}} /\ e.half[s] # {b}
                /\ f.idx = e.idx \ {s} /\ f.half[s] = None
             \/ f.half[s] = {b} /\ f.idx = e.idx /\ f.paused = e.paused
      BY <2>2, <2>3, HalfDoneIs
    <2>5. e.half[s] \in {{"recv"}, {"send"}} /\ e.half[s] # {b} => e.half[s] = {"recv"}
      BY <2>1
    <2>6. ep' = f
      BY <2>1, <2>2, <2>3
    <2>. QED BY <2>1, <2>2, <2>4, <2>5, <2>6
  <1>2. Sane(ep')
    BY <1>1, ShrinksSane
  <1>3. /\ ep'.cls = ep.cls /\ ep'.ins = ep.ins /\ ep'.own = ep.own /\ ep'.waiters = ep.waiters
        /\ ep'.phase = ep.phase /\ ep'.events = d.events /\ ep'.tokens = d.tokens
        /\ d.idx = ep.idx /\ d.half = ep.half /\ d.paused = ep.paused
        /\ ep.ins \cup ep.own \subseteq Streams
    BY <1>1 DEF Shrinks, Alike, Sane, Typed
  <1>4. ASSUME s \in ep.ins \cup ep.own, ep.cls[s] \in {"wt", "mine"}, ep'.half[s] # {"send"}
        PROVE  Dead(s)
    <2>1. ep.half[s] = {"recv"}
      BY <1>1, <1>3, <1>4
    <2>. QED BY <1>4, <2>1, Zenon DEF NetOK
  <1>5. ASSUME NEW t \in ep.ins \cup ep.own, ep.cls[t] \in {"wt", "mine"}, ~Dead(t)
        PROVE  ep'.half[t] # {"recv"} /\ t \in ep'.idx /\ (t \in ep'.paused <=> t \in ep.paused)
    <2>1. ep.half[t] # {"recv"} /\ t \in ep.idx
      BY <1>5, Zenon DEF NetOK
    <2>2. CASE t = s
      <3>1. ep'.half[s] = {"send"} /\ {"send"} # {"recv"}
        BY <1>4, <1>5, <2>2
      <3>2. ep'.idx = ep.idx /\ ep'.paused = ep.paused
        BY <1>1, <1>3, <2>1, <2>2
      <3>. QED BY <2>1, <2>2, <3>1, <3>2
    <2>3. CASE t # s
      BY <1>1, <1>3, <2>1, <2>3
    <2>. QED BY <2>2, <2>3
  <1>6. NetOK'
    <2>1. NetTyped' /\ DOMAIN dgs' = Conns
      BY DEF NetOK, NetShrinks
    <2>2. ASSUME NEW t \in Streams
          PROVE  /\ net'[t].end = "reset" => net'[t].q = <<>>
                 /\ Info[t].kind = "data" /\ Info[t].local /\ net'[t].q # <<>> => ep'.cls[t] = "mine"
      BY <1>3, Zenon DEF NetShrinks, NetOK
    <2>3. ASSUME NEW t \in ep'.ins \cup ep'.own,
                 ep'.cls[t] \in {"wt", "mine"} /\ (ep'.half[t] = {"recv"} \/ t \notin ep'.idx)
          PROVE  Dead(t)'
      <3>1. Dead(t)
        BY <1>3, <1>5, <2>3
      <3>. QED BY <1>3, <2>3, <3>1 DEF NetShrinks
    <2>. QED BY <2>1, <2>2, <2>3, Zenon DEF NetOK
  <1>7. ASSUME NEW t \in Streams, Pending(t)' PROVE Pending(t)
    <2>1. net[t].q # <<>>
      BY <1>7, Zenon DEF NetShrinks, Pending
    <2>2. ~Dead(t)
      BY <2>1 DEF Dead
    <2>3. t \in ep.own => ep.cls[t] = "mine"
      BY DEF Sane, Sorted
    <2>. QED BY <1>3, <1>5, <1>7, <2>1, <2>2, <2>3 DEF Pending
  <1>8. Releasable(ep) => Releasable(ep')
    <2>1. Releasable(ep) => Releasable(d)
      BY StaysReleasable
    <2>. QED BY <1>3, <2>1 DEF Releasable
  <1>. QED BY <1>2, <1>3, <1>6, <1>7, <1>8

LEMMA PeerStopsStep ==
    ASSUME EndpointInvariant, NEW s \in Streams, PeerStops(s)
    PROVE  EndpointInvariant'
  <1>. DEFINE c == Info[s].c
              d == PushEvent(ep, Ev("stopped", c, s, 0))
  <1>0. /\ Sane(ep) /\ NetOK /\ NetTyped /\ c \in Conns /\ Polling(c) /\ job' = Drive(c) /\ dgs' = dgs
        /\ ep' = HalfDone(d, s, "send")
    BY StreamsAssumption DEF EndpointInvariant, PeerStops, NetOK
  <1>1. NetShrinks
    <2>1. DOMAIN net = Streams /\ DOMAIN net[s] = {"q", "end", "seen", "stop"}
      BY <1>0 DEF NetTyped
    <2>2. /\ DOMAIN net' = Streams /\ \A t \in Streams \ {s} : net'[t] = net[t]
          /\ net'[s] = [net[s] EXCEPT !.stop = TRUE]
      BY <2>1 DEF PeerStops
    <2>3. /\ net'[s].end = net[s].end /\ net'[s].q = net[s].q
          /\ DOMAIN net'[s] = {"q", "end", "seen", "stop"}
      BY <2>1, <2>2
    <2>4. ASSUME NEW t \in Streams
          PROVE  net'[t].end = net[t].end /\ net'[t].q = net[t].q
                 /\ DOMAIN net'[t] = {"q", "end", "seen", "stop"}
      <3>1. CASE t = s
        BY <2>3, <3>1
      <3>2. CASE t # s
        BY <1>0, <2>2, <3>2 DEF NetTyped
      <3>. QED BY <3>1, <3>2
    <2>5. NetTyped'
      BY <1>0, <2>2, <2>4 DEF NetTyped
    <2>. QED BY <1>0, <2>4, <2>5 DEF NetShrinks, Dead, NetOK
  <1>2. Sane(d) /\ Keeps(ep, d) /\ Alike(ep, d) /\ d.paused = ep.paused
    <2>1. "stopped" \in Kinds /\ s \in Streams \cup {None} /\ 0 \in Int
      BY DEF Kinds
    <2>. QED BY <1>0, <2>1, PushKeeps
  <1>. HIDE DEF d, c
  <1>3. /\ Sane(ep') /\ NetOK' /\ ep'.waiters = ep.waiters /\ ep'.phase = ep.phase
        /\ Releasable(ep) => Releasable(ep')
        /\ \A t \in Streams : Pending(t)' => Pending(t)
    BY <1>0, <1>1, <1>2, SendDone
  <1>. QED BY <1>0, <1>3, DriveStep, Zenon

LEMMA PeerDatagramStep ==
    ASSUME EndpointInvariant, NEW c \in Conns, PeerDatagram(c)
    PROVE  EndpointInvariant'
  <1>0. /\ Sane(ep) /\ NetOK /\ Polling(c) /\ job' = Drive(c) /\ ep' = ep /\ net' = net
        /\ DOMAIN dgs = Conns
    BY DEF EndpointInvariant, PeerDatagram, NetOK
  <1>1. DOMAIN dgs' = Conns /\ \A d \in Conns \ {c} : dgs'[d] = dgs[d]
    BY <1>0 DEF PeerDatagram
  <1>2. NetOK'
    BY <1>0, <1>1 DEF NetOK, NetTyped, Dead
  <1>3. ASSUME NEW s \in Streams, Pending(s)' PROVE Pending(s)
    BY <1>0, <1>3 DEF Pending
  <1>4. Sane(ep') /\ ep'.waiters = ep.waiters /\ ep'.phase = ep.phase /\ (Releasable(ep) => Releasable(ep'))
    BY <1>0
  <1>. QED BY <1>0, <1>1, <1>2, <1>3, <1>4, DriveStep, Zenon

\* The encoder and the control stream of the peer touch no session.
LEMMA TableKeeps ==
    ASSUME NEW e, Sane(e), NEW c \in Conns
    PROVE  /\ Sane([e EXCEPT !.ses[c].dyn = TRUE]) /\ Keeps(e, [e EXCEPT !.ses[c].dyn = TRUE])
           /\ Sane([e EXCEPT !.ses[c].settings = TRUE]) /\ Keeps(e, [e EXCEPT !.ses[c].settings = TRUE])
  <1>. DEFINE s1 == [e.ses[c] EXCEPT !.dyn = TRUE]
              e1 == [e EXCEPT !.ses[c].dyn = TRUE]
              s2 == [e.ses[c] EXCEPT !.settings = TRUE]
              e2 == [e EXCEPT !.ses[c].settings = TRUE]
  <1>0. DOMAIN e = Fields /\ SessionTyped(e.ses[c]) /\ DOMAIN e.ses = Conns
    BY DEF Sane, Typed
  <1>1. Sets(e, e1, c, s1) /\ Sets(e, e2, c, s2)
    BY <1>0 DEF Sets, Fields
  <1>2. /\ SessionTyped(s1) /\ s1.extras \subseteq e.ses[c].extras /\ s1.pend \subseteq e.ses[c].pend
        /\ s1.primary = e.ses[c].primary /\ s1.est = e.ses[c].est /\ (~s1.shut => ~e.ses[c].shut)
    BY <1>0 DEF SessionTyped, SessionFields
  <1>3. /\ SessionTyped(s2) /\ s2.extras \subseteq e.ses[c].extras /\ s2.pend \subseteq e.ses[c].pend
        /\ s2.primary = e.ses[c].primary /\ s2.est = e.ses[c].est /\ (~s2.shut => ~e.ses[c].shut)
    BY <1>0 DEF SessionTyped, SessionFields
  <1>. HIDE DEF s1, s2, e1, e2
  <1>4. Sane(e1) /\ Keeps(e, e1) /\ Sane(e2) /\ Keeps(e, e2)
    BY <1>1, <1>2, <1>3, LosesSession
  <1>. QED BY <1>4 DEF e1, e2

LEMMA PeerControlStep ==
    ASSUME EndpointInvariant, NEW c \in Conns, PeerInserts(c) \/ PeerSettings(c) \/ PeerBreaksControl(c)
    PROVE  EndpointInvariant'
  <1>0. Sane(ep) /\ NetOK /\ Polling(c) /\ job' = Drive(c) /\ net' = net /\ dgs' = dgs /\ ep.phase[c] = "up"
    BY DEF EndpointInvariant, PeerInserts, PeerSettings, PeerBreaksControl
  <1>1. CASE ep' = [ep EXCEPT !.ses[c].dyn = TRUE]
    <2>1. Sane(ep') /\ Keeps(ep, ep')
      BY <1>0, <1>1, TableKeeps
    <2>. QED BY <1>0, <2>1, NetSame, KeptDrive
  <1>2. CASE ep' = [ep EXCEPT !.ses[c].settings = TRUE]
    <2>1. Sane(ep') /\ Keeps(ep, ep')
      BY <1>0, <1>2, TableKeeps
    <2>. QED BY <1>0, <2>1, NetSame, KeptDrive
  <1>3. CASE ep' = CloseProtocolError(ep, c)
    <2>1. Sane(ep') /\ Keeps(ep, ep')
      BY <1>0, <1>3, ProtocolErrorKeeps
    <2>. QED BY <1>0, <2>1, NetSame, KeptDrive
  <1>. QED BY <1>1, <1>2, <1>3 DEF PeerInserts, PeerSettings, PeerBreaksControl

\* Streams of c are not paused any more, and c is read.
LEMMA UnpausedStep ==
    ASSUME EndpointInvariant, Idle, NEW c \in Conns, NEW STATE j, DOMAIN j = JobFields, j.c = c,
           j.slots = 0, j.wake = 0, NEW STATE p, \A s \in Streams \ p : s \in ep.paused => Info[s].c = c,
           p \subseteq ep.paused,
           ep' = [ep EXCEPT !.paused = p], job' = Snapshot(ep', j), UNCHANGED <<net, dgs>>
    PROVE  EndpointInvariant'
  <1>0. /\ Sane(ep) /\ NetOK /\ Placed /\ DOMAIN ep = Fields /\ ep.events \in Seq(Event)
        /\ IsFiniteSet(DOMAIN ep.tokens) /\ ep.waiters \in Seq(Conns)
    BY DEF EndpointInvariant, Sane, Typed
  <1>1. /\ SameTables(ep, ep') /\ ep'.events = ep.events /\ ep'.tokens = ep.tokens
        /\ ep'.waiters = ep.waiters /\ ep'.paused = p
    BY <1>0 DEF SameTables, Fields
  <1>2. Sane(ep')
    BY <1>0, <1>1, SameTablesSane
  <1>3. NetOK'
    BY <1>0, <1>1, SameNetStays DEF SameTables
  <1>4. ASSUME NEW s \in Streams, Info[s].c # c, Pending(s)' PROVE Pending(s)
    <2>1. s \notin p => s \notin ep.paused
      BY <1>4
    <2>. QED BY <1>1, <1>4, <2>1 DEF Pending, SameTables
  <1>5. job.c = None /\ job.wake = 0 /\ None \notin Conns
    BY StreamsAssumption DEF Idle, Resting
  <1>6. ep.phase[c] = "up" /\ dgs[c].wait > 0 => Waits(c)
    BY <1>0, <1>5, Zenon DEF Placed
  <1>7. /\ j.slots \in 0..2 /\ j.wake \in Nat /\ job.wake <= j.wake /\ job.c \in {None, c}
        /\ ep'.phase = ep.phase /\ (Releasable(ep) => Releasable(ep'))
    BY <1>1, <1>5 DEF SameTables, Releasable
  <1>8. /\ \A s \in Streams : Info[s].c # c /\ ep'.phase[Info[s].c] = "up" /\ Pending(s)' =>
                                ep.phase[Info[s].c] = "up" /\ Pending(s)
        /\ \A d \in Conns \ {c} : ep'.phase[d] = "up" /\ dgs'[d].wait > 0 =>
                                    ep.phase[d] = "up" /\ dgs[d].wait > 0
        /\ ep'.phase[c] = "up" /\ dgs'[c].wait > 0 => Waits(c)
    BY <1>4, <1>6, <1>7, Zenon
  <1>. QED BY <1>1, <1>2, <1>3, <1>7, <1>8, SnapshotStep, Zenon

LEMMA ConnLostStep ==
    ASSUME EndpointInvariant, NEW c \in Conns, ConnLost(c)
    PROVE  EndpointInvariant'
  <1>. DEFINE j == [Resting EXCEPT !.c = c, !.then = IF ep.phase[c] = "closed" THEN "quiet" ELSE "lost"]
              p == ep.paused \ (ep.idx \cap Of(c))
  <1>1. Idle /\ ep' = [ep EXCEPT !.paused = p] /\ job' = Snapshot(ep', j) /\ UNCHANGED <<net, dgs>>
    BY DEF ConnLost
  <1>2. DOMAIN j = JobFields /\ j.c = c /\ j.slots = 0 /\ j.wake = 0
    BY DEF Resting, JobFields
  <1>3. (\A s \in Streams \ p : s \in ep.paused => Info[s].c = c) /\ p \subseteq ep.paused
    BY DEF Of
  <1>. HIDE DEF j, p
  <1>. QED BY <1>1, <1>2, <1>3, UnpausedStep

LEMMA PeerStep == ASSUME EndpointInvariant, Peer PROVE EndpointInvariant'
  <1>1. ASSUME NEW s \in Streams, NEW f \in FramesOf(s), PeerSends(s, f)
        PROVE  EndpointInvariant'
    <2>1. f \in Frames \cup {"head", "b"}
      BY DEF FramesOf
    <2>. QED BY <1>1, <2>1, PeerSendsStep
  <1>2. ASSUME NEW c \in Conns, PeerInserts(c) \/ PeerSettings(c) \/ PeerBreaksControl(c)
        PROVE  EndpointInvariant'
    BY <1>2, PeerControlStep
  <1>. QED BY <1>1, <1>2, NewConnectionStep, AttachRefusedStep, ConnectedStep, PeerDatagramStep,
              ConnLostStep, PeerEndsStep, PeerStopsStep, Zenon DEF Peer

-----------------------------------------------------------------------------
(* Calls of the host, one lemma for an action. *)

\* An event is taken or a token given back, and a handler may follow: every
\* waiter is woken.
LEMMA FreedStep ==
    ASSUME EndpointInvariant, Idle, NEW STATE d, SameTables(ep, d), d.waiters = ep.waiters,
           d.paused = ep.paused, Sane(ep'), Keeps(d, ep'), job' = Resume, UNCHANGED <<net, dgs>>
    PROVE  EndpointInvariant'
  <1>1. Leaves(d, ep')
    <2>1. PICK f : f = ep'
      OBVIOUS
    <2>2. PICK e : e = d
      OBVIOUS
    <2>. QED BY <2>1, <2>2, KeepsLeaves
  <1>2. Leaves(ep, ep')
    BY <1>1, Zenon DEF Leaves, SameTables
  <1>3. NetShrinks /\ DatagramsShrink
    BY NetSame DEF EndpointInvariant
  <1>. QED BY <1>2, <1>3, ResumeStep

LEMMA PoppedIs ==
    ASSUME NEW e, Sane(e), e.events # <<>>
    PROVE  /\ SameTables(e, PopEvent(e)) /\ PopEvent(e).waiters = e.waiters
           /\ PopEvent(e).paused = e.paused /\ PopEvent(e).tokens = e.tokens
           /\ Sane(PopEvent(e)) /\ Head(e.events) \in Event
  <1>1. /\ DOMAIN e = Fields /\ e.events \in Seq(Event) /\ IsFiniteSet(DOMAIN e.tokens)
        /\ e.waiters \in Seq(Conns)
    BY DEF Sane, Typed
  <1>2. Tail(e.events) \in Seq(Event) /\ Head(e.events) \in Event
    BY <1>1
  <1>. DEFINE f == PopEvent(e)
  <1>3. /\ SameTables(e, f) /\ f.waiters = e.waiters /\ f.paused = e.paused
        /\ f.tokens = e.tokens /\ f.events = Tail(e.events)
    BY <1>1 DEF PopEvent, SameTables, Fields
  <1>. HIDE DEF f
  <1>4. Sane(f)
    BY <1>1, <1>2, <1>3, SameTablesSane
  <1>. QED BY <1>2, <1>3, <1>4 DEF f

LEMMA PollStep ==
    ASSUME EndpointInvariant, Poll
    PROVE  EndpointInvariant'
  <1>. DEFINE d == PopEvent(ep)
              ev == Head(ep.events)
              t == NextToken(ep)
  <1>0. Sane(ep) /\ Idle /\ ep.events # <<>> /\ job' = Resume /\ UNCHANGED <<net, dgs>>
    BY DEF EndpointInvariant, Poll
  <1>1. /\ SameTables(ep, d) /\ d.waiters = ep.waiters /\ d.paused = ep.paused
        /\ d.tokens = ep.tokens /\ Sane(d) /\ ev \in Event
    BY <1>0, PoppedIs
  <1>2. CASE ~Charged(ev) /\ ep' = d
    <2>1. Sane(ep') /\ Keeps(d, ep')
      <3>1. PICK e : e = d
        OBVIOUS
      <3>2. Keeps(e, e)
        BY <1>1, <3>1, KeepsItself DEF Sane
      <3>. QED BY <1>1, <1>2, <3>1, <3>2
    <2>. HIDE DEF d
    <2>. QED BY <1>0, <1>1, <2>1, FreedStep
  <1>3. CASE ep' = [d EXCEPT !.tokens = [u \in DOMAIN @ \cup {t} |-> IF u = t THEN ev ELSE @[u]],
                             !.next = IF t = TokenCeiling THEN 1 ELSE t + 1]
    <2>. HIDE DEF d, t, ev
    <2>1. DOMAIN d = Fields /\ d.events \in Seq(Event) /\ IsFiniteSet(DOMAIN d.tokens) /\ d.waiters \in Seq(Conns)
      BY <1>1 DEF Sane, Typed
    <2>2. /\ SameTables(d, ep') /\ ep'.events = d.events /\ ep'.waiters = d.waiters
          /\ ep'.paused = d.paused /\ DOMAIN ep'.tokens = DOMAIN d.tokens \cup {t}
      BY <1>3, <2>1 DEF SameTables, Fields
    <2>3. IsFiniteSet(DOMAIN ep'.tokens)
      BY <2>1, <2>2, FS_AddElement
    <2>4. SameTables(ep, ep')
      BY <1>1, <2>2, Zenon DEF SameTables
    <2>5. Sane(ep')
      BY <1>0, <2>1, <2>2, <2>3, <2>4, SameTablesSane
    <2>6. Keeps(ep', ep')
      <3>1. PICK e : e = ep'
        OBVIOUS
      <3>. QED BY <2>5, <3>1, KeepsItself DEF Sane
    <2>7. Leaves(ep, ep')
      BY <1>1, <2>2, <2>4, Zenon DEF Leaves, SameTables
    <2>8. NetShrinks /\ DatagramsShrink
      BY <1>0, NetSame DEF EndpointInvariant
    <2>. QED BY <1>0, <2>5, <2>7, <2>8, ResumeStep
  <1>4. CASE Charged(ev) /\ ep' = IF InTable(ev.c) THEN CloseConn(d, ev.c)
                                  ELSE PushEvent(d, Ev("closed", ev.c, None, 0))
    <2>1. ev.c \in Conns
      BY <1>1, <1>4 DEF Event
    <2>2. PICK x \in Conns : x = ev.c
      BY <2>1
    <2>. HIDE DEF d, ev
    <2>3. Sane(ep') /\ Keeps(d, ep')
      <3>1. CASE ep' = CloseConn(d, x)
        BY <1>1, <3>1, CloseConnKeeps
      <3>2. CASE ep' = PushEvent(d, Ev("closed", x, None, 0))
        <4>1. "closed" \in Kinds /\ None \in Streams \cup {None} /\ 0 \in Int
          BY DEF Kinds
        <4>. QED BY <1>1, <3>2, <4>1, PushKeeps
      <3>. QED BY <1>4, <2>2, <3>1, <3>2
    <2>. QED BY <1>0, <1>1, <2>3, FreedStep
  <1>. QED BY <1>2, <1>3, <1>4 DEF Poll

LEMMA ReleaseTokenStep ==
    ASSUME EndpointInvariant, NEW t, ReleaseToken(t)
    PROVE  EndpointInvariant'
  <1>0. /\ Sane(ep) /\ Idle /\ job' = Resume /\ UNCHANGED <<net, dgs>>
        /\ ep' = [ep EXCEPT !.tokens = [u \in DOMAIN @ \ {t} |-> @[u]]]
    BY DEF EndpointInvariant, ReleaseToken
  <1>1. /\ DOMAIN ep = Fields /\ ep.events \in Seq(Event) /\ IsFiniteSet(DOMAIN ep.tokens)
        /\ ep.waiters \in Seq(Conns)
    BY <1>0 DEF Sane, Typed
  <1>2. /\ SameTables(ep, ep') /\ ep'.events = ep.events /\ ep'.waiters = ep.waiters
        /\ ep'.paused = ep.paused /\ DOMAIN ep'.tokens = DOMAIN ep.tokens \ {t}
    BY <1>0, <1>1 DEF SameTables, Fields
  <1>3. IsFiniteSet(DOMAIN ep'.tokens)
    BY <1>1, <1>2, FS_Subset
  <1>4. Sane(ep')
    BY <1>0, <1>1, <1>2, <1>3, SameTablesSane
  <1>5. Leaves(ep, ep')
    BY <1>2, Zenon DEF Leaves, SameTables
  <1>6. NetShrinks /\ DatagramsShrink
    BY <1>0, NetSame DEF EndpointInvariant
  <1>. QED BY <1>0, <1>4, <1>5, <1>6, ResumeStep

LEMMA HostClosesStep ==
    ASSUME EndpointInvariant, NEW c \in Conns, HostCloses(c)
    PROVE  EndpointInvariant'
  <1>0. Sane(ep) /\ NetOK /\ ep' = CloseConn(ep, c) /\ UNCHANGED <<net, dgs, job>>
    BY DEF EndpointInvariant, HostCloses
  <1>1. Sane(ep') /\ Keeps(ep, ep')
    BY <1>0, CloseConnKeeps
  <1>. QED BY <1>0, <1>1, NetSame, KeptCall

LEMMA TimeoutPrimaryStep ==
    ASSUME EndpointInvariant, NEW c \in Conns, TimeoutPrimary(c)
    PROVE  EndpointInvariant'
  <1>0. /\ Sane(ep) /\ NetOK /\ Polling(c) /\ ep' = FailBeforeEstablish(ep, c) /\ job' = Drive(c)
        /\ UNCHANGED <<net, dgs>> /\ ep.phase[c] # "gone"
    BY DEF EndpointInvariant, TimeoutPrimary, Polling
  <1>1. Sane(ep') /\ Keeps(ep, ep')
    BY <1>0, FailKeeps
  <1>. QED BY <1>0, <1>1, NetSame, KeptDrive

LEMMA TimeoutPendingStep ==
    ASSUME EndpointInvariant, NEW s \in Streams, TimeoutPending(s)
    PROVE  EndpointInvariant'
  <1>. DEFINE c == Info[s].c
  <1>0. /\ Sane(ep) /\ NetOK /\ Polling(c) /\ job' = Drive(c) /\ UNCHANGED <<net, dgs>> /\ c \in Conns
        /\ ep' = SessionClosed([ep EXCEPT !.ses[c].pend = @ \ {s}], c, s)
    BY StreamsAssumption DEF EndpointInvariant, TimeoutPending, Polling
  <1>. HIDE DEF c
  <1>1. Sane(ep') /\ Keeps(ep, ep')
    BY <1>0, PendingGoneKeeps
  <1>. QED BY <1>0, <1>1, NetSame, KeptDrive

\* A call that reads nothing and makes nothing readable.
LEMMA CallStep ==
    ASSUME EndpointInvariant, Sane(ep'), NetOK', UNCHANGED <<dgs, job>>, ep'.waiters = ep.waiters,
           ep'.phase = ep.phase, Releasable(ep) => Releasable(ep'),
           \A s \in Streams : Pending(s)' => Pending(s)
    PROVE  EndpointInvariant'
  <1>1. JobOK
    BY DEF EndpointInvariant
  <1>2. JobOK' /\ job.wake <= job'.wake
    BY <1>1 DEF JobOK
  <1>. QED BY <1>2, JobStep, Zenon

\* Stream s of this end is entered, its receive half over from the start or not.
Opens(e, f, s, h) ==
    /\ DOMAIN f = Fields /\ f.server = e.server /\ f.phase = e.phase /\ f.hs = e.hs
    /\ f.sess = e.sess /\ f.ses = e.ses /\ f.ins = e.ins /\ f.own \subseteq e.own \cup {s}
    /\ f.events = e.events /\ f.tokens = e.tokens /\ f.waiters = e.waiters
    /\ f.cls = [e.cls EXCEPT ![s] = "mine"] /\ f.half = [e.half EXCEPT ![s] = h]
    /\ f.idx = e.idx \cup {s} /\ f.str = e.str \cup {s}

LEMMA OpenedSane ==
    ASSUME NEW e, Sane(e), NEW s \in Streams, Info[s].kind = "data", Info[s].local,
           e.phase[Info[s].c] = "up", e.cls[s] = "none", NEW h \in {{}, {"recv"}}, NEW f,
           Opens(e, f, s, h)
    PROVE  Sane(f)
  <1>0. /\ e.cls \in [Streams -> Classes] /\ s \notin e.ins /\ e.ins \cup e.own \subseteq Streams
        /\ e.half \in [Streams -> Halves] /\ Info[s].c \in Conns
    BY StreamsAssumption DEF Sane, Typed, Sorted
  <1>1. /\ f.cls \in [Streams -> Classes] /\ f.cls[s] = "mine" /\ f.half \in [Streams -> Halves]
        /\ \A t \in Streams \ {s} : f.cls[t] = e.cls[t]
    BY <1>0 DEF Classes, Halves, Opens
  <1>2. Typed(f)
    BY <1>0, <1>1 DEF Sane, Typed, Opens
  <1>3. Reserved(f)
    BY <1>0 DEF Sane, Reserved, Opens
  <1>4. Quiet(f)
    <2>1. ASSUME NEW c \in Conns, f.phase[c] \in {"absent", "handshake", "gone"}, NEW t \in f.ins \cup f.own
          PROVE  Info[t].c # c
      BY <2>1 DEF Sane, Quiet, Opens
    <2>2. ASSUME NEW c \in Conns, f.phase[c] \in {"absent", "handshake", "gone"}
          PROVE  ~f.ses[c].est /\ Resolvable(f.ses[c]) = {}
      BY <2>2, Zenon DEF Sane, Quiet, Opens
    <2>. QED BY <2>1, <2>2, Zenon DEF Quiet
  <1>5. Bounded(f)
    BY Zenon DEF Sane, Bounded, Opens
  <1>6. Sorted(f)
    <2>1. \A t \in f.ins : ~Local(f, t) /\ f.cls[t] \in {"new", "connect", "wt"}
      BY <1>0, <1>1 DEF Sane, Sorted, Local, Opens
    <2>2. \A t \in f.own : f.cls[t] = "mine" /\ Info[t].kind = "data" /\ Info[t].local
      BY <1>0, <1>1 DEF Sane, Sorted, Opens
    <2>3. \A t \in Streams : /\ f.cls[t] = "connect" => Info[t].kind = "connect"
                             /\ f.cls[t] = "wt" => Info[t].kind = "data"
      BY <1>0, <1>1 DEF Sane, Sorted, Opens
    <2>4. ASSUME NEW c \in Conns, NEW t \in Resolvable(f.ses[c])
          PROVE  Info[t].kind = "connect" /\ Info[t].c = c /\ (f.server => f.cls[t] = "connect")
      <3>1. Info[t].kind = "connect" /\ Info[t].c = c /\ (e.server => e.cls[t] = "connect")
        BY <2>4 DEF Sane, Sorted, Opens
      <3>2. t \in Streams
        BY <2>4 DEF Sane, Typed, SessionTyped, Resolvable, WtConnects, Opens
      <3>. QED BY <1>1, <3>1, <3>2 DEF Opens
    <2>. QED BY <2>1, <2>2, <2>3, <2>4, Zenon DEF Sorted
  <1>. QED BY <1>2, <1>3, <1>4, <1>5, <1>6 DEF Sane

LEMMA OpenStreamStep ==
    ASSUME EndpointInvariant, NEW s \in Streams, OpenStream(s)
    PROVE  EndpointInvariant'
  <1>. DEFINE h == IF Info[s].bidi THEN {} ELSE {"recv"}
  <1>0. /\ Sane(ep) /\ NetOK /\ NetTyped /\ UNCHANGED <<net, dgs, job>> /\ Info[s].kind = "data" /\ Info[s].local
        /\ ep.phase[Info[s].c] = "up" /\ ep.cls[s] = "none"
        /\ ep' = [Register(ep, s, h)
                    EXCEPT !.own = IF Info[s].bidi THEN @ \cup {s} ELSE @, !.cls[s] = "mine"]
    BY DEF EndpointInvariant, OpenStream, NetOK
  <1>1. /\ DOMAIN ep = Fields /\ ep.cls \in [Streams -> Classes] /\ ep.half \in [Streams -> Halves]
        /\ s \notin ep.ins /\ s \notin ep.own /\ ep.ins \cup ep.own \subseteq Streams
    BY <1>0 DEF Sane, Typed, Sorted, Local
  <1>2. /\ DOMAIN ep' = Fields /\ ep'.server = ep.server /\ ep'.phase = ep.phase /\ ep'.hs = ep.hs
        /\ ep'.sess = ep.sess /\ ep'.ses = ep.ses /\ ep'.ins = ep.ins
        /\ ep'.own = (IF Info[s].bidi THEN ep.own \cup {s} ELSE ep.own)
        /\ ep'.events = ep.events /\ ep'.tokens = ep.tokens /\ ep'.waiters = ep.waiters
        /\ ep'.paused = ep.paused
        /\ ep'.cls = [ep.cls EXCEPT ![s] = "mine"] /\ ep'.half = [ep.half EXCEPT ![s] = h]
        /\ ep'.idx = ep.idx \cup {s} /\ ep'.str = ep.str \cup {s}
    BY <1>0, <1>1 DEF Register, Fields
  <1>3. h \in {{}, {"recv"}} /\ ep'.own \subseteq ep.own \cup {s} /\ (s \in ep'.own => h = {})
    BY <1>1, <1>2
  <1>. HIDE DEF h
  <1>4. Sane(ep')
    <2>1. Opens(ep, ep', s, h)
      BY <1>2, <1>3 DEF Opens
    <2>2. PICK f : f = ep'
      OBVIOUS
    <2>3. PICK k \in {{}, {"recv"}} : k = h
      BY <1>3
    <2>4. Sane(f)
      <3>1. Opens(ep, f, s, k)
        BY <2>1, <2>2, <2>3
      <3>. QED BY <1>0, <3>1, OpenedSane
    <2>. QED BY <2>2, <2>4
  <1>5. net[s].q = <<>>
    BY <1>0 DEF NetOK
  <1>6. /\ ep'.cls[s] = "mine" /\ ep'.half[s] = h
        /\ \A t \in Streams \ {s} : /\ ep'.cls[t] = ep.cls[t] /\ ep'.half[t] = ep.half[t]
                                    /\ t \in ep'.idx <=> t \in ep.idx
                                    /\ t \in ep'.ins \cup ep'.own <=> t \in ep.ins \cup ep.own
    BY <1>1, <1>2, <1>3
  <1>7. NetOK'
    <2>1. NetTyped' /\ DOMAIN dgs' = Conns
      BY <1>0 DEF NetOK, NetTyped
    <2>2. ASSUME NEW t \in Streams
          PROVE  /\ net'[t].end = "reset" => net'[t].q = <<>>
                 /\ Info[t].kind = "data" /\ Info[t].local /\ net'[t].q # <<>> => ep'.cls[t] = "mine"
      BY <1>0, <1>6 DEF NetOK
    <2>3. ASSUME NEW t \in ep'.ins \cup ep'.own,
                 ep'.cls[t] \in {"wt", "mine"} /\ (ep'.half[t] = {"recv"} \/ t \notin ep'.idx)
          PROVE  Dead(t)'
      <3>1. t \in Streams
        BY <1>1, <1>2, <1>3, <2>3
      <3>2. t # s
        <4>1. ASSUME t = s PROVE FALSE
          <5>1. s \in ep'.own
            BY <1>1, <1>2, <2>3, <4>1
          <5>2. h = {} /\ {} # {"recv"}
            BY <1>3, <5>1
          <5>. QED BY <1>2, <1>6, <2>3, <4>1, <5>2
        <4>. QED BY <4>1
      <3>3. t \in ep.ins \cup ep.own /\ ep'.cls[t] = ep.cls[t] /\ ep'.half[t] = ep.half[t]
            /\ (t \in ep'.idx <=> t \in ep.idx)
        BY <1>6, <2>3, <3>1, <3>2
      <3>4. Dead(t)
        BY <1>0, <2>3, <3>3 DEF NetOK
      <3>. QED BY <1>0, <3>4 DEF Dead
    <2>. QED BY <2>1, <2>2, <2>3, Zenon DEF NetOK
  <1>8. ASSUME NEW t \in Streams, Pending(t)' PROVE Pending(t)
    <2>1. t # s
      BY <1>0, <1>5, <1>8 DEF Pending
    <2>. QED BY <1>0, <1>2, <1>3, <1>6, <1>8, <2>1 DEF Pending
  <1>9. Releasable(ep) => Releasable(ep')
    BY <1>2 DEF Releasable
  <1>. QED BY <1>0, <1>2, <1>4, <1>7, <1>8, <1>9, CallStep, Zenon

\* open_wt_session: one more session is pending on an established connection.
LEMMA WtOpenedSane ==
    ASSUME NEW e, Sane(e), NEW s \in Streams, NEW c \in Conns, Info[s].c = c, Info[s].kind = "connect",
           ~e.server, e.phase[c] = "up", e.ses[c].est, Active(e.ses[c]) < WtMax
    PROVE  Sane([e EXCEPT !.ses[c].pend = @ \cup {s}, !.cls[s] = "mine"])
  <1>. DEFINE f == [e EXCEPT !.ses[c].pend = @ \cup {s}, !.cls[s] = "mine"]
              a == e.ses[c]
              b == [a EXCEPT !.pend = @ \cup {s}]
  <1>0. /\ DOMAIN e = Fields /\ e.cls \in [Streams -> Classes] /\ DOMAIN e.ses = Conns
        /\ SessionTyped(a) /\ s \notin e.ins /\ s \notin e.own /\ e.ins \cup e.own \subseteq Streams
    BY DEF Sane, Typed, Sorted, Local
  <1>1. /\ DOMAIN f = Fields /\ f.server = e.server /\ f.phase = e.phase
        /\ f.hs = e.hs /\ f.sess = e.sess /\ f.ses = [e.ses EXCEPT ![c] = b]
        /\ f.str = e.str /\ f.ins = e.ins /\ f.cls = [e.cls EXCEPT ![s] = "mine"]
        /\ f.own = e.own /\ f.idx = e.idx /\ f.half = e.half
        /\ f.events = e.events /\ f.tokens = e.tokens /\ f.waiters = e.waiters
    BY <1>0 DEF Fields
  <1>2. /\ SessionTyped(b) /\ b.pend = a.pend \cup {s} /\ b.extras = a.extras
        /\ b.primary = a.primary /\ b.est = a.est /\ b.shut = a.shut
    BY <1>0 DEF SessionTyped, SessionFields
  <1>. HIDE DEF f, b
  <1>3. /\ f.cls \in [Streams -> Classes] /\ \A t \in Streams \ {s} : f.cls[t] = e.cls[t]
        /\ f.cls[s] = "mine" /\ f.ses[c] = b /\ DOMAIN f.ses = Conns
        /\ \A d \in Conns \ {c} : f.ses[d] = e.ses[d]
    BY <1>0, <1>1 DEF Classes
  <1>4. Typed(f)
    <2>1. \A d \in Conns : SessionTyped(f.ses[d])
      BY <1>2, <1>3 DEF Sane, Typed
    <2>. QED BY <1>0, <1>1, <1>3, <2>1 DEF Sane, Typed
  <1>5. Reserved(f)
    BY <1>1 DEF Sane, Reserved
  <1>6. Quiet(f)
    <2>1. ASSUME NEW d \in Conns, f.phase[d] \in {"absent", "handshake", "gone"}
          PROVE  /\ ~f.ses[d].est /\ Resolvable(f.ses[d]) = {}
                 /\ \A t \in f.ins \cup f.own : Info[t].c # d
      <3>1. d # c
        BY <1>1, <2>1
      <3>2. f.ses[d] = e.ses[d] /\ f.phase[d] = e.phase[d] /\ f.ins = e.ins /\ f.own = e.own
        BY <1>1, <1>3, <3>1
      <3>. QED BY <2>1, <3>2, Zenon DEF Sane, Quiet
    <2>. QED BY <2>1, Zenon DEF Quiet
  <1>7. Bounded(f)
    <2>1. Live(b) => Live(a)
      BY <1>2 DEF Live
    <2>2. Active(b) <= Active(a) + 1 /\ Active(a) \in Nat /\ Active(b) \in Nat
      BY <1>0, <1>2, <2>1, OneMorePending
    <2>3. Active(b) <= WtMax /\ b.est
      <3>1. WtMax \in Nat
        BY LimitsAssumption
      <3>. HIDE DEF a
      <3>2. Active(a) < WtMax /\ b.est
        BY <1>2 DEF a
      <3>. QED BY <2>2, <3>1, <3>2
    <2>4. ASSUME NEW d \in Conns
          PROVE  Active(f.ses[d]) <= WtMax /\ (~f.ses[d].est => f.ses[d].extras = {} /\ f.ses[d].pend = {})
      <3>1. CASE d = c
        BY <1>3, <2>3, <3>1, Zenon
      <3>2. CASE d # c
        <4>1. f.ses[d] = e.ses[d]
          BY <1>3, <3>2
        <4>. QED BY <4>1, Zenon DEF Sane, Bounded
      <3>. QED BY <3>1, <3>2
    <2>. QED BY <2>4, Zenon DEF Bounded
  <1>8. Sorted(f)
    <2>1. \A t \in f.ins : ~Local(f, t) /\ f.cls[t] \in {"new", "connect", "wt"}
      BY <1>0, <1>1, <1>3 DEF Sane, Sorted, Local
    <2>2. \A t \in f.own : f.cls[t] = "mine" /\ Info[t].kind = "data" /\ Info[t].local
      BY <1>0, <1>1, <1>3 DEF Sane, Sorted
    <2>3. \A t \in Streams : /\ f.cls[t] = "connect" => Info[t].kind = "connect"
                             /\ f.cls[t] = "wt" => Info[t].kind = "data"
      BY <1>0, <1>3 DEF Sane, Sorted
    <2>4. ASSUME NEW d \in Conns, NEW t \in Resolvable(f.ses[d])
          PROVE  Info[t].kind = "connect" /\ Info[t].c = d /\ (f.server => f.cls[t] = "connect")
      <3>0. ~f.server
        BY <1>1
      <3>1. CASE d = c
        <4>1. t \in Resolvable(a) \cup {s}
          BY <1>2, <1>3, <2>4, <3>1 DEF Resolvable, WtConnects
        <4>2. t \in Resolvable(a) => Info[t].kind = "connect" /\ Info[t].c = c
          BY DEF Sane, Sorted
        <4>. QED BY <3>0, <3>1, <4>1, <4>2
      <3>2. CASE d # c
        <4>1. t \in Resolvable(e.ses[d])
          BY <1>3, <2>4, <3>2
        <4>. QED BY <3>0, <4>1 DEF Sane, Sorted
      <3>. QED BY <3>1, <3>2
    <2>. QED BY <2>1, <2>2, <2>3, <2>4, Zenon DEF Sorted
  <1>. QED BY <1>4, <1>5, <1>6, <1>7, <1>8 DEF Sane, f

LEMMA OpenWtSessionStep ==
    ASSUME EndpointInvariant, NEW s \in Streams, OpenWtSession(s)
    PROVE  EndpointInvariant'
  <1>. DEFINE c == Info[s].c
  <1>0. /\ Sane(ep) /\ NetOK /\ NetTyped /\ UNCHANGED <<net, dgs, job>> /\ c \in Conns
        /\ ep' = [ep EXCEPT !.ses[c].pend = @ \cup {s}, !.cls[s] = "mine"]
        /\ Info[s].kind = "connect" /\ ~ep.server /\ ep.phase[c] = "up" /\ ep.ses[c].est
        /\ Active(ep.ses[c]) < WtMax
    BY StreamsAssumption DEF EndpointInvariant, OpenWtSession, Connects, NetOK
  <1>1. Sane(ep')
    BY <1>0, WtOpenedSane, Zenon
  <1>2. /\ DOMAIN ep = Fields /\ ep.cls \in [Streams -> Classes]
        /\ s \notin ep.ins /\ s \notin ep.own /\ ep.ins \cup ep.own \subseteq Streams
    BY <1>0 DEF Sane, Typed, Sorted, Local
  <1>3. /\ ep'.phase = ep.phase /\ ep'.ins = ep.ins /\ ep'.own = ep.own /\ ep'.idx = ep.idx
        /\ ep'.half = ep.half /\ ep'.paused = ep.paused /\ ep'.events = ep.events
        /\ ep'.tokens = ep.tokens /\ ep'.waiters = ep.waiters
        /\ ep'.cls[s] = "mine" /\ \A t \in Streams \ {s} : ep'.cls[t] = ep.cls[t]
    BY <1>0, <1>2 DEF Fields
  <1>4. NetOK'
    <2>1. NetTyped' /\ DOMAIN dgs' = Conns
      BY <1>0 DEF NetOK, NetTyped
    <2>2. ASSUME NEW t \in Streams
          PROVE  /\ net'[t].end = "reset" => net'[t].q = <<>>
                 /\ Info[t].kind = "data" /\ Info[t].local /\ net'[t].q # <<>> => ep'.cls[t] = "mine"
      BY <1>0, <1>3 DEF NetOK
    <2>3. ASSUME NEW t \in ep'.ins \cup ep'.own,
                 ep'.cls[t] \in {"wt", "mine"} /\ (ep'.half[t] = {"recv"} \/ t \notin ep'.idx)
          PROVE  Dead(t)'
      <3>1. t \in ep.ins \cup ep.own /\ ep'.cls[t] = ep.cls[t]
        BY <1>2, <1>3, <2>3
      <3>2. Dead(t)
        BY <1>0, <1>3, <2>3, <3>1 DEF NetOK
      <3>. QED BY <1>0, <3>2 DEF Dead
    <2>. QED BY <2>1, <2>2, <2>3, Zenon DEF NetOK
  <1>5. ASSUME NEW t \in Streams, Pending(t)' PROVE Pending(t)
    <2>1. t # s
      BY <1>2, <1>3, <1>5 DEF Pending
    <2>. QED BY <1>0, <1>3, <1>5, <2>1 DEF Pending
  <1>6. Releasable(ep) => Releasable(ep')
    BY <1>3 DEF Releasable
  <1>. QED BY <1>0, <1>1, <1>3, <1>4, <1>5, <1>6, CallStep, Zenon

LEMMA CloseWtSessionStep ==
    ASSUME EndpointInvariant, NEW s \in Streams, CloseWtSession(s)
    PROVE  EndpointInvariant'
  <1>. DEFINE c == Info[s].c
              a == ep.ses[c]
              b == [a EXCEPT !.shut = @ \/ s = a.primary, !.extras = @ \ {s}, !.pend = @ \ {s}]
              d == [ep EXCEPT !.ses[c].shut = @ \/ s = ep.ses[c].primary,
                              !.ses[c].extras = @ \ {s}, !.ses[c].pend = @ \ {s}]
              r == ResetSessionStreams(d, c, s)
  <1>0. /\ Sane(ep) /\ NetOK /\ UNCHANGED <<net, dgs, job>> /\ c \in Conns
        /\ ep' = SessionClosed(r, c, s)
    BY StreamsAssumption DEF EndpointInvariant, CloseWtSession
  <1>1. DOMAIN ep = Fields /\ SessionTyped(a) /\ DOMAIN ep.ses = Conns
    BY <1>0 DEF Sane, Typed
  <1>2. Sets(ep, d, c, b)
    <2>1. DOMAIN a = SessionFields
      BY <1>1 DEF SessionTyped
    <2>2. d.ses = [ep.ses EXCEPT ![c] = b] /\ DOMAIN d = Fields
      BY <1>1, <2>1 DEF Fields, SessionFields
    <2>. HIDE DEF b
    <2>3. /\ d.server = ep.server /\ d.phase = ep.phase /\ d.sess = ep.sess /\ d.hs = ep.hs
          /\ d.str = ep.str /\ d.ins = ep.ins /\ d.cls = ep.cls /\ d.own = ep.own
          /\ d.idx = ep.idx /\ d.half = ep.half /\ d.waiters = ep.waiters /\ d.tokens = ep.tokens
          /\ d.events = ep.events /\ d.paused = ep.paused
      BY <1>1 DEF Fields
    <2>. HIDE DEF d
    <2>. QED BY <2>2, <2>3 DEF Sets
  <1>3. /\ SessionTyped(b) /\ b.extras \subseteq a.extras /\ b.pend \subseteq a.pend
        /\ b.primary = a.primary /\ b.est = a.est /\ (~b.shut => ~a.shut)
    BY <1>1 DEF SessionTyped, SessionFields
  <1>. HIDE DEF b, d
  <1>4. Sane(d) /\ Keeps(ep, d)
    BY <1>0, <1>2, <1>3, LosesSession
  <1>5. Sane(r) /\ Keeps(d, r)
    BY <1>0, <1>4, ResetKeeps
  <1>. HIDE DEF r
  <1>6. Sane(ep') /\ Keeps(r, ep')
    BY <1>0, <1>5, ClosedKeeps
  <1>7. Keeps(ep, ep')
    <2>1. PICK f : f = ep'
      OBVIOUS
    <2>2. Keeps(d, f)
      BY <1>4, <1>5, <1>6, <2>1, KeepsOn DEF Sane
    <2>3. Keeps(ep, f)
      BY <1>0, <1>4, <1>6, <2>1, <2>2, KeepsOn DEF Sane
    <2>. QED BY <2>1, <2>3
  <1>. QED BY <1>0, <1>6, <1>7, NetSame, KeptCall

LEMMA EndSendStep ==
    ASSUME EndpointInvariant, NEW s \in Streams, EndSend(s)
    PROVE  EndpointInvariant'
  <1>0. /\ Sane(ep) /\ NetOK /\ UNCHANGED <<net, dgs, job>> /\ ep' = HalfDone(ep, s, "send")
    BY DEF EndpointInvariant, EndSend
  <1>1. Keeps(ep, ep) /\ Alike(ep, ep)
    <2>1. Keeps(ep, ep)
      BY <1>0, KeepsItself DEF Sane
    <2>. QED BY <1>0, <2>1 DEF Alike, Sane, Typed
  <1>2. NetShrinks
    BY <1>0, NetSame
  <1>3. /\ Sane(ep') /\ NetOK' /\ ep'.waiters = ep.waiters /\ ep'.phase = ep.phase
        /\ Releasable(ep) => Releasable(ep')
        /\ \A t \in Streams : Pending(t)' => Pending(t)
    BY <1>0, <1>1, <1>2, SendDone
  <1>. QED BY <1>0, <1>3, CallStep, Zenon

\* stream_stop: nothing of s is unread any more, whatever becomes of its handle.
LEMMA StopStep ==
    ASSUME EndpointInvariant, NEW s \in Streams, Stop(s)
    PROVE  EndpointInvariant'
  <1>. DEFINE d == [ep EXCEPT !.paused = @ \ {s}]
  <1>0. /\ Sane(ep) /\ NetOK /\ NetTyped /\ UNCHANGED <<dgs, job>> /\ ep' = HalfDone(d, s, "recv")
        /\ net' = [net EXCEPT ![s].q = <<>>, ![s].end = "fin"]
    BY DEF EndpointInvariant, Stop, NetOK
  <1>1. NetShrinks /\ Dead(s)' /\ net'[s].q = <<>>
    <2>1. DOMAIN net = Streams /\ DOMAIN net[s] = {"q", "end", "seen", "stop"}
      BY <1>0 DEF NetTyped
    <2>2. net' = [net EXCEPT ![s] = [@ EXCEPT !.q = <<>>, !.end = "fin"]]
      BY <1>0, <2>1
    <2>. QED BY <1>0, <2>2, NetDropped, Zenon
  <1>2. /\ DOMAIN ep = Fields /\ ep.events \in Seq(Event) /\ IsFiniteSet(DOMAIN ep.tokens)
        /\ ep.waiters \in Seq(Conns) /\ ep.ins \cup ep.own \subseteq Streams
    BY <1>0 DEF Sane, Typed
  <1>3. /\ SameTables(ep, d) /\ d.events = ep.events /\ d.tokens = ep.tokens
        /\ d.waiters = ep.waiters /\ d.paused = ep.paused \ {s}
    BY <1>2 DEF SameTables, Fields
  <1>. HIDE DEF d
  <1>4. Sane(d)
    BY <1>0, <1>2, <1>3, SameTablesSane
  <1>5. /\ Shrinks(d, ep') /\ ep'.ins = d.ins /\ ep'.own = d.own
        /\ \A t \in Streams \ {s} : /\ t \in ep'.idx <=> t \in d.idx
                                    /\ t \in ep'.paused <=> t \in d.paused
                                    /\ ep'.half[t] = d.half[t]
    <2>1. PICK bit \in {"recv", "send"} : bit = "recv"
      OBVIOUS
    <2>2. ep' = HalfDone(d, s, bit)
      BY <1>0, <2>1
    <2>. QED BY <1>4, <2>2, HalfDoneIs
  <1>6. Sane(ep')
    BY <1>4, <1>5, ShrinksSane
  <1>7. /\ ep'.waiters = ep.waiters /\ ep'.phase = ep.phase /\ ep'.cls = ep.cls
        /\ ep'.ins = ep.ins /\ ep'.own = ep.own /\ ep'.events = ep.events /\ ep'.tokens = ep.tokens
        /\ \A t \in Streams \ {s} : /\ t \in ep'.idx <=> t \in ep.idx
                                    /\ t \in ep'.paused <=> t \in ep.paused
                                    /\ ep'.half[t] = ep.half[t]
    BY <1>3, <1>5 DEF Shrinks, SameTables
  <1>8. NetOK'
    <2>1. NetTyped' /\ DOMAIN dgs' = Conns
      BY <1>0, <1>1 DEF NetOK, NetShrinks
    <2>2. ASSUME NEW t \in Streams
          PROVE  /\ net'[t].end = "reset" => net'[t].q = <<>>
                 /\ Info[t].kind = "data" /\ Info[t].local /\ net'[t].q # <<>> => ep'.cls[t] = "mine"
      <3>1. /\ net'[t].q # <<>> => net[t].q # <<>>
            /\ net'[t].end = "reset" => net'[t].q = <<>>
        BY <1>1, Zenon DEF NetShrinks
      <3>2. Info[t].kind = "data" /\ Info[t].local /\ net[t].q # <<>> => ep.cls[t] = "mine"
        BY <1>0, Zenon DEF NetOK
      <3>. QED BY <1>7, <3>1, <3>2
    <2>3. ASSUME NEW t \in ep'.ins \cup ep'.own,
                 ep'.cls[t] \in {"wt", "mine"} /\ (ep'.half[t] = {"recv"} \/ t \notin ep'.idx)
          PROVE  Dead(t)'
      <3>1. CASE t = s
        BY <1>1, <3>1
      <3>2. CASE t # s
        <4>1. t \in ep.ins \cup ep.own /\ t \in Streams
          BY <1>2, <1>7, <2>3
        <4>2. ep.cls[t] \in {"wt", "mine"} /\ (ep.half[t] = {"recv"} \/ t \notin ep.idx)
          BY <1>7, <2>3, <3>2, <4>1
        <4>3. Dead(t)
          BY <1>0, <4>1, <4>2, Zenon DEF NetOK
        <4>. QED BY <1>1, <4>1, <4>3, Zenon DEF NetShrinks
      <3>. QED BY <3>1, <3>2
    <2>. QED BY <2>1, <2>2, <2>3, Zenon DEF NetOK
  <1>9. ASSUME NEW t \in Streams, Pending(t)' PROVE Pending(t)
    <2>1. t # s
      BY <1>1, <1>9 DEF Pending
    <2>2. net[t].q # <<>>
      BY <1>1, <1>9, Zenon DEF NetShrinks, Pending
    <2>. QED BY <1>7, <1>9, <2>1, <2>2 DEF Pending
  <1>10. Releasable(ep) => Releasable(ep')
    BY <1>7 DEF Releasable
  <1>. QED BY <1>0, <1>6, <1>7, <1>8, <1>9, <1>10, CallStep, Zenon

LEMMA PauseStep ==
    ASSUME EndpointInvariant, NEW s \in Streams, Pause(s)
    PROVE  EndpointInvariant'
  <1>0. /\ Sane(ep) /\ NetOK /\ UNCHANGED <<net, dgs, job>>
        /\ ep' = [ep EXCEPT !.paused = @ \cup {s}]
    BY DEF EndpointInvariant, Pause
  <1>1. /\ DOMAIN ep = Fields /\ ep.events \in Seq(Event) /\ IsFiniteSet(DOMAIN ep.tokens)
        /\ ep.waiters \in Seq(Conns)
    BY <1>0 DEF Sane, Typed
  <1>2. /\ SameTables(ep, ep') /\ ep'.events = ep.events /\ ep'.tokens = ep.tokens
        /\ ep'.waiters = ep.waiters /\ ep'.paused = ep.paused \cup {s}
    BY <1>0, <1>1 DEF SameTables, Fields
  <1>3. Sane(ep')
    BY <1>0, <1>1, <1>2, SameTablesSane
  <1>4. NetOK' /\ ep'.phase = ep.phase
    BY <1>0, <1>2, SameNetStays DEF SameTables
  <1>5. ASSUME NEW t \in Streams, Pending(t)' PROVE Pending(t)
    BY <1>0, <1>2, <1>5 DEF Pending, SameTables
  <1>6. Releasable(ep) => Releasable(ep')
    BY <1>2 DEF Releasable
  <1>. QED BY <1>0, <1>2, <1>3, <1>4, <1>5, <1>6, CallStep, Zenon

\* stream_resume: a stream whose handle is gone has nothing unread.
LEMMA ResumeStreamStep ==
    ASSUME EndpointInvariant, NEW s \in Streams, ResumeStream(s)
    PROVE  EndpointInvariant'
  <1>. DEFINE p == ep.paused \ {s}
              j == [Resting EXCEPT !.c = Info[s].c]
  <1>0. /\ Sane(ep) /\ NetOK /\ UNCHANGED <<net, dgs>> /\ Idle /\ Info[s].c \in Conns
        /\ ep' = [ep EXCEPT !.paused = p]
    BY StreamsAssumption DEF EndpointInvariant, ResumeStream
  <1>1. CASE s \in ep.idx
    <2>1. job' = Snapshot(ep', j)
      BY <1>1 DEF ResumeStream
    <2>2. DOMAIN j = JobFields /\ j.c = Info[s].c /\ j.slots = 0 /\ j.wake = 0
      BY DEF Resting, JobFields
    <2>3. (\A t \in Streams \ p : t \in ep.paused => Info[t].c = Info[s].c) /\ p \subseteq ep.paused
      OBVIOUS
    <2>. HIDE DEF j, p
    <2>. QED BY <1>0, <2>1, <2>2, <2>3, UnpausedStep
  <1>2. CASE s \notin ep.idx
    <2>0. job' = job
      BY <1>2 DEF ResumeStream
    <2>1. /\ DOMAIN ep = Fields /\ ep.events \in Seq(Event) /\ IsFiniteSet(DOMAIN ep.tokens)
          /\ ep.waiters \in Seq(Conns)
      BY <1>0 DEF Sane, Typed
    <2>2. /\ SameTables(ep, ep') /\ ep'.events = ep.events /\ ep'.tokens = ep.tokens
          /\ ep'.waiters = ep.waiters /\ ep'.paused = ep.paused \ {s}
      BY <1>0, <2>1 DEF SameTables, Fields
    <2>3. Sane(ep')
      BY <1>0, <2>1, <2>2, SameTablesSane
    <2>4. NetOK' /\ ep'.phase = ep.phase
      BY <1>0, <2>2, SameNetStays DEF SameTables
    <2>5. ASSUME NEW t \in Streams, Pending(t)' PROVE Pending(t)
      <3>1. CASE t # s
        BY <1>0, <2>2, <2>5, <3>1 DEF Pending, SameTables
      <3>2. CASE t = s
        <4>1. ASSUME s \in ep.ins \cup ep.own, ep.cls[s] \in {"wt", "mine"} PROVE FALSE
          <5>1. Dead(s)
            BY <1>0, <1>2, <4>1, Zenon DEF NetOK
          <5>. QED BY <1>0, <2>5, <3>2, <5>1 DEF Pending, Dead
        <4>2. s \in ep.own => ep.cls[s] = "mine"
          BY <1>0 DEF Sane, Sorted
        <4>. QED BY <1>0, <2>2, <2>5, <3>2, <4>1, <4>2 DEF Pending, SameTables
      <3>. QED BY <3>1, <3>2
    <2>6. Releasable(ep) => Releasable(ep')
      BY <2>2 DEF Releasable
    <2>. QED BY <1>0, <2>0, <2>2, <2>3, <2>4, <2>5, <2>6, CallStep, Zenon
  <1>. QED BY <1>1, <1>2

LEMMA CallsStep == ASSUME EndpointInvariant, Calls PROVE EndpointInvariant'
  BY HostClosesStep, TimeoutPrimaryStep, OpenStreamStep, OpenWtSessionStep, CloseWtSessionStep,
     EndSendStep, StopStep, PauseStep, ResumeStreamStep, TimeoutPendingStep, Zenon DEF Calls

-----------------------------------------------------------------------------
(* The invariant. *)

LEMMA InitSane ==
    ASSUME Init
    PROVE  /\ Sane(ep) /\ ep.waiters = <<>> /\ ep.own = {} /\ ep.lost = {}
           /\ \A s \in Streams : ep.cls[s] \in {"none", "connect"}
  <1>1. PICK r \in Roles, w \in Starts :
         ep = [server |-> r,
               phase |-> [c \in Conns |-> IF c \in w THEN "up" ELSE "absent"],
               hs |-> {}, sess |-> w, str |-> {},
               ses |-> [c \in Conns |->
                          IF c \in w THEN [Blank EXCEPT !.primary = First(c), !.est = TRUE]
                          ELSE Blank],
               ins |-> IF r THEN {First(c) : c \in w} ELSE {},
               cls |-> [s \in Streams |->
                          IF r /\ s \in {First(c) : c \in w} THEN "connect" ELSE "none"],
               own |-> {}, idx |-> {}, half |-> [s \in Streams |-> None], ssn |-> {},
               paused |-> {}, events |-> <<>>, tokens |-> <<>>, next |-> 1,
               waiters |-> <<>>, lost |-> {}]
    BY Zenon DEF Init
  <1>2. r \in BOOLEAN /\ w \subseteq Conns
    BY StreamsAssumption
  <1>. DEFINE B(c) == [Blank EXCEPT !.primary = First(c), !.est = TRUE]
  <1>3. /\ DOMAIN ep = Fields /\ ep.server = r /\ ep.hs = {} /\ ep.sess = w /\ ep.str = {}
        /\ ep.own = {} /\ ep.idx = {} /\ ep.half = [s \in Streams |-> None]
        /\ ep.ins = (IF r THEN {First(c) : c \in w} ELSE {})
        /\ ep.events = <<>> /\ ep.tokens = <<>> /\ ep.waiters = <<>> /\ ep.lost = {}
        /\ ep.phase = [c \in Conns |-> IF c \in w THEN "up" ELSE "absent"]
        /\ ep.ses = [c \in Conns |-> IF c \in w THEN B(c) ELSE Blank]
        /\ ep.cls = [s \in Streams |-> IF r /\ s \in {First(c) : c \in w} THEN "connect" ELSE "none"]
    BY <1>1, Zenon DEF Fields
  <1>4. ASSUME NEW c \in Conns
        PROVE  /\ SessionTyped(B(c)) /\ B(c).primary = First(c) /\ B(c).est /\ B(c).extras = {}
               /\ B(c).pend = {} /\ B(c).shut = FALSE
    <2>1. First(c) \in Streams
      BY FirstIs
    <2>. QED BY <2>1 DEF Blank, SessionTyped, SessionFields
  <1>5. /\ SessionTyped(Blank) /\ ~Blank.est /\ Blank.extras = {} /\ Blank.pend = {}
        /\ Blank.primary = None
    BY DEF Blank, SessionTyped, SessionFields
  <1>6. \A c \in Conns : First(c) \in Streams /\ Info[First(c)].kind = "connect" /\ Info[First(c)].c = c
    BY FirstIs
  <1>7. \A c \in Conns : ep.ses[c] = IF c \in w THEN B(c) ELSE Blank
    BY <1>3, Zenon
  <1>. HIDE DEF B
  <1>8. ep.ins \subseteq {First(c) : c \in w} /\ (ep.ins # {} => r)
    BY <1>3
  <1>9. Typed(ep)
    <2>1. ep.phase \in [Conns -> Phases] /\ ep.cls \in [Streams -> Classes] /\ ep.half \in [Streams -> Halves]
      BY <1>3 DEF Phases, Classes, Halves
    <2>2. ep.ins \subseteq Streams
      BY <1>2, <1>6, <1>8
    <2>3. DOMAIN ep.ses = Conns /\ \A c \in Conns : SessionTyped(ep.ses[c])
      BY <1>3, <1>4, <1>5, <1>7, Zenon
    <2>4. ep.events \in Seq(Event) /\ ep.waiters \in Seq(Conns)
      BY <1>3
    <2>5. IsFiniteSet(DOMAIN ep.tokens)
      <3>1. DOMAIN ep.tokens = {}
        BY <1>3
      <3>. QED BY <3>1, FS_EmptySet
    <2>. QED BY <1>2, <1>3, <2>1, <2>2, <2>3, <2>4, <2>5 DEF Typed
  <1>10. Reserved(ep)
    BY <1>2, <1>3 DEF Reserved
  <1>11. Quiet(ep)
    <2>1. ASSUME NEW c \in Conns, ep.phase[c] \in {"absent", "handshake", "gone"}
          PROVE  /\ ~ep.ses[c].est /\ Resolvable(ep.ses[c]) = {}
                 /\ \A s \in ep.ins \cup ep.own : Info[s].c # c
      <3>1. c \notin w
        BY <1>3, <2>1
      <3>2. ep.ses[c] = Blank
        BY <1>7, <3>1
      <3>3. \A s \in ep.ins \cup ep.own : Info[s].c # c
        BY <1>2, <1>3, <1>6, <1>8, <3>1
      <3>. QED BY <1>5, <3>2, <3>3 DEF Resolvable, WtConnects
    <2>. QED BY <2>1 DEF Quiet
  <1>12. Bounded(ep)
    <2>1. WtMax \in Nat /\ WtMax >= 1
      BY LimitsAssumption
    <2>2. Cardinality({}) = 0
      BY FS_EmptySet
    <2>3. ASSUME NEW c \in Conns
          PROVE  /\ Active(ep.ses[c]) <= WtMax
                 /\ ~ep.ses[c].est => ep.ses[c].extras = {} /\ ep.ses[c].pend = {}
      <3>1. ep.ses[c].extras = {} /\ ep.ses[c].pend = {}
        BY <1>4, <1>5, <1>7
      <3>. QED BY <2>1, <2>2, <3>1 DEF Active
    <2>. QED BY <2>3 DEF Bounded
  <1>13. Sorted(ep)
    <2>1. \A s \in ep.ins : ~Local(ep, s) /\ ep.cls[s] \in {"new", "connect", "wt"}
      BY <1>2, <1>3, <1>6, <1>8 DEF Local
    <2>2. \A s \in ep.own : ep.cls[s] = "mine" /\ Info[s].kind = "data" /\ Info[s].local
      BY <1>3
    <2>3. \A s \in Streams : /\ ep.cls[s] = "connect" => Info[s].kind = "connect"
                             /\ ep.cls[s] = "wt" => Info[s].kind = "data"
      BY <1>2, <1>3, <1>6
    <2>4. ASSUME NEW c \in Conns, NEW s \in Resolvable(ep.ses[c])
          PROVE  Info[s].kind = "connect" /\ Info[s].c = c /\ (ep.server => ep.cls[s] = "connect")
      <3>1. c \in w /\ s = First(c)
        BY <1>4, <1>5, <1>7, <2>4 DEF Resolvable, WtConnects
      <3>. QED BY <1>2, <1>3, <1>6, <3>1
    <2>. QED BY <2>1, <2>2, <2>3, <2>4 DEF Sorted
  <1>14. \A s \in Streams : ep.cls[s] \in {"none", "connect"}
    BY <1>3
  <1>. QED BY <1>3, <1>9, <1>10, <1>11, <1>12, <1>13, <1>14 DEF Sane

LEMMA InitHolds == Init => EndpointInvariant
  <1>. SUFFICES ASSUME Init PROVE EndpointInvariant
    OBVIOUS
  <1>1. /\ Sane(ep) /\ ep.waiters = <<>> /\ ep.own = {}
        /\ \A s \in Streams : ep.cls[s] \in {"none", "connect"}
    BY InitSane
  <1>2. /\ net = [s \in Streams |-> [q |-> <<>>, end |-> "open", seen |-> 0, stop |-> FALSE]]
        /\ dgs = [c \in Conns |-> [wait |-> 0, seen |-> 0]] /\ job = Resting
    BY Zenon DEF Init
  <1>3. \A s \in Streams : net[s] = [q |-> <<>>, end |-> "open", seen |-> 0, stop |-> FALSE]
    BY <1>2, Zenon
  <1>4. \A s \in Streams : /\ net[s].q = <<>> /\ net[s].end = "open"
                            /\ DOMAIN net[s] = {"q", "end", "seen", "stop"}
    BY <1>3
  <1>5. NetOK
    <2>1. NetTyped /\ DOMAIN dgs = Conns
      <3>1. DOMAIN net = Streams /\ DOMAIN dgs = Conns
        BY <1>2, Zenon
      <3>2. <<>> \in Seq(Frames \cup {"head", "b"})
        OBVIOUS
      <3>. QED BY <1>4, <3>1, <3>2, Zenon DEF NetTyped
    <2>2. \A s \in ep.ins \cup ep.own : ep.cls[s] \notin {"wt", "mine"}
      BY <1>1 DEF Sane, Typed
    <2>. QED BY <1>4, <2>1, <2>2 DEF NetOK
  <1>6. JobOK
    BY <1>2 DEF JobOK, Resting
  <1>7. Placed
    <2>1. \A s \in Streams : ~Pending(s)
      BY <1>4 DEF Pending
    <2>2. \A c \in Conns : ~(dgs[c].wait > 0)
      BY <1>2
    <2>. QED BY <2>1, <2>2 DEF Placed
  <1>8. WakesLeft
    BY <1>1, <1>2 DEF WakesLeft, Distinct, Resting
  <1>. QED BY <1>1, <1>5, <1>6, <1>7, <1>8 DEF EndpointInvariant

LEMMA StepHolds == EndpointInvariant /\ [Next]_vars => EndpointInvariant'
  <1>. SUFFICES ASSUME EndpointInvariant, [Next]_vars PROVE EndpointInvariant'
    OBVIOUS
  <1>1. CASE UNCHANGED vars
    BY <1>1 DEF vars, EndpointInvariant, NetOK, NetTyped, Dead, JobOK, Placed, Pending, Waits, WakesLeft
  <1>2. CASE Next
    BY <1>2, PumpStep, PollStep, ReleaseTokenStep, PeerStep, CallsStep, Zenon DEF Next
  <1>. QED BY <1>1, <1>2

\* In every behaviour of the endpoint its tables are sane, and what is unread is
\* before the pump or waits with something left to release.
THEOREM EndpointInvariantHolds == Spec => []EndpointInvariant
  BY InitHolds, StepHolds, PTL DEF Spec

-----------------------------------------------------------------------------
(* What a host can rely on. *)

\* A stream's reservation lives exactly as long as its handle on a live
\* connection, and handshake and session slots only with their connection,
\* whichever of FIN, stop, reset, session end, protocol error, loss or close
\* comes first (mark_stream_half_done, release_connection_budget,
\* cleanup_connection).
THEOREM BudgetKept == Spec => []BudgetTracksStreams
  <1>1. EndpointInvariant => BudgetTracksStreams
    BY DEF EndpointInvariant, Sane, Reserved, BudgetTracksStreams
  <1>. QED BY <1>1, EndpointInvariantHolds, PTL

\* No connection of either side has more WebTransport sessions than
\* SETTINGS_WT_MAX_SESSIONS, the unanswered ones included, although CONNECT
\* streams are admitted before they are decoded (active_wt_count,
\* count_unlatched_connect_streams).
THEOREM SessionsWithinMax == Spec => []SessionsBounded
  <1>1. EndpointInvariant => SessionsBounded
    <2>. SUFFICES ASSUME EndpointInvariant, NEW c \in Conns
                  PROVE  Cardinality({x \in {ep.ses[c].primary} : Live(ep.ses[c])}
                                       \cup ep.ses[c].extras \cup ep.ses[c].pend) <= WtMax
      BY DEF SessionsBounded
    <2>. DEFINE ss == ep.ses[c]
                P == {x \in {ss.primary} : Live(ss)}
    <2>1. SessionTyped(ss) /\ Active(ss) <= WtMax
      BY DEF EndpointInvariant, Sane, Typed, Bounded
    <2>. HIDE DEF ss
    <2>2. IsFiniteSet(ss.extras) /\ IsFiniteSet(ss.pend)
      BY <2>1, StreamsAssumption, FS_Subset DEF SessionTyped
    <2>3. IsFiniteSet(P) /\ Cardinality(P) = IF Live(ss) THEN 1 ELSE 0
      <3>1. CASE Live(ss)
        <4>1. P = {ss.primary}
          BY <3>1
        <4>. QED BY <3>1, <4>1, FS_Singleton
      <3>2. CASE ~Live(ss)
        <4>1. P = {}
          BY <3>2
        <4>. QED BY <3>2, <4>1, FS_EmptySet
      <3>. QED BY <3>1, <3>2
    <2>. HIDE DEF P
    <2>4. /\ IsFiniteSet(P \cup ss.extras)
          /\ Cardinality(P \cup ss.extras) <= Cardinality(P) + Cardinality(ss.extras)
          /\ Cardinality(P \cup ss.extras \cup ss.pend) <= Cardinality(P \cup ss.extras) + Cardinality(ss.pend)
      BY <2>2, <2>3, UnionSmall
    <2>5. /\ Cardinality(P) \in Nat /\ Cardinality(ss.extras) \in Nat /\ Cardinality(ss.pend) \in Nat
          /\ Cardinality(P \cup ss.extras) \in Nat /\ WtMax \in Nat
          /\ Cardinality(P \cup ss.extras \cup ss.pend) \in Nat
      BY <2>2, <2>3, <2>4, FS_CardinalityType, FS_Union, LimitsAssumption
    <2>6. Active(ss) = Cardinality(P) + Cardinality(ss.extras) + Cardinality(ss.pend)
      BY <2>3 DEF Active
    <2>7. Cardinality(P \cup ss.extras \cup ss.pend) <= WtMax
      BY <2>1, <2>4, <2>5, <2>6
    <2>. QED BY <2>7 DEF P, ss
  <1>. QED BY <1>1, EndpointInvariantHolds, PTL

\* Between two calls of the host, a connection with something unread is in
\* capacity_waiters, and the host holds an event or a token whose release wakes
\* it (enqueue_capacity_waiter, resume_waiting_after_capacity_change).
THEOREM NobodyIsStranded == Spec => []NobodyStranded
  <1>1. EndpointInvariant => NobodyStranded
    <2>. SUFFICES ASSUME EndpointInvariant, Idle, NEW c \in Conns, ep.phase[c] = "up", Unread(c)
                  PROVE  Contains(ep.waiters, c) /\ (ep.events # <<>> \/ DOMAIN ep.tokens # {})
      BY DEF NobodyStranded
    <2>0. Sane(ep) /\ Placed /\ WakesLeft /\ job.c = None /\ job.wake = 0 /\ None \notin Conns
      BY StreamsAssumption DEF EndpointInvariant, Idle, Resting
    <2>1. ASSUME NEW s \in Of(c), net[s].q # <<>>, s \notin ep.paused,
                 Branch(ep, s) \in {"new", "wt", "own"}
          PROVE  Waits(c)
      <3>1. s \in Streams /\ Info[s].c = c
        BY DEF Of
      <3>2. s \in ep.ins => ep.cls[s] \in {"new", "connect", "wt"}
        BY <2>0 DEF Sane, Sorted
      <3>3. \/ s \in ep.ins /\ ep.cls[s] \in {"new", "wt"}
            \/ s \in ep.own
        BY <2>1, <3>2 DEF Branch
      <3>4. Pending(s)
        BY <2>1, <3>3 DEF Pending
      <3>. QED BY <2>0, <3>1, <3>4, Zenon DEF Placed
    <2>2. ASSUME dgs[c].wait > 0 PROVE Waits(c)
      BY <2>0, <2>2, Zenon DEF Placed
    <2>3. Waits(c)
      BY <2>1, <2>2, Zenon DEF Unread
    <2>4. Releasable(ep)
      <3>1. ep.waiters # <<>>
        BY <2>3 DEF Waits, Contains
      <3>2. ep.waiters \in Seq(Conns)
        BY <2>0 DEF Sane, Typed
      <3>. QED BY <2>0, <3>1, <3>2 DEF WakesLeft
    <2>. QED BY <2>3, <2>4 DEF Waits, Releasable
  <1>. QED BY <1>1, EndpointInvariantHolds, PTL

-----------------------------------------------------------------------------
(* push_event drops in silence, and never what was read from quinn. *)

Dropping == {"data", "dgram", "opened"}
Clean(e) == DOMAIN e = Fields /\ e.lost = {}

LEMMA PushClean ==
    ASSUME NEW e, Clean(e), NEW k, k \notin Dropping, NEW c, NEW s, NEW n
    PROVE  Clean(PushEvent(e, Ev(k, c, s, n)))
  <1>1. Ev(k, c, s, n).k = k /\ {k} \cap {"data", "dgram", "opened"} = {}
    BY DEF Ev, Dropping
  <1>2. PICK ev : ev = Ev(k, c, s, n)
    OBVIOUS
  <1>. QED BY <1>1, <1>2 DEF PushEvent, Clean, Fields

LEMMA FitsClean ==
    ASSUME NEW e, Clean(e), NEW ev, ~(Len(e.events) >= EventCap), ~Charged(ev) \/ ~(ev.n > Room(e, ev.c, ev.s))
    PROVE  Clean(PushEvent(e, ev))
  BY DEF PushEvent, Clean, Fields

LEMMA NotesClean ==
    ASSUME NEW e, Clean(e), NEW n PROVE Clean(PushNotes(e, n))
  BY DEF PushNotes, Clean, Fields

LEMMA HalfDoneClean ==
    ASSUME NEW e, Clean(e), NEW s, NEW bit PROVE Clean(HalfDone(e, s, bit))
  BY DEF HalfDone, Clean, Fields

LEMMA RetireClean ==
    ASSUME NEW e, Clean(e), NEW s PROVE Clean(RetireIn(e, s))
  <1>. DEFINE a == [e EXCEPT !.ins = @ \ {s}]
              b == [a EXCEPT !.paused = @ \ {s}]
  <1>1. Clean(a) /\ Clean(b)
    BY DEF Clean, Fields
  <1>. HIDE DEF b
  <1>2. Clean(HalfDone(b, s, "recv"))
    BY <1>1, HalfDoneClean
  <1>. QED BY <1>1, <1>2 DEF RetireIn, b

LEMMA RecvOverClean ==
    ASSUME NEW e, Clean(e), NEW s PROVE Clean(RecvOver(e, s))
  <1>. DEFINE a == [e EXCEPT !.own = @ \ {s}, !.paused = @ \ {s}]
  <1>1. Clean(a)
    BY DEF Clean, Fields
  <1>. HIDE DEF a
  <1>2. Clean(HalfDone(a, s, "recv")) /\ Clean(RetireIn(e, s))
    BY <1>1, HalfDoneClean, RetireClean
  <1>. QED BY <1>2 DEF RecvOver, a

LEMMA ResetClean ==
    ASSUME NEW e, Clean(e), NEW c, NEW x PROVE Clean(ResetSessionStreams(e, c, x))
  <1>. DEFINE gone == {s \in e.idx \cap e.ssn : Info[s].c = c /\ Info[s].sess = x}
              a == [e EXCEPT !.own = @ \ gone, !.ins = @ \ gone, !.paused = @ \ gone,
                             !.str = @ \ gone, !.idx = @ \ gone, !.ssn = @ \ gone,
                             !.half = [s \in Streams |-> IF s \in gone THEN None ELSE @[s]]]
  <1>. HIDE DEF gone
  <1>1. Clean(a)
    BY DEF Clean, Fields
  <1>. HIDE DEF a
  <1>2. Clean(PushNotes(a, Cardinality(gone)))
    BY <1>1, NotesClean
  <1>. QED BY <1>2 DEF ResetSessionStreams, a, gone

LEMMA ClosedClean ==
    ASSUME NEW e, Clean(e), NEW c, NEW x PROVE Clean(SessionClosed(e, c, x))
  <1>1. "sclosed" \notin Dropping
    BY DEF Dropping
  <1>. QED BY <1>1, PushClean DEF SessionClosed

LEMMA EndSessionClean ==
    ASSUME NEW e, Clean(e), NEW c, NEW x PROVE Clean(EndWtSession(e, c, x))
  <1>. DEFINE a == IF e.ses[c].primary = x THEN [e EXCEPT !.ses[c].shut = TRUE]
                   ELSE [e EXCEPT !.ses[c].extras = @ \ {x}]
  <1>1. Clean(a)
    BY DEF Clean, Fields
  <1>. HIDE DEF a
  <1>2. Clean(SessionClosed(ResetSessionStreams(a, c, x), c, x))
    BY <1>1, ResetClean, ClosedClean
  <1>. QED BY <1>1, <1>2 DEF EndWtSession, a

LEMMA ClosingClean ==
    ASSUME NEW e, Clean(e), NEW c
    PROVE  /\ Clean(ReleaseBudget(QuinnCloses(PushEvent(e, Ev("closed", c, None, 0)), c), c))
           /\ Clean(CloseProtocolError(e, c)) /\ Clean(Cleanup(e, c)) /\ Clean(CloseConn(e, c))
  <1>. DEFINE a == PushEvent(e, Ev("closed", c, None, 0))
  <1>1. Clean(a)
    <2>1. "closed" \notin Dropping
      BY DEF Dropping
    <2>. QED BY <2>1, PushClean
  <1>. HIDE DEF a
  <1>2. Clean(QuinnCloses(a, c))
    BY <1>1 DEF QuinnCloses, Clean, Fields
  <1>3. Clean(ReleaseBudget(QuinnCloses(a, c), c))
    <2>1. PICK b : b = QuinnCloses(a, c)
      OBVIOUS
    <2>2. Clean(ReleaseBudget(b, c))
      BY <1>2, <2>1 DEF ReleaseBudget, Clean, Fields
    <2>. QED BY <2>1, <2>2
  <1>4. Clean(Cleanup(a, c)) /\ Clean(Cleanup(e, c))
    BY <1>1 DEF Cleanup, Clean, Fields
  <1>. QED BY <1>3, <1>4 DEF CloseProtocolError, CloseConn, a

LEMMA FailClean ==
    ASSUME NEW e, Clean(e), NEW c PROVE Clean(FailBeforeEstablish(e, c))
  <1>. DEFINE a == [e EXCEPT !.ses[c].shut = TRUE, !.ses[c].extras = {}]
  <1>1. Clean(a)
    BY DEF Clean, Fields
  <1>. HIDE DEF a
  <1>2. Clean(ReleaseBudget(QuinnCloses(PushEvent(a, Ev("closed", c, None, 0)), c), c))
    BY <1>1, ClosingClean
  <1>. QED BY <1>2 DEF FailBeforeEstablish, a

LEMMA EstablishedClean ==
    ASSUME NEW e, Clean(e), NEW c, NEW s PROVE Clean(Established(e, c, s))
  <1>. DEFINE a == [e EXCEPT !.hs = @ \ {c}]
  <1>1. Clean(a)
    BY DEF Clean, Fields
  <1>. HIDE DEF a
  <1>2. "established" \notin Dropping
    BY DEF Dropping
  <1>3. Clean(PushEvent(a, Ev("established", c, s, 0)))
    BY <1>1, <1>2, PushClean
  <1>. QED BY <1>3 DEF Established, a

LEMMA CapsuleClean ==
    ASSUME NEW e, Clean(e), NEW c, NEW s, NEW f \in Capsules PROVE Clean(Capsule(e, c, s, f))
  <1>1. "draining" \notin Dropping
    BY DEF Dropping
  <1>2. Clean(EndWtSession(e, c, s)) /\ Clean(PushEvent(e, Ev("draining", c, s, 0)))
    BY <1>1, EndSessionClean, PushClean
  <1>3. f \in {"close", "drain", "badcap"}
    BY DEF Capsules
  <1>. QED BY <1>2, <1>3 DEF Capsule

LEMMA ConnectEndedClean ==
    ASSUME NEW e, Clean(e), NEW c, NEW s, NEW prim PROVE Clean(ConnectEnded(e, c, s, prim))
  BY FailClean, EndSessionClean DEF ConnectEnded

LEMMA NoteBlockedClean ==
    ASSUME NEW e, Clean(e), NEW c, NEW s PROVE Clean(NoteBlocked(e, c, s))
  <1>1. Clean([e EXCEPT !.ses[c].stuck = @ \cup {s}])
    BY DEF Clean, Fields
  <1>. QED BY <1>1, ClosingClean DEF NoteBlocked

LEMMA FrameClean ==
    ASSUME NEW e, Clean(e), NEW c, NEW s, NEW f, Branch(e, s) \in ConnectBranches
    PROVE  Clean(Frame(e, c, s, f))
  <1>1. Clean(ClientFrame(e, c, s, f))
    <2>. DEFINE a == [e EXCEPT !.ses[c].est = TRUE, !.ses[c].stuck = @ \ {s}]
    <2>1. Clean(a)
      BY DEF Clean, Fields
    <2>. HIDE DEF a
    <2>2. Clean(Established(a, c, s)) /\ Clean(CloseProtocolError(e, c)) /\ Clean(FailBeforeEstablish(e, c))
      BY <2>1, EstablishedClean, ClosingClean, FailClean
    <2>3. f \in Capsules => Clean(Capsule(e, c, s, f))
      BY CapsuleClean
    <2>. QED BY <2>2, <2>3 DEF ClientFrame, a
  <1>2. Clean(PendingFrame(e, c, s, f))
    <2>. DEFINE a == [e EXCEPT !.ses[c].pend = @ \ {s}, !.ses[c].stuck = @ \ {s}]
                b == [a EXCEPT !.ses[c].extras = @ \cup {s}]
    <2>1. Clean(a) /\ Clean(b)
      BY Zenon DEF Clean, Fields
    <2>. HIDE DEF b
    <2>2. Clean(Established(b, c, s)) /\ Clean(CloseProtocolError(e, c))
      BY <2>1, EstablishedClean, ClosingClean
    <2>3. Clean(SessionClosed(a, c, s))
      <3>. HIDE DEF a
      <3>. QED BY <2>1, ClosedClean
    <2>. QED BY <2>2, <2>3 DEF PendingFrame, b
  <1>3. Clean(ExtraFrame(e, c, s, f))
    BY ClosingClean, CapsuleClean DEF ExtraFrame
  <1>4. Clean(ServerFrame(e, c, s, f))
    <2>. DEFINE a == [e EXCEPT !.ses[c].stuck = @ \ {s}]
                b == [a EXCEPT !.ses[c].primary = s, !.ses[c].est = TRUE, !.ses[c].shut = FALSE]
                d == [a EXCEPT !.ses[c].extras = @ \cup {s}]
    <2>1. Clean(a) /\ Clean(b) /\ Clean(d)
      BY Zenon DEF Clean, Fields
    <2>. HIDE DEF b, d
    <2>2. /\ Clean(Established(b, c, s)) /\ Clean(Established(d, c, s))
          /\ Clean(CloseProtocolError(e, c))
      BY <2>1, EstablishedClean, ClosingClean
    <2>3. f \in Capsules => Clean(Capsule(e, c, s, f))
      BY CapsuleClean
    <2>4. Clean(Established(IF ~e.ses[c].est \/ e.ses[c].primary = None THEN b ELSE d, c, s))
      BY <2>2
    <2>. QED BY <2>1, <2>2, <2>3, <2>4 DEF ServerFrame, b, d
  <1>. QED BY <1>1, <1>2, <1>3, <1>4 DEF Frame, ConnectBranches

\* Whoever reads a data stream has asked for a slot before it began.
SlotsKept == \A s \in Streams : job.cur = s /\ Info[s].kind = "data" => job.slots >= 1

LEMMA RestedKeeps ==
    ASSUME job'.cur = None PROVE SlotsKept'
  BY StreamsAssumption DEF SlotsKept

LEMMA FinishedKeeps ==
    ASSUME JobOK, NEW s, Finished(s) PROVE SlotsKept'
  BY RestedKeeps DEF Finished, JobOK

LEMMA AgainKeeps ==
    ASSUME JobOK, SlotsKept, NEW s \in Streams, Again(s),
           Info[s].kind = "connect" \/ Branch(ep, s) \in {"new", "wt", "own"}
    PROVE  SlotsKept'
  <1>1. job'.cur = s /\ job'.slots = Slots(s)
    BY DEF Again, JobOK
  <1>2. Info[s].kind = "data" => Slots(s) >= 1
    BY DEF SlotsKept, Slots, SlotsNewStream
  <1>. QED BY <1>1, <1>2 DEF SlotsKept

LEMMA SlotFree ==
    ASSUME JobOK, SlotsKept, Sane(ep), NEW s \in Streams, ~NoSlots(s), Info[s].kind = "data",
           Branch(ep, s) \in {"new", "wt", "own"}
    PROVE  ~(Len(ep.events) >= EventCap)
  <1>1. Slots(s) \in 1..2
    <2>1. job.slots \in 0..2
      BY DEF JobOK
    <2>. QED BY <2>1 DEF SlotsKept, Slots, SlotsNewStream
  <1>2. Len(ep.events) \in Nat
    BY DEF Sane, Typed
  <1>3. EventSlots(ep, Slots(s))
    BY <1>1 DEF NoSlots
  <1>. QED BY <1>1, <1>2, <1>3, EventsAssumption DEF EventSlots

LEMMA SnapshotKeeps ==
    ASSUME SlotsKept, NEW STATE j, DOMAIN j = JobFields, j.cur = None \/ (j.cur = job.cur /\ j.slots = job.slots),
           job' = Snapshot(ep', j)
    PROVE  SlotsKept'
  <1>1. job'.cur = j.cur /\ job'.slots = j.slots
    BY DEF Snapshot, JobFields
  <1>. QED BY <1>1, StreamsAssumption DEF SlotsKept

LEMMA WaitClean ==
    ASSUME NEW e, Clean(e), NEW c PROVE Clean(WaitForCapacity(e, c))
  BY DEF WaitForCapacity, Clean, Fields

\* A data stream that is read for payload.
LEMMA ReadPayloadLoses ==
    ASSUME EndpointInvariant, Clean(ep), SlotsKept, NEW s \in Streams, ReadPayload(s)
    PROVE  Clean(ep') /\ SlotsKept'
  <1>. DEFINE c == job.c
              limit == Room(ep, c, s)
              q == net[s].q
              n == Min({limit, Len(q)})
              over == q = <<>> /\ net[s].end # "open"
              fin == net[s].end = "fin" /\ n = Len(q) /\ (n < limit \/ over)
              e1 == IF n > 0 \/ fin THEN PushEvent(ep, Ev("data", c, s, n)) ELSE ep
              d == PushEvent(ep, Ev("reset", c, s, 0))
  <1>0. /\ Sane(ep) /\ JobOK /\ q \in Seq(Frames \cup {"head", "b"}) /\ ~NoSlots(s)
        /\ Branch(ep, s) \in {"wt", "own"}
    BY DEF EndpointInvariant, ReadPayload, NetOK, NetTyped
  <1>1. Info[s].kind = "data"
    <2>1. \/ s \in ep.ins /\ ep.cls[s] = "wt"
          \/ s \in ep.own
      <3>1. s \in ep.ins => ep.cls[s] # "own"
        BY <1>0 DEF Sane, Sorted
      <3>. QED BY <1>0, <3>1 DEF Branch
    <2>. QED BY <1>0, <2>1 DEF Sane, Sorted
  <1>2. \/ ep' = WaitForCapacity(ep, c) /\ Finished(s)
        \/ /\ ep' = CASE fin -> RecvOver(e1, s)
                       [] net[s].end = "reset" -> RecvOver(d, s)
                       [] OTHER -> e1
           /\ IF n > 0 /\ ~fin THEN Again(s) ELSE Finished(s)
    BY DEF ReadPayload
  <1>3. ~(Len(ep.events) >= EventCap)
    BY <1>0, <1>1, SlotFree
  <1>4. limit \in Nat /\ Len(q) \in Nat
    BY <1>0, RoomIs
  <1>5. ~(n > limit)
    <2>. HIDE DEF limit, q
    <2>1. n = IF limit <= Len(q) THEN limit ELSE Len(q)
      BY <1>4, LeastOfTwo
    <2>. HIDE DEF n
    <2>. QED BY <1>4, <2>1
  <1>6. Clean(e1)
    <2>1. PICK ev : ev = Ev("data", c, s, n)
      OBVIOUS
    <2>2. ev.c = c /\ ev.s = s /\ ev.n = n
      <3>. HIDE DEF n
      <3>. QED BY <2>1 DEF Ev
    <2>3. ~(ev.n > Room(ep, ev.c, ev.s))
      <3>. HIDE DEF n
      <3>. QED BY <1>5, <2>2
    <2>4. Clean(PushEvent(ep, ev))
      BY <1>3, <2>3, FitsClean
    <2>. HIDE DEF n, fin
    <2>. QED BY <2>1, <2>4
  <1>7. Clean(d)
    <2>1. "reset" \notin Dropping
      BY DEF Dropping
    <2>. QED BY <2>1, PushClean
  <1>. HIDE DEF e1, d
  <1>8. Clean(RecvOver(e1, s)) /\ Clean(RecvOver(d, s)) /\ Clean(WaitForCapacity(ep, c))
    BY <1>6, <1>7, RecvOverClean, WaitClean
  <1>. HIDE DEF fin, n, c
  <1>9. Clean(ep')
    BY <1>2, <1>6, <1>8
  <1>10. Finished(s) \/ Again(s)
    BY <1>2
  <1>11. SlotsKept'
    BY <1>0, <1>10, FinishedKeeps, AgainKeeps
  <1>. QED BY <1>9, <1>11

LEMMA ClassifyLoses ==
    ASSUME EndpointInvariant, Clean(ep), SlotsKept, NEW s \in Streams, Classify(s)
    PROVE  Clean(ep') /\ SlotsKept'
  <1>0. Sane(ep) /\ JobOK /\ ~NoSlots(s) /\ Branch(ep, s) = "new"
    BY DEF EndpointInvariant, Classify
  <1>1. SlotsKept'
    <2>1. Finished(s) \/ Again(s)
      BY DEF Classify, Reject
    <2>. QED BY <1>0, <2>1, FinishedKeeps, AgainKeeps
  <1>2. CASE ep' = [ep EXCEPT !.cls[s] = "connect"]
    BY <1>1, <1>2 DEF Clean, Fields
  <1>3. CASE ep' = ep \/ ep' = RetireIn(ep, s)
    <2>1. Clean(RetireIn(ep, s))
      BY RetireClean
    <2>. QED BY <1>1, <1>3, <2>1
  <1>4. CASE /\ Info[s].kind = "data"
             /\ ep' = PushEvent(Register([ep EXCEPT !.cls[s] = "wt"], s,
                                          IF Info[s].bidi THEN {} ELSE {"send"}),
                                 Ev("opened", job.c, s, 0))
    <2>. DEFINE h == IF Info[s].bidi THEN {} ELSE {"send"}
                f == Register([ep EXCEPT !.cls[s] = "wt"], s, h)
    <2>. HIDE DEF h
    <2>1. Clean(f) /\ f.events = ep.events
      BY DEF Clean, Fields, Register
    <2>2. ~(Len(f.events) >= EventCap)
      BY <1>0, <1>4, <2>1, SlotFree
    <2>. HIDE DEF f
    <2>3. ~Charged(Ev("opened", job.c, s, 0))
      BY DEF Charged, Ev
    <2>4. Clean(PushEvent(f, Ev("opened", job.c, s, 0)))
      BY <2>1, <2>2, <2>3, FitsClean
    <2>. QED BY <1>1, <1>4, <2>4 DEF f, h
  <1>. QED BY <1>2, <1>3, <1>4 DEF Classify, Reject

\* The frames and the ends of CONNECT streams.
LEMMA ConnectLoses ==
    ASSUME EndpointInvariant, Clean(ep), SlotsKept, NEW s \in Streams,
           ReadFrame(s) \/ ReadBlocked(s) \/ ReadConnectEnd(s)
    PROVE  Clean(ep') /\ SlotsKept'
  <1>0. Sane(ep) /\ JobOK /\ Branch(ep, s) \in ConnectBranches
    BY DEF EndpointInvariant, ReadFrame, ReadBlocked, Stuck, ReadConnectEnd, ConnectBranches
  <1>1. Info[s].kind = "connect"
    <2>1. /\ Info[s].c \in Conns
          /\ s \in Resolvable(ep.ses[Info[s].c]) \/ (s \in ep.ins /\ ep.cls[s] = "connect")
      BY <1>0, BranchConnect, StreamsAssumption DEF Resolvable, WtConnects, ConnectBranches
    <2>. QED BY <1>0, <2>1 DEF Sane, Sorted
  <1>2. SlotsKept'
    <2>1. Finished(s) \/ Again(s)
      BY DEF ReadFrame, ReadBlocked, ReadConnectEnd
    <2>. QED BY <1>0, <1>1, <2>1, FinishedKeeps, AgainKeeps
  <1>3. CASE ReadFrame(s)
    <2>1. PICK f : ep' = Frame(ep, job.c, s, f)
      BY <1>3 DEF ReadFrame
    <2>2. Clean(Frame(ep, job.c, s, f))
      BY <1>0, FrameClean
    <2>. QED BY <1>2, <2>1, <2>2
  <1>4. CASE ReadBlocked(s)
    <2>1. Clean(NoteBlocked(ep, job.c, s)) /\ ep' = NoteBlocked(ep, job.c, s)
      BY <1>4, NoteBlockedClean DEF ReadBlocked
    <2>. QED BY <1>2, <2>1
  <1>5. CASE ReadConnectEnd(s)
    <2>. DEFINE c == job.c
                a == [ep EXCEPT !.ses[c].pend = @ \ {s}]
                p == WasPrim(s)
                d == RetireIn(ep, s)
    <2>1. Clean(a)
      BY DEF Clean, Fields
    <2>. HIDE DEF a, p
    <2>2. Clean(d)
      BY RetireClean
    <2>. HIDE DEF d
    <2>3. /\ Clean(ConnectEnded(ep, c, s, TRUE)) /\ Clean(SessionClosed(a, c, s))
          /\ Clean(EndWtSession(ep, c, s)) /\ Clean(ConnectEnded(d, c, s, p))
      BY <2>1, <2>2, ConnectEndedClean, ClosedClean, EndSessionClean
    <2>4. \/ ep' = ep
          \/ ep' = ConnectEnded(ep, c, s, TRUE) \/ ep' = SessionClosed(a, c, s)
          \/ ep' = EndWtSession(ep, c, s) \/ ep' = ConnectEnded(d, c, s, p) \/ ep' = d
      BY <1>5 DEF ReadConnectEnd, ConnectBranches, a, p, d
    <2>. QED BY <1>2, <2>2, <2>3, <2>4
  <1>. QED BY <1>3, <1>4, <1>5

LEMMA PumpLoses ==
    ASSUME EndpointInvariant, Clean(ep), SlotsKept, Pump
    PROVE  Clean(ep') /\ SlotsKept'
  <1>0. Sane(ep) /\ JobOK /\ DOMAIN job = JobFields
    BY DEF EndpointInvariant, JobOK, JobFields
  <1>1. CASE DrainStops
    <2>1. Clean(ep')
      BY <1>1, WaitClean DEF DrainStops
    <2>2. job' = Snapshot(ep', job)
      BY <1>1 DEF DrainStops
    <2>. QED BY <1>0, <2>1, <2>2, SnapshotKeeps
  <1>2. CASE DrainDatagram
    <2>1. Clean(ep')
      <3>1. CASE ep' = ep
        BY <3>1
      <3>2. CASE ep' = CloseConn(ep, job.c)
        BY <3>2, ClosingClean
      <3>3. CASE DatagramLen <= Room(ep, job.c, None) /\ ep' = PushEvent(ep, Ev("dgram", job.c, None, DatagramLen))
        <4>1. PICK ev : ev = Ev("dgram", job.c, None, DatagramLen)
          OBVIOUS
        <4>2. ev.c = job.c /\ ev.s = None /\ ev.n = DatagramLen
          BY <4>1 DEF Ev
        <4>3. Room(ep, job.c, None) \in Nat /\ DatagramLen \in Nat
          BY <1>0, RoomIs, LimitsAssumption
        <4>4. ~(ev.n > Room(ep, ev.c, ev.s))
          BY <3>3, <4>2, <4>3
        <4>5. ~(Len(ep.events) >= EventCap)
          <5>1. Len(ep.events) \in Nat
            BY <1>0 DEF Sane, Typed
          <5>2. EventSlots(ep, 1)
            BY <1>2 DEF DrainDatagram
          <5>. QED BY <5>1, <5>2, EventsAssumption DEF EventSlots
        <4>6. Clean(PushEvent(ep, ev))
          BY <4>4, <4>5, FitsClean
        <4>. QED BY <3>3, <4>1, <4>6
      <3>. QED BY <1>2, <3>1, <3>2, <3>3 DEF DrainDatagram
    <2>2. job' = job \/ job' = Snapshot(ep', job)
      BY <1>2 DEF DrainDatagram
    <2>3. job' = job => SlotsKept'
      BY DEF SlotsKept
    <2>. QED BY <1>0, <2>1, <2>2, <2>3, SnapshotKeeps
  <1>3. CASE PumpEnds
    <2>1. Clean(CloseConn(ep, job.c)) /\ Clean(Cleanup(ep, job.c))
      BY ClosingClean
    <2>2. Clean(ep')
      BY <1>3, <2>1 DEF PumpEnds
    <2>3. job'.cur = None
      BY <1>3 DEF PumpEnds, Resting
    <2>. QED BY <2>2, <2>3, RestedKeeps
  <1>4. CASE NextWaiter
    <2>1. Clean(ep')
      BY <1>4 DEF NextWaiter, Clean, Fields
    <2>2. job'.cur = None \/ (job'.cur = job.cur /\ job'.slots = job.slots)
      <3>1. \/ job' = Resting \/ job' = [job EXCEPT !.wake = @ - 1]
            \/ \E c, n : job' = Woken(c, n)
        BY <1>4, Zenon DEF NextWaiter
      <3>2. Resting.cur = None /\ \A c, n : Woken(c, n).cur = None
        BY DEF Woken, Resting
      <3>3. job' = [job EXCEPT !.wake = @ - 1] => job'.cur = job.cur /\ job'.slots = job.slots
        BY <1>0 DEF JobFields
      <3>. QED BY <3>1, <3>2, <3>3
    <2>. QED BY <2>1, <2>2, StreamsAssumption DEF SlotsKept
  <1>5. ASSUME NEW s \in Streams, ReadNothing(s) \/ ReadParks(s)
        PROVE  Clean(ep') /\ SlotsKept'
    <2>1. Clean(ep') /\ Finished(s)
      BY <1>5, WaitClean DEF ReadNothing, ReadParks
    <2>. QED BY <1>0, <2>1, FinishedKeeps
  <1>. QED BY <1>1, <1>2, <1>3, <1>4, <1>5, ReadPayloadLoses, ClassifyLoses, ConnectLoses, Zenon DEF Pump

LEMMA PeerLoses ==
    ASSUME EndpointInvariant, Clean(ep), SlotsKept, Peer
    PROVE  Clean(ep') /\ SlotsKept'
  <1>1. ASSUME NEW c \in Conns, NewConnection(c) \/ AttachRefused(c) \/ Connected(c) \/ PeerDatagram(c)
                                \/ PeerInserts(c) \/ PeerSettings(c) \/ PeerBreaksControl(c) \/ ConnLost(c)
        PROVE  Clean(ep')
    <2>1. CASE Connected(c)
      <3>1. PICK x : ep' = PushEvent([ep EXCEPT !.phase[c] = "up", !.ses[c].primary = x],
                                     Ev("connected", c, None, 0))
        BY <2>1, Zenon DEF Connected
      <3>. DEFINE a == [ep EXCEPT !.phase[c] = "up", !.ses[c].primary = x]
      <3>2. Clean(a) /\ "connected" \notin Dropping
        BY DEF Clean, Fields, Dropping
      <3>. HIDE DEF a
      <3>3. Clean(PushEvent(a, Ev("connected", c, None, 0)))
        BY <3>2, PushClean
      <3>. QED BY <3>1, <3>3 DEF a
    <2>2. CASE AttachRefused(c) \/ PeerBreaksControl(c)
      BY <2>2, ClosingClean DEF AttachRefused, PeerBreaksControl
    <2>3. CASE NewConnection(c) \/ PeerDatagram(c) \/ PeerInserts(c) \/ PeerSettings(c) \/ ConnLost(c)
      BY <2>3 DEF NewConnection, PeerDatagram, PeerInserts, PeerSettings, ConnLost, Clean, Fields
    <2>. QED BY <1>1, <2>1, <2>2, <2>3
  <1>2. ASSUME NEW s \in Streams, NEW f, PeerSends(s, f) PROVE Clean(ep')
    BY <1>2 DEF PeerSends, Clean, Fields
  <1>3. ASSUME NEW s \in Streams, PeerStops(s) PROVE Clean(ep')
    <2>. DEFINE a == PushEvent(ep, Ev("stopped", Info[s].c, s, 0))
    <2>1. "stopped" \notin Dropping
      BY DEF Dropping
    <2>2. Clean(a)
      BY <2>1, PushClean
    <2>. HIDE DEF a
    <2>3. Clean(HalfDone(a, s, "send"))
      BY <2>2, HalfDoneClean
    <2>. QED BY <1>3, <2>3 DEF PeerStops, a
  <1>4. ASSUME NEW s \in Streams, NEW how, PeerEnds(s, how) PROVE Clean(ep')
    BY <1>4 DEF PeerEnds
  <1>5. Clean(ep')
    BY <1>1, <1>2, <1>3, <1>4, Zenon DEF Peer
  <1>6. job' = job \/ job'.cur = None
    <2>1. ASSUME NEW c, job' = Drive(c) PROVE job'.cur = None
      BY <2>1 DEF Drive, Resting
    <2>2. ASSUME NEW c, ConnLost(c) PROVE job'.cur = None
      BY <2>2 DEF ConnLost, Snapshot, Resting
    <2>3. ASSUME NEW s, NEW how, PeerEnds(s, how) \/ PeerSends(s, how) \/ PeerStops(s)
          PROVE  job' = Drive(Info[s].c)
      BY <2>3 DEF PeerEnds, PeerSends, PeerStops
    <2>4. ASSUME NEW c, NewConnection(c) \/ AttachRefused(c) \/ Connected(c) \/ PeerDatagram(c)
                        \/ PeerInserts(c) \/ PeerSettings(c) \/ PeerBreaksControl(c)
          PROVE  job' = job \/ job' = Drive(c)
      BY <2>4, Zenon DEF NewConnection, AttachRefused, Connected, PeerDatagram, PeerInserts, PeerSettings,
                  PeerBreaksControl
    <2>. QED BY <2>1, <2>2, <2>3, <2>4, Zenon DEF Peer
  <1>7. job' = job => SlotsKept'
    BY DEF SlotsKept
  <1>. QED BY <1>5, <1>6, <1>7, RestedKeeps

LEMMA HostLoses ==
    ASSUME EndpointInvariant, Clean(ep), SlotsKept, Poll \/ Calls \/ \E t \in 1..TokenCeiling : ReleaseToken(t)
    PROVE  Clean(ep') /\ SlotsKept'
  <1>0. Resume.cur = None /\ \A c : Drive(c).cur = None
    BY DEF Resume, Drive, Resting
  <1>1. ASSUME Poll PROVE Clean(ep') /\ job'.cur = None
    <2>. DEFINE d == PopEvent(ep)
                ev == Head(ep.events)
                t == NextToken(ep)
    <2>1. Clean(d)
      BY DEF PopEvent, Clean, Fields
    <2>. HIDE DEF d, ev, t
    <2>2. CASE ep' = d
      BY <1>0, <1>1, <2>1, <2>2 DEF Poll
    <2>3. CASE ep' = [d EXCEPT !.tokens = [u \in DOMAIN @ \cup {t} |-> IF u = t THEN ev ELSE @[u]],
                               !.next = IF t = TokenCeiling THEN 1 ELSE t + 1]
      BY <1>0, <1>1, <2>1, <2>3 DEF Poll, Clean, Fields
    <2>4. CASE ep' = IF InTable(ev.c) THEN CloseConn(d, ev.c)
                     ELSE PushEvent(d, Ev("closed", ev.c, None, 0))
      <3>1. "closed" \notin Dropping
        BY DEF Dropping
      <3>2. Clean(CloseConn(d, ev.c)) /\ Clean(PushEvent(d, Ev("closed", ev.c, None, 0)))
        BY <2>1, <3>1, ClosingClean, PushClean
      <3>. QED BY <1>0, <1>1, <2>4, <3>2 DEF Poll
    <2>. QED BY <1>1, <2>2, <2>3, <2>4 DEF Poll, d, ev, t
  <1>2. ASSUME NEW t, ReleaseToken(t) PROVE Clean(ep') /\ job'.cur = None
    BY <1>0, <1>2 DEF ReleaseToken, Clean, Fields
  <1>3. ASSUME NEW c, HostCloses(c) \/ TimeoutPrimary(c)
        PROVE  Clean(ep') /\ (job' = job \/ job'.cur = None)
    BY <1>0, <1>3, ClosingClean, FailClean DEF HostCloses, TimeoutPrimary
  <1>4. ASSUME NEW s, OpenStream(s) \/ OpenWtSession(s) \/ Pause(s) PROVE Clean(ep') /\ job' = job
    BY <1>4, Zenon DEF OpenStream, OpenWtSession, Pause, Register, Clean, Fields
  <1>5. ASSUME NEW s, CloseWtSession(s) PROVE Clean(ep') /\ job' = job
    <2>. DEFINE c == Info[s].c
                a == [ep EXCEPT !.ses[c].shut = @ \/ s = ep.ses[c].primary,
                                !.ses[c].extras = @ \ {s}, !.ses[c].pend = @ \ {s}]
    <2>1. Clean(a)
      BY DEF Clean, Fields
    <2>. HIDE DEF a
    <2>2. Clean(SessionClosed(ResetSessionStreams(a, c, s), c, s))
      BY <2>1, ResetClean, ClosedClean
    <2>. QED BY <1>5, <2>2, Zenon DEF CloseWtSession, a
  <1>6. ASSUME NEW s, EndSend(s) \/ Stop(s) PROVE Clean(ep') /\ job' = job
    <2>. DEFINE a == [ep EXCEPT !.paused = @ \ {s}]
    <2>1. Clean(a)
      BY DEF Clean, Fields
    <2>. HIDE DEF a
    <2>2. Clean(HalfDone(a, s, "recv")) /\ Clean(HalfDone(ep, s, "send"))
      BY <2>1, HalfDoneClean
    <2>. QED BY <1>6, <2>2 DEF EndSend, Stop, a
  <1>7. ASSUME NEW s, ResumeStream(s) PROVE Clean(ep') /\ (job' = job \/ job'.cur = None)
    <2>1. Clean(ep')
      BY <1>7 DEF ResumeStream, Clean, Fields
    <2>2. job' = job \/ job' = Snapshot(ep', [Resting EXCEPT !.c = Info[s].c])
      BY <1>7 DEF ResumeStream
    <2>. QED BY <2>1, <2>2 DEF Snapshot, Resting
  <1>8. ASSUME NEW s, TimeoutPending(s) PROVE Clean(ep') /\ job'.cur = None
    <2>. DEFINE c == Info[s].c
                a == [ep EXCEPT !.ses[c].pend = @ \ {s}]
    <2>1. Clean(a)
      BY DEF Clean, Fields
    <2>. HIDE DEF a
    <2>2. Clean(SessionClosed(a, c, s))
      BY <2>1, ClosedClean
    <2>. QED BY <1>0, <1>8, <2>2 DEF TimeoutPending, a
  <1>9. Clean(ep') /\ (job' = job \/ job'.cur = None)
    BY <1>1, <1>2, <1>3, <1>4, <1>5, <1>6, <1>7, <1>8, Zenon DEF Calls
  <1>10. job' = job => SlotsKept'
    BY DEF SlotsKept
  <1>. QED BY <1>9, <1>10, RestedKeeps

\* push_event, which drops in silence when the queue or the byte budget is full,
\* never drops payload, a datagram or the announcement of a stream: they are
\* read from quinn only when their event fits (required_event_slots_for_read,
\* in_stream_read_limit, drain_datagrams).
THEOREM NothingDropped == Spec => []NoPayloadLost
  <1>1. Init => Clean(ep) /\ SlotsKept
    <2>. SUFFICES ASSUME Init PROVE Clean(ep) /\ SlotsKept
      OBVIOUS
    <2>1. job = Resting
      BY Zenon DEF Init
    <2>2. DOMAIN ep = Fields /\ ep.lost = {}
      BY InitSane DEF Sane, Typed
    <2>. QED BY <2>1, <2>2, StreamsAssumption DEF Clean, SlotsKept, Resting
  <1>2. EndpointInvariant /\ Clean(ep) /\ SlotsKept /\ [Next]_vars => Clean(ep)' /\ SlotsKept'
    <2>. SUFFICES ASSUME EndpointInvariant, Clean(ep), SlotsKept, [Next]_vars
                  PROVE  Clean(ep') /\ SlotsKept'
      OBVIOUS
    <2>1. CASE UNCHANGED vars
      BY <2>1 DEF vars, SlotsKept
    <2>2. CASE Next
      BY <2>2, PumpLoses, PeerLoses, HostLoses, Zenon DEF Next
    <2>. QED BY <2>1, <2>2
  <1>3. Clean(ep) => NoPayloadLost
    BY DEF Clean, NoPayloadLost
  <1>. QED BY <1>1, <1>2, <1>3, EndpointInvariantHolds, PTL DEF Spec
=============================================================================
