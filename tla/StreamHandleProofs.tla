------------------------- MODULE StreamHandleProofs -------------------------
(***************************************************************************)
(* TLAPS proofs about StreamHandle, for any number of reads and writes and *)
(* every capacity.                                                         *)
(*                                                                         *)
(* None of the properties is inductive.  The budget is exact only because  *)
(* the receive half has one owner (OneOwner) and a read holds what its     *)
(* step says (Hands), and because a write's chunk is in one place          *)
(* (Places).  A clean end is honest only because chunks are conserved      *)
(* between the transport and JavaScript (Conserved), a reset is latched    *)
(* when it is reported to a batch (Reported), and the error slot of a      *)
(* bridge is in the handle before a lone read waits for its end (Built,    *)
(* Solo, CleanEnd).  A stop stays a stop because its calls mark the gate,  *)
(* set the flag and then empty the slot (Chained).  finishWait is honest   *)
(* because the command channel keeps its order (FinishOrder).              *)
(* HandleInvariant is the conjunction; each part is shown to be kept by    *)
(* the steps of the reads and by the other steps of the handle.            *)
(***************************************************************************)
EXTENDS StreamHandle, TLAPS, FiniteSetTheorems, SequenceTheorems

-----------------------------------------------------------------------------
(* The invariant.                                                          *)

\* The types of the two halves.
ReadStates == [Readers -> [pc : {"idle"} \cup ReadSteps, batch : BOOLEAN, held : 0..BatchMax,
                           out : {"none", "data", "eof"} \cup Codes, alone : BOOLEAN]]
JsCalls == {"stop", "reset", "finish", "dispose"}
JsSteps == {"mark", "flag", "notify", "stopTx", "slot", "fin", "ctrl", "wtx", "rx"}
JsStates == {<<"free", "none">>, <<"sink", "take">>, <<"sink", "init">>} \cup (JsCalls \X JsSteps)
Commands == Writers \cup {"finish", "reset", "finishWait"}

ReadTypes ==
    /\ kind \in {"bidi", "uniRecv", "uniSend"}
    /\ own \in {"Deferred", "DirectReadActive", "Bridged", "Sink", "Consumed"}
    /\ where \in {"slot", "bridge", "sink", "none"} \cup Readers
    /\ latch \in {"none"} \cup Codes /\ aborted \in BOOLEAN
    /\ enrolled \subseteq Readers /\ woken \subseteq enrolled
    /\ rd \in ReadStates
    /\ busy \in BOOLEAN /\ bridge \in {"none", "select", "reserve", "send", "done"}
    /\ chan \in 0..ChannelCapacity /\ errSlot \in {"none"} \cup Codes /\ errSet \in BOOLEAN
    /\ rx \in {"none", "some", "gone"} /\ lock \in {"free"} \cup Readers
    /\ stopTx \in {"none", "armed", "fired", "dropped"}
    /\ sink \in {"none", "running", "stopping", "exited"}
    /\ arrived \in 0..MaxChunks /\ big \subseteq 1..MaxChunks /\ read \in 0..arrived /\ delivered \in Nat
    /\ ended \in {"open", "fin", "reset", "lost"} /\ told \in BOOLEAN
    /\ js \in JsStates /\ shut \in BOOLEAN /\ final \in BOOLEAN
WriteTypes ==
    /\ lazy \in BOOLEAN /\ finished \in BOOLEAN
    /\ tx \in {"none", "some", "gone"} /\ wb \in {"none", "recv", "done"} \cup Writers
    /\ cmds \in Seq(Commands) /\ queue \in Seq(Commands) /\ werr \in {"none", "E_STOP_SENDING"}
    /\ wr \in [Writers -> WriteStates]
    /\ fw \in {"new", "tx", "queue", "queued", "waiting", "ok", "E_STREAM_RESET", "E_STOP_SENDING"}
    /\ acked \subseteq Writers /\ owed \subseteq acked /\ sent \subseteq Writers
    /\ wireEnd \in {"open", "fin", "reset", "dropped"}

\* The receive half has one owner: a read on the direct lane, the bridge or
\* the sink, and where says which.
Owner(r) == rd[r].pc \in {"check", "enroll", "read", "reserve", "recheck", "loop", "park"}
OneOwner ==
    /\ \A r \in Readers : Owner(r) => where = r
    /\ bridge \in {"select", "reserve", "send"} => where = "bridge"
    /\ where \notin {"bridge", "none"} => bridge = "none"
    /\ js = <<"sink", "init">> \/ sink \in {"running", "stopping"} => where = "sink"
    /\ js[1] = "sink" => sink = "none"

\* What a read has in its hands at each step.
Hands ==
    \A r \in Readers :
        /\ rd[r].pc \notin {"recheck", "loop", "park", "convert"} => rd[r].held = 0
        /\ rd[r].pc = "recheck" => rd[r].held = 1
        /\ rd[r].pc = "park" /\ ~rd[r].batch => rd[r].held = 1
        /\ rd[r].pc \in {"loop", "convert"} => rd[r].batch

\* The reservations, as far as a step can check them.
Budget == reserved \in Int /\ reserved <= MaxStream

\* A write has its chunk in one place.
Places ==
    /\ \A i \in 1..Len(queue) : queue[i] \in Writers => wr[queue[i]] = "queued"
    /\ \A i, j \in 1..Len(queue) : queue[i] \in Writers /\ queue[i] = queue[j] => i = j
    /\ \A i \in 1..Len(cmds) : cmds[i] \in Writers => wr[cmds[i]] = "ok"
    /\ wb \in Writers => wr[wb] = "ok"
    /\ tx = "none" => wb = "none"

\* A chain of steps marks the gate, then sets the flag, then empties the slot
\* and drops the receiver.
BehindMark(j) ==
    \/ j[2] \in {"flag", "notify", "stopTx", "slot"}
    \/ kind # "uniSend" /\ j[1] = "dispose" /\ j[2] \in {"fin", "wtx", "rx"}
BehindFlag(j) ==
    \/ j[2] \in {"notify", "stopTx", "slot", "rx"}
    \/ kind # "uniSend" /\ j[2] = "wtx"
InChain(j) ==
    j[1] \in JsCalls => j[1] \in CallsOf /\ \E i \in 1..Len(Chain(j[1])) : j[2] = Chain(j[1])[i]
Chained ==
    /\ InChain(js)
    /\ BehindMark(js) => own = "Consumed"
    /\ BehindFlag(js) => aborted
    /\ stopTx = "fired" => aborted
    /\ stopTx = "dropped" => final
    /\ rx = "gone" => aborted \/ final
    /\ shut => own = "Consumed" /\ aborted /\ where # "slot" /\ js[1] # "sink"

\* A read that waits for the channel is enrolled, and woken once notified.
Heard ==
    \A r \in Readers :
        /\ rd[r].pc \in {"checkB", "recv"} => r \in enrolled
        /\ rd[r].pc = "recv" => Notified_(r)

\* An acknowledged write is in the bridge's hands, before the finish.
Below(c, p) == {c[i] : i \in 1..p - 1}
FinishOrder ==
    /\ wb # "done" => acked \subseteq sent \cup {wb} \cup Below(cmds, Len(cmds) + 1)
    /\ \A p \in 1..Len(cmds) : cmds[p] = "finishWait" => owed \subseteq sent \cup {wb} \cup Below(cmds, p)
    /\ fw \in {"new", "tx", "queue"} =>
          /\ \A i \in 1..Len(cmds) : cmds[i] # "finishWait"
          /\ \A i \in 1..Len(queue) : queue[i] # "finishWait"
    /\ FinishAckMeansWritten

\* Chunks the receive half has taken from the transport and holds.
Pending == IF bridge \in {"reserve", "send"} \/ \E r \in Readers : rd[r].pc = "reserve" THEN 1 ELSE 0
Untouched == ~aborted /\ ~final
Whole == Untouched /\ (where # "none" \/ (bridge = "done" /\ errSlot = "none"))
Conserved ==
    /\ delivered + InReads(rd) + chan + Pending <= read
    /\ Whole => read = delivered + InReads(rd) + chan + Pending

\* A read that no other read overlaps is the only one, and no reset is
\* latched while it works.
Solo ==
    /\ final => \A r \in Readers : rd[r].pc = "idle"
    /\ \A r, q \in Readers : rd[r].alone /\ rd[r].pc # "idle" /\ rd[q].pc # "idle" => q = r
    /\ \A r \in Readers : rd[r].alone /\ rd[r].pc \notin {"idle", "latch", "park", "convert"} => latch = "none"

\* A reset that has been reported is latched, or the stream is gone.
Reported == told /\ where # "none" => latch # "none"

\* The read that builds the bridge gives the handle its channel, its stop and
\* its error slot.
Building == {"setRx", "setStop", "mark"}
Built ==
    /\ bridge = "none" => chan = 0 /\ rx = "none" /\ \A r \in Readers : rd[r].pc \notin UsesRx \cup Building
    /\ bridge # "none" => errSet \/ \E r \in Readers : rd[r].pc \in Building

\* A bridge that ended without an error has passed on all of a finished
\* stream.
CleanEnd ==
    Untouched /\ latch = "none" /\ bridge = "done" /\ errSlot = "none" => ended = "fin" /\ read = arrived

\* The inductive invariant.
HandleInvariant ==
    /\ ReadTypes /\ WriteTypes /\ Budget /\ OneOwner /\ Hands /\ Places /\ ReservationsExact
    /\ Chained /\ Heard /\ FinishOrder /\ Conserved
    /\ Solo /\ Reported /\ Built /\ CleanEnd /\ NoFalseEof

-----------------------------------------------------------------------------
(* Counting.                                                               *)

\* The chunks counted by InReads, InWrites and DataIn.
HeldPairs(f) == {p \in Readers \X (1..BatchMax) : p[2] <= f[p[1]].held}
WritePlaces(f, b) == {w \in Writers : f[w] \in {"recheck", "queue", "queued"} \/ b = w}
DataPlaces(c) == {i \in 1..Len(c) : c[i] \in Writers}

\* The chunks in the hands of reads are finitely many.
LEMMA HeldFinite ==
    ASSUME NEW S \in SUBSET (Readers \X (1..BatchMax))
    PROVE  IsFiniteSet(S) /\ Cardinality(S) \in Nat
  <1>1. IsFiniteSet(1..BatchMax)
    BY FS_Interval, BoundsAssumption
  <1>2. IsFiniteSet(Readers \X (1..BatchMax))
    BY <1>1, FS_Product, BoundsAssumption
  <1> QED
    BY <1>2, FS_Subset, FS_CardinalityType

\* A read that holds h chunks stands for h pairs.
LEMMA OneRow ==
    ASSUME NEW r, NEW h \in Nat
    PROVE  IsFiniteSet({r} \X (1..h)) /\ Cardinality({r} \X (1..h)) = h
  <1>1. IsFiniteSet(1..h) /\ Cardinality(1..h) = h
    BY FS_Interval
  <1>2. IsFiniteSet({r}) /\ Cardinality({r}) = 1
    BY FS_Singleton
  <1>3. IsFiniteSet({r} \X (1..h)) /\ Cardinality({r} \X (1..h)) = Cardinality({r}) * Cardinality(1..h)
    BY <1>1, <1>2, FS_Product
  <1> QED
    BY <1>1, <1>2, <1>3

\* The chunks in the hands of the reads are those of one read and those of
\* the others.
LEMMA HeldSplit ==
    ASSUME NEW f \in ReadStates, NEW r \in Readers
    PROVE  /\ InReads(f) \in Nat
           /\ InReads(f) = Cardinality({p \in HeldPairs(f) : p[1] # r}) + f[r].held
  <1> DEFINE Rest == {p \in HeldPairs(f) : p[1] # r}
             Row == {r} \X (1..f[r].held)
  <1>1. f[r].held \in 0..BatchMax
    BY DEF ReadStates
  <1>2. f[r].held \in Nat
    BY <1>1, BoundsAssumption
  <1>3. HeldPairs(f) = Rest \cup Row /\ Rest \cap Row = {}
    BY <1>1, BoundsAssumption DEF HeldPairs
  <1>4. HeldPairs(f) \in SUBSET (Readers \X (1..BatchMax)) /\ Rest \in SUBSET (Readers \X (1..BatchMax))
    BY DEF HeldPairs
  <1>5. IsFiniteSet(Rest) /\ Cardinality(Rest) \in Nat /\ Cardinality(HeldPairs(f)) \in Nat
    BY <1>4, HeldFinite
  <1>6. IsFiniteSet(Row) /\ Cardinality(Row) = f[r].held
    BY <1>2, OneRow
  <1>7. Cardinality(Rest \cap Row) = 0
    BY <1>3, FS_EmptySet
  <1> HIDE DEF Rest, Row
  <1>8. Cardinality(Rest \cup Row) = Cardinality(Rest) + Cardinality(Row) - Cardinality(Rest \cap Row)
    BY <1>5, <1>6, FS_Union
  <1>9. Cardinality(HeldPairs(f)) = Cardinality(Rest) + f[r].held
    BY <1>2, <1>3, <1>5, <1>6, <1>7, <1>8
  <1> QED
    BY <1>5, <1>9 DEF InReads, HeldPairs, Rest

\* When only read r changes what it holds, the total changes by as much.
LEMMA HeldMoves ==
    ASSUME NEW f \in ReadStates, NEW g \in ReadStates, NEW r \in Readers,
           \A q \in Readers \ {r} : g[q].held = f[q].held
    PROVE  /\ InReads(f) \in Nat /\ InReads(g) \in Nat
           /\ InReads(g) = InReads(f) + g[r].held - f[r].held
           /\ InReads(f) >= f[r].held
  <1>1. {p \in HeldPairs(f) : p[1] # r} = {p \in HeldPairs(g) : p[1] # r}
    BY DEF HeldPairs
  <1>2. {p \in HeldPairs(f) : p[1] # r} \in SUBSET (Readers \X (1..BatchMax))
    BY DEF HeldPairs
  <1>3. Cardinality({p \in HeldPairs(f) : p[1] # r}) \in Nat
    BY <1>2, HeldFinite
  <1>4. f[r].held \in Nat /\ g[r].held \in Nat
    BY BoundsAssumption DEF ReadStates
  <1>5. /\ InReads(f) = Cardinality({p \in HeldPairs(f) : p[1] # r}) + f[r].held
        /\ InReads(g) = Cardinality({p \in HeldPairs(g) : p[1] # r}) + g[r].held
    BY HeldSplit
  <1> QED
    BY <1>1, <1>3, <1>4, <1>5

\* Reads that hold what they held hold as many chunks.
LEMMA HeldStays ==
    ASSUME NEW f \in ReadStates, NEW g, \A q \in Readers : g[q].held = f[q].held
    PROVE  InReads(g) = InReads(f)
  <1>1. HeldPairs(g) = HeldPairs(f)
    BY DEF HeldPairs
  <1> QED
    BY <1>1 DEF InReads, HeldPairs

\* Reads with empty hands hold no chunk.
LEMMA NothingHeld ==
    ASSUME NEW f \in ReadStates, \A q \in Readers : f[q].held = 0
    PROVE  InReads(f) = 0
  <1>1. HeldPairs(f) = {}
    BY DEF HeldPairs
  <1> QED
    BY <1>1, FS_EmptySet DEF InReads, HeldPairs

\* The number of chunks in the hands of reads is a number.
LEMMA HeldNat ==
    ASSUME NEW f \in ReadStates
    PROVE  InReads(f) \in Nat
  BY HeldFinite DEF InReads

\* The writes are finitely many.
LEMMA WritesFinite ==
    ASSUME NEW S \in SUBSET Writers
    PROVE  IsFiniteSet(S) /\ Cardinality(S) \in Nat
  BY BoundsAssumption, FS_Subset, FS_CardinalityType

\* The number of chunks in writes is a number.
LEMMA WritesNat ==
    ASSUME NEW f, NEW b
    PROVE  InWrites(f, b) \in Nat
  BY WritesFinite DEF InWrites

\* A write that gets a chunk adds one to their number.
LEMMA OneMoreWrite ==
    ASSUME NEW f, NEW b, NEW g, NEW c, NEW w \in Writers,
           w \notin WritePlaces(f, b), WritePlaces(g, c) = WritePlaces(f, b) \cup {w}
    PROVE  InWrites(g, c) = InWrites(f, b) + 1
  <1>1. IsFiniteSet(WritePlaces(f, b))
    BY WritesFinite DEF WritePlaces
  <1>2. Cardinality(WritePlaces(g, c)) = Cardinality(WritePlaces(f, b)) + 1
    BY <1>1, FS_AddElement
  <1> QED
    BY <1>2 DEF InWrites, WritePlaces

\* A write that loses its chunk takes one off.
LEMMA OneWriteLess ==
    ASSUME NEW f, NEW b, NEW g, NEW c, NEW w \in Writers,
           w \in WritePlaces(f, b), WritePlaces(g, c) = WritePlaces(f, b) \ {w}
    PROVE  InWrites(g, c) = InWrites(f, b) - 1
  <1>1. IsFiniteSet(WritePlaces(f, b))
    BY WritesFinite DEF WritePlaces
  <1>2. Cardinality(WritePlaces(g, c)) = Cardinality(WritePlaces(f, b)) - 1
    BY <1>1, FS_RemoveElement
  <1> QED
    BY <1>2 DEF InWrites, WritePlaces

\* The same writes with a chunk are as many.
LEMMA SameWrites ==
    ASSUME NEW f, NEW b, NEW g, NEW c, WritePlaces(g, c) = WritePlaces(f, b)
    PROVE  InWrites(g, c) = InWrites(f, b)
  BY DEF InWrites, WritePlaces

\* The chunks in the command channel are finitely many.
LEMMA DataFinite ==
    ASSUME NEW c \in Seq(Commands)
    PROVE  IsFiniteSet(DataPlaces(c)) /\ DataIn(c) \in Nat
  <1>1. IsFiniteSet(1..Len(c))
    BY FS_Interval
  <1>2. IsFiniteSet(DataPlaces(c))
    BY <1>1, FS_Subset DEF DataPlaces
  <1>3. Cardinality(DataPlaces(c)) \in Nat
    BY <1>2, FS_CardinalityType
  <1> QED
    BY <1>2, <1>3 DEF DataIn, DataPlaces

\* A command put into the channel adds a chunk if it is a write.
LEMMA DataAppended ==
    ASSUME NEW c \in Seq(Commands), NEW x \in Commands
    PROVE  DataIn(Append(c, x)) = DataIn(c) + (IF x \in Writers THEN 1 ELSE 0)
  <1>1. DataPlaces(Append(c, x)) = IF x \in Writers THEN DataPlaces(c) \cup {Len(c) + 1} ELSE DataPlaces(c)
    BY DEF DataPlaces
  <1>2. Len(c) + 1 \notin DataPlaces(c)
    BY DEF DataPlaces
  <1>3. IsFiniteSet(DataPlaces(c)) /\ DataIn(c) \in Nat
    BY DataFinite
  <1>4. Cardinality(DataPlaces(c) \cup {Len(c) + 1}) = Cardinality(DataPlaces(c)) + 1
    BY <1>2, <1>3, FS_AddElement
  <1>5. DataIn(c) = Cardinality(DataPlaces(c)) /\ DataIn(Append(c, x)) = Cardinality(DataPlaces(Append(c, x)))
    BY DEF DataIn, DataPlaces
  <1> QED
    BY <1>1, <1>3, <1>4, <1>5

\* A command taken from the channel takes its chunk along.
LEMMA DataTaken ==
    ASSUME NEW c \in Seq(Commands), c # <<>>
    PROVE  DataIn(c) = DataIn(Tail(c)) + (IF Head(c) \in Writers THEN 1 ELSE 0)
  <1> DEFINE Later == DataPlaces(c) \ {1}
             up == [i \in DataPlaces(Tail(c)) |-> i + 1]
  <1>1. Tail(c) \in Seq(Commands) /\ Len(Tail(c)) = Len(c) - 1 /\ Len(c) \in Nat /\ Len(c) >= 1 /\ Head(c) = c[1]
    OBVIOUS
  <1>2. \A i \in 1..Len(Tail(c)) : Tail(c)[i] = c[i + 1]
    OBVIOUS
  <1>3. \A i \in DataPlaces(Tail(c)) : i \in Int /\ i + 1 \in Later
    BY <1>1, <1>2 DEF DataPlaces
  <1>4. \A j \in Later : j - 1 \in DataPlaces(Tail(c)) /\ (j - 1) + 1 = j
    BY <1>1, <1>2 DEF DataPlaces
  <1>5. up \in [DataPlaces(Tail(c)) -> Later]
    BY <1>3
  <1>6. \A i, j \in DataPlaces(Tail(c)) : up[i] = up[j] => i = j
    BY <1>3
  <1>7. \A j \in Later : \E i \in DataPlaces(Tail(c)) : up[i] = j
    BY <1>4
  <1>8. up \in Bijection(DataPlaces(Tail(c)), Later)
    BY <1>5, <1>6, <1>7, Zenon DEF Bijection, Injection, Surjection, IsInjective
  <1>9. ExistsBijection(DataPlaces(Tail(c)), Later)
    BY <1>8, Zenon DEF ExistsBijection
  <1>10. IsFiniteSet(DataPlaces(Tail(c))) /\ IsFiniteSet(DataPlaces(c)) /\ DataIn(Tail(c)) \in Nat /\ DataIn(c) \in Nat
    BY <1>1, DataFinite
  <1>11. Cardinality(Later) = Cardinality(DataPlaces(Tail(c)))
    BY <1>9, <1>10, FS_Bijection
  <1>12. Cardinality(Later) = IF 1 \in DataPlaces(c) THEN Cardinality(DataPlaces(c)) - 1 ELSE Cardinality(DataPlaces(c))
    BY <1>10, FS_RemoveElement
  <1>13. 1 \in DataPlaces(c) <=> Head(c) \in Writers
    BY <1>1 DEF DataPlaces
  <1>14. DataIn(c) = Cardinality(DataPlaces(c)) /\ DataIn(Tail(c)) = Cardinality(DataPlaces(Tail(c)))
    BY DEF DataIn, DataPlaces
  <1> HIDE DEF Later
  <1> QED
    BY <1>10, <1>11, <1>12, <1>13, <1>14

\* An empty channel has no chunk.
LEMMA NoData == DataIn(<<>>) = 0
  <1>1. DataPlaces(<<>>) = {}
    BY DEF DataPlaces
  <1> QED
    BY <1>1, FS_EmptySet DEF DataIn, DataPlaces

-----------------------------------------------------------------------------
(* The steps of the JavaScript thread.                                     *)

\* Where a chain of the handle's kind can go from one of its steps.
Follows(j, k) ==
    /\ k \in JsStates /\ InChain(k)
    /\ k = <<"free", "none">> \/ k[1] = j[1]
    /\ BehindMark(k) => BehindMark(j) \/ j[2] = "mark"
    /\ BehindFlag(k) => BehindFlag(j) \/ j[2] = "flag"
    /\ j[2] = "flag" => k[2] = "notify"

\* Any step but the one that sets the flag may be the last of a call.
LEMMA FreeFollows ==
    ASSUME NEW j
    PROVE  j[2] # "flag" => Follows(j, <<"free", "none">>)
  BY DEF Follows, JsStates, JsCalls, JsSteps, InChain, BehindMark, BehindFlag

\* The steps of a call come in the order of its chain.
LEMMA ChainFollows ==
    ASSUME kind \in {"bidi", "uniRecv", "uniSend"},
           NEW call \in CallsOf, NEW i \in 1..Len(Chain(call))
    PROVE  LET j == <<call, Chain(call)[i]>>
               k == IF i = Len(Chain(call)) THEN <<"free", "none">> ELSE <<call, Chain(call)[i + 1]>>
           IN  Follows(j, k)
  <1> DEFINE c == Chain(call)
             j == <<call, Chain(call)[i]>>
             k == IF i = Len(Chain(call)) THEN <<"free", "none">> ELSE <<call, Chain(call)[i + 1]>>
  <1>0. call \in JsCalls
    BY DEF CallsOf, JsCalls
  <1>1. Len(c) \in Nat /\ \A n \in 1..Len(c) : c[n] \in JsSteps
    BY DEF CallsOf, Chain, JsSteps
  <1>2. /\ i = Len(c) => c[i] # "flag"
        /\ i < Len(c) => /\ c[i] = "flag" => c[i + 1] = "notify"
                         /\ BehindMark(<<call, c[i + 1]>>) => BehindMark(<<call, c[i]>>) \/ c[i] = "mark"
                         /\ BehindFlag(<<call, c[i + 1]>>) => BehindFlag(<<call, c[i]>>) \/ c[i] = "flag"
    <2>1. CASE kind = "bidi" /\ call = "stop"
      BY <2>1 DEF Chain, BehindMark, BehindFlag
    <2>2. CASE kind = "bidi" /\ call = "reset"
      BY <2>2 DEF Chain, BehindMark, BehindFlag
    <2>3. CASE kind = "bidi" /\ call = "dispose"
      BY <2>3 DEF Chain, BehindMark, BehindFlag
    <2>4. CASE call = "finish"
      BY <2>4 DEF Chain, BehindMark, BehindFlag
    <2>5. CASE kind = "uniRecv" /\ call = "stop"
      BY <2>5 DEF Chain, BehindMark, BehindFlag
    <2>6. CASE kind = "uniRecv" /\ call = "dispose"
      BY <2>6 DEF Chain, BehindMark, BehindFlag
    <2>7. CASE kind = "uniSend" /\ call = "reset"
      BY <2>7 DEF Chain, BehindMark, BehindFlag
    <2>8. CASE kind = "uniSend" /\ call = "dispose"
      BY <2>8 DEF Chain, BehindMark, BehindFlag
    <2> QED
      BY <2>1, <2>2, <2>3, <2>4, <2>5, <2>6, <2>7, <2>8 DEF CallsOf
  <1>3. CASE i = Len(c)
    BY <1>2, <1>3, FreeFollows
  <1>4. CASE i < Len(c)
    <2> DEFINE n == i + 1
    <2>0. n \in 1..Len(c) /\ i # Len(c)
      BY <1>1, <1>4
    <2>1. n \in 1..Len(c) /\ c[n] \in JsSteps /\ k = <<call, c[n]>>
      BY <1>1, <2>0
    <2>2. k \in JsStates /\ k[1] = call /\ k[2] = c[n] /\ j[1] = call /\ j[2] = c[i]
      BY <1>0, <2>1 DEF JsStates
    <2>3. InChain(k)
      BY <2>1, <2>2 DEF InChain
    <2> QED
      BY <1>2, <1>4, <2>1, <2>2, <2>3 DEF Follows
  <1>5. i = Len(c) \/ i < Len(c)
    BY <1>1
  <1> QED
    BY <1>3, <1>4, <1>5

\* Advance goes to the step the chain puts next.
LEMMA AdvanceFollows ==
    ASSUME kind \in {"bidi", "uniRecv", "uniSend"}, js \in JsStates, InChain(js), js[1] \in JsCalls, Advance
    PROVE  Follows(js, js')
  <1> DEFINE c == Chain(js[1])
             i == CHOOSE k \in 1..Len(c) : c[k] = js[2]
  <1>1. \E k \in 1..Len(c) : c[k] = js[2]
    BY DEF InChain
  <1>2. i \in 1..Len(c) /\ c[i] = js[2]
    BY <1>1
  <1>3. js' = IF i = Len(c) THEN <<"free", "none">> ELSE <<js[1], c[i + 1]>>
    BY DEF Advance, JsFree, JsGoto
  <1>4. js = <<js[1], js[2]>>
    <2>1. js \in JsCalls \X JsSteps
      BY DEF JsStates, JsCalls
    <2> QED
      BY <2>1
  <1>5. js[1] \in CallsOf
    BY DEF InChain
  <1> HIDE DEF i
  <1>6. Follows(<<js[1], c[i]>>, IF i = Len(c) THEN <<"free", "none">> ELSE <<js[1], c[i + 1]>>)
    BY <1>2, <1>5, ChainFollows
  <1> QED
    BY <1>2, <1>3, <1>4, <1>6

\* The first step of a call.
LEMMA CallBegins ==
    ASSUME kind \in {"bidi", "uniRecv", "uniSend"}, NEW call \in CallsOf
    PROVE  LET j == <<call, Chain(call)[1]>>
           IN  j \in JsStates /\ InChain(j) /\ ~BehindMark(j) /\ ~BehindFlag(j) /\ call \in JsCalls
  <1> DEFINE j == <<call, Chain(call)[1]>>
  <1>1. call \in JsCalls /\ Chain(call)[1] \in JsSteps /\ 1 \in 1..Len(Chain(call))
    BY DEF CallsOf, JsCalls, Chain, JsSteps
  <1>2. ~BehindMark(j) /\ ~BehindFlag(j)
    BY DEF CallsOf, Chain, BehindMark, BehindFlag
  <1>3. InChain(j)
    BY <1>1 DEF InChain
  <1> QED
    BY <1>1, <1>2, <1>3 DEF JsStates

-----------------------------------------------------------------------------
(* The steps of a read.                                                    *)

\* What a read call can answer.
Outcomes == {"none", "data", "eof"} \cup Codes

\* Read r goes to p with h chunks in its hands, with the outcome o.
Moved(r, p, h, o) ==
    /\ rd' \in ReadStates
    /\ \A q \in Readers : q # r => rd'[q] = rd[q]
    /\ rd'[r].pc = p /\ rd'[r].held = h /\ rd'[r].out = o
    /\ rd'[r].batch = rd[r].batch /\ rd'[r].alone = rd[r].alone

\* What Goto does to the read calls.
LEMMA Goes ==
    ASSUME rd \in ReadStates, NEW r \in Readers, NEW p \in {"idle"} \cup ReadSteps, Goto(r, p)
    PROVE  Moved(r, p, rd[r].held, rd[r].out)
  BY DEF Goto, Moved, ReadStates

\* What an update of one read call does to all of them.
LEMMA Rewritten ==
    ASSUME rd \in ReadStates, NEW r \in Readers, NEW p \in {"idle"} \cup ReadSteps,
           NEW h \in 0..BatchMax, NEW o \in Outcomes,
           \/ rd' = [rd EXCEPT ![r].pc = p, ![r].held = h, ![r].out = o]
           \/ o = rd[r].out /\ rd' = [rd EXCEPT ![r].pc = p, ![r].held = h]
           \/ o = rd[r].out /\ p = rd[r].pc /\ rd' = [rd EXCEPT ![r].held = h]
    PROVE  Moved(r, p, h, o)
  <1> DEFINE x == [pc |-> p, batch |-> rd[r].batch, held |-> h, out |-> o, alone |-> rd[r].alone]
             F == [q \in Readers |-> IF q = r THEN x ELSE rd[q]]
  <1>1. rd[r] \in [pc : {"idle"} \cup ReadSteps, batch : BOOLEAN, held : 0..BatchMax,
                   out : {"none", "data", "eof"} \cup Codes, alone : BOOLEAN]
    BY DEF ReadStates
  <1>2. F \in ReadStates
    BY <1>1 DEF ReadStates, Outcomes
  <1>3. rd' = F
    BY <1>1 DEF ReadStates
  <1> QED
    BY <1>2, <1>3 DEF Moved

\* What Return does to the read calls.
LEMMA Returns ==
    ASSUME rd \in ReadStates, NEW r \in Readers, NEW o \in Outcomes, Return(r, o)
    PROVE  Moved(r, "idle", 0, o)
  <1>1. 0 \in 0..BatchMax
    BY BoundsAssumption
  <1>2. "idle" \in {"idle"} \cup ReadSteps
    OBVIOUS
  <1> QED
    BY <1>1, <1>2, Rewritten, Zenon DEF Return

-----------------------------------------------------------------------------
(* The next-state relation by what a step belongs to.                      *)

PeerStep ==
    \/ (\E oversized \in BOOLEAN : PeerSends(oversized)) \/ (\E how \in {"fin", "reset", "lost"} : PeerEnds(how))
    \/ OthersBridge
ReadStep(r) == (\E batch \in Batches : ReadStart(r, batch)) \/ DirectStep(r) \/ BridgeLaneStep(r)
SinkStep == OpenSink \/ SinkTakes \/ SinkRollsBack \/ SinkOpens \/ SinkReads \/ SinkEnds
StopStep ==
    \/ \E call \in JsCalls : Call(call)
    \/ mark_consumed \/ abort_read \/ NotifyAbort \/ FireStop \/ EmptySlot \/ DropRx
BothHalves == SetFinished \/ DropTx \/ Control \/ Finalize
WriteSide ==
    \/ \E w \in Writers : WriteStart(w) \/ WriteStep(w)
    \/ FinishWaitStart \/ FinishWaitStep \/ Admit \/ Refuse \/ WbStep
ReadSide == PeerStep \/ (\E r \in Readers : ReadStep(r)) \/ BridgeStep \/ SinkStep \/ StopStep

\* Every step belongs to the read half, the write half or both.
LEMMA Sides == Next => ReadSide \/ BothHalves \/ WriteSide
  BY DEF Next, ReadSide, PeerStep, ReadStep, SinkStep, StopStep, BothHalves, WriteSide, JsStep, JsCalls

\* A step of the write half leaves the read half and the thread alone.
LEMMA WriteSideFrame == WriteSide => UNCHANGED <<readHalf, thread>>
  <1>1. ASSUME NEW w \in Writers, WriteStart(w) \/ WriteStep(w)
        PROVE  UNCHANGED <<readHalf, thread>>
    BY <1>1 DEF WriteStart, WriteStep, WriteTx, WriteReserve, WriteRecheck, WriteQueues, others
  <1>2. ASSUME FinishWaitStart \/ FinishWaitStep \/ Admit \/ Refuse
        PROVE  UNCHANGED <<readHalf, thread>>
    BY <1>2 DEF FinishWaitStart, FinishWaitStep, FinishWaitTx, FinishWaitQueues, Admit, Refuse, others
  <1>3. ASSUME WbStep
        PROVE  UNCHANGED <<readHalf, thread>>
    BY <1>3 DEF WbStep, WbTakes, WbWrites, WbFails, WbControl, WbClosed, others
  <1> QED
    BY <1>1, <1>2, <1>3 DEF WriteSide

\* A step of the read half leaves the write half alone.
LEMMA ReadSideFrame == ReadSide => UNCHANGED writing
  <1>1. ASSUME PeerStep
        PROVE  UNCHANGED writing
    BY <1>1 DEF PeerStep, PeerSends, PeerEnds, OthersBridge
  <1>2. ASSUME NEW r \in Readers, ReadStep(r)
        PROVE  UNCHANGED writing
    <2>1. CASE \E batch \in Batches : ReadStart(r, batch)
      BY <2>1 DEF ReadStart
    <2>2. CASE DirectStep(r)
      BY <2>2 DEF DirectStep, CheckLatch, begin_direct_read, TakeSlot, CheckAborted, EnrollDirect, DirectChunk,
                  DirectEnd, DirectAborted, Reserve, Recheck, BatchLoop, Park, Convert
    <2>3. CASE BridgeLaneStep(r)
      BY <2>3 DEF BridgeLaneStep, FallThrough, HasPending, PermitCheck, PermitEnroll, GetPermit, Migrate, SetRx,
                  SetStop, mark_bridged, LookRx, LockRx, CheckBridge, RecvData, RecvEnd, RecvAborted
    <2> QED
      BY <1>2, <2>1, <2>2, <2>3 DEF ReadStep
  <1>3. ASSUME BridgeStep
        PROVE  UNCHANGED writing
    BY <1>3 DEF BridgeStep, BridgeReads, BridgeReserves, BridgeSends, BridgeStops, bridgeRest
  <1>4. ASSUME SinkStep
        PROVE  UNCHANGED writing
    BY <1>4 DEF SinkStep, OpenSink, SinkTakes, SinkRollsBack, SinkOpens, SinkReads, SinkEnds
  <1>5. ASSUME StopStep
        PROVE  UNCHANGED writing
    BY <1>5 DEF StopStep, Call, mark_consumed, abort_read, NotifyAbort, FireStop, EmptySlot, DropRx
  <1> QED
    BY <1>1, <1>2, <1>3, <1>4, <1>5 DEF ReadSide

\* A step of a synchronous call goes on in its chain.
LEMMA JsAdvances ==
    ASSUME ReadTypes, Chained, NEW s, At(s), Advance
    PROVE  Follows(js, js') /\ js[1] \in JsCalls /\ js[2] = s /\ js[1] # "sink" /\ js'[1] # "sink"
  <1>1. js[1] \in JsCalls /\ js[2] = s /\ js[1] # "sink"
    BY DEF At, JsCalls
  <1>2. Follows(js, js')
    BY <1>1, AdvanceFollows DEF ReadTypes, Chained
  <1> QED
    BY <1>1, <1>2 DEF Follows

\* A synchronous call begins on a free thread, before its first step.
LEMMA CallDoes ==
    ASSUME ReadTypes, NEW call, Call(call)
    PROVE  /\ js' \in JsStates /\ InChain(js') /\ ~BehindMark(js') /\ ~BehindFlag(js')
           /\ js[1] = "free" /\ js'[1] \in JsCalls /\ js'[1] # "sink"
  <1>1. call \in CallsOf /\ js' = <<call, Chain(call)[1]>> /\ js[1] = "free"
    BY DEF Call, JsGoto, Free
  <1>2. /\ js' \in JsStates /\ InChain(js') /\ ~BehindMark(js') /\ ~BehindFlag(js')
        /\ call \in JsCalls
    BY <1>1, CallBegins DEF ReadTypes
  <1>3. js'[1] = call
    BY <1>1
  <1> QED
    BY <1>1, <1>2, <1>3 DEF JsCalls

\* A thread that is free or opens a sink is in no chain.
LEMMA SinkChain ==
    \A j \in {<<"free", "none">>, <<"sink", "take">>, <<"sink", "init">>} :
        InChain(j) /\ ~BehindMark(j) /\ ~BehindFlag(j) /\ j[2] # "notify" /\ j \in JsStates
  BY DEF InChain, BehindMark, BehindFlag, JsCalls, JsStates

\* The chains depend on the kind of the handle alone.
LEMMA SameKind ==
    ASSUME kind' = kind
    PROVE  /\ InChain(js)' <=> InChain(js')
           /\ BehindMark(js)' <=> BehindMark(js')
           /\ BehindFlag(js)' <=> BehindFlag(js')
  BY DEF InChain, BehindMark, BehindFlag, CallsOf, Chain

\* A free thread has nothing left to notify.
LEMMA FreeThread ==
    ASSUME ReadTypes, js[1] = "free"
    PROVE  js[2] # "notify"
  BY DEF ReadTypes, JsStates, JsCalls

\* The reads whose records change in another way.
LEMMA StartMoves ==
    ASSUME rd \in ReadStates, NEW r \in Readers, NEW batch \in Batches, ReadStart(r, batch)
    PROVE  /\ rd' \in ReadStates
           /\ rd'[r].pc = "latch" /\ rd'[r].held = 0 /\ rd'[r].out = "none"
           /\ rd'[r].alone = (InFlight = {})
           /\ rd[r].pc = "idle" /\ kind # "uniSend" /\ ~final
           /\ UNCHANGED <<kind, gate, latch, wakes, bridges, sink, net, delivered, reserved, thread, writing>>
           /\ \A q \in Readers : q # r =>
                 /\ rd'[q].pc = rd[q].pc /\ rd'[q].held = rd[q].held /\ rd'[q].out = rd[q].out
                 /\ rd'[q].batch = rd[q].batch
                 /\ rd'[q].alone = (rd[q].alone /\ q \notin InFlight)
  <1> DEFINE Rec == [pc : {"idle"} \cup ReadSteps, batch : BOOLEAN, held : 0..BatchMax,
                    out : {"none", "data", "eof"} \cup Codes, alone : BOOLEAN]
             y(q) == [rd[q] EXCEPT !.alone = FALSE]
             F(x) == [q \in Readers |-> IF q = r THEN x ELSE IF q \in InFlight THEN y(q) ELSE rd[q]]
  <1>1. batch \in BOOLEAN
    BY NamesAssumption
  <1>2. PICK b \in BOOLEAN : b = (InFlight = {})
    OBVIOUS
  <1>3. Idle \in Rec /\ Idle.held = 0 /\ Idle.out = "none"
    BY BoundsAssumption DEF Idle
  <1>4. PICK x : x = [Idle EXCEPT !.pc = "latch", !.batch = batch, !.alone = b]
    OBVIOUS
  <1>5. x \in Rec /\ x.pc = "latch" /\ x.held = 0 /\ x.out = "none" /\ x.alone = b
    BY <1>1, <1>3, <1>4 DEF ReadSteps
  <1>6. \A q \in Readers : /\ rd[q] \in Rec /\ y(q) \in Rec
                           /\ y(q).pc = rd[q].pc /\ y(q).held = rd[q].held /\ y(q).out = rd[q].out
                           /\ y(q).batch = rd[q].batch /\ y(q).alone = FALSE
    BY DEF ReadStates
  <1>7. rd' = F(x) /\ rd[r].pc = "idle"
    BY <1>2, <1>4 DEF ReadStart
  <1> HIDE DEF y
  <1>8. rd' \in ReadStates
    BY <1>5, <1>6, <1>7 DEF ReadStates
  <1>9. rd'[r] = x /\ \A q \in Readers : q # r => rd'[q] = IF q \in InFlight THEN y(q) ELSE rd[q]
    BY <1>7
  <1> HIDE DEF Rec, F
  <1>10. \A q \in Readers : rd[q].alone \in BOOLEAN
    BY <1>6 DEF Rec
  <1>11. /\ kind # "uniSend" /\ ~final
         /\ UNCHANGED <<kind, gate, latch, wakes, bridges, sink, net, delivered, reserved, thread, writing>>
    BY DEF ReadStart
  <1> QED
    BY <1>2, <1>5, <1>6, <1>7, <1>8, <1>9, <1>10, <1>11, ZenonT(60)

\* What Reserve does: the read has its first chunk, or is over.
LEMMA ReserveMoves ==
    ASSUME rd \in ReadStates, NEW r \in Readers, Reserve(r)
    PROVE  /\ rd[r].pc = "reserve"
           /\ \/ /\ reserved < MaxStream /\ reserved' = reserved + 1 /\ UNCHANGED gate
                 /\ Moved(r, "recheck", 1, rd[r].out)
              \/ DropStream /\ UNCHANGED reserved /\ Moved(r, "idle", 0, "E_BACKPRESSURE_TIMEOUT")
           /\ UNCHANGED <<kind, latch, wakes, bridges, sink, net, delivered, thread, writing>>
  <1>1. rd[r].out \in Outcomes /\ 1 \in 0..BatchMax /\ "recheck" \in {"idle"} \cup ReadSteps
    BY BoundsAssumption DEF ReadStates, Outcomes, ReadSteps
  <1>2. rd' = [rd EXCEPT ![r].pc = "recheck", ![r].held = 1] => Moved(r, "recheck", 1, rd[r].out)
    BY <1>1, Rewritten, Zenon
  <1>3. Return(r, "E_BACKPRESSURE_TIMEOUT") => Moved(r, "idle", 0, "E_BACKPRESSURE_TIMEOUT")
    BY Returns DEF Outcomes, Codes
  <1> QED
    BY <1>2, <1>3 DEF Reserve

\* What a turn of the batch loop does.
LEMMA BatchMoves ==
    ASSUME rd \in ReadStates, NEW r \in Readers, BatchLoop(r)
    PROVE  /\ rd[r].pc = "loop"
           /\ \/ /\ reserved + BatchMax - rd[r].held <= MaxStream /\ rd[r].held < BatchMax
                 /\ read < arrived /\ read' = read + 1 /\ reserved' = reserved + 1
                 /\ UNCHANGED <<latch, told>> /\ Moved(r, "loop", rd[r].held + 1, rd[r].out)
              \/ /\ AtEnd /\ Verdict # "eof" /\ latch' = (IF latch = "none" THEN Verdict ELSE latch) /\ told' = TRUE
                 /\ UNCHANGED <<read, reserved>> /\ Moved(r, "park", rd[r].held, rd[r].out)
              \/ UNCHANGED <<read, reserved, latch, told>> /\ Moved(r, "park", rd[r].held, rd[r].out)
           /\ UNCHANGED <<kind, gate, wakes, bridges, sink, arrived, big, ended, delivered, thread, writing>>
  <1>1. rd[r].out \in Outcomes /\ rd[r].held \in 0..BatchMax /\ "loop" \in {"idle"} \cup ReadSteps
    BY DEF ReadStates, Outcomes, ReadSteps
  <1>2. rd[r].pc = "loop"
    BY DEF BatchLoop
  <1>3. ASSUME rd[r].held < BatchMax, rd' = [rd EXCEPT ![r].held = @ + 1]
        PROVE  Moved(r, "loop", rd[r].held + 1, rd[r].out)
    <2>1. rd[r].held + 1 \in 0..BatchMax
      BY <1>1, <1>3, BoundsAssumption
    <2>2. rd' = [rd EXCEPT ![r].held = rd[r].held + 1]
      BY <1>3 DEF ReadStates
    <2> QED
      BY <1>1, <1>2, <2>1, <2>2, Rewritten, Zenon
  <1>4. Goto(r, "park") => Moved(r, "park", rd[r].held, rd[r].out)
    BY Goes DEF ReadSteps
  <1>5. BatchMax - rd[r].held > 0 => rd[r].held < BatchMax
    BY <1>1, BoundsAssumption
  <1>6. UNCHANGED <<kind, gate, wakes, bridges, sink, arrived, big, ended, delivered, thread, writing>>
    BY DEF BatchLoop
  <1> QED
    BY <1>1, <1>2, <1>3, <1>4, <1>5, <1>6, BoundsAssumption DEF BatchLoop

\* What a read takes from the channel.
LEMMA RecvMoves ==
    ASSUME rd \in ReadStates, chan \in Nat, NEW r \in Readers, RecvData(r)
    PROVE  /\ rd[r].pc = "recv" /\ chan > 0
           /\ \/ /\ ~rd[r].batch /\ LeaveRx(r, 1, 1) /\ delivered' = delivered + 1
                 /\ Moved(r, "idle", 0, "data")
              \/ \E n \in 1..BatchMax :
                    /\ rd[r].batch /\ n <= chan /\ LeaveRx(r, n, 0) /\ UNCHANGED delivered
                    /\ Moved(r, "convert", n, rd[r].out)
           /\ UNCHANGED <<kind, gate, latch, busy, bridge, errSlot, errSet, rx, stopTx, sink, net, thread, writing>>
  <1>1. Return(r, "data") => Moved(r, "idle", 0, "data")
    BY Returns DEF Outcomes
  <1>2. ASSUME rd[r].batch
        PROVE  \E n \in 1..BatchMax :
                 /\ n <= chan /\ LeaveRx(r, n, 0) /\ UNCHANGED delivered
                 /\ Moved(r, "convert", n, rd[r].out)
    <2> DEFINE n == IF chan >= BatchMax THEN BatchMax ELSE chan
    <2>1. n \in 1..BatchMax /\ n \in 0..BatchMax /\ n <= chan
      BY BoundsAssumption DEF RecvData
    <2>2. /\ LeaveRx(r, n, 0) /\ UNCHANGED delivered
          /\ rd' = [rd EXCEPT ![r].pc = "convert", ![r].held = n]
      BY <1>2 DEF RecvData
    <2>3. rd[r].out \in Outcomes /\ "convert" \in {"idle"} \cup ReadSteps
      BY DEF ReadStates, Outcomes, ReadSteps
    <2> HIDE DEF n
    <2>4. Moved(r, "convert", n, rd[r].out)
      BY <2>1, <2>2, <2>3, Rewritten, Zenon
    <2> QED
      BY <2>1, <2>2, <2>4
  <1>3. ASSUME ~rd[r].batch
        PROVE  LeaveRx(r, 1, 1) /\ Return(r, "data") /\ delivered' = delivered + 1
    BY <1>3 DEF RecvData
  <1>4. rd[r].batch \in BOOLEAN
    BY DEF ReadStates
  <1>5. /\ rd[r].pc = "recv" /\ chan > 0
        /\ UNCHANGED <<kind, gate, latch, busy, bridge, errSlot, errSet, rx, stopTx, sink, net, thread, writing>>
    BY DEF RecvData
  <1> QED
    BY <1>1, <1>2, <1>3, <1>4, <1>5

\* Read r leaves the channel: d chunks are dropped with the receiver.
LEMMA LeavesRx ==
    ASSUME chan \in Nat, NEW r \in Readers, NEW taken \in 0..chan, NEW freed, LeaveRx(r, taken, freed)
    PROVE  \E d \in 0..(chan - taken) :
              /\ chan' = chan - taken - d /\ reserved' = reserved - freed - d
              /\ d # 0 => rx = "gone"
              /\ lock' = "free" /\ enrolled' = enrolled \ {r} /\ woken' = woken \ {r}
  <1> DEFINE left == chan - taken
             d == left - Kept(left, OtherUsers(r))
  <1>1. left \in Nat
    OBVIOUS
  <1>2. Kept(left, OtherUsers(r)) \in {0, left} /\ (rx # "gone" => Kept(left, OtherUsers(r)) = left)
    BY DEF Kept
  <1>3. d \in 0..left /\ left - d = Kept(left, OtherUsers(r)) /\ (d # 0 => rx = "gone")
    BY <1>1, <1>2
  <1>4. /\ lock' = "free" /\ enrolled' = enrolled \ {r} /\ woken' = woken \ {r}
        /\ chan' = Kept(left, OtherUsers(r)) /\ reserved' = reserved - freed - d
    BY DEF LeaveRx, Leave
  <1> HIDE DEF d
  <1> QED
    BY <1>1, <1>3, <1>4

-----------------------------------------------------------------------------
(* One owner of the receive half.                                          *)

\* A step of a read keeps one owner.
LEMMA OneOwnerReads ==
    ASSUME ReadTypes, OneOwner, Chained, NEW r \in Readers, ReadStep(r)
    PROVE  OneOwner'
  <1> USE NamesAssumption DEF gate, wakes, bridges, net, thread, ReadTypes, OneOwner, Owner, ReadStates
  <1>1. ASSUME NEW batch \in Batches, ReadStart(r, batch)
        PROVE  OneOwner'
    BY <1>1, StartMoves
    DEF ReadSteps, Outcomes, Codes
  <1>2. CASE CheckLatch(r)
    BY <1>2, Goes, Returns
    DEF CheckLatch, Moved, ReadSteps, Outcomes, Codes
  <1>3. CASE begin_direct_read(r)
    BY <1>3, Goes
    DEF begin_direct_read, Cas, Moved, ReadSteps, Outcomes, Codes
  <1>4. CASE TakeSlot(r)
    BY <1>4, Goes
    DEF TakeSlot, Cas, Moved, ReadSteps, Outcomes, Codes
  <1>5. CASE CheckAborted(r)
    BY <1>5, Goes, Returns
    DEF CheckAborted, DropStream, Cas, Moved, ReadSteps, Outcomes, Codes
  <1>6. CASE EnrollDirect(r)
    BY <1>6, Goes
    DEF EnrollDirect, Moved, ReadSteps, Outcomes, Codes
  <1>7. CASE DirectChunk(r)
    BY <1>7, Goes, Returns
    DEF DirectChunk, Leave, DropStream, Cas, Moved, ReadSteps, Outcomes, Codes
  <1>8. CASE DirectEnd(r)
    BY <1>8, Returns
    DEF DirectEnd, Leave, DropStream, Cas, Verdict, AtEnd, Moved, ReadSteps, Outcomes, Codes
  <1>9. CASE DirectAborted(r)
    BY <1>9, Returns
    DEF DirectAborted, Leave, DropStream, Cas, Moved, ReadSteps, Outcomes, Codes
  <1>10. CASE Reserve(r)
    BY <1>10, ReserveMoves
    DEF DropStream, Cas, Moved, ReadSteps, Outcomes, Codes
  <1>11. CASE Recheck(r)
    BY <1>11, Goes, Returns
    DEF Recheck, DropStream, Cas, Moved, ReadSteps, Outcomes, Codes
  <1>12. CASE BatchLoop(r)
    BY <1>12, BatchMoves
    DEF AtEnd, Verdict, Moved, ReadSteps, Outcomes, Codes
  <1>13. CASE Park(r)
    BY <1>13, Goes, Returns
    DEF Park, DropStream, Cas, Delivered, Moved, ReadSteps, Outcomes, Codes
  <1>14. CASE Convert(r)
    BY <1>14, Returns
    DEF Convert, Moved, ReadSteps, Outcomes, Codes
  <1>15. CASE FallThrough(r)
    BY <1>15, Goes, Returns
    DEF FallThrough, Moved, ReadSteps, Outcomes, Codes
  <1>16. CASE HasPending(r)
    BY <1>16, Goes
    DEF HasPending, Moved, ReadSteps, Outcomes, Codes
  <1>17. CASE PermitCheck(r)
    BY <1>17, Goes, Returns
    DEF PermitCheck, Moved, ReadSteps, Outcomes, Codes
  <1>18. CASE PermitEnroll(r)
    BY <1>18, Goes
    DEF PermitEnroll, Moved, ReadSteps, Outcomes, Codes
  <1>19. CASE GetPermit(r)
    BY <1>19, Goes, Returns
    DEF GetPermit, Leave, Moved, ReadSteps, Outcomes, Codes
  <1>20. CASE Migrate(r)
    BY <1>20, Goes
    DEF Migrate, Moved, ReadSteps, Outcomes, Codes
  <1>21. CASE SetRx(r)
    BY <1>21, Goes
    DEF SetRx, Moved, ReadSteps, Outcomes, Codes
  <1>22. CASE SetStop(r)
    BY <1>22, Goes
    DEF SetStop, Moved, ReadSteps, Outcomes, Codes
  <1>23. CASE mark_bridged(r)
    BY <1>23, Goes
    DEF mark_bridged, Moved, ReadSteps, Outcomes, Codes
  <1>24. CASE LookRx(r)
    BY <1>24, Goes, Returns
    DEF LookRx, Moved, ReadSteps, Outcomes, Codes
  <1>25. CASE LockRx(r)
    BY <1>25, Goes
    DEF LockRx, Moved, ReadSteps, Outcomes, Codes
  <1>26. CASE CheckBridge(r)
    BY <1>26, Goes, Returns, LeavesRx
    DEF CheckBridge, Moved, ReadSteps, Outcomes, Codes
  <1>27. CASE RecvData(r)
    BY <1>27, RecvMoves, LeavesRx
    DEF Moved, ReadSteps, Outcomes, Codes
  <1>28. CASE RecvEnd(r)
    BY <1>28, Returns, LeavesRx
    DEF RecvEnd, Moved, ReadSteps, Outcomes, Codes
  <1>29. CASE RecvAborted(r)
    BY <1>29, Returns, LeavesRx
    DEF RecvAborted, Moved, ReadSteps, Outcomes, Codes
  <1> QED
    BY <1>1, <1>2, <1>3, <1>4, <1>5, <1>6, <1>7, <1>8, <1>9, <1>10, <1>11, <1>12, <1>13, <1>14, <1>15,
       <1>16, <1>17, <1>18, <1>19, <1>20, <1>21, <1>22, <1>23, <1>24, <1>25, <1>26, <1>27, <1>28, <1>29
    DEF ReadStep, DirectStep, BridgeLaneStep

\* So does every other step of the handle.
LEMMA OneOwnerOthers ==
    ASSUME ReadTypes, OneOwner, Chained, PeerStep \/ BridgeStep \/ SinkStep \/ StopStep \/ BothHalves
    PROVE  OneOwner'
  <1> USE NamesAssumption DEF gate, wakes, bridges, net, thread, ReadTypes, OneOwner, Owner, ReadStates
  <1>1. ASSUME NEW oversized \in BOOLEAN, PeerSends(oversized)
        PROVE  OneOwner'
    BY <1>1
    DEF PeerSends
  <1>2. ASSUME NEW how \in {"fin", "reset", "lost"}, PeerEnds(how)
        PROVE  OneOwner'
    BY <1>2
    DEF PeerEnds
  <1>3. CASE OthersBridge
    BY <1>3
    DEF OthersBridge
  <1>4. CASE BridgeReads
    BY <1>4
    DEF BridgeReads, BridgeEnds, AtEnd, Verdict, bridgeRest
  <1>5. CASE BridgeReserves
    BY <1>5
    DEF BridgeReserves, BridgeEnds, bridgeRest
  <1>6. CASE BridgeSends
    BY <1>6
    DEF BridgeSends, BridgeEnds, ReceiverGone, bridgeRest
  <1>7. CASE BridgeStops
    BY <1>7
    DEF BridgeStops, BridgeEnds, Stopped, bridgeRest
  <1>8. CASE OpenSink
    BY <1>8
    DEF OpenSink, Free, JsGoto
  <1>9. CASE SinkTakes
    BY <1>9
    DEF SinkTakes, JsGoto, JsFree, threadRest
  <1>10. CASE SinkRollsBack
    BY <1>10
    DEF SinkRollsBack, Cas, JsFree, threadRest
  <1>11. CASE SinkOpens
    BY <1>11
    DEF SinkOpens, JsFree, threadRest
  <1>12. CASE SinkReads
    BY <1>12
    DEF SinkReads
  <1>13. CASE SinkEnds
    BY <1>13
    DEF SinkEnds, AtEnd
  <1>14. ASSUME NEW call \in JsCalls, Call(call)
        PROVE  OneOwner'
    BY <1>14, CallDoes
    DEF Call, Free, JsGoto
  <1>15. CASE mark_consumed
    BY <1>15, JsAdvances
    DEF mark_consumed, At, threadRest, Follows
  <1>16. CASE abort_read
    BY <1>16, JsAdvances
    DEF abort_read, At, Follows
  <1>17. CASE NotifyAbort
    BY <1>17, JsAdvances
    DEF NotifyAbort, At, threadRest, Follows
  <1>18. CASE FireStop
    BY <1>18, JsAdvances
    DEF FireStop, At, JsFree, threadRest, Follows
  <1>19. CASE EmptySlot
    BY <1>19, JsAdvances
    DEF EmptySlot, At, Follows
  <1>20. CASE DropRx
    BY <1>20, JsAdvances
    DEF DropRx, At, threadRest, Follows
  <1>21. CASE SetFinished
    BY <1>21, JsAdvances
    DEF SetFinished, At, readHalf, threadRest, Follows
  <1>22. CASE DropTx
    BY <1>22, JsAdvances
    DEF DropTx, At, readHalf, threadRest, Follows
  <1>23. CASE Control
    BY <1>23, JsAdvances
    DEF Control, At, readHalf, threadRest, EnsureTx, SendCtrl, Usable, Follows
  <1>24. CASE Finalize
    BY <1>24
    DEF Finalize, Free
  <1> QED
    BY <1>1, <1>2, <1>3, <1>4, <1>5, <1>6, <1>7, <1>8, <1>9, <1>10, <1>11, <1>12, <1>13, <1>14, <1>15,
       <1>16, <1>17, <1>18, <1>19, <1>20, <1>21, <1>22, <1>23, <1>24
    DEF PeerStep, BridgeStep, SinkStep, StopStep, BothHalves

-----------------------------------------------------------------------------
(* Types of the read half.                                                 *)

\* A step of a read keeps the types of the read half.
LEMMA ReadTypesReads ==
    ASSUME ReadTypes, Hands, OneOwner, Chained, NEW r \in Readers, ReadStep(r)
    PROVE  ReadTypes'
  <1> USE NamesAssumption, BoundsAssumption DEF gate, wakes, bridges, net, thread, ReadTypes, Hands
  <1>1. ASSUME NEW batch \in Batches, ReadStart(r, batch)
        PROVE  ReadTypes'
    <2>1. rd' \in ReadStates /\ UNCHANGED <<kind, gate, latch, wakes, bridges, sink, net, delivered, thread>>
      BY <1>1, StartMoves
    <2> QED
      BY <2>1
  <1>2. CASE CheckLatch(r)
    BY <1>2, Goes, Returns
    DEF CheckLatch, Moved, ReadSteps, Outcomes, Codes
  <1>3. CASE begin_direct_read(r)
    BY <1>3, Goes
    DEF begin_direct_read, Cas, Moved, ReadSteps, Outcomes, Codes
  <1>4. CASE TakeSlot(r)
    BY <1>4, Goes
    DEF TakeSlot, Cas, Moved, ReadSteps, Outcomes, Codes
  <1>5. CASE CheckAborted(r)
    BY <1>5, Goes, Returns
    DEF CheckAborted, DropStream, Cas, Moved, ReadSteps, Outcomes, Codes
  <1>6. CASE EnrollDirect(r)
    BY <1>6, Goes
    DEF EnrollDirect, Moved, ReadSteps, Outcomes, Codes
  <1>7. CASE DirectChunk(r)
    BY <1>7, Goes, Returns
    DEF DirectChunk, Leave, DropStream, Cas, Moved, ReadSteps, Outcomes, Codes
  <1>8. CASE DirectEnd(r)
    BY <1>8, Returns
    DEF DirectEnd, Leave, DropStream, Cas, Verdict, AtEnd, Moved, ReadSteps, Outcomes, Codes
  <1>9. CASE DirectAborted(r)
    BY <1>9, Returns
    DEF DirectAborted, Leave, DropStream, Cas, Moved, ReadSteps, Outcomes, Codes
  <1>10. CASE Reserve(r)
    <2>1. rd' \in ReadStates /\ UNCHANGED <<kind, latch, wakes, bridges, sink, net, delivered, thread>>
      BY <1>10, ReserveMoves DEF Moved
    <2>2. /\ where' \in {"slot", "bridge", "sink", "none"} \cup Readers
          /\ own' \in {"Deferred", "DirectReadActive", "Bridged", "Sink", "Consumed"}
      BY <1>10, ReserveMoves DEF DropStream, Cas
    <2> QED
      BY <2>1, <2>2
  <1>11. CASE Recheck(r)
    BY <1>11, Goes, Returns
    DEF Recheck, DropStream, Cas, Moved, ReadSteps, Outcomes, Codes
  <1>12. CASE BatchLoop(r)
    <2>1. rd' \in ReadStates /\ UNCHANGED <<kind, gate, wakes, bridges, sink, arrived, big, ended, delivered, thread>>
      BY <1>12, BatchMoves DEF Moved
    <2>0. read' \in 0..arrived
      <3>1. (read < arrived /\ read' = read + 1) \/ read' = read
        BY <1>12, BatchMoves, Zenon
      <3> QED
        BY <3>1
    <2>2. told' \in BOOLEAN
      <3>1. told' = told \/ told' = TRUE
        BY <1>12, BatchMoves, Zenon
      <3> QED
        BY <3>1, Zenon
    <2>3. latch' \in {"none"} \cup Codes
      BY <1>12, BatchMoves DEF Verdict, Codes
    <2> QED
      BY <2>0, <2>1, <2>2, <2>3
  <1>13. CASE Park(r)
    BY <1>13, Goes, Returns
    DEF Park, DropStream, Cas, Delivered, Moved, ReadSteps, Outcomes, Codes
  <1>14. CASE Convert(r)
    BY <1>14, Returns
    DEF Convert, Moved, ReadSteps, Outcomes, Codes, ReadStates
  <1>15. CASE FallThrough(r)
    BY <1>15, Goes, Returns
    DEF FallThrough, Moved, ReadSteps, Outcomes, Codes
  <1>16. CASE HasPending(r)
    BY <1>16, Goes
    DEF HasPending, Moved, ReadSteps, Outcomes, Codes
  <1>17. CASE PermitCheck(r)
    BY <1>17, Goes, Returns
    DEF PermitCheck, Moved, ReadSteps, Outcomes, Codes
  <1>18. CASE PermitEnroll(r)
    BY <1>18, Goes
    DEF PermitEnroll, Moved, ReadSteps, Outcomes, Codes
  <1>19. CASE GetPermit(r)
    BY <1>19, Goes, Returns
    DEF GetPermit, Leave, Moved, ReadSteps, Outcomes, Codes
  <1>20. CASE Migrate(r)
    BY <1>20, Goes
    DEF Migrate, Moved, ReadSteps, Outcomes, Codes
  <1>21. CASE SetRx(r)
    BY <1>21, Goes
    DEF SetRx, Moved, ReadSteps, Outcomes, Codes
  <1>22. CASE SetStop(r)
    BY <1>22, Goes
    DEF SetStop, Moved, ReadSteps, Outcomes, Codes
  <1>23. CASE mark_bridged(r)
    BY <1>23, Goes
    DEF mark_bridged, Moved, ReadSteps, Outcomes, Codes
  <1>24. CASE LookRx(r)
    BY <1>24, Goes, Returns
    DEF LookRx, Moved, ReadSteps, Outcomes, Codes
  <1>25. CASE LockRx(r)
    BY <1>25, Goes
    DEF LockRx, Moved, ReadSteps, Outcomes, Codes
  <1>26. CASE CheckBridge(r)
    BY <1>26, Goes, Returns, LeavesRx
    DEF CheckBridge, Moved, ReadSteps, Outcomes, Codes
  <1>27. CASE RecvData(r)
    <2>1. chan \in Nat
      OBVIOUS
    <2>2. /\ rd' \in ReadStates /\ delivered' \in Nat
          /\ UNCHANGED <<kind, gate, latch, busy, bridge, errSlot, errSet, rx, stopTx, sink, net, thread>>
      BY <1>27, <2>1, RecvMoves DEF Moved
    <2>3. PICK t \in 0..chan : \E freed \in 0..1 : LeaveRx(r, t, freed)
      <3>1. CASE LeaveRx(r, 1, 1)
        BY <1>27, <2>1, <3>1, RecvMoves
      <3>2. CASE \E n \in 1..BatchMax : n <= chan /\ LeaveRx(r, n, 0)
        BY <2>1, <3>2
      <3> QED
        BY <1>27, <2>1, <3>1, <3>2, RecvMoves
    <2>4. PICK d \in 0..(chan - t) : /\ chan' = chan - t - d
                                    /\ lock' = "free" /\ enrolled' = enrolled \ {r} /\ woken' = woken \ {r}
      BY <2>1, <2>3, LeavesRx, Zenon
    <2>5. chan' \in 0..ChannelCapacity
      BY <2>4
    <2> QED
      BY <2>2, <2>4, <2>5
  <1>28. CASE RecvEnd(r)
    BY <1>28, Returns, LeavesRx
    DEF RecvEnd, Moved, ReadSteps, Outcomes, Codes
  <1>29. CASE RecvAborted(r)
    <2>1. chan \in Nat /\ 0 \in 0..chan
      OBVIOUS
    <2>2. PICK d \in 0..(chan - 0) : /\ chan' = chan - 0 - d
                                    /\ lock' = "free" /\ enrolled' = enrolled \ {r} /\ woken' = woken \ {r}
      BY <1>29, <2>1, LeavesRx, Zenon DEF RecvAborted
    <2>3. chan' \in 0..ChannelCapacity
      BY <2>2
    <2>4. rd' \in ReadStates
      BY <1>29, Returns DEF RecvAborted, Moved, Outcomes, Codes
    <2> QED
      BY <1>29, <2>2, <2>3, <2>4 DEF RecvAborted
  <1> QED
    BY <1>1, <1>2, <1>3, <1>4, <1>5, <1>6, <1>7, <1>8, <1>9, <1>10, <1>11, <1>12, <1>13, <1>14, <1>15,
       <1>16, <1>17, <1>18, <1>19, <1>20, <1>21, <1>22, <1>23, <1>24, <1>25, <1>26, <1>27, <1>28, <1>29
    DEF ReadStep, DirectStep, BridgeLaneStep

\* So does every other step of the handle.
LEMMA ReadTypesOthers ==
    ASSUME ReadTypes, Hands, OneOwner, Chained,
           PeerStep \/ BridgeStep \/ SinkStep \/ StopStep \/ BothHalves
    PROVE  ReadTypes'
  <1> USE NamesAssumption, BoundsAssumption DEF gate, wakes, bridges, net, thread, ReadTypes, Hands
  <1>1. ASSUME NEW oversized \in BOOLEAN, PeerSends(oversized)
        PROVE  ReadTypes'
    BY <1>1
    DEF PeerSends
  <1>2. ASSUME NEW how \in {"fin", "reset", "lost"}, PeerEnds(how)
        PROVE  ReadTypes'
    BY <1>2
    DEF PeerEnds
  <1>3. CASE OthersBridge
    BY <1>3
    DEF OthersBridge
  <1>4. CASE BridgeReads
    <2>0. read' \in 0..arrived
      BY <1>4 DEF BridgeReads, AtEnd
    <2>1. told' \in BOOLEAN
      BY <1>4, Zenon DEF BridgeReads
    <2>2. bridge' \in {"reserve", "done"} /\ where' \in {where, "none"} /\ errSlot' \in {"none"} \cup Codes
      BY <1>4 DEF BridgeReads, BridgeEnds, Verdict, Codes
    <2> QED
      BY <1>4, <2>0, <2>1, <2>2 DEF BridgeReads, bridgeRest
  <1>5. CASE BridgeReserves
    BY <1>5
    DEF BridgeReserves, BridgeEnds, bridgeRest, Codes
  <1>6. CASE BridgeSends
    BY <1>6
    DEF BridgeSends, BridgeEnds, ReceiverGone, bridgeRest
  <1>7. CASE BridgeStops
    BY <1>7
    DEF BridgeStops, BridgeEnds, Stopped, bridgeRest
  <1>8. CASE OpenSink
    BY <1>8
    DEF OpenSink, Free, JsGoto, JsStates
  <1>9. CASE SinkTakes
    BY <1>9
    DEF SinkTakes, JsGoto, JsFree, threadRest, JsStates
  <1>10. CASE SinkRollsBack
    BY <1>10
    DEF SinkRollsBack, Cas, JsFree, threadRest, JsStates
  <1>11. CASE SinkOpens
    BY <1>11
    DEF SinkOpens, JsFree, threadRest, JsStates
  <1>12. CASE SinkReads
    BY <1>12
    DEF SinkReads
  <1>13. CASE SinkEnds
    BY <1>13
    DEF SinkEnds, AtEnd
  <1>14. ASSUME NEW call \in JsCalls, Call(call)
        PROVE  ReadTypes'
    BY <1>14, CallDoes
    DEF Call, Free, JsGoto
  <1>15. CASE mark_consumed
    BY <1>15, JsAdvances
    DEF mark_consumed, At, threadRest, Follows
  <1>16. CASE abort_read
    BY <1>16, JsAdvances
    DEF abort_read, At, Follows
  <1>17. CASE NotifyAbort
    BY <1>17, JsAdvances
    DEF NotifyAbort, At, threadRest, Follows
  <1>18. CASE FireStop
    BY <1>18, JsAdvances
    DEF FireStop, At, JsFree, threadRest, Follows, JsStates
  <1>19. CASE EmptySlot
    BY <1>19, JsAdvances
    DEF EmptySlot, At, Follows
  <1>20. CASE DropRx
    BY <1>20, JsAdvances
    DEF DropRx, At, threadRest, Follows
  <1>21. CASE SetFinished
    BY <1>21, JsAdvances
    DEF SetFinished, At, readHalf, threadRest, Follows
  <1>22. CASE DropTx
    BY <1>22, JsAdvances
    DEF DropTx, At, readHalf, threadRest, Follows
  <1>23. CASE Control
    BY <1>23, JsAdvances
    DEF Control, At, readHalf, threadRest, EnsureTx, SendCtrl, Usable, Follows
  <1>24. CASE Finalize
    BY <1>24
    DEF Finalize, Free
  <1> QED
    BY <1>1, <1>2, <1>3, <1>4, <1>5, <1>6, <1>7, <1>8, <1>9, <1>10, <1>11, <1>12, <1>13, <1>14, <1>15,
       <1>16, <1>17, <1>18, <1>19, <1>20, <1>21, <1>22, <1>23, <1>24
    DEF PeerStep, BridgeStep, SinkStep, StopStep, BothHalves

-----------------------------------------------------------------------------
(* What the reads have in their hands.                                     *)

\* A step of a read leaves in its hands what its next step expects.
LEMMA HandsReads ==
    ASSUME ReadTypes, Hands, NEW r \in Readers, ReadStep(r)
    PROVE  Hands'
  <1> USE BoundsAssumption DEF gate, wakes, bridges, net, thread, ReadTypes, Hands
  <1>1. ASSUME NEW batch \in Batches, ReadStart(r, batch)
        PROVE  Hands'
    BY <1>1, StartMoves
    DEF ReadSteps, Outcomes, Codes
  <1>2. CASE CheckLatch(r)
    BY <1>2, Goes, Returns
    DEF CheckLatch, Moved, ReadSteps, Outcomes, Codes
  <1>3. CASE begin_direct_read(r)
    BY <1>3, Goes
    DEF begin_direct_read, Cas, Moved, ReadSteps, Outcomes, Codes
  <1>4. CASE TakeSlot(r)
    BY <1>4, Goes
    DEF TakeSlot, Cas, Moved, ReadSteps, Outcomes, Codes
  <1>5. CASE CheckAborted(r)
    BY <1>5, Goes, Returns
    DEF CheckAborted, DropStream, Cas, Moved, ReadSteps, Outcomes, Codes
  <1>6. CASE EnrollDirect(r)
    BY <1>6, Goes
    DEF EnrollDirect, Moved, ReadSteps, Outcomes, Codes
  <1>7. CASE DirectChunk(r)
    BY <1>7, Goes, Returns
    DEF DirectChunk, Leave, DropStream, Cas, Moved, ReadSteps, Outcomes, Codes
  <1>8. CASE DirectEnd(r)
    BY <1>8, Returns
    DEF DirectEnd, Leave, DropStream, Cas, Verdict, AtEnd, Moved, ReadSteps, Outcomes, Codes
  <1>9. CASE DirectAborted(r)
    BY <1>9, Returns
    DEF DirectAborted, Leave, DropStream, Cas, Moved, ReadSteps, Outcomes, Codes
  <1>10. CASE Reserve(r)
    BY <1>10, ReserveMoves
    DEF DropStream, Cas, Moved, ReadSteps, Outcomes, Codes
  <1>11. CASE Recheck(r)
    BY <1>11, Goes, Returns
    DEF Recheck, DropStream, Cas, Moved, ReadSteps, Outcomes, Codes
  <1>12. CASE BatchLoop(r)
    <2>1. rd[r].pc = "loop" /\ rd[r].batch
      BY <1>12, BatchMoves
    <2>2. /\ rd'[r].pc \in {"loop", "park"} /\ rd'[r].batch = rd[r].batch
          /\ \A q \in Readers : q # r => rd'[q] = rd[q]
      BY <1>12, BatchMoves DEF Moved
    <2> QED
      BY <2>1, <2>2, ZenonT(60)
  <1>13. CASE Park(r)
    BY <1>13, Goes, Returns
    DEF Park, DropStream, Cas, Delivered, Moved, ReadSteps, Outcomes, Codes
  <1>14. CASE Convert(r)
    BY <1>14, Returns
    DEF Convert, Moved, ReadSteps, Outcomes, Codes
  <1>15. CASE FallThrough(r)
    BY <1>15, Goes, Returns
    DEF FallThrough, Moved, ReadSteps, Outcomes, Codes
  <1>16. CASE HasPending(r)
    BY <1>16, Goes
    DEF HasPending, Moved, ReadSteps, Outcomes, Codes
  <1>17. CASE PermitCheck(r)
    BY <1>17, Goes, Returns
    DEF PermitCheck, Moved, ReadSteps, Outcomes, Codes
  <1>18. CASE PermitEnroll(r)
    BY <1>18, Goes
    DEF PermitEnroll, Moved, ReadSteps, Outcomes, Codes
  <1>19. CASE GetPermit(r)
    BY <1>19, Goes, Returns
    DEF GetPermit, Leave, Moved, ReadSteps, Outcomes, Codes
  <1>20. CASE Migrate(r)
    BY <1>20, Goes
    DEF Migrate, Moved, ReadSteps, Outcomes, Codes
  <1>21. CASE SetRx(r)
    BY <1>21, Goes
    DEF SetRx, Moved, ReadSteps, Outcomes, Codes
  <1>22. CASE SetStop(r)
    BY <1>22, Goes
    DEF SetStop, Moved, ReadSteps, Outcomes, Codes
  <1>23. CASE mark_bridged(r)
    BY <1>23, Goes
    DEF mark_bridged, Moved, ReadSteps, Outcomes, Codes
  <1>24. CASE LookRx(r)
    BY <1>24, Goes, Returns
    DEF LookRx, Moved, ReadSteps, Outcomes, Codes
  <1>25. CASE LockRx(r)
    BY <1>25, Goes
    DEF LockRx, Moved, ReadSteps, Outcomes, Codes
  <1>26. CASE CheckBridge(r)
    BY <1>26, Goes, Returns, LeavesRx
    DEF CheckBridge, Moved, ReadSteps, Outcomes, Codes
  <1>27. CASE RecvData(r)
    BY <1>27, RecvMoves, LeavesRx
    DEF Moved, ReadSteps, Outcomes, Codes
  <1>28. CASE RecvEnd(r)
    BY <1>28, Returns, LeavesRx
    DEF RecvEnd, Moved, ReadSteps, Outcomes, Codes
  <1>29. CASE RecvAborted(r)
    BY <1>29, Returns, LeavesRx
    DEF RecvAborted, Moved, ReadSteps, Outcomes, Codes
  <1> QED
    BY <1>1, <1>2, <1>3, <1>4, <1>5, <1>6, <1>7, <1>8, <1>9, <1>10, <1>11, <1>12, <1>13, <1>14, <1>15,
       <1>16, <1>17, <1>18, <1>19, <1>20, <1>21, <1>22, <1>23, <1>24, <1>25, <1>26, <1>27, <1>28, <1>29
    DEF ReadStep, DirectStep, BridgeLaneStep

-----------------------------------------------------------------------------
(* Stopping: the order of the steps of a call.                             *)

\* A step of a read keeps the order of a stop.
LEMMA ChainedReads ==
    ASSUME ReadTypes, OneOwner, Chained, NEW r \in Readers, ReadStep(r)
    PROVE  Chained'
  <1> USE SameKind DEF gate, wakes, bridges, net, thread, ReadTypes, Chained
  <1>1. ASSUME NEW batch \in Batches, ReadStart(r, batch)
        PROVE  Chained'
    BY <1>1, StartMoves
    DEF ReadSteps, Outcomes, Codes
  <1>2. CASE CheckLatch(r)
    BY <1>2, Goes, Returns
    DEF CheckLatch, Moved, ReadSteps, Outcomes, Codes
  <1>3. CASE begin_direct_read(r)
    BY <1>3, Goes
    DEF begin_direct_read, Cas, Moved, ReadSteps, Outcomes, Codes
  <1>4. CASE TakeSlot(r)
    BY <1>4, Goes
    DEF TakeSlot, Cas, Moved, ReadSteps, Outcomes, Codes
  <1>5. CASE CheckAborted(r)
    BY <1>5, Goes, Returns
    DEF CheckAborted, DropStream, Cas, Moved, ReadSteps, Outcomes, Codes
  <1>6. CASE EnrollDirect(r)
    BY <1>6, Goes
    DEF EnrollDirect, Moved, ReadSteps, Outcomes, Codes
  <1>7. CASE DirectChunk(r)
    BY <1>7, Goes, Returns
    DEF DirectChunk, Leave, DropStream, Cas, Moved, ReadSteps, Outcomes, Codes
  <1>8. CASE DirectEnd(r)
    BY <1>8, Returns
    DEF DirectEnd, Leave, DropStream, Cas, Verdict, AtEnd, Moved, ReadSteps, Outcomes, Codes
  <1>9. CASE DirectAborted(r)
    BY <1>9, Returns
    DEF DirectAborted, Leave, DropStream, Cas, Moved, ReadSteps, Outcomes, Codes
  <1>10. CASE Reserve(r)
    BY <1>10, ReserveMoves
    DEF DropStream, Cas, Moved, ReadSteps, Outcomes, Codes
  <1>11. CASE Recheck(r)
    BY <1>11, Goes, Returns
    DEF Recheck, DropStream, Cas, Moved, ReadSteps, Outcomes, Codes
  <1>12. CASE BatchLoop(r)
    <2>1. UNCHANGED <<kind, gate, bridges, aborted, js, shut, final>>
      BY <1>12, BatchMoves
    <2> QED
      BY <2>1, SameKind
  <1>13. CASE Park(r)
    BY <1>13, Goes, Returns
    DEF Park, DropStream, Cas, Delivered, Moved, ReadSteps, Outcomes, Codes
  <1>14. CASE Convert(r)
    BY <1>14, Returns
    DEF Convert, Moved, ReadSteps, Outcomes, Codes
  <1>15. CASE FallThrough(r)
    BY <1>15, Goes, Returns
    DEF FallThrough, Moved, ReadSteps, Outcomes, Codes
  <1>16. CASE HasPending(r)
    BY <1>16, Goes
    DEF HasPending, Moved, ReadSteps, Outcomes, Codes
  <1>17. CASE PermitCheck(r)
    BY <1>17, Goes, Returns
    DEF PermitCheck, Moved, ReadSteps, Outcomes, Codes
  <1>18. CASE PermitEnroll(r)
    BY <1>18, Goes
    DEF PermitEnroll, Moved, ReadSteps, Outcomes, Codes
  <1>19. CASE GetPermit(r)
    BY <1>19, Goes, Returns
    DEF GetPermit, Leave, Moved, ReadSteps, Outcomes, Codes
  <1>20. CASE Migrate(r)
    BY <1>20, Goes
    DEF Migrate, Moved, ReadSteps, Outcomes, Codes
  <1>21. CASE SetRx(r)
    BY <1>21, Goes
    DEF SetRx, Moved, ReadSteps, Outcomes, Codes
  <1>22. CASE SetStop(r)
    BY <1>22, Goes
    DEF SetStop, Moved, ReadSteps, Outcomes, Codes
  <1>23. CASE mark_bridged(r)
    BY <1>23, Goes
    DEF mark_bridged, Moved, ReadSteps, Outcomes, Codes
  <1>24. CASE LookRx(r)
    BY <1>24, Goes, Returns
    DEF LookRx, Moved, ReadSteps, Outcomes, Codes
  <1>25. CASE LockRx(r)
    BY <1>25, Goes
    DEF LockRx, Moved, ReadSteps, Outcomes, Codes
  <1>26. CASE CheckBridge(r)
    BY <1>26, Goes, Returns, LeavesRx
    DEF CheckBridge, Moved, ReadSteps, Outcomes, Codes
  <1>27. CASE RecvData(r)
    BY <1>27, RecvMoves, LeavesRx
    DEF Moved, ReadSteps, Outcomes, Codes
  <1>28. CASE RecvEnd(r)
    BY <1>28, Returns, LeavesRx
    DEF RecvEnd, Moved, ReadSteps, Outcomes, Codes
  <1>29. CASE RecvAborted(r)
    BY <1>29, Returns, LeavesRx
    DEF RecvAborted, Moved, ReadSteps, Outcomes, Codes
  <1> QED
    BY <1>1, <1>2, <1>3, <1>4, <1>5, <1>6, <1>7, <1>8, <1>9, <1>10, <1>11, <1>12, <1>13, <1>14, <1>15,
       <1>16, <1>17, <1>18, <1>19, <1>20, <1>21, <1>22, <1>23, <1>24, <1>25, <1>26, <1>27, <1>28, <1>29
    DEF ReadStep, DirectStep, BridgeLaneStep

\* The calls of the thread set the flag before they empty the slot.
LEMMA ChainedOthers ==
    ASSUME ReadTypes, OneOwner, Chained, PeerStep \/ BridgeStep \/ SinkStep \/ StopStep \/ BothHalves
    PROVE  Chained'
  <1> USE SameKind DEF gate, wakes, bridges, net, thread, ReadTypes, Chained
  <1>1. ASSUME NEW oversized \in BOOLEAN, PeerSends(oversized)
        PROVE  Chained'
    BY <1>1
    DEF PeerSends
  <1>2. ASSUME NEW how \in {"fin", "reset", "lost"}, PeerEnds(how)
        PROVE  Chained'
    BY <1>2
    DEF PeerEnds
  <1>3. CASE OthersBridge
    BY <1>3
    DEF OthersBridge
  <1>4. CASE BridgeReads
    BY <1>4
    DEF BridgeReads, BridgeEnds, AtEnd, Verdict, bridgeRest
  <1>5. CASE BridgeReserves
    BY <1>5
    DEF BridgeReserves, BridgeEnds, bridgeRest
  <1>6. CASE BridgeSends
    BY <1>6
    DEF BridgeSends, BridgeEnds, ReceiverGone, bridgeRest
  <1>7. CASE BridgeStops
    BY <1>7
    DEF BridgeStops, BridgeEnds, Stopped, bridgeRest
  <1>8. CASE OpenSink
    BY <1>8, SinkChain
    DEF OpenSink, Free, JsGoto
  <1>9. CASE SinkTakes
    BY <1>9, SinkChain
    DEF SinkTakes, JsGoto, JsFree, threadRest
  <1>10. CASE SinkRollsBack
    BY <1>10, SinkChain
    DEF SinkRollsBack, Cas, JsFree, threadRest
  <1>11. CASE SinkOpens
    BY <1>11, SinkChain
    DEF SinkOpens, JsFree, threadRest
  <1>12. CASE SinkReads
    BY <1>12
    DEF SinkReads
  <1>13. CASE SinkEnds
    BY <1>13
    DEF SinkEnds, AtEnd
  <1>14. ASSUME NEW call \in JsCalls, Call(call)
        PROVE  Chained'
    BY <1>14, CallDoes
    DEF Call, Free, JsGoto
  <1>15. CASE mark_consumed
    BY <1>15, JsAdvances
    DEF mark_consumed, At, threadRest, Follows
  <1>16. CASE abort_read
    BY <1>16, JsAdvances
    DEF abort_read, At, Follows
  <1>17. CASE NotifyAbort
    BY <1>17, JsAdvances
    DEF NotifyAbort, At, threadRest, Follows
  <1>18. CASE FireStop
    <2>1. /\ kind' = kind /\ InChain(js') /\ js'[1] # "sink"
          /\ BehindMark(js') => own = "Consumed"
          /\ BehindFlag(js') => aborted
      <3>1. CASE Advance
        BY <1>18, <3>1, JsAdvances DEF FireStop, Follows
      <3>2. CASE JsFree
        BY <1>18, <3>2, SinkChain DEF FireStop, JsFree
      <3> QED
        BY <1>18, <3>1, <3>2 DEF FireStop
    <2>2. stopTx' = "fired" => aborted
      <3>1. BehindFlag(js)
        BY <1>18 DEF FireStop, At, BehindFlag
      <3> QED
        BY <3>1
    <2> QED
      BY <1>18, <2>1, <2>2, SameKind DEF FireStop, threadRest
  <1>19. CASE EmptySlot
    BY <1>19, JsAdvances
    DEF EmptySlot, At, Follows, BehindMark, BehindFlag
  <1>20. CASE DropRx
    BY <1>20, JsAdvances
    DEF DropRx, At, threadRest, Follows, BehindMark, BehindFlag
  <1>21. CASE SetFinished
    BY <1>21, JsAdvances
    DEF SetFinished, At, readHalf, threadRest, Follows
  <1>22. CASE DropTx
    BY <1>22, JsAdvances
    DEF DropTx, At, readHalf, threadRest, Follows
  <1>23. CASE Control
    BY <1>23, JsAdvances
    DEF Control, At, readHalf, threadRest, EnsureTx, SendCtrl, Usable, Follows
  <1>24. CASE Finalize
    BY <1>24
    DEF Finalize, Free
  <1> QED
    BY <1>1, <1>2, <1>3, <1>4, <1>5, <1>6, <1>7, <1>8, <1>9, <1>10, <1>11, <1>12, <1>13, <1>14, <1>15,
       <1>16, <1>17, <1>18, <1>19, <1>20, <1>21, <1>22, <1>23, <1>24
    DEF PeerStep, BridgeStep, SinkStep, StopStep, BothHalves

-----------------------------------------------------------------------------
(* Waiting reads hear of an abort.                                         *)

\* A read looks at the flag after it has enrolled.
LEMMA HeardReads ==
    ASSUME ReadTypes, Chained, Heard, NEW r \in Readers, ReadStep(r)
    PROVE  Heard'
  <1> USE DEF gate, wakes, bridges, net, thread, ReadTypes, Heard, Notified_
  <1>1. ASSUME NEW batch \in Batches, ReadStart(r, batch)
        PROVE  Heard'
    BY <1>1, StartMoves
    DEF ReadSteps, Outcomes, Codes
  <1>2. CASE CheckLatch(r)
    BY <1>2, Goes, Returns
    DEF CheckLatch, Moved, ReadSteps, Outcomes, Codes
  <1>3. CASE begin_direct_read(r)
    BY <1>3, Goes
    DEF begin_direct_read, Cas, Moved, ReadSteps, Outcomes, Codes
  <1>4. CASE TakeSlot(r)
    BY <1>4, Goes
    DEF TakeSlot, Cas, Moved, ReadSteps, Outcomes, Codes
  <1>5. CASE CheckAborted(r)
    BY <1>5, Goes, Returns
    DEF CheckAborted, DropStream, Cas, Moved, ReadSteps, Outcomes, Codes
  <1>6. CASE EnrollDirect(r)
    BY <1>6, Goes
    DEF EnrollDirect, Moved, ReadSteps, Outcomes, Codes
  <1>7. CASE DirectChunk(r)
    BY <1>7, Goes, Returns
    DEF DirectChunk, Leave, DropStream, Cas, Moved, ReadSteps, Outcomes, Codes
  <1>8. CASE DirectEnd(r)
    BY <1>8, Returns
    DEF DirectEnd, Leave, DropStream, Cas, Verdict, AtEnd, Moved, ReadSteps, Outcomes, Codes
  <1>9. CASE DirectAborted(r)
    BY <1>9, Returns
    DEF DirectAborted, Leave, DropStream, Cas, Moved, ReadSteps, Outcomes, Codes
  <1>10. CASE Reserve(r)
    BY <1>10, ReserveMoves
    DEF DropStream, Cas, Moved, ReadSteps, Outcomes, Codes
  <1>11. CASE Recheck(r)
    BY <1>11, Goes, Returns
    DEF Recheck, DropStream, Cas, Moved, ReadSteps, Outcomes, Codes
  <1>12. CASE BatchLoop(r)
    BY <1>12, BatchMoves
    DEF AtEnd, Verdict, Moved, ReadSteps, Outcomes, Codes
  <1>13. CASE Park(r)
    BY <1>13, Goes, Returns
    DEF Park, DropStream, Cas, Delivered, Moved, ReadSteps, Outcomes, Codes
  <1>14. CASE Convert(r)
    BY <1>14, Returns
    DEF Convert, Moved, ReadSteps, Outcomes, Codes
  <1>15. CASE FallThrough(r)
    BY <1>15, Goes, Returns
    DEF FallThrough, Moved, ReadSteps, Outcomes, Codes
  <1>16. CASE HasPending(r)
    BY <1>16, Goes
    DEF HasPending, Moved, ReadSteps, Outcomes, Codes
  <1>17. CASE PermitCheck(r)
    BY <1>17, Goes, Returns
    DEF PermitCheck, Moved, ReadSteps, Outcomes, Codes
  <1>18. CASE PermitEnroll(r)
    BY <1>18, Goes
    DEF PermitEnroll, Moved, ReadSteps, Outcomes, Codes
  <1>19. CASE GetPermit(r)
    BY <1>19, Goes, Returns
    DEF GetPermit, Leave, Moved, ReadSteps, Outcomes, Codes
  <1>20. CASE Migrate(r)
    BY <1>20, Goes
    DEF Migrate, Moved, ReadSteps, Outcomes, Codes
  <1>21. CASE SetRx(r)
    BY <1>21, Goes
    DEF SetRx, Moved, ReadSteps, Outcomes, Codes
  <1>22. CASE SetStop(r)
    BY <1>22, Goes
    DEF SetStop, Moved, ReadSteps, Outcomes, Codes
  <1>23. CASE mark_bridged(r)
    BY <1>23, Goes
    DEF mark_bridged, Moved, ReadSteps, Outcomes, Codes
  <1>24. CASE LookRx(r)
    BY <1>24, Goes, Returns
    DEF LookRx, Moved, ReadSteps, Outcomes, Codes
  <1>25. CASE LockRx(r)
    BY <1>25, Goes
    DEF LockRx, Moved, ReadSteps, Outcomes, Codes
  <1>26. CASE CheckBridge(r)
    BY <1>26, Goes, Returns, LeavesRx
    DEF CheckBridge, Moved, ReadSteps, Outcomes, Codes
  <1>27. CASE RecvData(r)
    BY <1>27, RecvMoves, LeavesRx
    DEF Moved, ReadSteps, Outcomes, Codes
  <1>28. CASE RecvEnd(r)
    BY <1>28, Returns, LeavesRx
    DEF RecvEnd, Moved, ReadSteps, Outcomes, Codes
  <1>29. CASE RecvAborted(r)
    BY <1>29, Returns, LeavesRx
    DEF RecvAborted, Moved, ReadSteps, Outcomes, Codes
  <1> QED
    BY <1>1, <1>2, <1>3, <1>4, <1>5, <1>6, <1>7, <1>8, <1>9, <1>10, <1>11, <1>12, <1>13, <1>14, <1>15,
       <1>16, <1>17, <1>18, <1>19, <1>20, <1>21, <1>22, <1>23, <1>24, <1>25, <1>26, <1>27, <1>28, <1>29
    DEF ReadStep, DirectStep, BridgeLaneStep

\* A notification reaches every read that has enrolled.
LEMMA HeardOthers ==
    ASSUME ReadTypes, Chained, Heard, PeerStep \/ BridgeStep \/ SinkStep \/ StopStep \/ BothHalves
    PROVE  Heard'
  <1> USE DEF gate, wakes, bridges, net, thread, ReadTypes, Heard, Notified_
  <1>1. ASSUME NEW oversized \in BOOLEAN, PeerSends(oversized)
        PROVE  Heard'
    BY <1>1
    DEF PeerSends
  <1>2. ASSUME NEW how \in {"fin", "reset", "lost"}, PeerEnds(how)
        PROVE  Heard'
    BY <1>2
    DEF PeerEnds
  <1>3. CASE OthersBridge
    BY <1>3
    DEF OthersBridge
  <1>4. CASE BridgeReads
    BY <1>4
    DEF BridgeReads, BridgeEnds, AtEnd, Verdict, bridgeRest
  <1>5. CASE BridgeReserves
    BY <1>5
    DEF BridgeReserves, BridgeEnds, bridgeRest
  <1>6. CASE BridgeSends
    BY <1>6
    DEF BridgeSends, BridgeEnds, ReceiverGone, bridgeRest
  <1>7. CASE BridgeStops
    BY <1>7
    DEF BridgeStops, BridgeEnds, Stopped, bridgeRest
  <1>8. CASE OpenSink
    BY <1>8, FreeThread
    DEF OpenSink, Free, JsGoto
  <1>9. CASE SinkTakes
    BY <1>9
    DEF SinkTakes, JsGoto, JsFree, threadRest
  <1>10. CASE SinkRollsBack
    BY <1>10
    DEF SinkRollsBack, Cas, JsFree, threadRest
  <1>11. CASE SinkOpens
    BY <1>11
    DEF SinkOpens, JsFree, threadRest
  <1>12. CASE SinkReads
    BY <1>12
    DEF SinkReads
  <1>13. CASE SinkEnds
    BY <1>13
    DEF SinkEnds, AtEnd
  <1>14. ASSUME NEW call \in JsCalls, Call(call)
        PROVE  Heard'
    BY <1>14, CallDoes, FreeThread
    DEF Call, Free, JsGoto
  <1>15. CASE mark_consumed
    BY <1>15, JsAdvances
    DEF mark_consumed, At, threadRest, Follows
  <1>16. CASE abort_read
    BY <1>16, JsAdvances
    DEF abort_read, At, Follows
  <1>17. CASE NotifyAbort
    BY <1>17, JsAdvances
    DEF NotifyAbort, At, threadRest, Follows
  <1>18. CASE FireStop
    BY <1>18, JsAdvances
    DEF FireStop, At, JsFree, threadRest, Follows
  <1>19. CASE EmptySlot
    BY <1>19, JsAdvances
    DEF EmptySlot, At, Follows
  <1>20. CASE DropRx
    BY <1>20, JsAdvances
    DEF DropRx, At, threadRest, Follows
  <1>21. CASE SetFinished
    BY <1>21, JsAdvances
    DEF SetFinished, At, readHalf, threadRest, Follows
  <1>22. CASE DropTx
    BY <1>22, JsAdvances
    DEF DropTx, At, readHalf, threadRest, Follows
  <1>23. CASE Control
    BY <1>23, JsAdvances
    DEF Control, At, readHalf, threadRest, EnsureTx, SendCtrl, Usable, Follows
  <1>24. CASE Finalize
    BY <1>24
    DEF Finalize, Free
  <1> QED
    BY <1>1, <1>2, <1>3, <1>4, <1>5, <1>6, <1>7, <1>8, <1>9, <1>10, <1>11, <1>12, <1>13, <1>14, <1>15,
       <1>16, <1>17, <1>18, <1>19, <1>20, <1>21, <1>22, <1>23, <1>24
    DEF PeerStep, BridgeStep, SinkStep, StopStep, BothHalves

-----------------------------------------------------------------------------
(* The byte budget: what a step takes or gives back is what the chunks in  *)
(* the hands of the reads, the channel and the bridge become.              *)

\* The chunk the bridge holds a reservation for.
Sending(b) == IF b = "send" THEN 1 ELSE 0
\* The budget is not exceeded.
Within == reserved' \in Int /\ reserved' <= MaxStream
\* Read r reserves or frees what the chunks of the read half become.
Settles(r) ==
    /\ rd' \in ReadStates
    /\ \A q \in Readers : q # r => rd'[q].held = rd[q].held
    /\ reserved' = reserved + (rd'[r].held - rd[r].held) + (chan' - chan) + Sending(bridge') - Sending(bridge)
    /\ Within

\* A step of a read pays for what it takes.
LEMMA ReadsSettle ==
    ASSUME ReadTypes, OneOwner, Hands, Budget, NEW r \in Readers, ReadStep(r)
    PROVE  Settles(r)
  <1> USE BoundsAssumption DEF gate, wakes, bridges, net, thread, ReadTypes, OneOwner, Hands, Budget,
              Settles, Within, Sending
  <1>1. ASSUME NEW batch \in Batches, ReadStart(r, batch)
        PROVE  Settles(r)
    BY <1>1, StartMoves
    DEF ReadSteps, Outcomes, Codes
  <1>2. CASE CheckLatch(r)
    BY <1>2, Goes, Returns
    DEF CheckLatch, Moved, ReadSteps, Outcomes, Codes
  <1>3. CASE begin_direct_read(r)
    BY <1>3, Goes
    DEF begin_direct_read, Cas, Moved, ReadSteps, Outcomes, Codes
  <1>4. CASE TakeSlot(r)
    BY <1>4, Goes
    DEF TakeSlot, Cas, Moved, ReadSteps, Outcomes, Codes
  <1>5. CASE CheckAborted(r)
    BY <1>5, Goes, Returns
    DEF CheckAborted, DropStream, Cas, Moved, ReadSteps, Outcomes, Codes
  <1>6. CASE EnrollDirect(r)
    BY <1>6, Goes
    DEF EnrollDirect, Moved, ReadSteps, Outcomes, Codes
  <1>7. CASE DirectChunk(r)
    BY <1>7, Goes, Returns
    DEF DirectChunk, Leave, DropStream, Cas, Moved, ReadSteps, Outcomes, Codes
  <1>8. CASE DirectEnd(r)
    BY <1>8, Returns
    DEF DirectEnd, Leave, DropStream, Cas, Verdict, AtEnd, Moved, ReadSteps, Outcomes, Codes
  <1>9. CASE DirectAborted(r)
    BY <1>9, Returns
    DEF DirectAborted, Leave, DropStream, Cas, Moved, ReadSteps, Outcomes, Codes
  <1>10. CASE Reserve(r)
    BY <1>10, ReserveMoves
    DEF DropStream, Cas, Moved, ReadSteps, Outcomes, Codes
  <1>11. CASE Recheck(r)
    BY <1>11, Goes, Returns, SMTT(40)
    DEF Recheck, DropStream, Cas, Moved, ReadSteps, Outcomes, Codes, ReadStates
  <1>12. CASE BatchLoop(r)
    <2>1. rd[r].held \in 0..BatchMax /\ UNCHANGED <<chan, bridge>>
      BY <1>12, BatchMoves DEF ReadStates
    <2>2. CASE /\ reserved + BatchMax - rd[r].held <= MaxStream /\ rd[r].held < BatchMax
               /\ reserved' = reserved + 1 /\ Moved(r, "loop", rd[r].held + 1, rd[r].out)
      BY <2>1, <2>2 DEF Moved
    <2>3. CASE UNCHANGED reserved /\ Moved(r, "park", rd[r].held, rd[r].out)
      BY <2>1, <2>3 DEF Moved
    <2> QED
      BY <1>12, <2>2, <2>3, BatchMoves
  <1>13. CASE Park(r)
    BY <1>13, Goes, Returns
    DEF Park, DropStream, Cas, Delivered, Moved, ReadSteps, Outcomes, Codes, ReadStates
  <1>14. CASE Convert(r)
    BY <1>14, Returns
    DEF Convert, Moved, ReadSteps, Outcomes, Codes, ReadStates
  <1>15. CASE FallThrough(r)
    BY <1>15, Goes, Returns
    DEF FallThrough, Moved, ReadSteps, Outcomes, Codes
  <1>16. CASE HasPending(r)
    BY <1>16, Goes
    DEF HasPending, Moved, ReadSteps, Outcomes, Codes
  <1>17. CASE PermitCheck(r)
    BY <1>17, Goes, Returns
    DEF PermitCheck, Moved, ReadSteps, Outcomes, Codes
  <1>18. CASE PermitEnroll(r)
    BY <1>18, Goes
    DEF PermitEnroll, Moved, ReadSteps, Outcomes, Codes
  <1>19. CASE GetPermit(r)
    BY <1>19, Goes, Returns
    DEF GetPermit, Leave, Moved, ReadSteps, Outcomes, Codes
  <1>20. CASE Migrate(r)
    BY <1>20, Goes
    DEF Migrate, Moved, ReadSteps, Outcomes, Codes
  <1>21. CASE SetRx(r)
    BY <1>21, Goes
    DEF SetRx, Moved, ReadSteps, Outcomes, Codes
  <1>22. CASE SetStop(r)
    BY <1>22, Goes
    DEF SetStop, Moved, ReadSteps, Outcomes, Codes
  <1>23. CASE mark_bridged(r)
    BY <1>23, Goes
    DEF mark_bridged, Moved, ReadSteps, Outcomes, Codes
  <1>24. CASE LookRx(r)
    BY <1>24, Goes, Returns
    DEF LookRx, Moved, ReadSteps, Outcomes, Codes
  <1>25. CASE LockRx(r)
    BY <1>25, Goes
    DEF LockRx, Moved, ReadSteps, Outcomes, Codes
  <1>26. CASE CheckBridge(r)
    <2>1. CASE aborted /\ LeaveRx(r, 0, 0) /\ Return(r, "E_STREAM_RESET")
      <3>1. 0 \in 0..chan /\ chan \in Nat
        OBVIOUS
      <3>2. PICK d \in 0..(chan - 0) : chan' = chan - 0 - d /\ reserved' = reserved - 0 - d
        BY <2>1, <3>1, LeavesRx
      <3> QED
        BY <1>26, <2>1, <3>2, Returns DEF CheckBridge, Moved, Outcomes, Codes
    <2>2. CASE ~aborted /\ Goto(r, "recv") /\ UNCHANGED <<lock, wakes, chan, reserved>>
      BY <1>26, <2>2, Goes DEF CheckBridge, Moved, ReadSteps
    <2> QED
      BY <1>26, <2>1, <2>2 DEF CheckBridge
  <1>27. CASE RecvData(r)
    <2>1. CASE /\ ~rd[r].batch /\ LeaveRx(r, 1, 1) /\ delivered' = delivered + 1
               /\ Moved(r, "idle", 0, "data")
      <3>1. 1 \in 0..chan /\ chan \in Nat
        BY <1>27, RecvMoves
      <3>2. PICK d \in 0..(chan - 1) : chan' = chan - 1 - d /\ reserved' = reserved - 1 - d
        BY <2>1, <3>1, LeavesRx
      <3> QED
        BY <1>27, <2>1, <3>2, RecvMoves DEF Moved
    <2>2. ASSUME NEW n \in 1..BatchMax, n <= chan, LeaveRx(r, n, 0), Moved(r, "convert", n, rd[r].out)
          PROVE  Settles(r)
      <3>1. n \in 0..chan /\ chan \in Nat
        BY <2>2
      <3>2. PICK d \in 0..(chan - n) : chan' = chan - n - d /\ reserved' = reserved - 0 - d
        BY <2>2, <3>1, LeavesRx
      <3> QED
        BY <1>27, <2>2, <3>2, RecvMoves DEF Moved
    <2> QED
      BY <1>27, <2>1, <2>2, RecvMoves
  <1>28. CASE RecvEnd(r)
    <2>1. 0 \in 0..chan /\ chan \in Nat
      OBVIOUS
    <2>2. PICK d \in 0..(chan - 0) : chan' = chan - 0 - d /\ reserved' = reserved - 0 - d
      BY <1>28, <2>1, LeavesRx DEF RecvEnd
    <2> QED
      BY <1>28, <2>2, Returns DEF RecvEnd, Moved, Outcomes, Codes
  <1>29. CASE RecvAborted(r)
    <2>1. 0 \in 0..chan /\ chan \in Nat
      OBVIOUS
    <2>2. PICK d \in 0..(chan - 0) : chan' = chan - 0 - d /\ reserved' = reserved - 0 - d
      BY <1>29, <2>1, LeavesRx DEF RecvAborted
    <2> QED
      BY <1>29, <2>2, Returns DEF RecvAborted, Moved, Outcomes, Codes
  <1> QED
    BY <1>1, <1>2, <1>3, <1>4, <1>5, <1>6, <1>7, <1>8, <1>9, <1>10, <1>11, <1>12, <1>13, <1>14, <1>15,
       <1>16, <1>17, <1>18, <1>19, <1>20, <1>21, <1>22, <1>23, <1>24, <1>25, <1>26, <1>27, <1>28, <1>29
    DEF ReadStep, DirectStep, BridgeLaneStep

\* So does every other step of the read half.
LEMMA OthersSettle ==
    ASSUME ReadTypes, Budget, PeerStep \/ BridgeStep \/ SinkStep \/ StopStep \/ BothHalves
    PROVE  /\ rd' = rd /\ reserved' = reserved + (chan' - chan) + Sending(bridge') - Sending(bridge)
           /\ Within
  <1> USE BoundsAssumption DEF gate, bridges, net, thread, readHalf, bridgeRest, threadRest, ReadTypes,
              Budget, Sending, Within
  <1>1. ASSUME NEW oversized \in BOOLEAN, PeerSends(oversized)
        PROVE  /\ rd' = rd /\ reserved' = reserved + (chan' - chan) + Sending(bridge') - Sending(bridge)
           /\ Within
    BY <1>1
    DEF PeerSends
  <1>2. ASSUME NEW how \in {"fin", "reset", "lost"}, PeerEnds(how)
        PROVE  /\ rd' = rd /\ reserved' = reserved + (chan' - chan) + Sending(bridge') - Sending(bridge)
           /\ Within
    BY <1>2
    DEF PeerEnds
  <1>3. CASE OthersBridge
    BY <1>3
    DEF OthersBridge
  <1>4. CASE BridgeReads
    BY <1>4
    DEF BridgeReads, BridgeEnds, AtEnd, Verdict, bridgeRest
  <1>5. CASE BridgeReserves
    BY <1>5
    DEF BridgeReserves, BridgeEnds, bridgeRest
  <1>6. CASE BridgeSends
    BY <1>6
    DEF BridgeSends, BridgeEnds, ReceiverGone, bridgeRest
  <1>7. CASE BridgeStops
    BY <1>7
    DEF BridgeStops, BridgeEnds, Stopped, bridgeRest
  <1>8. CASE OpenSink
    BY <1>8
    DEF OpenSink, Free, JsGoto
  <1>9. CASE SinkTakes
    BY <1>9
    DEF SinkTakes, JsGoto, JsFree, threadRest
  <1>10. CASE SinkRollsBack
    BY <1>10
    DEF SinkRollsBack, Cas, JsFree, threadRest
  <1>11. CASE SinkOpens
    BY <1>11
    DEF SinkOpens, JsFree, threadRest
  <1>12. CASE SinkReads
    BY <1>12
    DEF SinkReads
  <1>13. CASE SinkEnds
    BY <1>13
    DEF SinkEnds, AtEnd
  <1>14. ASSUME NEW call \in JsCalls, Call(call)
        PROVE  /\ rd' = rd /\ reserved' = reserved + (chan' - chan) + Sending(bridge') - Sending(bridge)
           /\ Within
    BY <1>14
    DEF Call, Free, JsGoto
  <1>15. CASE mark_consumed
    BY <1>15
    DEF mark_consumed, At, threadRest
  <1>16. CASE abort_read
    BY <1>16
    DEF abort_read, At
  <1>17. CASE NotifyAbort
    BY <1>17
    DEF NotifyAbort, At, threadRest
  <1>18. CASE FireStop
    BY <1>18
    DEF FireStop, At, JsFree, threadRest
  <1>19. CASE EmptySlot
    BY <1>19
    DEF EmptySlot, At
  <1>20. CASE DropRx
    BY <1>20
    DEF DropRx, At, threadRest
  <1>21. CASE SetFinished
    BY <1>21
    DEF SetFinished, At, readHalf, threadRest
  <1>22. CASE DropTx
    BY <1>22
    DEF DropTx, At, readHalf, threadRest
  <1>23. CASE Control
    BY <1>23
    DEF Control, At, readHalf, threadRest, EnsureTx, SendCtrl, Usable
  <1>24. CASE Finalize
    BY <1>24
    DEF Finalize, Free
  <1> QED
    BY <1>1, <1>2, <1>3, <1>4, <1>5, <1>6, <1>7, <1>8, <1>9, <1>10, <1>11, <1>12, <1>13, <1>14, <1>15,
       <1>16, <1>17, <1>18, <1>19, <1>20, <1>21, <1>22, <1>23, <1>24
    DEF PeerStep, BridgeStep, SinkStep, StopStep, BothHalves

-----------------------------------------------------------------------------
(* The write half.                                                         *)

\* Only finish and reset send a command.
LEMMA CtrlCall ==
    ASSUME ReadTypes, Chained, At("ctrl")
    PROVE  js[1] \in {"finish", "reset"}
  <1>1. js[1] \in JsCalls /\ js[1] \in CallsOf
    BY DEF At, JsCalls, Chained, InChain
  <1>2. PICK i \in 1..Len(Chain(js[1])) : "ctrl" = Chain(js[1])[i]
    BY <1>1 DEF At, Chained, InChain
  <1>3. js[1] # "stop"
    BY <1>2 DEF Chain
  <1>4. js[1] # "dispose"
    BY <1>1, <1>2 DEF Chain, CallsOf, ReadTypes
  <1> QED
    BY <1>1, <1>3, <1>4 DEF JsCalls

\* What the command step does to the write half.
LEMMA ControlDoes ==
    ASSUME ReadTypes, Chained, WriteTypes, Control
    PROVE  \E c \in {"finish", "reset"} :
              /\ cmds' \in {cmds, Append(cmds, c)} /\ queue' \in {queue, Append(queue, c)}
              /\ \/ UNCHANGED <<tx, wb>>
                 \/ tx = "none" /\ tx' = "some" /\ wb' = "recv"
              /\ lazy' \in BOOLEAN /\ wireEnd' \in {wireEnd, "reset"}
              /\ UNCHANGED <<reserved, finished, werr, wr, fw, acked, owed, sent>>
  <1>1. js[1] \in {"finish", "reset"}
    BY CtrlCall DEF Control
  <1>2. cmds' \in {cmds, Append(cmds, js[1])} /\ queue' \in {queue, Append(queue, js[1])}
    BY DEF Control, SendCtrl
  <1>3. UNCHANGED <<tx, wb>> \/ (tx = "none" /\ tx' = "some" /\ wb' = "recv")
    BY DEF Control, EnsureTx, Usable, WriteTypes
  <1>4. lazy' \in BOOLEAN
    BY DEF Control, EnsureTx, WriteTypes
  <1>5. wireEnd' \in {wireEnd, "reset"} /\ UNCHANGED <<reserved, finished, werr, wr, fw, acked, owed, sent>>
    BY DEF Control
  <1> QED
    BY <1>1, <1>2, <1>3, <1>4, <1>5

\* A write call keeps the types of the write half.
LEMMA WriteTypesCalls ==
    ASSUME WriteTypes, NEW w \in Writers, WriteStart(w) \/ WriteStep(w)
    PROVE  WriteTypes'
  <1> USE NamesAssumption DEF WriteTypes, WriteStates, Codes, Commands
  <1>1. CASE WriteStart(w)
    BY <1>1
    DEF WriteStart, WriteGoto
  <1>2. CASE WriteTx(w)
    BY <1>2
    DEF WriteTx, WriteGoto, EnsureTx, Usable
  <1>3. CASE WriteReserve(w)
    BY <1>3
    DEF WriteReserve, WriteGoto
  <1>4. CASE WriteRecheck(w)
    BY <1>4
    DEF WriteRecheck, WriteGoto
  <1>5. CASE WriteQueues(w)
    BY <1>5
    DEF WriteQueues, WriteGoto
  <1> QED
    BY <1>1, <1>2, <1>3, <1>4, <1>5
    DEF WriteStep

\* So do finishWait, the channel and the write bridge.
LEMMA WriteTypesBridge ==
    ASSUME WriteTypes, FinishWaitStart \/ FinishWaitStep \/ Admit \/ Refuse \/ WbStep
    PROVE  WriteTypes'
  <1> USE NamesAssumption DEF WriteTypes, WriteStates, Codes, Commands
  <1>1. CASE FinishWaitStart
    BY <1>1
    DEF FinishWaitStart
  <1>2. CASE FinishWaitTx
    BY <1>2
    DEF FinishWaitTx, EnsureTx, Usable
  <1>3. CASE FinishWaitQueues
    BY <1>3
    DEF FinishWaitQueues
  <1>4. CASE Admit
    BY <1>4
    DEF Admit
  <1>5. CASE Refuse
    BY <1>5
    DEF Refuse
  <1>6. CASE WbTakes
    BY <1>6
    DEF WbTakes
  <1>7. CASE WbWrites
    BY <1>7
    DEF WbWrites
  <1>8. CASE WbFails("E_STOP_SENDING")
    BY <1>8
    DEF WbFails, BridgeDown
  <1>9. CASE \E ok \in BOOLEAN : WbControl(ok)
    BY <1>9
    DEF WbControl, BridgeDown
  <1>10. CASE WbClosed
    BY <1>10
    DEF WbClosed
  <1> QED
    BY <1>1, <1>2, <1>3, <1>4, <1>5, <1>6, <1>7, <1>8, <1>9, <1>10
    DEF FinishWaitStep, WbStep

\* So do the synchronous calls and the finalizer.
LEMMA WriteTypesBoth ==
    ASSUME WriteTypes, ReadTypes, Chained, BothHalves
    PROVE  WriteTypes'
  <1> USE NamesAssumption DEF WriteTypes, WriteStates, Codes, Commands
  <1>1. CASE SetFinished
    BY <1>1
    DEF SetFinished, At, readHalf, threadRest
  <1>2. CASE DropTx
    BY <1>2
    DEF DropTx, At, readHalf, threadRest
  <1>3. CASE Control
    <2>1. PICK c \in {"finish", "reset"} :
            /\ cmds' \in {cmds, Append(cmds, c)} /\ queue' \in {queue, Append(queue, c)}
            /\ \/ UNCHANGED <<tx, wb>>
               \/ tx = "none" /\ tx' = "some" /\ wb' = "recv"
            /\ lazy' \in BOOLEAN /\ wireEnd' \in {wireEnd, "reset"}
            /\ UNCHANGED <<reserved, finished, werr, wr, fw, acked, owed, sent>>
      BY <1>3, ControlDoes, Zenon
    <2>2. cmds' \in Seq(Commands) /\ queue' \in Seq(Commands)
      <3>1. c \in Commands
        OBVIOUS
      <3>2. Append(cmds, c) \in Seq(Commands) /\ Append(queue, c) \in Seq(Commands)
        BY <3>1
      <3> QED
        BY <2>1, <3>2
    <2>3. tx' \in {"none", "some", "gone"} /\ wb' \in {"none", "recv", "done"} \cup Writers
      BY <2>1
    <2> QED
      BY <2>1, <2>2, <2>3
  <1>4. CASE Finalize
    BY <1>4
    DEF Finalize, Free
  <1> QED
    BY <1>1, <1>2, <1>3, <1>4
    DEF BothHalves

\* A write call has its chunk in one place.
LEMMA PlacesCalls ==
    ASSUME WriteTypes, Places, NEW w \in Writers, WriteStart(w) \/ WriteStep(w)
    PROVE  Places'
  <1> USE NamesAssumption DEF WriteTypes, Places, Commands
  <1>1. CASE WriteStart(w)
    BY <1>1
    DEF WriteStart, WriteGoto
  <1>2. CASE WriteTx(w)
    BY <1>2
    DEF WriteTx, WriteGoto, EnsureTx, Usable
  <1>3. CASE WriteReserve(w)
    BY <1>3
    DEF WriteReserve, WriteGoto
  <1>4. CASE WriteRecheck(w)
    BY <1>4
    DEF WriteRecheck, WriteGoto
  <1>5. CASE WriteQueues(w)
    BY <1>5
    DEF WriteQueues, WriteGoto
  <1> QED
    BY <1>1, <1>2, <1>3, <1>4, <1>5
    DEF WriteStep

\* The channel and the write bridge move it, and keep one.
LEMMA PlacesBridge ==
    ASSUME WriteTypes, Places, FinishWaitStart \/ FinishWaitStep \/ Admit \/ Refuse \/ WbStep
    PROVE  Places'
  <1> USE NamesAssumption DEF WriteTypes, Places, Commands
  <1>1. CASE FinishWaitStart
    BY <1>1
    DEF FinishWaitStart
  <1>2. CASE FinishWaitTx
    BY <1>2
    DEF FinishWaitTx, EnsureTx, Usable
  <1>3. CASE FinishWaitQueues
    BY <1>3
    DEF FinishWaitQueues
  <1>4. CASE Admit
    BY <1>4
    DEF Admit
  <1>5. CASE Refuse
    BY <1>5
    DEF Refuse
  <1>6. CASE WbTakes
    BY <1>6
    DEF WbTakes
  <1>7. CASE WbWrites
    BY <1>7
    DEF WbWrites
  <1>8. CASE WbFails("E_STOP_SENDING")
    BY <1>8
    DEF WbFails, BridgeDown
  <1>9. CASE \E ok \in BOOLEAN : WbControl(ok)
    BY <1>9
    DEF WbControl, BridgeDown
  <1>10. CASE WbClosed
    BY <1>10
    DEF WbClosed
  <1> QED
    BY <1>1, <1>2, <1>3, <1>4, <1>5, <1>6, <1>7, <1>8, <1>9, <1>10
    DEF FinishWaitStep, WbStep

\* The synchronous calls and the finalizer leave it there.
LEMMA PlacesBoth ==
    ASSUME WriteTypes, Places, ReadTypes, Chained, BothHalves
    PROVE  Places'
  <1> USE NamesAssumption DEF WriteTypes, Places, Commands
  <1>1. CASE SetFinished
    BY <1>1
    DEF SetFinished, At, readHalf, threadRest
  <1>2. CASE DropTx
    BY <1>2
    DEF DropTx, At, readHalf, threadRest
  <1>3. CASE Control
    <2>1. PICK c \in {"finish", "reset"} :
            /\ cmds' \in {cmds, Append(cmds, c)} /\ queue' \in {queue, Append(queue, c)}
            /\ \/ UNCHANGED <<tx, wb>>
               \/ tx = "none" /\ tx' = "some" /\ wb' = "recv"
            /\ lazy' \in BOOLEAN /\ wireEnd' \in {wireEnd, "reset"}
            /\ UNCHANGED <<reserved, finished, werr, wr, fw, acked, owed, sent>>
      BY <1>3, ControlDoes, Zenon
    <2>2. c \notin Writers
      BY NamesAssumption
    <2>3. /\ \A i \in 1..Len(queue') : queue'[i] \in Writers => i \in 1..Len(queue) /\ queue'[i] = queue[i]
          /\ \A i \in 1..Len(cmds') : cmds'[i] \in Writers => i \in 1..Len(cmds) /\ cmds'[i] = cmds[i]
      BY <2>1, <2>2, SMTT(40)
    <2>4. (wb' \in Writers => wb' = wb) /\ (tx' = "none" => tx = "none" /\ wb' = wb)
      BY <2>1, NamesAssumption
    <2> QED
      BY <2>1, <2>3, <2>4, SMTT(40)
  <1>4. CASE Finalize
    BY <1>4
    DEF Finalize, Free
  <1> QED
    BY <1>1, <1>2, <1>3, <1>4
    DEF BothHalves

\* A write call does not overtake a finish.
LEMMA FinishOrderCalls ==
    ASSUME WriteTypes, Places, FinishOrder, NEW w \in Writers, WriteStart(w) \/ WriteStep(w)
    PROVE  FinishOrder'
  <1> USE NamesAssumption DEF WriteTypes, Places, FinishOrder, Below, FinishAckMeansWritten, Commands
  <1>1. CASE WriteStart(w)
    BY <1>1
    DEF WriteStart, WriteGoto
  <1>2. CASE WriteTx(w)
    BY <1>2
    DEF WriteTx, WriteGoto, EnsureTx, Usable
  <1>3. CASE WriteReserve(w)
    BY <1>3
    DEF WriteReserve, WriteGoto
  <1>4. CASE WriteRecheck(w)
    BY <1>4
    DEF WriteRecheck, WriteGoto
  <1>5. CASE WriteQueues(w)
    BY <1>5
    DEF WriteQueues, WriteGoto
  <1> QED
    BY <1>1, <1>2, <1>3, <1>4, <1>5
    DEF WriteStep

\* The channel and the write bridge keep the order of the commands.
LEMMA FinishOrderBridge ==
    ASSUME WriteTypes, Places, FinishOrder, FinishWaitStart \/ FinishWaitStep \/ Admit \/ Refuse \/ WbStep
    PROVE  FinishOrder'
  <1> USE NamesAssumption DEF WriteTypes, Places, FinishOrder, Below, FinishAckMeansWritten, Commands
  <1>1. CASE FinishWaitStart
    BY <1>1
    DEF FinishWaitStart
  <1>2. CASE FinishWaitTx
    BY <1>2
    DEF FinishWaitTx, EnsureTx, Usable
  <1>3. CASE FinishWaitQueues
    BY <1>3
    DEF FinishWaitQueues
  <1>4. CASE Admit
    BY <1>4
    DEF Admit
  <1>5. CASE Refuse
    BY <1>5
    DEF Refuse
  <1>6. CASE WbTakes
    <2>1. /\ Len(cmds) \in Nat \ {0} /\ Len(cmds') = Len(cmds) - 1 /\ wb' = cmds[1] /\ wb = "recv"
          /\ \A i \in 1..Len(cmds') : cmds'[i] = cmds[i + 1]
          /\ UNCHANGED <<queue, fw, acked, owed, sent>>
      BY <1>6 DEF WbTakes
    <2>2. ASSUME NEW x \in Writers, NEW p \in 1..Len(cmds') + 1, x \in sent \cup {wb} \cup Below(cmds, p + 1)
          PROVE  x \in sent' \cup {wb'} \cup Below(cmds', p)
      <3>1. CASE x \in sent
        BY <2>1, <3>1
      <3>2. CASE x \in Below(cmds, p + 1)
        <4>1. PICK i \in 1..p : x = cmds[i]
          BY <2>1, <3>2
        <4>2. CASE i = 1
          BY <2>1, <4>1, <4>2
        <4>3. CASE i # 1
          <5>1. i - 1 \in 1..p - 1 /\ i - 1 \in 1..Len(cmds') /\ (i - 1) + 1 = i
            BY <2>1, <4>1, <4>3
          <5>2. x = cmds'[i - 1]
            BY <2>1, <4>1, <5>1
          <5> QED
            BY <5>1, <5>2
        <4> QED
          BY <4>2, <4>3
      <3> QED
        BY <2>1, <2>2, <3>1, <3>2, NamesAssumption
    <2>3. acked' \subseteq sent' \cup {wb'} \cup Below(cmds', Len(cmds') + 1)
      <3>1. acked \subseteq sent \cup {wb} \cup Below(cmds, Len(cmds') + 1 + 1)
        <4>1. Len(cmds') + 1 + 1 = Len(cmds) + 1
          BY <2>1
        <4> HIDE DEF Below
        <4> QED
          BY <2>1, <4>1
      <3>2. Len(cmds') + 1 \in 1..Len(cmds') + 1
        BY <2>1
      <3> HIDE DEF Below
      <3> QED
        BY <2>1, <2>2, <3>1, <3>2
    <2>4. ASSUME NEW p \in 1..Len(cmds'), cmds'[p] = "finishWait"
          PROVE  owed' \subseteq sent' \cup {wb'} \cup Below(cmds', p)
      <3>1. p + 1 \in 1..Len(cmds) /\ cmds[p + 1] = "finishWait" /\ p \in 1..Len(cmds') + 1
        BY <2>1, <2>4
      <3> HIDE DEF Below
      <3> QED
        BY <2>1, <2>2, <3>1
    <2>5. fw' \in {"new", "tx", "queue"} => \A i \in 1..Len(cmds') : cmds'[i] # "finishWait"
      BY <2>1
    <2> QED
      BY <2>1, <2>3, <2>4, <2>5
  <1>7. CASE WbWrites
    BY <1>7
    DEF WbWrites
  <1>8. CASE WbFails("E_STOP_SENDING")
    BY <1>8
    DEF WbFails, BridgeDown
  <1>9. CASE \E ok \in BOOLEAN : WbControl(ok)
    BY <1>9
    DEF WbControl, BridgeDown
  <1>10. CASE WbClosed
    BY <1>10
    DEF WbClosed
  <1> QED
    BY <1>1, <1>2, <1>3, <1>4, <1>5, <1>6, <1>7, <1>8, <1>9, <1>10
    DEF FinishWaitStep, WbStep

\* So do the synchronous calls and the finalizer.
LEMMA FinishOrderBoth ==
    ASSUME WriteTypes, Places, FinishOrder, ReadTypes, Chained, BothHalves
    PROVE  FinishOrder'
  <1> USE NamesAssumption DEF WriteTypes, Places, FinishOrder, Below, FinishAckMeansWritten, Commands
  <1>1. CASE SetFinished
    BY <1>1
    DEF SetFinished, At, readHalf, threadRest
  <1>2. CASE DropTx
    BY <1>2
    DEF DropTx, At, readHalf, threadRest
  <1>3. CASE Control
    <2>1. PICK c \in {"finish", "reset"} :
            /\ cmds' \in {cmds, Append(cmds, c)} /\ queue' \in {queue, Append(queue, c)}
            /\ \/ UNCHANGED <<tx, wb>>
               \/ tx = "none" /\ tx' = "some" /\ wb' = "recv"
            /\ lazy' \in BOOLEAN /\ wireEnd' \in {wireEnd, "reset"}
            /\ UNCHANGED <<reserved, finished, werr, wr, fw, acked, owed, sent>>
      BY <1>3, ControlDoes, Zenon
    <2>2. c \notin Writers /\ c # "finishWait"
      BY NamesAssumption
    <2>3. /\ Len(cmds') \in Nat /\ Len(cmds') >= Len(cmds) /\ \A i \in 1..Len(cmds) : cmds'[i] = cmds[i]
          /\ \A i \in 1..Len(cmds') : i \notin 1..Len(cmds) => cmds'[i] = c
      BY <2>1, SMTT(40)
    <2>10. \A i \in 1..Len(queue') : (i \in 1..Len(queue) /\ queue'[i] = queue[i]) \/ queue'[i] = c
      BY <2>1
    <2>4. wb' = wb \/ (wb = "none" /\ wb' = "recv")
      BY <2>1
    <2>5. wb' # "done" => wb # "done"
      BY <2>4
    <2>6. ASSUME NEW x \in Writers, NEW p \in 1..Len(cmds) + 1, x \in sent \cup {wb} \cup Below(cmds, p)
          PROVE  x \in sent' \cup {wb'} \cup Below(cmds', p)
      <3>1. CASE x \in sent
        BY <2>1, <3>1
      <3>2. CASE x = wb
        BY <2>4, <3>2, NamesAssumption
      <3>3. CASE x \in Below(cmds, p)
        <4>1. PICK i \in 1..p - 1 : x = cmds[i]
          BY <3>3
        <4>2. i \in 1..Len(cmds)
          OBVIOUS
        <4>3. x = cmds'[i]
          BY <2>3, <4>1, <4>2
        <4> QED
          BY <4>3
      <3> QED
        BY <2>6, <3>1, <3>2, <3>3
    <2>7. wb' # "done" => acked' \subseteq sent' \cup {wb'} \cup Below(cmds', Len(cmds) + 1)
      <3> HIDE DEF Below
      <3> QED
        BY <2>1, <2>5, <2>6
    <2>8. Below(cmds', Len(cmds) + 1) \subseteq Below(cmds', Len(cmds') + 1)
      BY <2>1
    <2>9. ASSUME NEW p \in 1..Len(cmds'), cmds'[p] = "finishWait"
          PROVE  owed' \subseteq sent' \cup {wb'} \cup Below(cmds', p)
      <3>1. p \in 1..Len(cmds) /\ cmds[p] = "finishWait"
        BY <2>2, <2>3, <2>9
      <3> HIDE DEF Below
      <3> QED
        BY <2>1, <2>6, <3>1
    <2> QED
      BY <2>1, <2>2, <2>3, <2>7, <2>8, <2>9, <2>10
  <1>4. CASE Finalize
    BY <1>4
    DEF Finalize, Free
  <1> QED
    BY <1>1, <1>2, <1>3, <1>4
    DEF BothHalves

-----------------------------------------------------------------------------
(* The byte budget and the writes.                                         *)

\* A step of the write half reserves or frees what its chunks become.
Balanced ==
    /\ reserved' = reserved + (InWrites(wr', wb') - InWrites(wr, wb)) + (DataIn(cmds') - DataIn(cmds))
    /\ Within

\* The write moves, and the channel keeps its commands.
LEMMA PlaceMoves ==
    ASSUME WriteTypes, Budget, cmds' = cmds,
           \/ WritePlaces(wr', wb') = WritePlaces(wr, wb) /\ reserved' = reserved
           \/ \E w \in Writers : /\ w \notin WritePlaces(wr, wb) /\ WritePlaces(wr', wb') = WritePlaces(wr, wb) \cup {w}
                                 /\ reserved < MaxStream /\ reserved' = reserved + 1
           \/ \E w \in Writers : /\ w \in WritePlaces(wr, wb) /\ WritePlaces(wr', wb') = WritePlaces(wr, wb) \ {w}
                                 /\ reserved' = reserved - 1
    PROVE  Balanced
  <1> DEFINE I == InWrites(wr, wb)
             J == InWrites(wr', wb')
             D == DataIn(cmds)
  <1>1. I \in Nat /\ J \in Nat /\ D \in Nat /\ DataIn(cmds') = D
    BY WritesNat, DataFinite DEF WriteTypes
  <1>2. CASE WritePlaces(wr', wb') = WritePlaces(wr, wb) /\ reserved' = reserved
    <2>1. J = I
      BY <1>2, SameWrites
    <2> HIDE DEF I, J, D
    <2>2. reserved' = reserved + (J - I) + (DataIn(cmds') - D) /\ Within
      BY <1>1, <1>2, <2>1 DEF Budget, Within
    <2> QED
      BY <2>2 DEF Balanced, I, J, D
  <1>3. ASSUME NEW w \in Writers, w \notin WritePlaces(wr, wb), WritePlaces(wr', wb') = WritePlaces(wr, wb) \cup {w},
               reserved < MaxStream, reserved' = reserved + 1
        PROVE  Balanced
    <2>1. J = I + 1
      BY <1>3, OneMoreWrite
    <2> HIDE DEF I, J, D
    <2>2. reserved' = reserved + (J - I) + (DataIn(cmds') - D) /\ Within
      BY <1>1, <1>3, <2>1, BoundsAssumption DEF Budget, Within
    <2> QED
      BY <2>2 DEF Balanced, I, J, D
  <1>4. ASSUME NEW w \in Writers, w \in WritePlaces(wr, wb), WritePlaces(wr', wb') = WritePlaces(wr, wb) \ {w},
               reserved' = reserved - 1
        PROVE  Balanced
    <2>1. J = I - 1
      BY <1>4, OneWriteLess
    <2> HIDE DEF I, J, D
    <2>2. reserved' = reserved + (J - I) + (DataIn(cmds') - D) /\ Within
      BY <1>1, <1>4, <2>1, BoundsAssumption DEF Budget, Within
    <2> QED
      BY <2>2 DEF Balanced, I, J, D
  <1> QED
    BY <1>2, <1>3, <1>4

\* A write call pays for its chunk.
LEMMA CallsBalance ==
    ASSUME WriteTypes, Places, Budget, NEW w \in Writers, WriteStart(w) \/ WriteStep(w)
    PROVE  Balanced
  <1> USE NamesAssumption DEF WriteTypes, WriteGoto
  <1>1. CASE WriteStart(w)
    <2>1. WritePlaces(wr', wb') = WritePlaces(wr, wb)
      BY <1>1 DEF WriteStart, WritePlaces
    <2> QED
      BY <1>1, <2>1, PlaceMoves DEF WriteStart
  <1>2. CASE WriteTx(w)
    <2>1. WritePlaces(wr', wb') = WritePlaces(wr, wb)
      BY <1>2 DEF WriteTx, WritePlaces, EnsureTx, Places
    <2> QED
      BY <1>2, <2>1, PlaceMoves DEF WriteTx
  <1>3. CASE WriteReserve(w)
    <2>1. w \notin WritePlaces(wr, wb)
      BY <1>3 DEF WriteReserve, WritePlaces, Places
    <2>2. CASE reserved < MaxStream /\ reserved' = reserved + 1 /\ WriteGoto(w, "recheck")
      <3>1. WritePlaces(wr', wb') = WritePlaces(wr, wb) \cup {w}
        BY <1>3, <2>2 DEF WriteReserve, WritePlaces
      <3> QED
        BY <1>3, <2>1, <2>2, <3>1, PlaceMoves DEF WriteReserve
    <2>3. CASE WriteGoto(w, "E_BACKPRESSURE_TIMEOUT") /\ UNCHANGED reserved
      <3>1. WritePlaces(wr', wb') = WritePlaces(wr, wb)
        BY <1>3, <2>3 DEF WriteReserve, WritePlaces
      <3> QED
        BY <1>3, <2>3, <3>1, PlaceMoves DEF WriteReserve
    <2> QED
      BY <1>3, <2>2, <2>3 DEF WriteReserve
  <1>4. CASE WriteRecheck(w)
    <2>1. w \in WritePlaces(wr, wb) /\ wb # w
      BY <1>4 DEF WriteRecheck, WritePlaces, Places
    <2>2. CASE finished /\ WriteGoto(w, "E_STREAM_RESET") /\ reserved' = reserved - 1
      <3>1. WritePlaces(wr', wb') = WritePlaces(wr, wb) \ {w}
        BY <1>4, <2>1, <2>2 DEF WriteRecheck, WritePlaces
      <3> QED
        BY <1>4, <2>1, <2>2, <3>1, PlaceMoves DEF WriteRecheck
    <2>3. CASE ~finished /\ WriteGoto(w, "queue") /\ UNCHANGED reserved
      <3>1. WritePlaces(wr', wb') = WritePlaces(wr, wb)
        BY <1>4, <2>3 DEF WriteRecheck, WritePlaces
      <3> QED
        BY <1>4, <2>3, <3>1, PlaceMoves DEF WriteRecheck
    <2> QED
      BY <1>4, <2>2, <2>3 DEF WriteRecheck
  <1>5. CASE WriteQueues(w)
    <2>1. WritePlaces(wr', wb') = WritePlaces(wr, wb)
      BY <1>5 DEF WriteQueues, WritePlaces
    <2> QED
      BY <1>5, <2>1, PlaceMoves DEF WriteQueues
  <1> QED
    BY <1>1, <1>2, <1>3, <1>4, <1>5 DEF WriteStep

\* A chunk moves between the write, the channel and the bridge: what the one
\* place gains the other loses.
LEMMA MovesBalance ==
    ASSUME WriteTypes, Places, Budget, Admit \/ WbTakes
    PROVE  Balanced
  <1> DEFINE I == InWrites(wr, wb)
             J == InWrites(wr', wb')
             D == DataIn(cmds)
             E == DataIn(cmds')
  <1> USE NamesAssumption
  <1>1. I \in Nat /\ J \in Nat /\ D \in Nat
    BY WritesNat, DataFinite DEF WriteTypes
  <1>2. J - I + (E - D) = 0 /\ E \in Nat /\ reserved' = reserved
    <2>1. CASE Admit
      <3> DEFINE c == Head(queue)
      <3>1. c \in Commands /\ c = queue[1] /\ 1 \in 1..Len(queue)
        BY <2>1 DEF Admit, WriteTypes
      <3>2. cmds' = Append(cmds, c) /\ cmds' \in Seq(Commands)
        BY <2>1, <3>1 DEF Admit, WriteTypes
      <3>3. E = D + (IF c \in Writers THEN 1 ELSE 0) /\ E \in Nat
        BY <3>1, <3>2, DataAppended, DataFinite DEF WriteTypes
      <3>4. CASE c \in Writers
        <4>1. wr[c] = "queued" /\ wb # c
          BY <3>1, <3>4 DEF Places
        <4>2. c \in WritePlaces(wr, wb) /\ WritePlaces(wr', wb') = WritePlaces(wr, wb) \ {c}
          BY <2>1, <3>4, <4>1 DEF Admit, WritePlaces
        <4>3. J = I - 1
          BY <3>4, <4>2, OneWriteLess
        <4> HIDE DEF I, J, D, E
        <4> QED
          BY <1>1, <2>1, <3>3, <3>4, <4>3 DEF Admit
      <3>5. CASE c \notin Writers
        <4>1. WritePlaces(wr', wb') = WritePlaces(wr, wb)
          BY <2>1, <3>5 DEF Admit, WritePlaces
        <4>2. J = I
          BY <4>1, SameWrites
        <4> HIDE DEF I, J, D, E
        <4> QED
          BY <1>1, <2>1, <3>3, <3>5, <4>2 DEF Admit
      <3> QED
        BY <3>4, <3>5
    <2>2. CASE WbTakes
      <3> DEFINE c == Head(cmds)
      <3>1. c \in Writers /\ c = cmds[1] /\ 1 \in 1..Len(cmds) /\ wb = "recv" /\ wb' = c /\ wr' = wr
        BY <2>2 DEF WbTakes, WriteTypes
      <3>2. cmds # <<>> /\ cmds' = Tail(cmds) /\ cmds' \in Seq(Commands)
        BY <2>2 DEF WbTakes, WriteTypes
      <3>3. D = E + 1 /\ E \in Nat
        BY <3>1, <3>2, DataTaken, DataFinite DEF WriteTypes
      <3>4. wr[c] = "ok"
        BY <3>1 DEF Places
      <3>5. c \notin WritePlaces(wr, wb) /\ WritePlaces(wr', wb') = WritePlaces(wr, wb) \cup {c}
        BY <3>1, <3>4 DEF WritePlaces
      <3>6. J = I + 1
        BY <3>1, <3>5, OneMoreWrite
      <3> HIDE DEF I, J, D, E
      <3> QED
        BY <1>1, <2>2, <3>3, <3>6 DEF WbTakes
    <2> QED
      BY <2>1, <2>2
  <1> HIDE DEF I, J, D, E
  <1>3. reserved' = reserved + (J - I) + (E - D) /\ Within
    BY <1>1, <1>2 DEF Budget, Within
  <1> QED
    BY <1>3 DEF Balanced, I, J, D, E

\* The write bridge ends, and the commands left go with it.
LEMMA DownBalances ==
    ASSUME WriteTypes, Places, Budget, \E ok \in BOOLEAN : WbControl(ok) \/ WbFails("E_STOP_SENDING")
    PROVE  Balanced
  <1> DEFINE I == InWrites(wr, wb)
             J == InWrites(wr', wb')
             D == DataIn(cmds)
             E == DataIn(cmds')
  <1> USE NamesAssumption
  <1>1. I \in Nat /\ J \in Nat /\ D \in Nat
    BY WritesNat, DataFinite DEF WriteTypes
  <1>2. E = 0 /\ wb' = "done" /\ wr' = wr
    BY NoData DEF WbControl, WbFails, BridgeDown
  <1>3. reserved' = reserved - D + (J - I)
    <2>1. CASE WbFails("E_STOP_SENDING")
      <3>1. wb \in Writers /\ wr[wb] = "ok"
        BY <2>1 DEF WbFails, Places
      <3>2. wb \in WritePlaces(wr, wb) /\ WritePlaces(wr', wb') = WritePlaces(wr, wb) \ {wb}
        BY <1>2, <3>1 DEF WritePlaces
      <3>3. J = I - 1
        BY <3>1, <3>2, OneWriteLess
      <3>4. reserved' = reserved - D - 1
        BY <2>1 DEF WbFails, BridgeDown
      <3> HIDE DEF I, J, D, E
      <3> QED
        BY <1>1, <3>3, <3>4 DEF Budget
    <2>2. CASE \E ok \in BOOLEAN : WbControl(ok)
      <3>1. wb = "recv" /\ cmds # <<>> /\ Head(cmds) \notin Writers
        BY <2>2 DEF WbControl
      <3>2. WritePlaces(wr', wb') = WritePlaces(wr, wb)
        BY <1>2, <3>1 DEF WritePlaces
      <3>3. J = I
        BY <3>2, SameWrites
      <3>4. D = DataIn(Tail(cmds)) + 0
        BY <3>1, DataTaken DEF WriteTypes
      <3>5. reserved' = reserved - DataIn(Tail(cmds)) - 0 /\ Tail(cmds) \in Seq(Commands)
        BY <2>2, <3>1 DEF WbControl, BridgeDown, WriteTypes
      <3>6. DataIn(Tail(cmds)) \in Nat
        BY <3>5, DataFinite
      <3> HIDE DEF I, J, D, E
      <3> QED
        BY <1>1, <3>3, <3>4, <3>5, <3>6 DEF Budget
    <2> QED
      BY <2>1, <2>2
  <1>4. J <= I
    <2>1. WritePlaces(wr', wb') \subseteq WritePlaces(wr, wb)
      BY <1>2 DEF WritePlaces
    <2>2. IsFiniteSet(WritePlaces(wr, wb))
      BY WritesFinite DEF WritePlaces
    <2>3. Cardinality(WritePlaces(wr', wb')) <= Cardinality(WritePlaces(wr, wb))
      BY <2>1, <2>2, FS_Subset
    <2> QED
      BY <2>3 DEF InWrites, WritePlaces
  <1> HIDE DEF I, J, D, E
  <1>5. reserved' = reserved + (J - I) + (E - D) /\ Within
    BY <1>1, <1>2, <1>3, <1>4, BoundsAssumption DEF Budget, Within
  <1> QED
    BY <1>5 DEF Balanced, I, J, D, E

\* Every step of the write half is balanced.
LEMMA WritesBalance ==
    ASSUME WriteTypes, Places, Budget, WriteSide
    PROVE  Balanced
  <1> USE NamesAssumption
  <1>1. CASE \E w \in Writers : WriteStart(w) \/ WriteStep(w)
    BY <1>1, CallsBalance
  <1>2. CASE FinishWaitStart \/ FinishWaitStep \/ WbClosed
    <2>1. WritePlaces(wr', wb') = WritePlaces(wr, wb) /\ UNCHANGED <<cmds, reserved>>
      BY <1>2 DEF FinishWaitStart, FinishWaitStep, FinishWaitTx, FinishWaitQueues, WbClosed, WritePlaces, EnsureTx,
                  Places, WriteTypes
    <2> QED
      BY <2>1, PlaceMoves
  <1>3. CASE Refuse
    <2> DEFINE c == Head(queue)
    <2>1. c = queue[1] /\ 1 \in 1..Len(queue) /\ wb = "done" /\ wb' = wb
      BY <1>3 DEF Refuse, WriteTypes
    <2>2. CASE c \in Writers
      <3>1. wr[c] = "queued"
        BY <2>1, <2>2 DEF Places
      <3>2. c \in WritePlaces(wr, wb) /\ WritePlaces(wr', wb') = WritePlaces(wr, wb) \ {c}
        BY <1>3, <2>1, <2>2, <3>1 DEF Refuse, WritePlaces, WriteTypes
      <3> QED
        BY <1>3, <2>2, <3>2, PlaceMoves DEF Refuse
    <2>3. CASE c \notin Writers
      <3>1. WritePlaces(wr', wb') = WritePlaces(wr, wb)
        BY <1>3, <2>1, <2>3 DEF Refuse, WritePlaces, WriteTypes
      <3> QED
        BY <1>3, <2>3, <3>1, PlaceMoves DEF Refuse
    <2> QED
      BY <2>2, <2>3
  <1>4. CASE Admit \/ WbTakes
    BY <1>4, MovesBalance
  <1>5. CASE WbWrites
    <2>1. wb \in Writers /\ wr[wb] = "ok" /\ wb' = "recv" /\ wr' = wr
      BY <1>5 DEF WbWrites, Places
    <2>2. wb \in WritePlaces(wr, wb) /\ WritePlaces(wr', wb') = WritePlaces(wr, wb) \ {wb}
      BY <2>1 DEF WritePlaces
    <2> QED
      BY <1>5, <2>1, <2>2, PlaceMoves DEF WbWrites
  <1>6. CASE WbFails("E_STOP_SENDING") \/ \E ok \in BOOLEAN : WbControl(ok)
    BY <1>6, DownBalances
  <1> QED
    BY <1>1, <1>2, <1>3, <1>4, <1>5, <1>6 DEF WriteSide, WbStep

\* The steps of the thread that both halves see move no chunk of a write.
LEMMA BothKeepWrites ==
    ASSUME ReadTypes, Chained, WriteTypes, Places, BothHalves
    PROVE  InWrites(wr', wb') = InWrites(wr, wb) /\ DataIn(cmds') = DataIn(cmds)
  <1>1. CASE SetFinished \/ DropTx \/ Finalize
    <2>1. UNCHANGED <<wr, wb, cmds>>
      BY <1>1 DEF SetFinished, DropTx, Finalize
    <2> QED
      BY <2>1
  <1>2. CASE Control
    <2>1. PICK c \in {"finish", "reset"} :
            /\ cmds' \in {cmds, Append(cmds, c)}
            /\ UNCHANGED wb \/ (tx = "none" /\ wb' = "recv")
            /\ wr' = wr
      BY <1>2, ControlDoes, Zenon
    <2>2. WritePlaces(wr', wb') = WritePlaces(wr, wb)
      BY <2>1, NamesAssumption DEF WritePlaces, Places
    <2>3. c \in Commands /\ c \notin Writers
      BY NamesAssumption DEF Commands
    <2>4. DataIn(Append(cmds, c)) = DataIn(cmds) + 0 /\ DataIn(cmds) \in Nat
      BY <2>3, DataAppended, DataFinite DEF WriteTypes
    <2>5. InWrites(wr', wb') = InWrites(wr, wb)
      BY <2>2, SameWrites
    <2>6. DataIn(cmds') = DataIn(cmds)
      <3>1. CASE cmds' = cmds
        BY <3>1
      <3>2. CASE cmds' = Append(cmds, c)
        BY <2>4, <3>2
      <3> QED
        BY <2>1, <3>1, <3>2
    <2> QED
      BY <2>5, <2>6
  <1> QED
    BY <1>1, <1>2 DEF BothHalves

\* The budget is exact when reads, bridge and writes pay for their chunks.
LEMMA ExactParts ==
    ASSUME ReservationsExact, ReadTypes, Budget, NEW i \in Int, NEW j \in Int, NEW k \in Int,
           InReads(rd') = InReads(rd) + i, chan' + Sending(bridge') = chan + Sending(bridge) + j,
           InWrites(wr', wb') + DataIn(cmds') = InWrites(wr, wb) + DataIn(cmds) + k,
           InReads(rd) \in Nat, InWrites(wr, wb) \in Nat, DataIn(cmds) \in Nat,
           InWrites(wr', wb') \in Nat, DataIn(cmds') \in Nat, chan' \in Nat,
           reserved' = reserved + i + j + k
    PROVE  ReservationsExact'
  <1>1. reserved = InReads(rd) + chan + Sending(bridge) + InWrites(wr, wb) + DataIn(cmds)
    BY DEF ReservationsExact, Sending
  <1>2. chan \in Nat /\ Sending(bridge) \in {0, 1} /\ Sending(bridge') \in {0, 1} /\ reserved \in Int
    BY DEF ReadTypes, Sending, Budget
  <1>3. reserved' = InReads(rd') + chan' + Sending(bridge') + InWrites(wr', wb') + DataIn(cmds')
    BY <1>1, <1>2, SMTT(30)
  <1> QED
    BY <1>3 DEF ReservationsExact, Sending

\* The budget stays exact.
LEMMA ExactKept ==
    ASSUME ReadTypes, ReadTypes', WriteTypes, WriteTypes', OneOwner, Hands, Places, Chained, Budget,
           ReservationsExact, Next
    PROVE  ReservationsExact' /\ Budget'
  <1> DEFINE a == InReads(rd)
             b == InWrites(wr, wb)
             c == DataIn(cmds)
             b1 == InWrites(wr', wb')
             c1 == DataIn(cmds')
  <1>1. /\ a \in Nat /\ b \in Nat /\ c \in Nat /\ b1 \in Nat /\ c1 \in Nat
        /\ chan \in Nat /\ chan' \in Nat /\ Sending(bridge) \in {0, 1} /\ Sending(bridge') \in {0, 1}
        /\ reserved \in Int
    <2>1. a \in Nat
      BY HeldNat DEF ReadTypes
    <2>2. b \in Nat /\ b1 \in Nat
      BY WritesNat
    <2>3. c \in Nat /\ c1 \in Nat
      BY DataFinite DEF WriteTypes
    <2> QED
      BY <2>1, <2>2, <2>3 DEF ReadTypes, Sending, Budget
  <1>2. CASE WriteSide
    <2>1. UNCHANGED <<rd, chan, bridge>>
      BY <1>2, WriteSideFrame DEF readHalf, bridges
    <2>2. Balanced
      BY <1>2, WritesBalance
    <2> DEFINE k == (b1 - b) + (c1 - c)
    <2>3. k \in Int /\ b1 + c1 = b + c + k /\ reserved' = reserved + 0 + 0 + k
      BY <1>1, <2>2 DEF Balanced
    <2>4. InReads(rd') = a + 0 /\ chan' + Sending(bridge') = chan + Sending(bridge) + 0
      BY <1>1, <2>1
    <2> HIDE DEF k
    <2>5. ReservationsExact'
      BY <1>1, <2>3, <2>4, ExactParts
    <2> QED
      BY <2>2, <2>5 DEF Balanced, Within, Budget
  <1>3. CASE \E r \in Readers : ReadStep(r)
    <2>1. PICK r \in Readers : ReadStep(r)
      BY <1>3
    <2>2. Settles(r)
      BY <2>1, ReadsSettle
    <2>3. UNCHANGED <<wr, wb, cmds>>
      BY <2>1, ReadSideFrame DEF ReadSide, writing
    <2> DEFINE i == rd'[r].held - rd[r].held
               j == (chan' - chan) + (Sending(bridge') - Sending(bridge))
    <2>4. rd[r].held \in Nat /\ rd'[r].held \in Nat /\ rd \in ReadStates /\ rd' \in ReadStates
      BY <2>2, BoundsAssumption DEF Settles, ReadStates, ReadTypes
    <2>5. \A q \in Readers \ {r} : rd'[q].held = rd[q].held
      BY <2>2 DEF Settles
    <2>6. InReads(rd') = InReads(rd) + rd'[r].held - rd[r].held
      BY <2>4, <2>5, HeldMoves
    <2>7. InReads(rd') = a + i /\ i \in Int
      BY <1>1, <2>4, <2>6
    <2>8. j \in Int /\ chan' + Sending(bridge') = chan + Sending(bridge) + j
      BY <1>1
    <2>9. reserved' = reserved + i + j + 0
      BY <1>1, <2>2, <2>4 DEF Settles
    <2>10. b1 + c1 = b + c + 0
      BY <1>1, <2>3
    <2> HIDE DEF i, j
    <2>11. ReservationsExact'
      BY <1>1, <2>7, <2>8, <2>9, <2>10, ExactParts
    <2> QED
      BY <2>2, <2>11 DEF Settles, Within, Budget
  <1>4. CASE PeerStep \/ BridgeStep \/ SinkStep \/ StopStep \/ BothHalves
    <2>1. /\ rd' = rd /\ reserved' = reserved + (chan' - chan) + Sending(bridge') - Sending(bridge)
          /\ Within
      BY <1>4, OthersSettle
    <2>2. b1 = b /\ c1 = c
      <3>1. CASE BothHalves
        BY <3>1, BothKeepWrites
      <3>2. CASE ~BothHalves
        <4>1. UNCHANGED <<wr, wb, cmds>>
          BY <1>4, <3>2, ReadSideFrame DEF ReadSide, writing
        <4> QED
          BY <4>1
      <3> QED
        BY <3>1, <3>2
    <2> DEFINE j == (chan' - chan) + (Sending(bridge') - Sending(bridge))
    <2>3. j \in Int /\ chan' + Sending(bridge') = chan + Sending(bridge) + j /\ reserved' = reserved + 0 + j + 0
      BY <1>1, <2>1
    <2>4. InReads(rd') = a + 0 /\ b1 + c1 = b + c + 0
      BY <1>1, <2>1, <2>2
    <2> HIDE DEF j
    <2>5. ReservationsExact'
      BY <1>1, <2>3, <2>4, ExactParts
    <2> QED
      BY <2>1, <2>5 DEF Within, Budget
  <1> QED
    BY <1>2, <1>3, <1>4, Sides DEF ReadSide

-----------------------------------------------------------------------------
(* Nothing taken from the transport is lost while the stream is whole.     *)

\* A step in which the reads' hands gain d hands over, drops or keeps what
\* it takes from the transport; it drops nothing while the stream is whole.
Yields(d) ==
    /\ (delivered' - delivered) + d + (chan' - chan) + (Pending' - Pending) <= read' - read
    /\ Whole' => Whole /\ (delivered' - delivered) + d + (chan' - chan) + (Pending' - Pending) = read' - read

\* Arithmetic: less is no more.
LEMMA NoMore ==
    ASSUME NEW a \in Nat, NEW b \in Nat, a <= b
    PROVE  a - b <= 0 /\ a - b \in Int
  OBVIOUS

\* The chunk on its way stays when bridge and reads stay where they are.
LEMMA PendingSame ==
    ASSUME bridge' = bridge, \A q \in Readers : rd'[q].pc = "reserve" <=> rd[q].pc = "reserve"
    PROVE  Pending' = Pending /\ Pending \in {0, 1}
  BY DEF Pending

\* A stream stays whole when nothing that it depends on changes.
LEMMA WholeSame ==
    ASSUME UNCHANGED <<aborted, final, where, bridge, errSlot>>
    PROVE  Whole' <=> Whole
  BY DEF Whole, Untouched

\* A bridge that works is the only one that may hold a chunk.
LEMMA BridgePending ==
    ASSUME OneOwner, bridge \in {"select", "reserve", "send"}, rd' = rd
    PROVE  /\ Pending = IF bridge = "select" THEN 0 ELSE 1
           /\ Pending' = IF bridge' \in {"reserve", "send"} THEN 1 ELSE 0
           /\ where = "bridge"
  <1>1. \A r \in Readers : rd[r].pc # "reserve"
    BY NamesAssumption DEF OneOwner, Owner
  <1> QED
    BY <1>1 DEF Pending, OneOwner

\* A receiver or a bridge is told to go only by a stop, a dispose or the
\* finalizer.
LEMMA GoneIsTouched ==
    ASSUME ReadTypes, Chained, rx = "gone" \/ Stopped
    PROVE  ~Untouched
  BY DEF ReadTypes, Chained, Stopped, Untouched

\* A step of a read hands over what it takes from the transport, or drops it
\* with the stream.
LEMMA ReadsYield ==
    ASSUME ReadTypes, ReadTypes', OneOwner, Hands, Chained, NEW r \in Readers, ReadStep(r)
    PROVE  Yields(rd'[r].held - rd[r].held)
  <1> USE BoundsAssumption, NamesAssumption DEF gate, wakes, bridges, net, thread, ReadTypes, OneOwner,
              Owner, Hands, Yields, Pending, Whole, Untouched
  <1>1. ASSUME NEW batch \in Batches, ReadStart(r, batch)
        PROVE  Yields(rd'[r].held - rd[r].held)
    <2>1. UNCHANGED <<aborted, final, where, bridge, errSlot, chan, read, delivered>>
      BY <1>1, StartMoves
    <2>2. \A q \in Readers : rd'[q].pc = "reserve" <=> rd[q].pc = "reserve"
      BY <1>1, StartMoves
    <2>3. rd[r].held = 0 /\ rd'[r].held = 0
      BY <1>1, StartMoves
    <2> HIDE DEF Pending, Whole
    <2>4. Pending' = Pending /\ Pending \in {0, 1} /\ (Whole' <=> Whole)
      BY <2>1, <2>2, PendingSame, WholeSame
    <2> QED
      BY <2>1, <2>3, <2>4
  <1>2. CASE CheckLatch(r)
    BY <1>2, Goes, Returns
    DEF CheckLatch, Moved, ReadSteps, Outcomes, Codes
  <1>3. CASE begin_direct_read(r)
    BY <1>3, Goes
    DEF begin_direct_read, Cas, Moved, ReadSteps, Outcomes, Codes
  <1>4. CASE TakeSlot(r)
    BY <1>4, Goes
    DEF TakeSlot, Cas, Moved, ReadSteps, Outcomes, Codes
  <1>5. CASE CheckAborted(r)
    BY <1>5, Goes, Returns
    DEF CheckAborted, DropStream, Cas, Moved, ReadSteps, Outcomes, Codes
  <1>6. CASE EnrollDirect(r)
    BY <1>6, Goes
    DEF EnrollDirect, Moved, ReadSteps, Outcomes, Codes
  <1>7. CASE DirectChunk(r)
    BY <1>7, Goes, Returns
    DEF DirectChunk, Leave, DropStream, Cas, Moved, ReadSteps, Outcomes, Codes
  <1>8. CASE DirectEnd(r)
    BY <1>8, Returns
    DEF DirectEnd, Leave, DropStream, Cas, Verdict, AtEnd, Moved, ReadSteps, Outcomes, Codes
  <1>9. CASE DirectAborted(r)
    BY <1>9, Returns
    DEF DirectAborted, Leave, DropStream, Cas, Moved, ReadSteps, Outcomes, Codes
  <1>10. CASE Reserve(r)
    BY <1>10, ReserveMoves
    DEF DropStream, Cas, Moved, ReadSteps, Outcomes, Codes
  <1>11. CASE Recheck(r)
    BY <1>11, Goes, Returns
    DEF Recheck, DropStream, Cas, Moved, ReadSteps, Outcomes, Codes
  <1>12. CASE BatchLoop(r)
    <2>1. UNCHANGED <<aborted, final, where, bridge, errSlot, chan, delivered>>
      BY <1>12, BatchMoves
    <2>2. \A q \in Readers : rd'[q].pc = "reserve" <=> rd[q].pc = "reserve"
      BY <1>12, BatchMoves DEF Moved
    <2>3. rd[r].held \in Nat
      BY DEF ReadStates
    <2>4. rd'[r].held - rd[r].held = read' - read
      <3>1. CASE read' = read + 1 /\ Moved(r, "loop", rd[r].held + 1, rd[r].out)
        <4>1. rd'[r].held = rd[r].held + 1 /\ read \in Nat
          BY <3>1 DEF Moved
        <4> QED
          BY <2>3, <3>1, <4>1
      <3>2. CASE read' = read /\ Moved(r, "park", rd[r].held, rd[r].out)
        <4>1. rd'[r].held = rd[r].held /\ read \in Nat
          BY <3>2 DEF Moved
        <4> QED
          BY <2>3, <3>2, <4>1
      <3> QED
        BY <1>12, <3>1, <3>2, BatchMoves
    <2> HIDE DEF Pending, Whole
    <2>5. Pending' = Pending /\ Pending \in {0, 1} /\ (Whole' <=> Whole)
      BY <2>1, <2>2, PendingSame, WholeSame
    <2> QED
      BY <2>1, <2>4, <2>5
  <1>13. CASE Park(r)
    <2>1. rd[r].pc = "park" /\ UNCHANGED <<aborted, final, bridge, errSlot, chan, read>>
      BY <1>13 DEF Park
    <2>2. \/ Moved(r, "convert", rd[r].held, rd[r].out) /\ delivered' = delivered
          \/ Moved(r, "idle", 0, "data") /\ delivered' = delivered + 1 /\ rd[r].held = 1
      <3>1. CASE rd[r].batch
        <4>1. Goto(r, "convert") /\ delivered' = delivered
          BY <1>13, <3>1 DEF Park, Delivered
        <4> QED
          BY <4>1, Goes DEF ReadSteps
      <3>2. CASE ~rd[r].batch
        <4>1. Return(r, "data") /\ delivered' = delivered + 1
          BY <1>13, <3>2 DEF Park, Delivered
        <4> QED
          BY <2>1, <3>2, <4>1, Returns DEF Outcomes
      <3> QED
        BY <3>1, <3>2
    <2>3. \A q \in Readers : rd'[q].pc = "reserve" <=> rd[q].pc = "reserve"
      BY <2>1, <2>2 DEF Moved
    <2>4. rd[r].held \in Nat /\ (delivered' - delivered) + (rd'[r].held - rd[r].held) = 0
      BY <2>2 DEF Moved, ReadStates
    <2>5. Whole' => Whole
      BY <1>13, <2>1 DEF Park, DropStream
    <2> HIDE DEF Pending, Whole
    <2>6. Pending' = Pending /\ Pending \in {0, 1}
      BY <2>1, <2>3, PendingSame
    <2> QED
      BY <2>1, <2>4, <2>5, <2>6
  <1>14. CASE Convert(r)
    <2>1. rd[r].pc = "convert" /\ UNCHANGED <<aborted, final, where, bridge, errSlot, chan, read>>
      BY <1>14 DEF Convert
    <2>2. Moved(r, "idle", 0, "data") /\ delivered' = delivered + rd[r].held
      BY <1>14, Returns DEF Convert, Outcomes
    <2>3. \A q \in Readers : rd'[q].pc = "reserve" <=> rd[q].pc = "reserve"
      BY <2>1, <2>2 DEF Moved
    <2>4. rd[r].held \in Nat /\ (delivered' - delivered) + (rd'[r].held - rd[r].held) = 0
      BY <2>2 DEF Moved, ReadStates
    <2> HIDE DEF Pending, Whole
    <2>5. Pending' = Pending /\ Pending \in {0, 1} /\ (Whole' <=> Whole)
      BY <2>1, <2>3, PendingSame, WholeSame
    <2> QED
      BY <2>1, <2>4, <2>5
  <1>15. CASE FallThrough(r)
    BY <1>15, Goes, Returns
    DEF FallThrough, Moved, ReadSteps, Outcomes, Codes
  <1>16. CASE HasPending(r)
    BY <1>16, Goes
    DEF HasPending, Moved, ReadSteps, Outcomes, Codes
  <1>17. CASE PermitCheck(r)
    BY <1>17, Goes, Returns
    DEF PermitCheck, Moved, ReadSteps, Outcomes, Codes
  <1>18. CASE PermitEnroll(r)
    BY <1>18, Goes
    DEF PermitEnroll, Moved, ReadSteps, Outcomes, Codes
  <1>19. CASE GetPermit(r)
    BY <1>19, Goes, Returns
    DEF GetPermit, Leave, Moved, ReadSteps, Outcomes, Codes
  <1>20. CASE Migrate(r)
    BY <1>20, Goes
    DEF Migrate, Moved, ReadSteps, Outcomes, Codes
  <1>21. CASE SetRx(r)
    BY <1>21, Goes
    DEF SetRx, Moved, ReadSteps, Outcomes, Codes
  <1>22. CASE SetStop(r)
    BY <1>22, Goes
    DEF SetStop, Moved, ReadSteps, Outcomes, Codes
  <1>23. CASE mark_bridged(r)
    BY <1>23, Goes
    DEF mark_bridged, Moved, ReadSteps, Outcomes, Codes
  <1>24. CASE LookRx(r)
    BY <1>24, Goes, Returns
    DEF LookRx, Moved, ReadSteps, Outcomes, Codes
  <1>25. CASE LockRx(r)
    <2>1. rd[r].pc = "lock" /\ UNCHANGED <<aborted, final, where, bridge, errSlot, chan, read, delivered>>
      BY <1>25 DEF LockRx
    <2>2. Moved(r, "checkB", rd[r].held, rd[r].out)
      BY <1>25, Goes DEF LockRx, ReadSteps
    <2>3. \A q \in Readers : rd'[q].pc = "reserve" <=> rd[q].pc = "reserve"
      BY <2>1, <2>2 DEF Moved
    <2>4. rd[r].held \in Nat /\ rd'[r].held - rd[r].held = 0
      BY <2>2 DEF Moved, ReadStates
    <2> HIDE DEF Pending, Whole
    <2>5. Pending' = Pending /\ Pending \in {0, 1} /\ (Whole' <=> Whole)
      BY <2>1, <2>3, PendingSame, WholeSame
    <2> QED
      BY <2>1, <2>4, <2>5
  <1>26. CASE CheckBridge(r)
    BY <1>26, Goes, Returns, LeavesRx
    DEF CheckBridge, Moved, ReadSteps, Outcomes, Codes
  <1>27. CASE RecvData(r)
    <2>1. rd[r].pc = "recv" /\ rd[r].held = 0 /\ UNCHANGED <<aborted, final, where, bridge, errSlot, rx, read>>
      BY <1>27, RecvMoves
    <2>2. PICK n \in 0..chan, d \in 0..chan :
            /\ chan' = chan - n - d /\ (d # 0 => rx = "gone")
            /\ (delivered' - delivered) + rd'[r].held = n
            /\ rd'[r].pc # "reserve" /\ \A q \in Readers : q # r => rd'[q] = rd[q]
      <3>1. CASE LeaveRx(r, 1, 1) /\ delivered' = delivered + 1 /\ Moved(r, "idle", 0, "data")
        <4>1. 1 \in 0..chan /\ chan \in Nat
          BY <1>27, RecvMoves
        <4>2. PICK d \in 0..(chan - 1) : chan' = chan - 1 - d /\ (d # 0 => rx = "gone")
          BY <3>1, <4>1, LeavesRx
        <4>3. d \in 0..chan /\ (delivered' - delivered) + rd'[r].held = 1
          BY <3>1, <4>1 DEF Moved
        <4> QED
          BY <3>1, <4>1, <4>2, <4>3 DEF Moved
      <3>2. ASSUME NEW n \in 1..BatchMax, n <= chan, LeaveRx(r, n, 0), UNCHANGED delivered,
                   Moved(r, "convert", n, rd[r].out)
            PROVE  \E m \in 0..chan, d \in 0..chan :
                     /\ chan' = chan - m - d /\ (d # 0 => rx = "gone")
                     /\ (delivered' - delivered) + rd'[r].held = m
                     /\ rd'[r].pc # "reserve" /\ \A q \in Readers : q # r => rd'[q] = rd[q]
        <4>1. n \in 0..chan /\ chan \in Nat
          BY <3>2
        <4>2. PICK d \in 0..(chan - n) : chan' = chan - n - d /\ (d # 0 => rx = "gone")
          BY <3>2, <4>1, LeavesRx
        <4>3. d \in 0..chan /\ (delivered' - delivered) + rd'[r].held = n
          BY <3>2, <4>1 DEF Moved
        <4> QED
          BY <3>2, <4>1, <4>2, <4>3 DEF Moved
      <3> QED
        BY <1>27, <3>1, <3>2, RecvMoves
    <2>3. \A q \in Readers : rd'[q].pc = "reserve" <=> rd[q].pc = "reserve"
      BY <2>1, <2>2
    <2>4. d # 0 => ~Whole'
      BY <2>1, <2>2, GoneIsTouched
    <2>5. rd'[r].held \in Nat
      BY DEF ReadStates
    <2> HIDE DEF Pending, Whole
    <2>6. Pending' = Pending /\ Pending \in {0, 1} /\ (Whole' <=> Whole)
      BY <2>1, <2>3, PendingSame, WholeSame
    <2> QED
      BY <2>1, <2>2, <2>4, <2>5, <2>6
  <1>28. CASE RecvEnd(r)
    BY <1>28, Returns, LeavesRx
    DEF RecvEnd, Moved, ReadSteps, Outcomes, Codes
  <1>29. CASE RecvAborted(r)
    <2>1. rd[r].pc = "recv" /\ rd[r].held = 0 /\ UNCHANGED <<aborted, final, where, bridge, errSlot, rx, read, delivered>>
      BY <1>29 DEF RecvAborted
    <2>2. Moved(r, "idle", 0, "E_STREAM_RESET")
      BY <1>29, Returns DEF RecvAborted, Outcomes, Codes
    <2>3. 0 \in 0..chan /\ chan \in Nat
      OBVIOUS
    <2>4. PICK d \in 0..(chan - 0) : chan' = chan - 0 - d /\ (d # 0 => rx = "gone")
      BY <1>29, <2>3, LeavesRx DEF RecvAborted
    <2>5. \A q \in Readers : rd'[q].pc = "reserve" <=> rd[q].pc = "reserve"
      BY <2>1, <2>2 DEF Moved
    <2>6. d # 0 => ~Whole'
      BY <2>1, <2>4, GoneIsTouched
    <2>7. rd'[r].held = 0
      BY <2>2 DEF Moved
    <2> HIDE DEF Pending, Whole
    <2>8. Pending' = Pending /\ Pending \in {0, 1} /\ (Whole' <=> Whole)
      BY <2>1, <2>5, PendingSame, WholeSame
    <2> QED
      BY <2>1, <2>4, <2>6, <2>7, <2>8
  <1> QED
    BY <1>1, <1>2, <1>3, <1>4, <1>5, <1>6, <1>7, <1>8, <1>9, <1>10, <1>11, <1>12, <1>13, <1>14, <1>15,
       <1>16, <1>17, <1>18, <1>19, <1>20, <1>21, <1>22, <1>23, <1>24, <1>25, <1>26, <1>27, <1>28, <1>29
    DEF ReadStep, DirectStep, BridgeLaneStep

\* So does every other step of the handle.
LEMMA OthersYield ==
    ASSUME ReadTypes, ReadTypes', OneOwner, Chained,
           PeerStep \/ BridgeStep \/ SinkStep \/ StopStep \/ BothHalves
    PROVE  rd' = rd /\ Yields(0)
  <1> USE BoundsAssumption, NamesAssumption DEF gate, wakes, bridges, net, thread, readHalf, bridgeRest,
              threadRest, ReadTypes, OneOwner, Yields, Pending, Whole, Untouched
  <1>1. ASSUME NEW oversized \in BOOLEAN, PeerSends(oversized)
        PROVE  rd' = rd /\ Yields(0)
    BY <1>1
    DEF PeerSends
  <1>2. ASSUME NEW how \in {"fin", "reset", "lost"}, PeerEnds(how)
        PROVE  rd' = rd /\ Yields(0)
    BY <1>2
    DEF PeerEnds
  <1>3. CASE OthersBridge
    BY <1>3
    DEF OthersBridge
  <1>4. CASE BridgeReads
    <2>1. rd' = rd /\ UNCHANGED <<aborted, final, delivered, rx>>
      BY <1>4 DEF BridgeReads
    <2>2. /\ Pending = IF bridge = "select" THEN 0 ELSE 1
          /\ Pending' = IF bridge' \in {"reserve", "send"} THEN 1 ELSE 0
          /\ where = "bridge"
      BY <1>4, <2>1, BridgePending DEF BridgeReads
    <2>3. Whole' => Whole
      BY <2>1, <2>2
    <2>4. \/ read' = read + 1 /\ bridge' = "reserve"
          \/ read' = read + 1 /\ bridge' = "done" /\ ~Whole'
          \/ read' = read /\ bridge' = "done"
      BY <1>4 DEF BridgeReads, BridgeEnds
    <2>5. bridge = "select" /\ chan' = chan
      BY <1>4 DEF BridgeReads
    <2>6. /\ chan \in Nat /\ chan' \in Nat /\ read \in Nat /\ read' \in Nat
          /\ delivered \in Nat
      OBVIOUS
    <2> HIDE DEF Pending, Whole, ReadTypes, OneOwner, Untouched
    <2>7. CASE read' = read + 1 /\ bridge' = "reserve"
      <3>1. Pending = 0 /\ Pending' = 1
        BY <2>2, <2>5, <2>7
      <3> QED
        BY <2>1, <2>3, <2>5, <2>6, <2>7, <3>1
    <2>8. CASE read' = read + 1 /\ bridge' = "done" /\ ~Whole'
      <3>1. Pending = 0 /\ Pending' = 0
        BY <2>2, <2>5, <2>8
      <3> QED
        BY <2>1, <2>3, <2>5, <2>6, <2>8, <3>1
    <2>9. CASE read' = read /\ bridge' = "done"
      <3>1. Pending = 0 /\ Pending' = 0
        BY <2>2, <2>5, <2>9
      <3> QED
        BY <2>1, <2>3, <2>5, <2>6, <2>9, <3>1
    <2> QED
      BY <2>4, <2>7, <2>8, <2>9
  <1>5. CASE BridgeReserves
    BY <1>5
    DEF BridgeReserves, BridgeEnds, bridgeRest
  <1>6. CASE BridgeSends
    <2>1. rd' = rd /\ UNCHANGED <<aborted, final, delivered, rx>>
      BY <1>6 DEF BridgeSends
    <2>2. /\ Pending = IF bridge = "select" THEN 0 ELSE 1
          /\ Pending' = IF bridge' \in {"reserve", "send"} THEN 1 ELSE 0
          /\ where = "bridge"
      BY <1>6, <2>1, BridgePending DEF BridgeSends
    <2>3. Whole' => Whole
      BY <2>1, <2>2
    <2>4. \/ chan' = chan + 1 /\ bridge' = "select"
          \/ chan' = chan /\ bridge' = "done" /\ ~Whole'
      BY <1>6, <2>1, GoneIsTouched DEF BridgeSends, BridgeEnds, ReceiverGone
    <2>5. bridge = "send" /\ read' = read
      BY <1>6 DEF BridgeSends
    <2>6. /\ chan \in Nat /\ chan' \in Nat /\ read \in Nat /\ read' \in Nat
          /\ delivered \in Nat
      OBVIOUS
    <2> HIDE DEF Pending, Whole, ReadTypes, OneOwner, Untouched
    <2>7. CASE chan' = chan + 1 /\ bridge' = "select"
      <3>1. Pending = 1 /\ Pending' = 0
        BY <2>2, <2>5, <2>7
      <3> QED
        BY <2>1, <2>3, <2>5, <2>6, <2>7, <3>1
    <2>8. CASE chan' = chan /\ bridge' = "done" /\ ~Whole'
      <3>1. Pending = 1 /\ Pending' = 0
        BY <2>2, <2>5, <2>8
      <3> QED
        BY <2>1, <2>3, <2>5, <2>6, <2>8, <3>1
    <2> QED
      BY <2>4, <2>7, <2>8
  <1>7. CASE BridgeStops
    <2>1. rd' = rd /\ UNCHANGED <<aborted, final, delivered, rx>>
      BY <1>7 DEF BridgeStops
    <2>2. /\ Pending = IF bridge = "select" THEN 0 ELSE 1
          /\ Pending' = IF bridge' \in {"reserve", "send"} THEN 1 ELSE 0
          /\ where = "bridge"
      BY <1>7, <2>1, BridgePending DEF BridgeStops
    <2>3. ~Whole'
      BY <1>7, <2>1, GoneIsTouched DEF BridgeStops
    <2>4. bridge' = "done" /\ chan' = chan /\ read' = read
      BY <1>7 DEF BridgeStops, BridgeEnds
    <2> HIDE DEF Pending, Whole
    <2> QED
      BY <2>1, <2>2, <2>3, <2>4
  <1>8. CASE OpenSink
    BY <1>8
    DEF OpenSink, Free, JsGoto
  <1>9. CASE SinkTakes
    BY <1>9
    DEF SinkTakes, JsGoto, JsFree, threadRest
  <1>10. CASE SinkRollsBack
    BY <1>10
    DEF SinkRollsBack, Cas, JsFree, threadRest
  <1>11. CASE SinkOpens
    BY <1>11
    DEF SinkOpens, JsFree, threadRest
  <1>12. CASE SinkReads
    BY <1>12
    DEF SinkReads
  <1>13. CASE SinkEnds
    BY <1>13
    DEF SinkEnds, AtEnd
  <1>14. ASSUME NEW call \in JsCalls, Call(call)
        PROVE  rd' = rd /\ Yields(0)
    BY <1>14
    DEF Call, Free, JsGoto
  <1>15. CASE mark_consumed
    BY <1>15
    DEF mark_consumed, At, threadRest
  <1>16. CASE abort_read
    BY <1>16
    DEF abort_read, At
  <1>17. CASE NotifyAbort
    BY <1>17
    DEF NotifyAbort, At, threadRest
  <1>18. CASE FireStop
    BY <1>18
    DEF FireStop, At, JsFree, threadRest
  <1>19. CASE EmptySlot
    BY <1>19
    DEF EmptySlot, At
  <1>20. CASE DropRx
    <2>1. rd' = rd /\ UNCHANGED <<aborted, final, bridge, delivered, read>> /\ chan' \in {0, chan}
      BY <1>20 DEF DropRx
    <2>2. ~Whole'
      BY <1>20, <2>1 DEF DropRx, At, Chained, BehindFlag
    <2> HIDE DEF Pending, Whole
    <2>3. Pending' = Pending /\ Pending \in {0, 1}
      BY <2>1, PendingSame
    <2>4. /\ chan \in Nat /\ chan' \in Nat /\ read \in Nat /\ read' \in Nat
          /\ delivered \in Nat
      OBVIOUS
    <2> HIDE DEF ReadTypes, OneOwner, Untouched
    <2>5. chan' <= chan
      BY <2>1, <2>4
    <2>6. Pending' - Pending = 0 /\ delivered' - delivered = 0 /\ read' - read = 0
      <3>1. Pending' = Pending /\ Pending \in Int
        BY <2>3
      <3> QED
        BY <2>1, <2>4, <3>1
    <2>7. chan' - chan <= 0 /\ chan' - chan \in Int
      BY <2>4, <2>5, NoMore, Zenon
    <2> QED
      BY <2>1, <2>2, <2>6, <2>7
  <1>21. CASE SetFinished
    BY <1>21
    DEF SetFinished, At, readHalf, threadRest
  <1>22. CASE DropTx
    BY <1>22
    DEF DropTx, At, readHalf, threadRest
  <1>23. CASE Control
    BY <1>23
    DEF Control, At, readHalf, threadRest, EnsureTx, SendCtrl, Usable
  <1>24. CASE Finalize
    BY <1>24
    DEF Finalize, Free
  <1> QED
    BY <1>1, <1>2, <1>3, <1>4, <1>5, <1>6, <1>7, <1>8, <1>9, <1>10, <1>11, <1>12, <1>13, <1>14, <1>15,
       <1>16, <1>17, <1>18, <1>19, <1>20, <1>21, <1>22, <1>23, <1>24
    DEF PeerStep, BridgeStep, SinkStep, StopStep, BothHalves

\* Arithmetic: what is added is at most what was read.
LEMMA BothGrow ==
    ASSUME NEW s \in Int, NEW d \in Int, NEW e \in Int, NEW e1 \in Int, s <= e, d <= e1 - e
    PROVE  s + d <= e1
  OBVIOUS

\* Chunks are conserved by a step that yields what it takes.
LEMMA ConservedBy ==
    ASSUME ReadTypes, ReadTypes', Conserved, NEW d \in Int, Yields(d),
           InReads(rd) \in Nat, InReads(rd') \in Nat, InReads(rd') = InReads(rd) + d
    PROVE  Conserved'
  <1>1. /\ chan \in Int /\ chan' \in Int /\ read \in Int /\ read' \in Int
        /\ delivered \in Int /\ delivered' \in Int
    BY DEF ReadTypes
  <1>2. Pending \in Int /\ Pending' \in Int
    BY DEF Pending
  <1>3. delivered' + InReads(rd') + chan' + Pending' <= read'
    <2> DEFINE S == delivered + InReads(rd) + chan + Pending
               D == (delivered' - delivered) + d + (chan' - chan) + (Pending' - Pending)
    <2>1. S <= read /\ D <= read' - read
      BY DEF Conserved, Yields
    <2>2. S \in Int /\ D \in Int /\ delivered' + InReads(rd') + chan' + Pending' = S + D
      BY <1>1, <1>2
    <2> HIDE DEF S, D
    <2>3. S + D <= read'
      BY <1>1, <2>1, <2>2, BothGrow, Zenon
    <2> QED
      BY <2>2, <2>3, Zenon
  <1>4. Whole' => read' = delivered' + InReads(rd') + chan' + Pending'
    BY <1>1, <1>2 DEF Conserved, Yields
  <1> QED
    BY <1>3, <1>4 DEF Conserved

\* Chunks are conserved.
LEMMA ConservedKept ==
    ASSUME ReadTypes, ReadTypes', OneOwner, Hands, Chained, Budget, Conserved, Next
    PROVE  Conserved'
  <1>1. InReads(rd) \in Nat /\ InReads(rd') \in Nat /\ rd \in ReadStates /\ rd' \in ReadStates
    BY HeldNat DEF ReadTypes
  <1>2. CASE WriteSide
    BY <1>2, WriteSideFrame DEF readHalf, thread, bridges, net, gate, Conserved, Pending, Whole, Untouched
  <1>3. CASE \E r \in Readers : ReadStep(r)
    <2>1. PICK r \in Readers : ReadStep(r)
      BY <1>3
    <2> DEFINE d == rd'[r].held - rd[r].held
    <2>2. Yields(d)
      BY <2>1, ReadsYield
    <2>3. \A q \in Readers \ {r} : rd'[q].held = rd[q].held
      BY <2>1, ReadsSettle DEF Settles
    <2>4. InReads(rd') = InReads(rd) + rd'[r].held - rd[r].held
      BY <1>1, <2>3, HeldMoves
    <2>5. rd[r].held \in Nat /\ rd'[r].held \in Nat
      BY <1>1, BoundsAssumption DEF ReadStates
    <2>6. d \in Int /\ InReads(rd') = InReads(rd) + d
      BY <1>1, <2>4, <2>5
    <2> HIDE DEF d
    <2> QED
      BY <1>1, <2>2, <2>6, ConservedBy
  <1>4. CASE PeerStep \/ BridgeStep \/ SinkStep \/ StopStep \/ BothHalves
    <2>1. rd' = rd /\ Yields(0)
      BY <1>4, OthersYield
    <2>2. InReads(rd') = InReads(rd) + 0
      BY <1>1, <2>1
    <2> QED
      BY <1>1, <2>1, <2>2, ConservedBy
  <1> QED
    BY <1>2, <1>3, <1>4, Sides DEF ReadSide

-----------------------------------------------------------------------------
(* A read that nobody overlaps, and the end of the stream.                 *)

\* A step of a read keeps a lone read alone.
LEMMA SoloReads ==
    ASSUME ReadTypes, Solo, NEW r \in Readers, ReadStep(r)
    PROVE  Solo'
  <1> USE DEF gate, wakes, bridges, net, thread, ReadTypes, Solo
  <1>1. ASSUME NEW batch \in Batches, ReadStart(r, batch)
        PROVE  Solo'
    BY <1>1, StartMoves
    DEF ReadSteps, Outcomes, Codes, InFlight
  <1>2. CASE CheckLatch(r)
    BY <1>2, Goes, Returns
    DEF CheckLatch, Moved, ReadSteps, Outcomes, Codes
  <1>3. CASE begin_direct_read(r)
    BY <1>3, Goes
    DEF begin_direct_read, Cas, Moved, ReadSteps, Outcomes, Codes
  <1>4. CASE TakeSlot(r)
    BY <1>4, Goes
    DEF TakeSlot, Cas, Moved, ReadSteps, Outcomes, Codes
  <1>5. CASE CheckAborted(r)
    BY <1>5, Goes, Returns
    DEF CheckAborted, DropStream, Cas, Moved, ReadSteps, Outcomes, Codes
  <1>6. CASE EnrollDirect(r)
    BY <1>6, Goes
    DEF EnrollDirect, Moved, ReadSteps, Outcomes, Codes
  <1>7. CASE DirectChunk(r)
    BY <1>7, Goes, Returns
    DEF DirectChunk, Leave, DropStream, Cas, Moved, ReadSteps, Outcomes, Codes
  <1>8. CASE DirectEnd(r)
    BY <1>8, Returns
    DEF DirectEnd, Leave, DropStream, Cas, Verdict, AtEnd, Moved, ReadSteps, Outcomes, Codes
  <1>9. CASE DirectAborted(r)
    BY <1>9, Returns
    DEF DirectAborted, Leave, DropStream, Cas, Moved, ReadSteps, Outcomes, Codes
  <1>10. CASE Reserve(r)
    BY <1>10, ReserveMoves
    DEF DropStream, Cas, Moved, ReadSteps, Outcomes, Codes
  <1>11. CASE Recheck(r)
    BY <1>11, Goes, Returns
    DEF Recheck, DropStream, Cas, Moved, ReadSteps, Outcomes, Codes
  <1>12. CASE BatchLoop(r)
    <2>1. /\ rd[r].pc = "loop" /\ final' = final /\ (\A q \in Readers : q # r => rd'[q] = rd[q])
          /\ rd'[r].pc \in {"loop", "park"} /\ rd'[r].alone = rd[r].alone
          /\ rd'[r].pc = "loop" => latch' = latch
      <3>1. rd[r].pc = "loop" /\ final' = final
        BY <1>12, BatchMoves
      <3>2. CASE Moved(r, "loop", rd[r].held + 1, rd[r].out) /\ latch' = latch
        BY <3>1, <3>2 DEF Moved
      <3>3. CASE Moved(r, "park", rd[r].held, rd[r].out)
        BY <3>1, <3>3 DEF Moved
      <3> QED
        BY <1>12, <3>2, <3>3, BatchMoves
    <2> QED
      BY <2>1
  <1>13. CASE Park(r)
    BY <1>13, Goes, Returns
    DEF Park, DropStream, Cas, Delivered, Moved, ReadSteps, Outcomes, Codes
  <1>14. CASE Convert(r)
    BY <1>14, Returns
    DEF Convert, Moved, ReadSteps, Outcomes, Codes
  <1>15. CASE FallThrough(r)
    BY <1>15, Goes, Returns
    DEF FallThrough, Moved, ReadSteps, Outcomes, Codes
  <1>16. CASE HasPending(r)
    BY <1>16, Goes
    DEF HasPending, Moved, ReadSteps, Outcomes, Codes
  <1>17. CASE PermitCheck(r)
    BY <1>17, Goes, Returns
    DEF PermitCheck, Moved, ReadSteps, Outcomes, Codes
  <1>18. CASE PermitEnroll(r)
    BY <1>18, Goes
    DEF PermitEnroll, Moved, ReadSteps, Outcomes, Codes
  <1>19. CASE GetPermit(r)
    BY <1>19, Goes, Returns
    DEF GetPermit, Leave, Moved, ReadSteps, Outcomes, Codes
  <1>20. CASE Migrate(r)
    BY <1>20, Goes
    DEF Migrate, Moved, ReadSteps, Outcomes, Codes
  <1>21. CASE SetRx(r)
    BY <1>21, Goes
    DEF SetRx, Moved, ReadSteps, Outcomes, Codes
  <1>22. CASE SetStop(r)
    BY <1>22, Goes
    DEF SetStop, Moved, ReadSteps, Outcomes, Codes
  <1>23. CASE mark_bridged(r)
    BY <1>23, Goes
    DEF mark_bridged, Moved, ReadSteps, Outcomes, Codes
  <1>24. CASE LookRx(r)
    BY <1>24, Goes, Returns
    DEF LookRx, Moved, ReadSteps, Outcomes, Codes
  <1>25. CASE LockRx(r)
    BY <1>25, Goes
    DEF LockRx, Moved, ReadSteps, Outcomes, Codes
  <1>26. CASE CheckBridge(r)
    BY <1>26, Goes, Returns, LeavesRx
    DEF CheckBridge, Moved, ReadSteps, Outcomes, Codes
  <1>27. CASE RecvData(r)
    BY <1>27, RecvMoves, LeavesRx
    DEF Moved, ReadSteps, Outcomes, Codes
  <1>28. CASE RecvEnd(r)
    BY <1>28, Returns, LeavesRx
    DEF RecvEnd, Moved, ReadSteps, Outcomes, Codes
  <1>29. CASE RecvAborted(r)
    BY <1>29, Returns, LeavesRx
    DEF RecvAborted, Moved, ReadSteps, Outcomes, Codes
  <1> QED
    BY <1>1, <1>2, <1>3, <1>4, <1>5, <1>6, <1>7, <1>8, <1>9, <1>10, <1>11, <1>12, <1>13, <1>14, <1>15,
       <1>16, <1>17, <1>18, <1>19, <1>20, <1>21, <1>22, <1>23, <1>24, <1>25, <1>26, <1>27, <1>28, <1>29
    DEF ReadStep, DirectStep, BridgeLaneStep

\* So does every other step of the handle.
LEMMA SoloOthers ==
    ASSUME ReadTypes, Solo, PeerStep \/ BridgeStep \/ SinkStep \/ StopStep \/ BothHalves
    PROVE  Solo'
  <1> USE DEF gate, wakes, bridges, net, thread, ReadTypes, Solo
  <1>1. ASSUME NEW oversized \in BOOLEAN, PeerSends(oversized)
        PROVE  Solo'
    BY <1>1
    DEF PeerSends
  <1>2. ASSUME NEW how \in {"fin", "reset", "lost"}, PeerEnds(how)
        PROVE  Solo'
    BY <1>2
    DEF PeerEnds
  <1>3. CASE OthersBridge
    BY <1>3
    DEF OthersBridge
  <1>4. CASE BridgeReads
    BY <1>4
    DEF BridgeReads, BridgeEnds, AtEnd, Verdict, bridgeRest
  <1>5. CASE BridgeReserves
    BY <1>5
    DEF BridgeReserves, BridgeEnds, bridgeRest
  <1>6. CASE BridgeSends
    BY <1>6
    DEF BridgeSends, BridgeEnds, ReceiverGone, bridgeRest
  <1>7. CASE BridgeStops
    BY <1>7
    DEF BridgeStops, BridgeEnds, Stopped, bridgeRest
  <1>8. CASE OpenSink
    BY <1>8
    DEF OpenSink, Free, JsGoto
  <1>9. CASE SinkTakes
    BY <1>9
    DEF SinkTakes, JsGoto, JsFree, threadRest
  <1>10. CASE SinkRollsBack
    BY <1>10
    DEF SinkRollsBack, Cas, JsFree, threadRest
  <1>11. CASE SinkOpens
    BY <1>11
    DEF SinkOpens, JsFree, threadRest
  <1>12. CASE SinkReads
    BY <1>12
    DEF SinkReads
  <1>13. CASE SinkEnds
    BY <1>13
    DEF SinkEnds, AtEnd
  <1>14. ASSUME NEW call \in JsCalls, Call(call)
        PROVE  Solo'
    BY <1>14, CallDoes
    DEF Call, Free, JsGoto
  <1>15. CASE mark_consumed
    BY <1>15, JsAdvances
    DEF mark_consumed, At, threadRest, Follows
  <1>16. CASE abort_read
    BY <1>16, JsAdvances
    DEF abort_read, At, Follows
  <1>17. CASE NotifyAbort
    BY <1>17, JsAdvances
    DEF NotifyAbort, At, threadRest, Follows
  <1>18. CASE FireStop
    BY <1>18, JsAdvances
    DEF FireStop, At, JsFree, threadRest, Follows
  <1>19. CASE EmptySlot
    BY <1>19, JsAdvances
    DEF EmptySlot, At, Follows
  <1>20. CASE DropRx
    BY <1>20, JsAdvances
    DEF DropRx, At, threadRest, Follows
  <1>21. CASE SetFinished
    BY <1>21, JsAdvances
    DEF SetFinished, At, readHalf, threadRest, Follows
  <1>22. CASE DropTx
    BY <1>22, JsAdvances
    DEF DropTx, At, readHalf, threadRest, Follows
  <1>23. CASE Control
    BY <1>23, JsAdvances
    DEF Control, At, readHalf, threadRest, EnsureTx, SendCtrl, Usable, Follows
  <1>24. CASE Finalize
    BY <1>24
    DEF Finalize, Free, InFlight
  <1> QED
    BY <1>1, <1>2, <1>3, <1>4, <1>5, <1>6, <1>7, <1>8, <1>9, <1>10, <1>11, <1>12, <1>13, <1>14, <1>15,
       <1>16, <1>17, <1>18, <1>19, <1>20, <1>21, <1>22, <1>23, <1>24
    DEF PeerStep, BridgeStep, SinkStep, StopStep, BothHalves

\* A read that is told of a reset drops the stream or latches the reset.
LEMMA ReportedReads ==
    ASSUME ReadTypes, OneOwner, Reported, NEW r \in Readers, ReadStep(r)
    PROVE  Reported'
  <1> USE NamesAssumption DEF gate, wakes, bridges, net, thread, ReadTypes, OneOwner, Owner, Reported
  <1>1. ASSUME NEW batch \in Batches, ReadStart(r, batch)
        PROVE  Reported'
    BY <1>1, StartMoves
    DEF ReadSteps, Outcomes, Codes
  <1>2. CASE CheckLatch(r)
    BY <1>2, Goes, Returns
    DEF CheckLatch, Moved, ReadSteps, Outcomes, Codes
  <1>3. CASE begin_direct_read(r)
    BY <1>3, Goes
    DEF begin_direct_read, Cas, Moved, ReadSteps, Outcomes, Codes
  <1>4. CASE TakeSlot(r)
    BY <1>4, Goes
    DEF TakeSlot, Cas, Moved, ReadSteps, Outcomes, Codes
  <1>5. CASE CheckAborted(r)
    BY <1>5, Goes, Returns
    DEF CheckAborted, DropStream, Cas, Moved, ReadSteps, Outcomes, Codes
  <1>6. CASE EnrollDirect(r)
    BY <1>6, Goes
    DEF EnrollDirect, Moved, ReadSteps, Outcomes, Codes
  <1>7. CASE DirectChunk(r)
    BY <1>7, Goes, Returns
    DEF DirectChunk, Leave, DropStream, Cas, Moved, ReadSteps, Outcomes, Codes
  <1>8. CASE DirectEnd(r)
    BY <1>8, Returns
    DEF DirectEnd, Leave, DropStream, Cas, Verdict, AtEnd, Moved, ReadSteps, Outcomes, Codes
  <1>9. CASE DirectAborted(r)
    BY <1>9, Returns
    DEF DirectAborted, Leave, DropStream, Cas, Moved, ReadSteps, Outcomes, Codes
  <1>10. CASE Reserve(r)
    BY <1>10, ReserveMoves
    DEF DropStream, Cas, Moved, ReadSteps, Outcomes, Codes
  <1>11. CASE Recheck(r)
    BY <1>11, Goes, Returns
    DEF Recheck, DropStream, Cas, Moved, ReadSteps, Outcomes, Codes
  <1>12. CASE BatchLoop(r)
    BY <1>12, BatchMoves
    DEF AtEnd, Verdict, Moved, ReadSteps, Outcomes, Codes
  <1>13. CASE Park(r)
    BY <1>13, Goes, Returns
    DEF Park, DropStream, Cas, Delivered, Moved, ReadSteps, Outcomes, Codes
  <1>14. CASE Convert(r)
    BY <1>14, Returns
    DEF Convert, Moved, ReadSteps, Outcomes, Codes
  <1>15. CASE FallThrough(r)
    BY <1>15, Goes, Returns
    DEF FallThrough, Moved, ReadSteps, Outcomes, Codes
  <1>16. CASE HasPending(r)
    BY <1>16, Goes
    DEF HasPending, Moved, ReadSteps, Outcomes, Codes
  <1>17. CASE PermitCheck(r)
    BY <1>17, Goes, Returns
    DEF PermitCheck, Moved, ReadSteps, Outcomes, Codes
  <1>18. CASE PermitEnroll(r)
    BY <1>18, Goes
    DEF PermitEnroll, Moved, ReadSteps, Outcomes, Codes
  <1>19. CASE GetPermit(r)
    BY <1>19, Goes, Returns
    DEF GetPermit, Leave, Moved, ReadSteps, Outcomes, Codes
  <1>20. CASE Migrate(r)
    BY <1>20, Goes
    DEF Migrate, Moved, ReadSteps, Outcomes, Codes
  <1>21. CASE SetRx(r)
    BY <1>21, Goes
    DEF SetRx, Moved, ReadSteps, Outcomes, Codes
  <1>22. CASE SetStop(r)
    BY <1>22, Goes
    DEF SetStop, Moved, ReadSteps, Outcomes, Codes
  <1>23. CASE mark_bridged(r)
    BY <1>23, Goes
    DEF mark_bridged, Moved, ReadSteps, Outcomes, Codes
  <1>24. CASE LookRx(r)
    BY <1>24, Goes, Returns
    DEF LookRx, Moved, ReadSteps, Outcomes, Codes
  <1>25. CASE LockRx(r)
    BY <1>25, Goes
    DEF LockRx, Moved, ReadSteps, Outcomes, Codes
  <1>26. CASE CheckBridge(r)
    BY <1>26, Goes, Returns, LeavesRx
    DEF CheckBridge, Moved, ReadSteps, Outcomes, Codes
  <1>27. CASE RecvData(r)
    <2>1. UNCHANGED <<told, where, latch>>
      BY <1>27, RecvMoves
    <2> QED
      BY <2>1
  <1>28. CASE RecvEnd(r)
    BY <1>28, Returns, LeavesRx
    DEF RecvEnd, Moved, ReadSteps, Outcomes, Codes
  <1>29. CASE RecvAborted(r)
    BY <1>29, Returns, LeavesRx
    DEF RecvAborted, Moved, ReadSteps, Outcomes, Codes
  <1> QED
    BY <1>1, <1>2, <1>3, <1>4, <1>5, <1>6, <1>7, <1>8, <1>9, <1>10, <1>11, <1>12, <1>13, <1>14, <1>15,
       <1>16, <1>17, <1>18, <1>19, <1>20, <1>21, <1>22, <1>23, <1>24, <1>25, <1>26, <1>27, <1>28, <1>29
    DEF ReadStep, DirectStep, BridgeLaneStep

\* The bridge and the sink drop the stream.
LEMMA ReportedOthers ==
    ASSUME ReadTypes, OneOwner, Reported, PeerStep \/ BridgeStep \/ SinkStep \/ StopStep \/ BothHalves
    PROVE  Reported'
  <1> USE NamesAssumption DEF gate, wakes, bridges, net, thread, ReadTypes, OneOwner, Owner, Reported
  <1>1. ASSUME NEW oversized \in BOOLEAN, PeerSends(oversized)
        PROVE  Reported'
    BY <1>1
    DEF PeerSends
  <1>2. ASSUME NEW how \in {"fin", "reset", "lost"}, PeerEnds(how)
        PROVE  Reported'
    BY <1>2
    DEF PeerEnds
  <1>3. CASE OthersBridge
    BY <1>3
    DEF OthersBridge
  <1>4. CASE BridgeReads
    BY <1>4
    DEF BridgeReads, BridgeEnds, AtEnd, Verdict, bridgeRest
  <1>5. CASE BridgeReserves
    BY <1>5
    DEF BridgeReserves, BridgeEnds, bridgeRest
  <1>6. CASE BridgeSends
    BY <1>6
    DEF BridgeSends, BridgeEnds, ReceiverGone, bridgeRest
  <1>7. CASE BridgeStops
    BY <1>7
    DEF BridgeStops, BridgeEnds, Stopped, bridgeRest
  <1>8. CASE OpenSink
    BY <1>8
    DEF OpenSink, Free, JsGoto
  <1>9. CASE SinkTakes
    BY <1>9
    DEF SinkTakes, JsGoto, JsFree, threadRest
  <1>10. CASE SinkRollsBack
    BY <1>10
    DEF SinkRollsBack, Cas, JsFree, threadRest
  <1>11. CASE SinkOpens
    BY <1>11
    DEF SinkOpens, JsFree, threadRest
  <1>12. CASE SinkReads
    BY <1>12
    DEF SinkReads
  <1>13. CASE SinkEnds
    BY <1>13
    DEF SinkEnds, AtEnd
  <1>14. ASSUME NEW call \in JsCalls, Call(call)
        PROVE  Reported'
    BY <1>14, CallDoes
    DEF Call, Free, JsGoto
  <1>15. CASE mark_consumed
    BY <1>15, JsAdvances
    DEF mark_consumed, At, threadRest, Follows
  <1>16. CASE abort_read
    BY <1>16, JsAdvances
    DEF abort_read, At, Follows
  <1>17. CASE NotifyAbort
    BY <1>17, JsAdvances
    DEF NotifyAbort, At, threadRest, Follows
  <1>18. CASE FireStop
    BY <1>18, JsAdvances
    DEF FireStop, At, JsFree, threadRest, Follows
  <1>19. CASE EmptySlot
    BY <1>19, JsAdvances
    DEF EmptySlot, At, Follows
  <1>20. CASE DropRx
    BY <1>20, JsAdvances
    DEF DropRx, At, threadRest, Follows
  <1>21. CASE SetFinished
    BY <1>21, JsAdvances
    DEF SetFinished, At, readHalf, threadRest, Follows
  <1>22. CASE DropTx
    BY <1>22, JsAdvances
    DEF DropTx, At, readHalf, threadRest, Follows
  <1>23. CASE Control
    BY <1>23, JsAdvances
    DEF Control, At, readHalf, threadRest, EnsureTx, SendCtrl, Usable, Follows
  <1>24. CASE Finalize
    BY <1>24
    DEF Finalize, Free
  <1> QED
    BY <1>1, <1>2, <1>3, <1>4, <1>5, <1>6, <1>7, <1>8, <1>9, <1>10, <1>11, <1>12, <1>13, <1>14, <1>15,
       <1>16, <1>17, <1>18, <1>19, <1>20, <1>21, <1>22, <1>23, <1>24
    DEF PeerStep, BridgeStep, SinkStep, StopStep, BothHalves

\* The read that spawns the bridge completes it.
LEMMA BuiltReads ==
    ASSUME ReadTypes, Built, OneOwner, NEW r \in Readers, ReadStep(r)
    PROVE  Built'
  <1> USE DEF gate, wakes, bridges, net, thread, ReadTypes, Built, Building, UsesRx
  <1>1. ASSUME NEW batch \in Batches, ReadStart(r, batch)
        PROVE  Built'
    BY <1>1, StartMoves
    DEF ReadSteps, Outcomes, Codes
  <1>2. CASE CheckLatch(r)
    BY <1>2, Goes, Returns
    DEF CheckLatch, Moved, ReadSteps, Outcomes, Codes
  <1>3. CASE begin_direct_read(r)
    BY <1>3, Goes
    DEF begin_direct_read, Cas, Moved, ReadSteps, Outcomes, Codes
  <1>4. CASE TakeSlot(r)
    BY <1>4, Goes
    DEF TakeSlot, Cas, Moved, ReadSteps, Outcomes, Codes
  <1>5. CASE CheckAborted(r)
    BY <1>5, Goes, Returns
    DEF CheckAborted, DropStream, Cas, Moved, ReadSteps, Outcomes, Codes
  <1>6. CASE EnrollDirect(r)
    BY <1>6, Goes
    DEF EnrollDirect, Moved, ReadSteps, Outcomes, Codes
  <1>7. CASE DirectChunk(r)
    BY <1>7, Goes, Returns
    DEF DirectChunk, Leave, DropStream, Cas, Moved, ReadSteps, Outcomes, Codes
  <1>8. CASE DirectEnd(r)
    BY <1>8, Returns
    DEF DirectEnd, Leave, DropStream, Cas, Verdict, AtEnd, Moved, ReadSteps, Outcomes, Codes
  <1>9. CASE DirectAborted(r)
    BY <1>9, Returns
    DEF DirectAborted, Leave, DropStream, Cas, Moved, ReadSteps, Outcomes, Codes
  <1>10. CASE Reserve(r)
    BY <1>10, ReserveMoves
    DEF DropStream, Cas, Moved, ReadSteps, Outcomes, Codes
  <1>11. CASE Recheck(r)
    BY <1>11, Goes, Returns
    DEF Recheck, DropStream, Cas, Moved, ReadSteps, Outcomes, Codes
  <1>12. CASE BatchLoop(r)
    BY <1>12, BatchMoves
    DEF AtEnd, Verdict, Moved, ReadSteps, Outcomes, Codes
  <1>13. CASE Park(r)
    BY <1>13, Goes, Returns
    DEF Park, DropStream, Cas, Delivered, Moved, ReadSteps, Outcomes, Codes
  <1>14. CASE Convert(r)
    BY <1>14, Returns
    DEF Convert, Moved, ReadSteps, Outcomes, Codes
  <1>15. CASE FallThrough(r)
    BY <1>15, Goes, Returns
    DEF FallThrough, Moved, ReadSteps, Outcomes, Codes
  <1>16. CASE HasPending(r)
    BY <1>16, Goes
    DEF HasPending, Moved, ReadSteps, Outcomes, Codes
  <1>17. CASE PermitCheck(r)
    BY <1>17, Goes, Returns
    DEF PermitCheck, Moved, ReadSteps, Outcomes, Codes
  <1>18. CASE PermitEnroll(r)
    BY <1>18, Goes
    DEF PermitEnroll, Moved, ReadSteps, Outcomes, Codes
  <1>19. CASE GetPermit(r)
    BY <1>19, Goes, Returns
    DEF GetPermit, Leave, Moved, ReadSteps, Outcomes, Codes
  <1>20. CASE Migrate(r)
    BY <1>20, Goes
    DEF Migrate, Moved, ReadSteps, Outcomes, Codes
  <1>21. CASE SetRx(r)
    BY <1>21, Goes
    DEF SetRx, Moved, ReadSteps, Outcomes, Codes
  <1>22. CASE SetStop(r)
    BY <1>22, Goes
    DEF SetStop, Moved, ReadSteps, Outcomes, Codes
  <1>23. CASE mark_bridged(r)
    BY <1>23, Goes
    DEF mark_bridged, Moved, ReadSteps, Outcomes, Codes
  <1>24. CASE LookRx(r)
    BY <1>24, Goes, Returns
    DEF LookRx, Moved, ReadSteps, Outcomes, Codes
  <1>25. CASE LockRx(r)
    BY <1>25, Goes
    DEF LockRx, Moved, ReadSteps, Outcomes, Codes
  <1>26. CASE CheckBridge(r)
    BY <1>26, Goes, Returns, LeavesRx
    DEF CheckBridge, Moved, ReadSteps, Outcomes, Codes
  <1>27. CASE RecvData(r)
    BY <1>27, RecvMoves, LeavesRx
    DEF Moved, ReadSteps, Outcomes, Codes
  <1>28. CASE RecvEnd(r)
    BY <1>28, Returns, LeavesRx
    DEF RecvEnd, Moved, ReadSteps, Outcomes, Codes
  <1>29. CASE RecvAborted(r)
    BY <1>29, Returns, LeavesRx
    DEF RecvAborted, Moved, ReadSteps, Outcomes, Codes
  <1> QED
    BY <1>1, <1>2, <1>3, <1>4, <1>5, <1>6, <1>7, <1>8, <1>9, <1>10, <1>11, <1>12, <1>13, <1>14, <1>15,
       <1>16, <1>17, <1>18, <1>19, <1>20, <1>21, <1>22, <1>23, <1>24, <1>25, <1>26, <1>27, <1>28, <1>29
    DEF ReadStep, DirectStep, BridgeLaneStep

\* No other step takes the parts of the bridge away.
LEMMA BuiltOthers ==
    ASSUME ReadTypes, Built, OneOwner, PeerStep \/ BridgeStep \/ SinkStep \/ StopStep \/ BothHalves
    PROVE  Built'
  <1> USE DEF gate, wakes, bridges, net, thread, ReadTypes, Built, Building, UsesRx
  <1>1. ASSUME NEW oversized \in BOOLEAN, PeerSends(oversized)
        PROVE  Built'
    BY <1>1
    DEF PeerSends
  <1>2. ASSUME NEW how \in {"fin", "reset", "lost"}, PeerEnds(how)
        PROVE  Built'
    BY <1>2
    DEF PeerEnds
  <1>3. CASE OthersBridge
    BY <1>3
    DEF OthersBridge
  <1>4. CASE BridgeReads
    BY <1>4
    DEF BridgeReads, BridgeEnds, AtEnd, Verdict, bridgeRest
  <1>5. CASE BridgeReserves
    BY <1>5
    DEF BridgeReserves, BridgeEnds, bridgeRest
  <1>6. CASE BridgeSends
    BY <1>6
    DEF BridgeSends, BridgeEnds, ReceiverGone, bridgeRest
  <1>7. CASE BridgeStops
    BY <1>7
    DEF BridgeStops, BridgeEnds, Stopped, bridgeRest
  <1>8. CASE OpenSink
    BY <1>8
    DEF OpenSink, Free, JsGoto
  <1>9. CASE SinkTakes
    BY <1>9
    DEF SinkTakes, JsGoto, JsFree, threadRest
  <1>10. CASE SinkRollsBack
    BY <1>10
    DEF SinkRollsBack, Cas, JsFree, threadRest
  <1>11. CASE SinkOpens
    BY <1>11
    DEF SinkOpens, JsFree, threadRest
  <1>12. CASE SinkReads
    BY <1>12
    DEF SinkReads
  <1>13. CASE SinkEnds
    BY <1>13
    DEF SinkEnds, AtEnd
  <1>14. ASSUME NEW call \in JsCalls, Call(call)
        PROVE  Built'
    BY <1>14, CallDoes
    DEF Call, Free, JsGoto
  <1>15. CASE mark_consumed
    BY <1>15, JsAdvances
    DEF mark_consumed, At, threadRest, Follows
  <1>16. CASE abort_read
    BY <1>16, JsAdvances
    DEF abort_read, At, Follows
  <1>17. CASE NotifyAbort
    BY <1>17, JsAdvances
    DEF NotifyAbort, At, threadRest, Follows
  <1>18. CASE FireStop
    BY <1>18, JsAdvances
    DEF FireStop, At, JsFree, threadRest, Follows
  <1>19. CASE EmptySlot
    BY <1>19, JsAdvances
    DEF EmptySlot, At, Follows
  <1>20. CASE DropRx
    BY <1>20, JsAdvances
    DEF DropRx, At, threadRest, Follows
  <1>21. CASE SetFinished
    BY <1>21, JsAdvances
    DEF SetFinished, At, readHalf, threadRest, Follows
  <1>22. CASE DropTx
    BY <1>22, JsAdvances
    DEF DropTx, At, readHalf, threadRest, Follows
  <1>23. CASE Control
    BY <1>23, JsAdvances
    DEF Control, At, readHalf, threadRest, EnsureTx, SendCtrl, Usable, Follows
  <1>24. CASE Finalize
    BY <1>24
    DEF Finalize, Free
  <1> QED
    BY <1>1, <1>2, <1>3, <1>4, <1>5, <1>6, <1>7, <1>8, <1>9, <1>10, <1>11, <1>12, <1>13, <1>14, <1>15,
       <1>16, <1>17, <1>18, <1>19, <1>20, <1>21, <1>22, <1>23, <1>24
    DEF PeerStep, BridgeStep, SinkStep, StopStep, BothHalves

\* No read changes how the bridge ended.
LEMMA CleanEndReads ==
    ASSUME ReadTypes, OneOwner, Chained, Reported, CleanEnd, NEW r \in Readers, ReadStep(r)
    PROVE  CleanEnd'
  <1> USE DEF gate, wakes, bridges, net, thread, ReadTypes, OneOwner, Reported, CleanEnd, Untouched
  <1>1. ASSUME NEW batch \in Batches, ReadStart(r, batch)
        PROVE  CleanEnd'
    BY <1>1, StartMoves
    DEF ReadSteps, Outcomes, Codes
  <1>2. CASE CheckLatch(r)
    BY <1>2, Goes, Returns
    DEF CheckLatch, Moved, ReadSteps, Outcomes, Codes
  <1>3. CASE begin_direct_read(r)
    BY <1>3, Goes
    DEF begin_direct_read, Cas, Moved, ReadSteps, Outcomes, Codes
  <1>4. CASE TakeSlot(r)
    BY <1>4, Goes
    DEF TakeSlot, Cas, Moved, ReadSteps, Outcomes, Codes
  <1>5. CASE CheckAborted(r)
    BY <1>5, Goes, Returns
    DEF CheckAborted, DropStream, Cas, Moved, ReadSteps, Outcomes, Codes
  <1>6. CASE EnrollDirect(r)
    BY <1>6, Goes
    DEF EnrollDirect, Moved, ReadSteps, Outcomes, Codes
  <1>7. CASE DirectChunk(r)
    BY <1>7, Goes, Returns
    DEF DirectChunk, Leave, DropStream, Cas, Moved, ReadSteps, Outcomes, Codes
  <1>8. CASE DirectEnd(r)
    BY <1>8, Returns
    DEF DirectEnd, Leave, DropStream, Cas, Verdict, AtEnd, Moved, ReadSteps, Outcomes, Codes
  <1>9. CASE DirectAborted(r)
    BY <1>9, Returns
    DEF DirectAborted, Leave, DropStream, Cas, Moved, ReadSteps, Outcomes, Codes
  <1>10. CASE Reserve(r)
    BY <1>10, ReserveMoves
    DEF DropStream, Cas, Moved, ReadSteps, Outcomes, Codes
  <1>11. CASE Recheck(r)
    BY <1>11, Goes, Returns
    DEF Recheck, DropStream, Cas, Moved, ReadSteps, Outcomes, Codes
  <1>12. CASE BatchLoop(r)
    <2>1. UNCHANGED <<aborted, final, bridge, errSlot, ended, arrived>>
      BY <1>12, BatchMoves
    <2>2. (latch' = "none" => latch = "none") /\ (read' = read \/ read < arrived)
      BY <1>12, BatchMoves
    <2>3. read < arrived => read # arrived
      OBVIOUS
    <2> QED
      BY <2>1, <2>2, <2>3
  <1>13. CASE Park(r)
    BY <1>13, Goes, Returns
    DEF Park, DropStream, Cas, Delivered, Moved, ReadSteps, Outcomes, Codes
  <1>14. CASE Convert(r)
    BY <1>14, Returns
    DEF Convert, Moved, ReadSteps, Outcomes, Codes
  <1>15. CASE FallThrough(r)
    BY <1>15, Goes, Returns
    DEF FallThrough, Moved, ReadSteps, Outcomes, Codes
  <1>16. CASE HasPending(r)
    BY <1>16, Goes
    DEF HasPending, Moved, ReadSteps, Outcomes, Codes
  <1>17. CASE PermitCheck(r)
    BY <1>17, Goes, Returns
    DEF PermitCheck, Moved, ReadSteps, Outcomes, Codes
  <1>18. CASE PermitEnroll(r)
    BY <1>18, Goes
    DEF PermitEnroll, Moved, ReadSteps, Outcomes, Codes
  <1>19. CASE GetPermit(r)
    BY <1>19, Goes, Returns
    DEF GetPermit, Leave, Moved, ReadSteps, Outcomes, Codes
  <1>20. CASE Migrate(r)
    BY <1>20, Goes
    DEF Migrate, Moved, ReadSteps, Outcomes, Codes
  <1>21. CASE SetRx(r)
    BY <1>21, Goes
    DEF SetRx, Moved, ReadSteps, Outcomes, Codes
  <1>22. CASE SetStop(r)
    BY <1>22, Goes
    DEF SetStop, Moved, ReadSteps, Outcomes, Codes
  <1>23. CASE mark_bridged(r)
    BY <1>23, Goes
    DEF mark_bridged, Moved, ReadSteps, Outcomes, Codes
  <1>24. CASE LookRx(r)
    BY <1>24, Goes, Returns
    DEF LookRx, Moved, ReadSteps, Outcomes, Codes
  <1>25. CASE LockRx(r)
    BY <1>25, Goes
    DEF LockRx, Moved, ReadSteps, Outcomes, Codes
  <1>26. CASE CheckBridge(r)
    BY <1>26, Goes, Returns, LeavesRx
    DEF CheckBridge, Moved, ReadSteps, Outcomes, Codes
  <1>27. CASE RecvData(r)
    BY <1>27, RecvMoves, LeavesRx
    DEF Moved, ReadSteps, Outcomes, Codes
  <1>28. CASE RecvEnd(r)
    BY <1>28, Returns, LeavesRx
    DEF RecvEnd, Moved, ReadSteps, Outcomes, Codes
  <1>29. CASE RecvAborted(r)
    BY <1>29, Returns, LeavesRx
    DEF RecvAborted, Moved, ReadSteps, Outcomes, Codes
  <1> QED
    BY <1>1, <1>2, <1>3, <1>4, <1>5, <1>6, <1>7, <1>8, <1>9, <1>10, <1>11, <1>12, <1>13, <1>14, <1>15,
       <1>16, <1>17, <1>18, <1>19, <1>20, <1>21, <1>22, <1>23, <1>24, <1>25, <1>26, <1>27, <1>28, <1>29
    DEF ReadStep, DirectStep, BridgeLaneStep

\* The bridge ends without an error only at the end of a finished stream.
LEMMA CleanEndOthers ==
    ASSUME ReadTypes, OneOwner, Chained, Reported, CleanEnd,
           PeerStep \/ BridgeStep \/ SinkStep \/ StopStep \/ BothHalves
    PROVE  CleanEnd'
  <1> USE DEF gate, wakes, bridges, net, thread, ReadTypes, OneOwner, Reported, CleanEnd, Untouched
  <1>1. ASSUME NEW oversized \in BOOLEAN, PeerSends(oversized)
        PROVE  CleanEnd'
    BY <1>1
    DEF PeerSends
  <1>2. ASSUME NEW how \in {"fin", "reset", "lost"}, PeerEnds(how)
        PROVE  CleanEnd'
    BY <1>2
    DEF PeerEnds
  <1>3. CASE OthersBridge
    BY <1>3
    DEF OthersBridge
  <1>4. CASE BridgeReads
    BY <1>4
    DEF BridgeReads, BridgeEnds, AtEnd, Verdict, bridgeRest
  <1>5. CASE BridgeReserves
    BY <1>5
    DEF BridgeReserves, BridgeEnds, bridgeRest
  <1>6. CASE BridgeSends
    BY <1>6, GoneIsTouched
    DEF BridgeSends, BridgeEnds, ReceiverGone, bridgeRest
  <1>7. CASE BridgeStops
    BY <1>7, GoneIsTouched
    DEF BridgeStops, BridgeEnds, Stopped, bridgeRest
  <1>8. CASE OpenSink
    BY <1>8
    DEF OpenSink, Free, JsGoto
  <1>9. CASE SinkTakes
    BY <1>9
    DEF SinkTakes, JsGoto, JsFree, threadRest
  <1>10. CASE SinkRollsBack
    BY <1>10
    DEF SinkRollsBack, Cas, JsFree, threadRest
  <1>11. CASE SinkOpens
    BY <1>11
    DEF SinkOpens, JsFree, threadRest
  <1>12. CASE SinkReads
    BY <1>12
    DEF SinkReads
  <1>13. CASE SinkEnds
    BY <1>13
    DEF SinkEnds, AtEnd
  <1>14. ASSUME NEW call \in JsCalls, Call(call)
        PROVE  CleanEnd'
    BY <1>14, CallDoes
    DEF Call, Free, JsGoto
  <1>15. CASE mark_consumed
    BY <1>15, JsAdvances
    DEF mark_consumed, At, threadRest, Follows
  <1>16. CASE abort_read
    BY <1>16, JsAdvances
    DEF abort_read, At, Follows
  <1>17. CASE NotifyAbort
    BY <1>17, JsAdvances
    DEF NotifyAbort, At, threadRest, Follows
  <1>18. CASE FireStop
    BY <1>18, JsAdvances
    DEF FireStop, At, JsFree, threadRest, Follows
  <1>19. CASE EmptySlot
    BY <1>19, JsAdvances
    DEF EmptySlot, At, Follows
  <1>20. CASE DropRx
    BY <1>20, JsAdvances
    DEF DropRx, At, threadRest, Follows
  <1>21. CASE SetFinished
    BY <1>21, JsAdvances
    DEF SetFinished, At, readHalf, threadRest, Follows
  <1>22. CASE DropTx
    BY <1>22, JsAdvances
    DEF DropTx, At, readHalf, threadRest, Follows
  <1>23. CASE Control
    BY <1>23, JsAdvances
    DEF Control, At, readHalf, threadRest, EnsureTx, SendCtrl, Usable, Follows
  <1>24. CASE Finalize
    BY <1>24
    DEF Finalize, Free
  <1> QED
    BY <1>1, <1>2, <1>3, <1>4, <1>5, <1>6, <1>7, <1>8, <1>9, <1>10, <1>11, <1>12, <1>13, <1>14, <1>15,
       <1>16, <1>17, <1>18, <1>19, <1>20, <1>21, <1>22, <1>23, <1>24
    DEF PeerStep, BridgeStep, SinkStep, StopStep, BothHalves

\* No step takes back what was handed over, or the end of the stream.
Lasts ==
    /\ delivered' >= delivered /\ (aborted => aborted')
    /\ ended # "open" => ended' = ended /\ arrived' = arrived

\* An end of stream that was honest stays so.
LEMMA EofLasts ==
    ASSUME ReadTypes, ReadTypes', Conserved', Lasts, NEW q \in Readers,
           rd[q].out = "eof" /\ rd[q].alone /\ ~aborted => ended = "fin" /\ delivered = arrived,
           rd'[q].out = "eof" /\ rd'[q].alone => rd[q].out = "eof" /\ rd[q].alone
    PROVE  rd'[q].out = "eof" /\ rd'[q].alone /\ ~aborted' => ended' = "fin" /\ delivered' = arrived'
  <1> SUFFICES ASSUME rd'[q].out = "eof", rd'[q].alone, ~aborted'
               PROVE  ended' = "fin" /\ delivered' = arrived'
    OBVIOUS
  <1>1. ended = "fin" /\ delivered = arrived
    BY DEF Lasts
  <1>2. ended' = "fin" /\ arrived' = arrived /\ delivered' >= delivered
    BY <1>1 DEF Lasts
  <1>3. delivered' <= read'
    <2>1. delivered' + InReads(rd') + chan' + Pending' <= read'
      BY DEF Conserved
    <2>2. InReads(rd') \in Nat /\ chan' \in Nat /\ Pending' \in Nat /\ delivered' \in Nat /\ read' \in Nat
      BY HeldNat DEF ReadTypes, Pending
    <2> QED
      BY <2>1, <2>2
  <1>4. read' <= arrived' /\ read' \in Nat /\ arrived' \in Nat /\ delivered' \in Nat
    BY DEF ReadTypes
  <1> QED
    BY <1>1, <1>2, <1>3, <1>4

\* No read takes back what was handed over.
LEMMA ReadsLast ==
    ASSUME ReadTypes, ReadTypes', NEW r \in Readers, ReadStep(r)
    PROVE  Lasts
  <1> USE DEF gate, wakes, bridges, net, thread, ReadTypes, Lasts
  <1>1. ASSUME NEW batch \in Batches, ReadStart(r, batch)
        PROVE  Lasts
    BY <1>1, StartMoves
  <1>2. CASE CheckLatch(r)
    BY <1>2
    DEF CheckLatch
  <1>3. CASE begin_direct_read(r)
    BY <1>3
    DEF begin_direct_read, Cas
  <1>4. CASE TakeSlot(r)
    BY <1>4
    DEF TakeSlot, Cas
  <1>5. CASE CheckAborted(r)
    BY <1>5
    DEF CheckAborted, DropStream, Cas
  <1>6. CASE EnrollDirect(r)
    BY <1>6
    DEF EnrollDirect
  <1>7. CASE DirectChunk(r)
    BY <1>7
    DEF DirectChunk, Leave, DropStream, Cas
  <1>8. CASE DirectEnd(r)
    BY <1>8
    DEF DirectEnd, Leave, DropStream, Cas, Verdict, AtEnd
  <1>9. CASE DirectAborted(r)
    BY <1>9
    DEF DirectAborted, Leave, DropStream, Cas
  <1>10. CASE Reserve(r)
    BY <1>10, ReserveMoves
    DEF DropStream, Cas
  <1>11. CASE Recheck(r)
    BY <1>11
    DEF Recheck, DropStream, Cas
  <1>12. CASE BatchLoop(r)
    <2>1. UNCHANGED <<delivered, aborted, ended, arrived>>
      BY <1>12, BatchMoves
    <2> QED
      BY <2>1
  <1>13. CASE Park(r)
    BY <1>13
    DEF Park, DropStream, Cas, Delivered
  <1>14. CASE Convert(r)
    BY <1>14
    DEF Convert, ReadStates
  <1>15. CASE FallThrough(r)
    BY <1>15
    DEF FallThrough
  <1>16. CASE HasPending(r)
    BY <1>16
    DEF HasPending
  <1>17. CASE PermitCheck(r)
    BY <1>17
    DEF PermitCheck
  <1>18. CASE PermitEnroll(r)
    BY <1>18
    DEF PermitEnroll
  <1>19. CASE GetPermit(r)
    BY <1>19
    DEF GetPermit, Leave
  <1>20. CASE Migrate(r)
    BY <1>20
    DEF Migrate
  <1>21. CASE SetRx(r)
    BY <1>21
    DEF SetRx
  <1>22. CASE SetStop(r)
    BY <1>22
    DEF SetStop
  <1>23. CASE mark_bridged(r)
    BY <1>23
    DEF mark_bridged
  <1>24. CASE LookRx(r)
    BY <1>24
    DEF LookRx
  <1>25. CASE LockRx(r)
    BY <1>25
    DEF LockRx
  <1>26. CASE CheckBridge(r)
    BY <1>26
    DEF CheckBridge
  <1>27. CASE RecvData(r)
    BY <1>27, RecvMoves
  <1>28. CASE RecvEnd(r)
    BY <1>28
    DEF RecvEnd
  <1>29. CASE RecvAborted(r)
    BY <1>29
    DEF RecvAborted
  <1> QED
    BY <1>1, <1>2, <1>3, <1>4, <1>5, <1>6, <1>7, <1>8, <1>9, <1>10, <1>11, <1>12, <1>13, <1>14, <1>15,
       <1>16, <1>17, <1>18, <1>19, <1>20, <1>21, <1>22, <1>23, <1>24, <1>25, <1>26, <1>27, <1>28, <1>29
    DEF ReadStep, DirectStep, BridgeLaneStep

\* Nor does any other step.
LEMMA OthersLast ==
    ASSUME ReadTypes, ReadTypes', PeerStep \/ BridgeStep \/ SinkStep \/ StopStep \/ BothHalves
    PROVE  Lasts /\ rd' = rd
  <1> USE DEF gate, wakes, bridges, net, thread, ReadTypes, Lasts
  <1>1. ASSUME NEW oversized \in BOOLEAN, PeerSends(oversized)
        PROVE  Lasts /\ rd' = rd
    BY <1>1
    DEF PeerSends
  <1>2. ASSUME NEW how \in {"fin", "reset", "lost"}, PeerEnds(how)
        PROVE  Lasts /\ rd' = rd
    BY <1>2
    DEF PeerEnds
  <1>3. CASE OthersBridge
    BY <1>3
    DEF OthersBridge
  <1>4. CASE BridgeReads
    BY <1>4
    DEF BridgeReads, BridgeEnds, AtEnd, Verdict, bridgeRest
  <1>5. CASE BridgeReserves
    BY <1>5
    DEF BridgeReserves, BridgeEnds, bridgeRest
  <1>6. CASE BridgeSends
    BY <1>6
    DEF BridgeSends, BridgeEnds, ReceiverGone, bridgeRest
  <1>7. CASE BridgeStops
    BY <1>7
    DEF BridgeStops, BridgeEnds, Stopped, bridgeRest
  <1>8. CASE OpenSink
    BY <1>8
    DEF OpenSink, Free, JsGoto
  <1>9. CASE SinkTakes
    BY <1>9
    DEF SinkTakes, JsGoto, JsFree, threadRest
  <1>10. CASE SinkRollsBack
    BY <1>10
    DEF SinkRollsBack, Cas, JsFree, threadRest
  <1>11. CASE SinkOpens
    BY <1>11
    DEF SinkOpens, JsFree, threadRest
  <1>12. CASE SinkReads
    BY <1>12
    DEF SinkReads
  <1>13. CASE SinkEnds
    BY <1>13
    DEF SinkEnds, AtEnd
  <1>14. ASSUME NEW call \in JsCalls, Call(call)
        PROVE  Lasts /\ rd' = rd
    BY <1>14
    DEF Call, Free, JsGoto
  <1>15. CASE mark_consumed
    BY <1>15
    DEF mark_consumed, At, threadRest
  <1>16. CASE abort_read
    BY <1>16
    DEF abort_read, At
  <1>17. CASE NotifyAbort
    BY <1>17
    DEF NotifyAbort, At, threadRest
  <1>18. CASE FireStop
    BY <1>18
    DEF FireStop, At, JsFree, threadRest
  <1>19. CASE EmptySlot
    BY <1>19
    DEF EmptySlot, At
  <1>20. CASE DropRx
    BY <1>20
    DEF DropRx, At, threadRest
  <1>21. CASE SetFinished
    BY <1>21
    DEF SetFinished, At, readHalf, threadRest
  <1>22. CASE DropTx
    BY <1>22
    DEF DropTx, At, readHalf, threadRest
  <1>23. CASE Control
    BY <1>23
    DEF Control, At, readHalf, threadRest, EnsureTx, SendCtrl, Usable
  <1>24. CASE Finalize
    BY <1>24
    DEF Finalize, Free
  <1> QED
    BY <1>1, <1>2, <1>3, <1>4, <1>5, <1>6, <1>7, <1>8, <1>9, <1>10, <1>11, <1>12, <1>13, <1>14, <1>15,
       <1>16, <1>17, <1>18, <1>19, <1>20, <1>21, <1>22, <1>23, <1>24
    DEF PeerStep, BridgeStep, SinkStep, StopStep, BothHalves

\* A read that finds the end of the stream with nobody beside it holds
\* nothing, and nothing is on its way.
LEMMA NothingLeft ==
    ASSUME ReadTypes, Hands, Solo, Conserved, Whole, chan = 0, bridge \notin {"reserve", "send"},
           NEW r \in Readers, rd[r].alone, rd[r].pc \in {"read", "recv"}
    PROVE  delivered = read
  <1>1. \A q \in Readers : rd[q].pc = "idle" \/ q = r
    BY DEF Solo
  <1>2. \A q \in Readers : rd[q].held = 0 /\ rd[q].pc # "reserve"
    BY <1>1 DEF Hands
  <1>3. InReads(rd) = 0
    BY <1>2, NothingHeld DEF ReadTypes
  <1>4. Pending = 0
    BY <1>2 DEF Pending
  <1>5. read = delivered + InReads(rd) + chan + Pending /\ delivered \in Nat
    BY DEF Conserved, ReadTypes
  <1> QED
    BY <1>3, <1>4, <1>5

\* The direct lane reports a clean end honestly.
LEMMA DirectEndHonest ==
    ASSUME ReadTypes, OneOwner, Hands, Solo, Reported, Built, Conserved, NEW r \in Readers, DirectEnd(r),
           rd[r].alone, ~aborted, Verdict = "eof"
    PROVE  ended = "fin" /\ delivered = arrived
  <1>1. rd[r].pc = "read" /\ AtEnd /\ where = r /\ r \notin {"none", "bridge"}
    BY NamesAssumption DEF DirectEnd, OneOwner, Owner
  <1>2. latch = "none" /\ ~final
    BY <1>1 DEF Solo
  <1>3. ~told
    BY <1>1, <1>2 DEF Reported
  <1>4. ended = "fin" /\ read = arrived
    BY <1>1, <1>3 DEF Verdict, AtEnd, ReadTypes
  <1>5. bridge = "none" /\ chan = 0 /\ Whole
    BY <1>1, <1>2 DEF OneOwner, Built, Whole, Untouched
  <1>6. delivered = read
    BY <1>1, <1>5, NothingLeft
  <1> QED
    BY <1>4, <1>6

\* So does the bridge lane.
LEMMA RecvEndHonest ==
    ASSUME ReadTypes, Hands, Solo, Built, CleanEnd, Conserved, NEW r \in Readers, RecvEnd(r),
           rd[r].alone, ~aborted, ~(errSet /\ errSlot # "none")
    PROVE  ended = "fin" /\ delivered = arrived
  <1>1. rd[r].pc = "recv" /\ chan = 0 /\ bridge = "done"
    BY DEF RecvEnd
  <1>2. latch = "none" /\ ~final
    BY <1>1 DEF Solo
  <1>3. errSet
    BY <1>1 DEF Solo, Built, Building
  <1>4. errSlot = "none" /\ Whole /\ Untouched
    BY <1>1, <1>2, <1>3 DEF Whole, Untouched
  <1>5. ended = "fin" /\ read = arrived
    BY <1>1, <1>2, <1>4 DEF CleanEnd
  <1>6. delivered = read
    BY <1>1, <1>4, NothingLeft
  <1> QED
    BY <1>5, <1>6

\* Read r gives a new answer, honestly, or the answers are the ones there were.
Holds(r) ==
    /\ \A q \in Readers : q # r => rd'[q].out = rd[q].out /\ (rd'[q].alone => rd[q].alone)
    /\ \/ rd'[r].out # "eof"
       \/ rd'[r].out = rd[r].out /\ (rd'[r].alone => rd[r].alone)
       \/ rd'[r].out = "eof" /\ rd'[r].alone /\ ~aborted' => ended' = "fin" /\ delivered' = arrived'

\* The verdict on the end of the stream is an outcome of a read.
LEMMA VerdictType == ReadTypes => Verdict \in Outcomes
  BY DEF ReadTypes, Verdict, Outcomes, Codes

\* The answers of the reads are honest.
LEMMA ReadsHold ==
    ASSUME ReadTypes, OneOwner, Hands, Solo, Reported, Built, CleanEnd, Conserved, NEW r \in Readers,
           ReadStep(r)
    PROVE  Holds(r)
  <1> USE DEF ReadTypes, Holds
  <1>1. ASSUME NEW batch \in Batches, ReadStart(r, batch)
        PROVE  Holds(r)
    BY <1>1, StartMoves
    DEF ReadSteps, Outcomes, Codes
  <1>2. CASE CheckLatch(r)
    BY <1>2, Goes, Returns
    DEF CheckLatch, Moved, ReadSteps, Outcomes, Codes
  <1>3. CASE begin_direct_read(r)
    BY <1>3, Goes
    DEF begin_direct_read, Cas, Moved, ReadSteps, Outcomes, Codes
  <1>4. CASE TakeSlot(r)
    BY <1>4, Goes
    DEF TakeSlot, Cas, Moved, ReadSteps, Outcomes, Codes
  <1>5. CASE CheckAborted(r)
    BY <1>5, Goes, Returns
    DEF CheckAborted, DropStream, Cas, Moved, ReadSteps, Outcomes, Codes
  <1>6. CASE EnrollDirect(r)
    BY <1>6, Goes
    DEF EnrollDirect, Moved, ReadSteps, Outcomes, Codes
  <1>7. CASE DirectChunk(r)
    BY <1>7, Goes, Returns
    DEF DirectChunk, Leave, DropStream, Cas, Moved, ReadSteps, Outcomes, Codes
  <1>8. CASE DirectEnd(r)
    <2>1. /\ Moved(r, "idle", 0, Verdict) /\ UNCHANGED <<ended, arrived, delivered, aborted>>
      BY <1>8, Returns, VerdictType DEF DirectEnd, ReadTypes, net, thread
    <2>2. rd'[r].out = "eof" /\ rd'[r].alone /\ ~aborted' => ended' = "fin" /\ delivered' = arrived'
      BY <1>8, <2>1, DirectEndHonest DEF Moved
    <2> QED
      BY <2>1, <2>2 DEF Moved, Holds
  <1>9. CASE DirectAborted(r)
    BY <1>9, Returns
    DEF DirectAborted, Leave, DropStream, Cas, Moved, ReadSteps, Outcomes, Codes
  <1>10. CASE Reserve(r)
    BY <1>10, ReserveMoves
    DEF DropStream, Cas, Moved, ReadSteps, Outcomes, Codes
  <1>11. CASE Recheck(r)
    BY <1>11, Goes, Returns
    DEF Recheck, DropStream, Cas, Moved, ReadSteps, Outcomes, Codes
  <1>12. CASE BatchLoop(r)
    BY <1>12, BatchMoves
    DEF AtEnd, Verdict, Moved, ReadSteps, Outcomes, Codes
  <1>13. CASE Park(r)
    BY <1>13, Goes, Returns
    DEF Park, DropStream, Cas, Delivered, Moved, ReadSteps, Outcomes, Codes
  <1>14. CASE Convert(r)
    BY <1>14, Returns
    DEF Convert, Moved, ReadSteps, Outcomes, Codes
  <1>15. CASE FallThrough(r)
    BY <1>15, Goes, Returns
    DEF FallThrough, Moved, ReadSteps, Outcomes, Codes
  <1>16. CASE HasPending(r)
    BY <1>16, Goes
    DEF HasPending, Moved, ReadSteps, Outcomes, Codes
  <1>17. CASE PermitCheck(r)
    BY <1>17, Goes, Returns
    DEF PermitCheck, Moved, ReadSteps, Outcomes, Codes
  <1>18. CASE PermitEnroll(r)
    BY <1>18, Goes
    DEF PermitEnroll, Moved, ReadSteps, Outcomes, Codes
  <1>19. CASE GetPermit(r)
    BY <1>19, Goes, Returns
    DEF GetPermit, Leave, Moved, ReadSteps, Outcomes, Codes
  <1>20. CASE Migrate(r)
    BY <1>20, Goes
    DEF Migrate, Moved, ReadSteps, Outcomes, Codes
  <1>21. CASE SetRx(r)
    BY <1>21, Goes
    DEF SetRx, Moved, ReadSteps, Outcomes, Codes
  <1>22. CASE SetStop(r)
    BY <1>22, Goes
    DEF SetStop, Moved, ReadSteps, Outcomes, Codes
  <1>23. CASE mark_bridged(r)
    BY <1>23, Goes
    DEF mark_bridged, Moved, ReadSteps, Outcomes, Codes
  <1>24. CASE LookRx(r)
    BY <1>24, Goes, Returns
    DEF LookRx, Moved, ReadSteps, Outcomes, Codes
  <1>25. CASE LockRx(r)
    BY <1>25, Goes
    DEF LockRx, Moved, ReadSteps, Outcomes, Codes
  <1>26. CASE CheckBridge(r)
    BY <1>26, Goes, Returns
    DEF CheckBridge, Moved, ReadSteps, Outcomes, Codes
  <1>27. CASE RecvData(r)
    BY <1>27, RecvMoves
    DEF Moved, ReadSteps, Outcomes, Codes
  <1>28. CASE RecvEnd(r)
    <2>1. PICK o \in {errSlot, "eof"} :
            /\ Moved(r, "idle", 0, o) /\ (o = "eof" => ~(errSet /\ errSlot # "none"))
      <3>1. CASE errSet /\ errSlot # "none"
        <4>1. Return(r, errSlot) /\ errSlot \in Outcomes /\ errSlot # "eof"
          BY <1>28, <3>1 DEF RecvEnd, ReadTypes, Outcomes, Codes
        <4>2. Moved(r, "idle", 0, errSlot)
          BY <4>1, Returns DEF ReadTypes
        <4> QED
          BY <4>1, <4>2
      <3>2. CASE ~(errSet /\ errSlot # "none")
        <4>1. Return(r, "eof") /\ "eof" \in Outcomes
          BY <1>28, <3>2 DEF RecvEnd, Outcomes
        <4>2. Moved(r, "idle", 0, "eof")
          BY <4>1, Returns DEF ReadTypes
        <4> QED
          BY <3>2, <4>2
      <3> QED
        BY <3>1, <3>2
    <2>2. UNCHANGED <<ended, arrived, delivered, aborted>>
      BY <1>28 DEF RecvEnd, net, thread
    <2>3. rd'[r].out = "eof" /\ rd'[r].alone /\ ~aborted' => ended' = "fin" /\ delivered' = arrived'
      BY <1>28, <2>1, <2>2, RecvEndHonest DEF Moved
    <2> QED
      BY <2>1, <2>3 DEF Moved, Holds
  <1>29. CASE RecvAborted(r)
    BY <1>29, Returns
    DEF RecvAborted, Moved, ReadSteps, Outcomes, Codes
  <1> QED
    BY <1>1, <1>2, <1>3, <1>4, <1>5, <1>6, <1>7, <1>8, <1>9, <1>10, <1>11, <1>12, <1>13, <1>14, <1>15,
       <1>16, <1>17, <1>18, <1>19, <1>20, <1>21, <1>22, <1>23, <1>24, <1>25, <1>26, <1>27, <1>28, <1>29
    DEF ReadStep, DirectStep, BridgeLaneStep

\* A clean end is never reported falsely.
LEMMA EofKept ==
    ASSUME ReadTypes, ReadTypes', OneOwner, Hands, Solo, Reported, Built, CleanEnd, Conserved, Conserved',
           NoFalseEof, Next
    PROVE  NoFalseEof'
  <1> SUFFICES ASSUME NEW q \in Readers
               PROVE  rd'[q].out = "eof" /\ rd'[q].alone /\ ~aborted' => ended' = "fin" /\ delivered' = arrived'
    BY DEF NoFalseEof
  <1>1. rd[q].out = "eof" /\ rd[q].alone /\ ~aborted => ended = "fin" /\ delivered = arrived
    BY DEF NoFalseEof
  <1>2. CASE WriteSide
    <2>1. UNCHANGED <<rd, delivered, aborted, ended, arrived>>
      BY <1>2, WriteSideFrame DEF readHalf, thread, net
    <2> QED
      BY <1>1, <2>1
  <1>3. CASE \E r \in Readers : ReadStep(r)
    <2>1. PICK r \in Readers : ReadStep(r)
      BY <1>3
    <2>2. Lasts /\ Holds(r)
      BY <2>1, ReadsLast, ReadsHold
    <2>3. CASE rd'[q].out = "eof" /\ rd'[q].alone => rd[q].out = "eof" /\ rd[q].alone
      BY <1>1, <2>2, <2>3, EofLasts
    <2>4. CASE ~(rd'[q].out = "eof" /\ rd'[q].alone => rd[q].out = "eof" /\ rd[q].alone)
      BY <2>2, <2>4 DEF Holds
    <2> QED
      BY <2>3, <2>4
  <1>4. CASE PeerStep \/ BridgeStep \/ SinkStep \/ StopStep \/ BothHalves
    <2>1. Lasts /\ rd' = rd
      BY <1>4, OthersLast
    <2> QED
      BY <1>1, <2>1, EofLasts
  <1> QED
    BY <1>2, <1>3, <1>4, Sides DEF ReadSide

-----------------------------------------------------------------------------
(* Steps that leave a half of the handle alone.                            *)

\* The read half stays what it is.
LEMMA ReadPartsStutter ==
    ASSUME UNCHANGED <<readHalf, thread>>
    PROVE  /\ ReadTypes => ReadTypes'
           /\ OneOwner => OneOwner'
           /\ Hands => Hands'
           /\ Chained => Chained'
           /\ Heard => Heard'
           /\ Solo => Solo'
           /\ Reported => Reported'
           /\ Built => Built'
           /\ CleanEnd => CleanEnd'
  <1>0. /\ UNCHANGED <<kind, own, where, latch, aborted, enrolled, woken, rd, busy, bridge, chan, errSlot>>
        /\ UNCHANGED <<errSet, rx, lock, stopTx, sink, arrived, big, read, ended, told, delivered>>
        /\ UNCHANGED <<js, called, shut, final>>
    BY DEF readHalf, thread, gate, wakes, bridges, net
  <1>1. ReadTypes => ReadTypes'
    BY <1>0 DEF ReadTypes
  <1>2. OneOwner => OneOwner'
    BY <1>0 DEF OneOwner, Owner
  <1>3. Hands => Hands'
    BY <1>0 DEF Hands
  <1>4. Chained => Chained'
    BY <1>0, SameKind DEF Chained
  <1>5. Heard => Heard'
    BY <1>0 DEF Heard, Notified_
  <1>6. Solo => Solo'
    BY <1>0 DEF Solo
  <1>7. (Reported => Reported') /\ (Built => Built') /\ (CleanEnd => CleanEnd')
    BY <1>0 DEF Reported, Built, CleanEnd, Untouched
  <1> QED
    BY <1>1, <1>2, <1>3, <1>4, <1>5, <1>6, <1>7

\* The write half stays what it is.
LEMMA WritePartsStutter ==
    ASSUME UNCHANGED writing
    PROVE  /\ WriteTypes => WriteTypes'
           /\ Places => Places'
           /\ FinishOrder => FinishOrder'
  BY DEF writing, WriteTypes, Places, FinishOrder, Below, FinishAckMeansWritten

\* A handle keeps its kind.
LEMMA KindStays == Next => kind' = kind
  <1>1. ASSUME NEW r \in Readers, ReadStep(r)
        PROVE  kind' = kind
    <2>1. CASE \E batch \in Batches : ReadStart(r, batch)
      BY <2>1 DEF ReadStart
    <2>2. CASE DirectStep(r)
      BY <2>2 DEF DirectStep, CheckLatch, begin_direct_read, TakeSlot, CheckAborted, EnrollDirect, DirectChunk,
                  DirectEnd, DirectAborted, Reserve, Recheck, BatchLoop, Park, Convert
    <2>3. CASE BridgeLaneStep(r)
      BY <2>3 DEF BridgeLaneStep, FallThrough, HasPending, PermitCheck, PermitEnroll, GetPermit, Migrate, SetRx,
                  SetStop, mark_bridged, LookRx, LockRx, CheckBridge, RecvData, RecvEnd, RecvAborted
    <2> QED
      BY <1>1, <2>1, <2>2, <2>3 DEF ReadStep
  <1>2. ASSUME PeerStep \/ BridgeStep \/ SinkStep
        PROVE  kind' = kind
    BY <1>2 DEF PeerStep, PeerSends, PeerEnds, OthersBridge, BridgeStep, BridgeReads, BridgeReserves,
                BridgeSends, BridgeStops, bridgeRest, SinkStep, OpenSink, SinkTakes, SinkRollsBack, SinkOpens,
                SinkReads, SinkEnds
  <1>3. ASSUME StopStep \/ BothHalves
        PROVE  kind' = kind
    BY <1>3 DEF StopStep, Call, mark_consumed, abort_read, NotifyAbort, FireStop, EmptySlot, DropRx,
                BothHalves, SetFinished, DropTx, Control, Finalize, readHalf
  <1>4. ASSUME WriteSide
        PROVE  kind' = kind
    BY <1>4, WriteSideFrame DEF readHalf
  <1> QED
    BY <1>1, <1>2, <1>3, <1>4, Sides DEF ReadSide

-----------------------------------------------------------------------------
(* The invariant is inductive.                                             *)

\* The invariant holds of a new handle.
LEMMA HandleInit == Init => HandleInvariant
  <1> SUFFICES ASSUME Init
               PROVE  HandleInvariant
    OBVIOUS
  <1> USE BoundsAssumption, NamesAssumption DEF Init, InitRead, InitWrite
  <1>1. /\ Idle \in [pc : {"idle"} \cup ReadSteps, batch : BOOLEAN, held : 0..BatchMax,
                     out : {"none", "data", "eof"} \cup Codes, alone : BOOLEAN]
        /\ Idle.pc = "idle" /\ Idle.held = 0 /\ Idle.out = "none"
    BY DEF Idle
  <1>2. rd \in ReadStates /\ \A r \in Readers : rd[r].pc = "idle" /\ rd[r].held = 0 /\ rd[r].out = "none"
    BY <1>1 DEF ReadStates
  <1>3. ReadTypes
    <2>1. 0 \in 0..MaxChunks /\ 0 \in 0..ChannelCapacity /\ 0 \in 0..0 /\ 0 \in Nat
      OBVIOUS
    <2>2. js \in JsStates
      BY DEF JsStates
    <2>3. kind \in {"bidi", "uniRecv", "uniSend"}
      OBVIOUS
    <2>4. /\ own \in {"Deferred", "DirectReadActive", "Bridged", "Sink", "Consumed"}
          /\ where \in {"slot", "bridge", "sink", "none"} \cup Readers
      OBVIOUS
    <2>5. arrived = 0 /\ read = 0 /\ delivered = 0 /\ chan = 0 /\ big = {} /\ enrolled = {} /\ woken = {}
      OBVIOUS
    <2>6. /\ latch = "none" /\ errSlot = "none" /\ ended = "open" /\ rx = "none" /\ lock = "free"
          /\ stopTx = "none" /\ sink = "none" /\ bridge = "none"
          /\ aborted = FALSE /\ errSet = FALSE /\ told = FALSE /\ shut = FALSE /\ final = FALSE
          /\ busy \in BOOLEAN
      OBVIOUS
    <2> HIDE BoundsAssumption, NamesAssumption DEF Init, InitRead, InitWrite
    <2> QED
      BY <1>2, <2>1, <2>2, <2>3, <2>4, <2>5, <2>6 DEF ReadTypes
  <1>4. WriteTypes
    <2>1. cmds \in Seq(Commands) /\ queue \in Seq(Commands)
      OBVIOUS
    <2>2. wr \in [Writers -> WriteStates]
      BY DEF WriteStates
    <2>3. /\ tx \in {"none", "some", "gone"} /\ wb \in {"none", "recv", "done"} \cup Writers
          /\ lazy \in BOOLEAN
      OBVIOUS
    <2> QED
      BY <2>1, <2>2, <2>3 DEF WriteTypes
  <1>5. Budget
    BY DEF Budget
  <1>6. OneOwner
    BY <1>2 DEF OneOwner, Owner
  <1>7. Hands
    BY <1>2 DEF Hands
  <1>8. Places
    BY DEF Places
  <1>9. InReads(rd) = 0
    BY <1>2, NothingHeld
  <1>10. InWrites(wr, wb) = 0
    <2>1. WritePlaces(wr, wb) = {}
      BY DEF WritePlaces
    <2> QED
      BY <2>1, FS_EmptySet DEF InWrites, WritePlaces
  <1>11. ReservationsExact
    BY <1>9, <1>10, NoData DEF ReservationsExact
  <1>12. Chained
    BY SinkChain DEF Chained
  <1>13. Heard
    BY <1>2 DEF Heard
  <1>14. FinishOrder
    BY DEF FinishOrder, FinishAckMeansWritten
  <1>15. Conserved
    <2>1. Pending = 0
      BY <1>2 DEF Pending
    <2> QED
      BY <1>9, <2>1 DEF Conserved
  <1>16. Solo /\ Reported /\ Built /\ CleanEnd /\ NoFalseEof
    BY <1>2 DEF Solo, Reported, Built, Building, UsesRx, CleanEnd, NoFalseEof
  <1> QED
    BY <1>3, <1>4, <1>5, <1>6, <1>7, <1>8, <1>11, <1>12, <1>13, <1>14, <1>15, <1>16 DEF HandleInvariant

\* The invariant by the half of the handle it is about.
ReadParts ==
    /\ ReadTypes /\ OneOwner /\ Hands /\ Chained /\ Heard
    /\ Solo /\ Reported /\ Built /\ CleanEnd
WriteParts == WriteTypes /\ Places /\ FinishOrder

\* Every step keeps the parts of the invariant about the read half.
LEMMA ReadPartsKept ==
    ASSUME ReadParts, Next
    PROVE  ReadParts'
  <1> USE DEF ReadParts
  <1>1. ASSUME NEW r \in Readers, ReadStep(r)
        PROVE  ReadParts'
    BY <1>1, ReadTypesReads, OneOwnerReads, HandsReads, ChainedReads, HeardReads, SoloReads, ReportedReads,
       BuiltReads, CleanEndReads
  <1>2. CASE PeerStep \/ BridgeStep \/ SinkStep \/ StopStep \/ BothHalves
    <2>1. rd' = rd
      BY <1>2, ReadTypesOthers, OthersLast
    <2>2. Hands'
      BY <2>1 DEF Hands
    <2> QED
      BY <1>2, <2>2, ReadTypesOthers, OneOwnerOthers, ChainedOthers, HeardOthers, SoloOthers, ReportedOthers,
         BuiltOthers, CleanEndOthers
  <1>3. CASE WriteSide
    <2>1. UNCHANGED <<readHalf, thread>>
      BY <1>3, WriteSideFrame
    <2> QED
      BY <2>1, ReadPartsStutter
  <1> QED
    BY <1>1, <1>2, <1>3, Sides DEF ReadSide

\* Every step keeps the parts about the write half.
LEMMA WritePartsKept ==
    ASSUME WriteParts, ReadTypes, Chained, Next
    PROVE  WriteParts'
  <1> USE DEF WriteParts
  <1>1. CASE ReadSide
    <2>1. UNCHANGED writing
      BY <1>1, ReadSideFrame
    <2> QED
      BY <2>1, WritePartsStutter
  <1>2. CASE BothHalves
    BY <1>2, WriteTypesBoth, PlacesBoth, FinishOrderBoth
  <1>3. ASSUME NEW w \in Writers, WriteStart(w) \/ WriteStep(w)
        PROVE  WriteParts'
    BY <1>3, WriteTypesCalls, PlacesCalls, FinishOrderCalls
  <1>4. CASE FinishWaitStart \/ FinishWaitStep \/ Admit \/ Refuse \/ WbStep
    BY <1>4, WriteTypesBridge, PlacesBridge, FinishOrderBridge
  <1> QED
    BY <1>1, <1>2, <1>3, <1>4, Sides DEF WriteSide

\* Every step keeps the invariant.
LEMMA HandleNext == HandleInvariant /\ [Next]_vars => HandleInvariant'
  <1> SUFFICES ASSUME HandleInvariant, [Next]_vars
               PROVE  HandleInvariant'
    OBVIOUS
  <1>1. CASE Next
    <2>1. ReadParts /\ WriteParts
      BY DEF HandleInvariant, ReadParts, WriteParts
    <2>2. ReadParts'
      BY <1>1, <2>1, ReadPartsKept
    <2>3. WriteParts'
      BY <1>1, <2>1, WritePartsKept DEF ReadParts
    <2>4. ReservationsExact' /\ Budget'
      BY <1>1, <2>2, <2>3, ExactKept DEF HandleInvariant, ReadParts, WriteParts
    <2>5. Conserved'
      BY <1>1, <2>2, ConservedKept DEF HandleInvariant, ReadParts
    <2>6. NoFalseEof'
      BY <1>1, <2>2, <2>5, EofKept DEF HandleInvariant, ReadParts
    <2> QED
      BY <2>2, <2>3, <2>4, <2>5, <2>6 DEF HandleInvariant, ReadParts, WriteParts
  <1>2. CASE UNCHANGED vars
    <2>1. UNCHANGED <<readHalf, thread>> /\ UNCHANGED writing /\ reserved' = reserved
      BY <1>2 DEF vars, readHalf
    <2>2. ReadParts' /\ WriteParts'
      BY <2>1, ReadPartsStutter, WritePartsStutter DEF HandleInvariant, ReadParts, WriteParts
    <2>3. ReservationsExact' /\ Budget'
      BY <2>1 DEF HandleInvariant, ReservationsExact, Budget, readHalf, bridges, writing
    <2>4. Conserved' /\ NoFalseEof'
      BY <2>1 DEF HandleInvariant, Conserved, NoFalseEof, Pending, Whole, Untouched, readHalf, bridges, thread,
                  net, gate
    <2> QED
      BY <2>2, <2>3, <2>4 DEF HandleInvariant, ReadParts, WriteParts
  <1> QED
    BY <1>1, <1>2

\* The invariant holds.
LEMMA HandleSafe == Spec => []HandleInvariant
  BY HandleInit, HandleNext, PTL DEF Spec

-----------------------------------------------------------------------------
(* What it gives.                                                          *)

\* The state of the handle keeps its type: the byte budget is never exceeded
\* and never paid back twice, and no more chunks are handed over than were
\* read (client_stream.rs, stream_queued).
THEOREM HandleTypes == Spec => []TypeOK
  <1>1. HandleInvariant /\ kind \in Kinds => TypeOK
    <2> SUFFICES ASSUME HandleInvariant, kind \in Kinds
                 PROVE  TypeOK
      OBVIOUS
    <2>1. ReadTypes /\ WriteTypes /\ Budget /\ ReservationsExact /\ Conserved
      BY DEF HandleInvariant
    <2>2. /\ InReads(rd) \in Nat /\ InWrites(wr, wb) \in Nat /\ DataIn(cmds) \in Nat /\ chan \in Nat
          /\ Pending \in Nat /\ read \in Nat /\ delivered \in Nat
      BY <2>1, HeldNat, WritesNat, DataFinite DEF ReadTypes, WriteTypes, Pending
    <2>3. reserved \in 0..MaxStream
      <3>1. (IF bridge = "send" THEN 1 ELSE 0) \in Nat
        OBVIOUS
      <3>2. reserved = InReads(rd) + chan + (IF bridge = "send" THEN 1 ELSE 0) + InWrites(wr, wb) + DataIn(cmds)
        BY <2>1 DEF ReservationsExact
      <3>3. reserved \in Nat
        BY <2>2, <3>1, <3>2
      <3> QED
        BY <2>1, <3>3, BoundsAssumption DEF Budget
    <2>4. delivered \in 0..read
      <3>1. delivered + InReads(rd) + chan + Pending <= read
        BY <2>1 DEF Conserved
      <3> QED
        BY <2>2, <3>1
    <2> QED
      BY <2>1, <2>3, <2>4 DEF TypeOK, ReadTypes, WriteTypes, ReadStates
  <1>2. Init => kind \in Kinds
    BY DEF Init
  <1>3. kind \in Kinds /\ [Next]_vars => (kind \in Kinds)'
    <2>1. Next => kind' = kind
      BY KindStays
    <2> QED
      BY <2>1 DEF vars
  <1> QED
    BY <1>1, <1>2, <1>3, HandleSafe, PTL DEF Spec

\* Every unit of the byte budget that is taken belongs to a chunk that
\* exists, whatever errors, stops and finalizers cut a call short: none leaks
\* and none is returned twice.
THEOREM ReservationsCorrect == Spec => []ReservationsExact
  <1>1. HandleInvariant => ReservationsExact
    BY DEF HandleInvariant
  <1> QED
    BY <1>1, HandleSafe, PTL

\* What the handle answers is true: a read that nobody overlapped reports an
\* end of stream only for a finished stream handed over in full, finishWait
\* succeeds only when the writes acknowledged before it are on the wire.
THEOREM AnswersCorrect == Spec => []AnswersHonest
  <1>1. HandleInvariant => AnswersHonest
    BY DEF HandleInvariant, FinishOrder, AnswersHonest
  <1> QED
    BY <1>1, HandleSafe, PTL

\* The safety part of StopHonoured: once stop or dispose has emptied the slot
\* no read and no failed sink puts the stream back, and once it has notified
\* no read waits for the channel without having been woken.
THEOREM StopCorrect == Spec => []StoppedStaysStopped /\ []AbortReachesBridgeReads
  <1>1. HandleInvariant => StoppedStaysStopped /\ AbortReachesBridgeReads
    BY DEF HandleInvariant, Chained, Heard, StoppedStaysStopped, AbortReachesBridgeReads
  <1> QED
    BY <1>1, HandleSafe, PTL
=============================================================================
