----------------------------- MODULE ClientProofs -----------------------------
(***************************************************************************)
(* TLAPS proofs about the client, for any number of readers, senders,      *)
(* stream callers, connects, keys and tickets, and any capacities.         *)
(*                                                                         *)
(* A client session: its bytes are counted exactly.  The count is bounded  *)
(* because only a reservation raises it, and not negative because it is a  *)
(* sum of what is queued and in flight.  That nothing is left in the       *)
(* receive channel needs the order in which the terminal task works: it    *)
(* drains for the last time only in a session that is already flagged as   *)
(* closed, from where on a leaving forwarder drains what it left behind.   *)
(*                                                                         *)
(* Connecting: an endpoint's reference count is the number of connects     *)
(* that use it, so one that is evicted for idling or for room is unused.   *)
(* That needs a connect that has not come to the pool yet to be no entry   *)
(* of it (EntriesBorn).  A ticket is spent once because it lies in at most *)
(* one place, a store or the vault, and no taken ticket lies in a store.   *)
(***************************************************************************)
EXTENDS ClientSession, ClientConnect, FiniteSetTheorems, TLAPS

-----------------------------------------------------------------------------
(* The session's inductive invariant, in the four parts its tasks share.    *)

Offering == {s \in Senders : sender[s] = "offering"}
Charged == IF fwd \in {"charged", "armed", "offer"} THEN 1 ELSE 0
Holding == {c \in Callers : caller[c] = "holds"}

\* The counters and what is counted.
ByteTypes ==
    /\ recvq \in 0..RecvCapacity /\ sendq \in 0..SendCapacity
    /\ queued \in 0..Budget /\ stranded \in 0..Budget
    /\ sendTask \in {"run", "drain", "drained", "gone"}
    /\ sender \in [Senders -> {"idle", "offering"}]
    /\ fwd \in {"next", "got", "charged", "armed", "offer", "leave", "drain", "gone"}
BytePart == ByteTypes /\ QueuedExact

\* The terminal task and the forwarder drain in a closed session only.
EndPart ==
    /\ conn \in {"up", "down"} /\ closed \in BOOLEAN /\ closeReq \in BOOLEAN
    /\ term \in {"open", "mark", "drain1", "wait", "drain2", "over"}
    /\ fwdWoken \in BOOLEAN /\ onClosed \in Nat
    /\ boot \in {"spawned", "inserted", "called", "taken", "failed"}
    /\ entry \in BOOLEAN /\ handle \in BOOLEAN
    /\ term \in {"drain1", "wait", "drain2", "over"} => closed
    /\ fwd = "drain" => closed
    /\ ReceiveSettled

ReadPart ==
    /\ lock \in Readers \cup {NoReader} /\ readWoken \subseteq Readers
    /\ reader \in [Readers -> {"idle", "lock", "first", "try", "armed", "parked"}]
    /\ OneReaderInside

\* A request waits in the channel of its kind, once, and its caller with it.
Waiting ==
    \A k \in Kinds : \A m, n \in 1..Len(chan[k]) :
        caller[chan[k][m]] = k /\ (chan[k][m] = chan[k][n] => m = n)

StreamPart ==
    /\ chan \in [Kinds -> Seq(Callers)]
    /\ caller \in [Callers -> Kinds \cup {"idle", "holds"}]
    /\ streams = Cardinality(Holding)
    /\ Waiting

SessionInvariant == BytePart /\ EndPart /\ ReadPart /\ StreamPart

-----------------------------------------------------------------------------
(* Counting. *)

LEMMA Counted ==
    ASSUME NEW S, IsFiniteSet(S), NEW T \in SUBSET S
    PROVE  IsFiniteSet(T) /\ Cardinality(T) \in Nat /\ Cardinality(T) <= Cardinality(S)
  BY FS_Subset, FS_CardinalityType

LEMMA CountedIn ==
    ASSUME NEW S, IsFiniteSet(S), NEW x, x \notin S
    PROVE  Cardinality(S \cup {x}) = Cardinality(S) + 1
  BY FS_AddElement

LEMMA CountedOut ==
    ASSUME NEW S, IsFiniteSet(S), NEW x \in S
    PROVE  Cardinality(S \ {x}) = Cardinality(S) - 1
  BY FS_RemoveElement

\* A sender that starts to offer, and one that stops.
LEMMA OfferStarts ==
    ASSUME NEW s \in Senders, sender \in [Senders -> {"idle", "offering"}],
           sender[s] = "idle", sender' = [sender EXCEPT ![s] = "offering"]
    PROVE  Cardinality(Offering') = Cardinality(Offering) + 1
  <1>1. IsFiniteSet(Offering) /\ s \notin Offering
    BY SessionAssumption, Counted DEF Offering
  <1>2. Offering' = Offering \cup {s}
    BY DEF Offering
  <1>. QED BY <1>1, <1>2, CountedIn

LEMMA OfferEnds ==
    ASSUME NEW s \in Senders, sender \in [Senders -> {"idle", "offering"}],
           sender[s] = "offering", sender' = [sender EXCEPT ![s] = "idle"]
    PROVE  Cardinality(Offering') = Cardinality(Offering) - 1
  <1>1. IsFiniteSet(Offering) /\ s \in Offering
    BY SessionAssumption, Counted DEF Offering
  <1>2. Offering' = Offering \ {s}
    BY DEF Offering
  <1>. QED BY <1>1, <1>2, CountedOut

LEMMA FiveAdd ==
    ASSUME NEW a \in Nat, NEW b \in Nat, NEW c \in Nat, NEW d \in Nat, NEW e \in Nat
    PROVE  a + b + c + d + e \in Nat
  OBVIOUS

LEMMA OfferCount == Cardinality(Offering) \in Nat
  BY SessionAssumption, Counted DEF Offering

\* The count as the invariant uses it.
LEMMA QueuedSum ==
    QueuedExact <=> queued = recvq + sendq + stranded + Cardinality(Offering) + Charged
  BY DEF QueuedExact, Offering, Charged

-----------------------------------------------------------------------------
(* What the steps do to the bytes. *)

\* The forwarder, the readers and the terminal task leave the send side alone.
LEMMA ReceiveMoves ==
    ASSUME BytePart, UNCHANGED <<sendVars>>,
           fwd' \in {"next", "got", "charged", "armed", "offer", "leave", "drain", "gone"},
           recvq' \in 0..RecvCapacity,
           queued' = queued + (recvq' - recvq) + (Charged' - Charged),
           queued' <= Budget
    PROVE  BytePart'
  <1>1. Offering' = Offering
    BY DEF sendVars, Offering
  <1>2. Charged \in {0, 1} /\ Charged' \in {0, 1}
    BY DEF Charged
  <1>3. Cardinality(Offering) \in Nat
    BY OfferCount
  <1>4. queued = recvq + sendq + stranded + Cardinality(Offering) + Charged
    BY QueuedSum DEF BytePart
  <1>5. QueuedExact' <=>
        queued' = recvq' + sendq' + stranded' + Cardinality(Offering') + Charged'
    BY DEF QueuedExact, Offering, Charged
  <1>6. /\ recvq \in Nat /\ sendq \in Nat /\ stranded \in Nat /\ queued \in Nat /\ Budget \in Nat
        /\ recvq' \in Nat
    BY SessionAssumption DEF BytePart, ByteTypes
  <1>7. sendq' = sendq /\ stranded' = stranded /\ sender' = sender /\ sendTask' = sendTask
    BY DEF sendVars
  <1>8. queued' = recvq' + sendq + stranded + Cardinality(Offering) + Charged'
    BY <1>2, <1>3, <1>4, <1>6
  <1>9. QueuedExact'
    BY <1>1, <1>5, <1>7, <1>8
  <1>10. queued' \in Nat
    <2>1. Charged' \in Nat
      BY <1>2
    <2>2. recvq' + sendq + stranded + Cardinality(Offering) + Charged' \in Nat
      BY <2>1, <1>3, <1>6, FiveAdd, Zenon
    <2>. QED BY <2>2, <1>8, Zenon
  <1>11. queued' \in 0..Budget
    BY <1>6, <1>10
  <1>. QED BY <1>7, <1>9, <1>11 DEF BytePart, ByteTypes

\* The senders and the send task leave the receive side alone.
LEMMA SendMoves ==
    ASSUME BytePart, UNCHANGED <<fwd, recvq>>,
           sendTask' \in {"run", "drain", "drained", "gone"},
           sender' \in [Senders -> {"idle", "offering"}],
           sendq' \in 0..SendCapacity, stranded' \in Nat,
           queued' = queued + (sendq' - sendq) + (stranded' - stranded)
                            + (Cardinality(Offering') - Cardinality(Offering)),
           queued' <= Budget
    PROVE  BytePart'
  <1>1. Charged' = Charged /\ Charged \in Nat
    BY DEF Charged
  <1>2. /\ recvq \in Nat /\ sendq \in Nat /\ stranded \in Nat /\ queued \in Nat /\ Budget \in Nat
        /\ sendq' \in Nat
    BY SessionAssumption DEF BytePart, ByteTypes
  <1>3. Cardinality(Offering) \in Nat
    BY OfferCount
  <1>4. Cardinality(Offering') \in Nat
    <2>1. Offering' \subseteq Senders
      BY DEF Offering
    <2>. QED BY <2>1, SessionAssumption, Counted
  <1>5. queued = recvq + sendq + stranded + Cardinality(Offering) + Charged
    BY QueuedSum DEF BytePart
  <1>6. QueuedExact' <=>
        queued' = recvq' + sendq' + stranded' + Cardinality(Offering') + Charged'
    BY DEF QueuedExact, Offering, Charged
  <1>7. queued' = recvq + sendq' + stranded' + Cardinality(Offering') + Charged
    BY <1>1, <1>2, <1>3, <1>4, <1>5
  <1>8. QueuedExact'
    BY <1>1, <1>6, <1>7
  <1>9. queued' \in Nat /\ stranded' <= queued'
    BY <1>1, <1>2, <1>4, <1>7
  <1>10. queued' \in 0..Budget /\ stranded' \in 0..Budget
    BY <1>2, <1>9
  <1>. QED BY <1>8, <1>10 DEF BytePart, ByteTypes

-----------------------------------------------------------------------------
(* The bytes. *)

\* What a step of the receive side does to the sum, written out.
ReceiveTypes ==
    /\ recvq \in Nat /\ queued \in Nat /\ Budget \in Nat /\ RecvCapacity \in Nat
    /\ recvq <= RecvCapacity /\ queued <= Budget

LEMMA ReceiveTyped == BytePart => ReceiveTypes
  BY SessionAssumption DEF BytePart, ByteTypes, ReceiveTypes

LEMMA ForwardBytes ==
    ASSUME BytePart, ForwardGot \/ ForwardStep
    PROVE  BytePart'
  <1>. USE ReceiveTyped
  <1>0. UNCHANGED <<sendVars>>
    BY DEF ForwardGot, ForwardStep, ForwardEnds, ForwardCharge, ForwardArm, ForwardRecheck,
           ForwardSend, ForwardInterrupted, ForwardLeave, ForwardDrain, fwdFrame
  <1>1. CASE ForwardGot
    BY <1>0, <1>1, ReceiveMoves DEF ForwardGot, BytePart, ByteTypes, Charged, ReceiveTypes
  <1>2. CASE ForwardEnds
    BY <1>0, <1>2, ReceiveMoves DEF ForwardEnds, BytePart, ByteTypes, Charged, ReceiveTypes
  <1>3. CASE ForwardCharge
    BY <1>0, <1>3, ReceiveMoves
       DEF ForwardCharge, TryReserve, BytePart, ByteTypes, Charged, ReceiveTypes
  <1>4. CASE ForwardArm
    BY <1>0, <1>4, ReceiveMoves DEF ForwardArm, BytePart, ByteTypes, Charged, ReceiveTypes
  <1>5. CASE ForwardRecheck
    BY <1>0, <1>5, ReceiveMoves
       DEF ForwardRecheck, Refund, BytePart, ByteTypes, Charged, ReceiveTypes
  <1>6. CASE ForwardSend
    BY <1>0, <1>6, ReceiveMoves DEF ForwardSend, BytePart, ByteTypes, Charged, ReceiveTypes
  <1>7. CASE ForwardInterrupted
    BY <1>0, <1>7, ReceiveMoves
       DEF ForwardInterrupted, Refund, BytePart, ByteTypes, Charged, ReceiveTypes
  <1>8. CASE ForwardLeave
    BY <1>0, <1>8, ReceiveMoves DEF ForwardLeave, BytePart, ByteTypes, Charged, ReceiveTypes
  <1>9. CASE ForwardDrain
    BY <1>0, <1>9, ReceiveMoves
       DEF ForwardDrain, DrainReceive, Refund, BytePart, ByteTypes, Charged, ReceiveTypes
  <1>. QED BY <1>1, <1>2, <1>3, <1>4, <1>5, <1>6, <1>7, <1>8, <1>9 DEF ForwardStep

\* A reader takes n of the queued datagrams, or none.
LEMMA ReadBytes ==
    ASSUME BytePart, NEW r \in Readers, ReadStart(r) \/ ReadLock(r) \/ ReadStep(r)
    PROVE  BytePart'
  <1>. USE ReceiveTyped
  <1>1. UNCHANGED <<sendVars>> /\ fwd' = fwd
    BY DEF ReadStart, ReadLock, ReadStep, ReadFirst, ReadTry, ReadRecheck, ReadSelect, readFrame
  <1>2. \E n \in 0..recvq : recvq' = recvq - n /\ queued' = queued - n
    <2>1. CASE ReadBatch(r)
      BY <2>1, SessionAssumption DEF ReadBatch, ReadTake, Refund, ReceiveTypes
    <2>2. CASE ReadEof(r, recvq)
      BY <2>2 DEF ReadEof, Refund, ReceiveTypes
    <2>3. CASE ReadEof(r, 0)
      BY <2>3 DEF ReadEof, Refund, ReceiveTypes
    <2>4. CASE UNCHANGED <<recvq, queued>>
      BY <2>4 DEF ReceiveTypes
    <2>. QED BY <2>1, <2>2, <2>3, <2>4
             DEF ReadStart, ReadLock, ReadStep, ReadFirst, ReadTry, ReadRecheck, ReadSelect
  <1>3. PICK n \in 0..recvq : recvq' = recvq - n /\ queued' = queued - n
    BY <1>2
  <1>4. Charged' = Charged /\ Charged \in Nat
    BY <1>1 DEF Charged
  <1>5. /\ recvq' \in 0..RecvCapacity /\ queued' <= Budget
        /\ queued' = queued + (recvq' - recvq) + (Charged' - Charged)
    BY <1>3, <1>4 DEF ReceiveTypes
  <1>. QED BY <1>1, <1>5, ReceiveMoves DEF BytePart, ByteTypes

LEMMA TermBytes ==
    ASSUME BytePart, TermStep
    PROVE  BytePart'
  <1>. USE ReceiveTyped
  <1>1. UNCHANGED <<sendVars>> /\ fwd' = fwd
    BY DEF TermStep, TermEnds, TermMark, TermFinalize, TermWait, TermSettle, termFrame, recvVars
  <1>2. \/ UNCHANGED <<recvq, queued>>
        \/ recvq' = 0 /\ queued' = queued - recvq
    BY DEF TermStep, TermEnds, TermMark, TermFinalize, TermWait, TermSettle, DrainReceive, Refund,
           recvVars
  <1>4. Charged' = Charged /\ Charged \in Nat
    BY <1>1 DEF Charged
  <1>5. /\ recvq' \in 0..RecvCapacity /\ queued' <= Budget
        /\ queued' = queued + (recvq' - recvq) + (Charged' - Charged)
    BY <1>2, <1>4 DEF ReceiveTypes
  <1>. QED BY <1>1, <1>5, ReceiveMoves DEF BytePart, ByteTypes

LEMMA SendBytes ==
    ASSUME BytePart, NEW s \in Senders,
           SendReserve(s) \/ SendEnqueue(s) \/ SendRefund(s)
    PROVE  BytePart'
  <1>1. /\ queued \in Nat /\ Budget \in Nat /\ queued <= Budget /\ SendCapacity \in Nat
        /\ sendq \in Nat /\ sendq <= SendCapacity /\ stranded \in Nat
        /\ sender \in [Senders -> {"idle", "offering"}]
        /\ Cardinality(Offering) \in Nat
    BY SessionAssumption, OfferCount DEF BytePart, ByteTypes
  <1>2. UNCHANGED <<fwd, recvq, stranded, sendTask>>
    BY DEF SendReserve, SendEnqueue, SendRefund, recvVars
  <1>3. CASE SendReserve(s)
    <2>1. Cardinality(Offering') = Cardinality(Offering) + 1
      BY <1>1, <1>3, OfferStarts DEF SendReserve
    <2>2. /\ queued' = queued + 1 /\ queued' <= Budget /\ sendq' = sendq
          /\ sender' \in [Senders -> {"idle", "offering"}]
      BY <1>1, <1>3 DEF SendReserve, TryReserve
    <2>3. queued' = queued + (sendq' - sendq) + (stranded' - stranded)
                           + (Cardinality(Offering') - Cardinality(Offering))
      BY <1>1, <1>2, <2>1, <2>2
    <2>. QED BY <1>1, <1>2, <2>2, <2>3, SendMoves DEF BytePart, ByteTypes
  <1>4. CASE SendEnqueue(s)
    <2>1. Cardinality(Offering') = Cardinality(Offering) - 1
      BY <1>1, <1>4, OfferEnds DEF SendEnqueue
    <2>2. /\ queued' = queued /\ sendq' = sendq + 1 /\ sendq' \in 0..SendCapacity
          /\ sender' \in [Senders -> {"idle", "offering"}]
      BY <1>1, <1>4 DEF SendEnqueue
    <2>3. queued' = queued + (sendq' - sendq) + (stranded' - stranded)
                           + (Cardinality(Offering') - Cardinality(Offering))
      BY <1>1, <1>2, <2>1, <2>2
    <2>. QED BY <1>1, <1>2, <2>2, <2>3, SendMoves DEF BytePart, ByteTypes
  <1>5. CASE SendRefund(s)
    <2>1. Cardinality(Offering') = Cardinality(Offering) - 1
      BY <1>1, <1>5, OfferEnds DEF SendRefund
    <2>2. /\ queued' = queued - 1 /\ sendq' = sendq
          /\ sender' \in [Senders -> {"idle", "offering"}]
      BY <1>1, <1>5 DEF SendRefund, Refund
    <2>3. /\ queued' = queued + (sendq' - sendq) + (stranded' - stranded)
                              + (Cardinality(Offering') - Cardinality(Offering))
          /\ queued' <= Budget
      BY <1>1, <1>2, <2>1, <2>2
    <2>. QED BY <1>1, <1>2, <2>2, <2>3, SendMoves DEF BytePart, ByteTypes
  <1>. QED BY <1>3, <1>4, <1>5

LEMMA SendTaskBytes ==
    ASSUME BytePart, TrySend \/ SendTaskStep
    PROVE  BytePart'
  <1>1. /\ queued \in Nat /\ Budget \in Nat /\ queued <= Budget /\ SendCapacity \in Nat
        /\ sendq \in Nat /\ sendq <= SendCapacity /\ stranded \in Nat
        /\ sender \in [Senders -> {"idle", "offering"}]
        /\ Cardinality(Offering) \in Nat
    BY SessionAssumption, OfferCount DEF BytePart, ByteTypes
  <1>2. UNCHANGED <<fwd, recvq, sender>> /\ Offering' = Offering
    BY DEF TrySend, SendTaskStep, SendTake, SendDrain, SendTaskEnds, recvVars, Offering
  <1>3. /\ sendTask' \in {"run", "drain", "drained", "gone"}
        /\ sendq' \in 0..SendCapacity /\ stranded' \in Nat
        /\ queued' = queued + (sendq' - sendq) + (stranded' - stranded)
        /\ queued' <= Budget
    BY <1>1 DEF TrySend, SendTaskStep, SendTake, SendDrain, SendTaskEnds, TryReserve, Refund,
                BytePart, ByteTypes
  <1>4. queued' = queued + (sendq' - sendq) + (stranded' - stranded)
                         + (Cardinality(Offering') - Cardinality(Offering))
    BY <1>1, <1>2, <1>3
  <1>. QED BY <1>1, <1>2, <1>3, <1>4, SendMoves

-----------------------------------------------------------------------------
(* The close flag, the terminal task and the receive channel. *)

LEMMA EndMoves ==
    ASSUME EndPart, BytePart, SessionNext
    PROVE  EndPart'
  <1>. USE DEF EndPart, ReceiveSettled
  <1>1. CASE BootStep \/ Close \/ ConnectionLost
    BY <1>1 DEF BootStep, InsertEntry, CallbackDelivered, CallbackFailed, TakeSession, Close,
                ConnectionLost, InitiateClose, MarkClosed, closeVars, recvVars, bootVars
  <1>2. CASE TermStep
    <2>1. CASE TermEnds \/ TermWait
      BY <2>1 DEF TermEnds, TermWait, recvVars, bootVars
    <2>2. CASE TermMark
      BY <2>2 DEF TermMark, MarkClosed, bootVars
    <2>3. CASE TermFinalize
      <3>1. onClosed' \in Nat
        BY <2>3 DEF TermFinalize
      <3>2. /\ fwdWoken' \in BOOLEAN /\ closed' = TRUE /\ term' = "wait" /\ entry' = FALSE
            /\ UNCHANGED <<conn, closeReq, boot, handle, fwd>>
        BY <2>3 DEF TermFinalize, MarkClosed
      <3>. QED BY <3>1, <3>2
    <2>4. CASE TermSettle
      BY <2>4 DEF TermSettle, DrainReceive, bootVars
    <2>. QED BY <1>2, <2>1, <2>2, <2>3, <2>4 DEF TermStep
  <1>3. CASE ForwardGot \/ ForwardStep
    <2>1. UNCHANGED <<closeVars, bootVars>>
      BY <1>3 DEF ForwardGot, ForwardStep, ForwardEnds, ForwardCharge, ForwardArm, ForwardRecheck,
                  ForwardSend, ForwardInterrupted, ForwardLeave, ForwardDrain, fwdFrame
    <2>2. /\ fwdWoken' \in BOOLEAN
          /\ closed /\ fwd' = "gone" => recvq' = 0
          /\ fwd' = "drain" => closed
      BY <1>3 DEF ForwardGot, ForwardStep, ForwardEnds, ForwardCharge, ForwardArm, ForwardRecheck,
                  ForwardSend, ForwardInterrupted, ForwardLeave, ForwardDrain, DrainReceive
    <2>. QED BY <2>1, <2>2 DEF closeVars, bootVars
  <1>4. ASSUME NEW r \in Readers, ReadStart(r) \/ ReadLock(r) \/ ReadStep(r)
        PROVE  EndPart'
    <2>1. UNCHANGED <<fwd, fwdWoken, closeVars, bootVars>>
      BY <1>4 DEF ReadStart, ReadLock, ReadStep, ReadFirst, ReadTry, ReadRecheck, ReadSelect,
                  readFrame
    <2>2. recvq = 0 => recvq' = 0
      BY <1>4 DEF ReadStart, ReadLock, ReadStep, ReadFirst, ReadTry, ReadRecheck, ReadSelect,
                  ReadBatch, ReadTake, ReadEof
    <2>. QED BY <2>1, <2>2 DEF closeVars, bootVars
  <1>5. CASE UNCHANGED <<closeVars, recvVars, bootVars>>
    BY <1>5 DEF closeVars, recvVars, bootVars
  <1>6. ASSUME NEW s \in Senders, SendReserve(s) \/ SendEnqueue(s) \/ SendRefund(s)
        PROVE  EndPart'
    BY <1>5, <1>6 DEF SendReserve, SendEnqueue, SendRefund
  <1>7. CASE TrySend \/ SendTaskStep
    BY <1>5, <1>7 DEF TrySend, SendTaskStep, SendTake, SendDrain, SendTaskEnds
  <1>8. ASSUME NEW c \in Callers, StreamReleased(c) \/ \E k \in Kinds : RequestStream(c, k)
        PROVE  EndPart'
    BY <1>5, <1>8 DEF StreamReleased, RequestStream, streamFrame
  <1>9. ASSUME NEW k \in Kinds, StreamReady(k) \/ StreamFails(k)
        PROVE  EndPart'
    BY <1>5, <1>9 DEF StreamReady, StreamFails, streamFrame
  <1>. QED BY <1>1, <1>2, <1>3, <1>4, <1>6, <1>7, <1>8, <1>9 DEF SessionNext

-----------------------------------------------------------------------------
(* The receiver mutex. *)

LEMMA ReaderMoves ==
    ASSUME ReadPart, SessionNext
    PROVE  ReadPart'
  <1>. USE DEF ReadPart, OneReaderInside
  <1>1. ASSUME UNCHANGED <<lock, reader>>, readWoken' \subseteq Readers
        PROVE  ReadPart'
    BY <1>1
  <1>2. CASE BootStep \/ Close \/ ConnectionLost
    BY <1>1, <1>2 DEF BootStep, InsertEntry, CallbackDelivered, CallbackFailed, TakeSession, Close,
                ConnectionLost, InitiateClose, MarkClosed, recvVars
  <1>3. CASE TermStep
    BY <1>1, <1>3 DEF TermStep, TermEnds, TermMark, TermFinalize, TermWait, TermSettle, MarkClosed,
                DrainReceive, recvVars
  <1>4. CASE ForwardGot \/ ForwardStep
    BY <1>1, <1>4 DEF ForwardGot, ForwardStep, ForwardEnds, ForwardCharge, ForwardArm,
                ForwardRecheck, ForwardSend, ForwardInterrupted, ForwardLeave, ForwardDrain, fwdFrame
  <1>5. ASSUME NEW r \in Readers, ReadStart(r) \/ ReadLock(r) \/ ReadStep(r)
        PROVE  ReadPart'
    <2>1. CASE ReadStart(r)
      BY <2>1 DEF ReadStart
    <2>2. CASE ReadLock(r)
      BY <2>2, SessionAssumption DEF ReadLock
    <2>3. ASSUME lock = r, lock' = r, readWoken' \subseteq Readers,
                 NEW x \in {"first", "try", "armed", "parked"},
                 reader' = [reader EXCEPT ![r] = x]
          PROVE  ReadPart'
      BY <2>3
    <2>4. ASSUME lock = r, lock' = NoReader, readWoken' \subseteq Readers,
                 reader' = [reader EXCEPT ![r] = "idle"]
          PROVE  ReadPart'
      BY <2>4, SessionAssumption
    <2>5. CASE ReadFirst(r)
      BY <2>5, <2>3, <2>4 DEF ReadFirst, ReadEof
    <2>6. CASE ReadTry(r)
      BY <2>6, <2>3, <2>4 DEF ReadTry, ReadEof, ReadBatch, ReadTake
    <2>7. CASE ReadRecheck(r)
      BY <2>7, <2>3, <2>4 DEF ReadRecheck, ReadEof
    <2>8. CASE ReadSelect(r)
      BY <2>8, <2>3, <2>4 DEF ReadSelect, ReadEof, ReadBatch, ReadTake
    <2>. QED BY <1>5, <2>1, <2>2, <2>5, <2>6, <2>7, <2>8 DEF ReadStep
  <1>6. CASE UNCHANGED recvVars
    BY <1>1, <1>6 DEF recvVars
  <1>7. ASSUME NEW s \in Senders, SendReserve(s) \/ SendEnqueue(s) \/ SendRefund(s)
        PROVE  ReadPart'
    BY <1>6, <1>7 DEF SendReserve, SendEnqueue, SendRefund
  <1>8. CASE TrySend \/ SendTaskStep
    BY <1>6, <1>8 DEF TrySend, SendTaskStep, SendTake, SendDrain, SendTaskEnds
  <1>9. ASSUME NEW c \in Callers, StreamReleased(c) \/ \E k \in Kinds : RequestStream(c, k)
        PROVE  ReadPart'
    BY <1>6, <1>9 DEF StreamReleased, RequestStream, streamFrame
  <1>10. ASSUME NEW k \in Kinds, StreamReady(k) \/ StreamFails(k)
        PROVE  ReadPart'
    BY <1>6, <1>10 DEF StreamReady, StreamFails, streamFrame
  <1>. QED BY <1>2, <1>3, <1>4, <1>5, <1>7, <1>8, <1>9, <1>10 DEF SessionNext

-----------------------------------------------------------------------------
(* The stream requests. *)

LEMMA HoldingCount == IsFiniteSet(Holding) /\ Cardinality(Holding) \in Nat
  BY SessionAssumption, Counted DEF Holding

\* What Waiting says of two places of a channel.
LEMMA Waits ==
    ASSUME StreamPart, NEW k \in Kinds, NEW m \in 1..Len(chan[k]), NEW n \in 1..Len(chan[k])
    PROVE  caller[chan[k][m]] = k /\ (chan[k][m] = chan[k][n] => m = n)
  BY DEF StreamPart, Waiting

LEMMA RequestMoves ==
    ASSUME StreamPart, NEW c \in Callers, NEW k \in Kinds, RequestStream(c, k)
    PROVE  StreamPart'
  <1>. USE DEF StreamPart, Kinds
  <1>1. /\ caller[c] = "idle" /\ caller' = [caller EXCEPT ![c] = k]
        /\ chan' = [chan EXCEPT ![k] = Append(chan[k], c)] /\ streams' = streams
    BY DEF RequestStream
  <1>2. chan[k] \in Seq(Callers)
    OBVIOUS
  <1>3. Holding' = Holding
    BY <1>1 DEF Holding
  <1>4. chan' \in [Kinds -> Seq(Callers)] /\ caller' \in [Callers -> Kinds \cup {"idle", "holds"}]
    BY <1>1, <1>2
  <1>5. ASSUME NEW j \in Kinds, NEW m \in 1..Len(chan[j])
        PROVE  chan[j][m] \in Callers /\ chan[j][m] # c
    BY <1>1 DEF Waiting
  <1>6. Waiting'
    <2>. SUFFICES ASSUME NEW j \in Kinds, NEW m \in 1..Len(chan'[j]), NEW n \in 1..Len(chan'[j])
                  PROVE  caller'[chan'[j][m]] = j /\ (chan'[j][m] = chan'[j][n] => m = n)
      BY Zenon DEF Waiting
    <2>1. CASE j # k
      <3>1. chan'[j] = chan[j]
        BY <1>1, <2>1
      <3>. QED BY <3>1, <1>1, <1>5 DEF Waiting
    <2>2. CASE j = k
      <3>1. /\ chan'[j] = Append(chan[k], c) /\ Len(chan'[j]) = Len(chan[k]) + 1
            /\ chan'[j][Len(chan[k]) + 1] = c /\ Len(chan[k]) \in Nat
            /\ \A i \in 1..Len(chan[k]) : chan'[j][i] = chan[k][i]
        BY <1>1, <1>2, <2>2
      <3>2. CASE m = Len(chan[k]) + 1 /\ n = Len(chan[k]) + 1
        BY <3>1, <3>2, <1>1, <2>2
      <3>3. CASE m \in 1..Len(chan[k]) /\ n = Len(chan[k]) + 1
        BY <3>1, <3>3, <1>1, <1>5, <2>2 DEF Waiting
      <3>4. CASE m = Len(chan[k]) + 1 /\ n \in 1..Len(chan[k])
        BY <3>1, <3>4, <1>1, <1>5, <2>2 DEF Waiting
      <3>5. CASE m \in 1..Len(chan[k]) /\ n \in 1..Len(chan[k])
        BY <3>1, <3>5, <1>1, <1>5, <2>2 DEF Waiting
      <3>. QED BY <3>1, <3>2, <3>3, <3>4, <3>5
    <2>. QED BY <2>1, <2>2
  <1>. QED BY <1>1, <1>3, <1>4, <1>6

\* The request at the head of a channel is answered: its caller holds a stream
\* or has nothing.
LEMMA AnswerMoves ==
    ASSUME StreamPart, NEW k \in Kinds, StreamReady(k) \/ StreamFails(k)
    PROVE  StreamPart'
  <1>. USE DEF StreamPart, Kinds
  <1>1. chan[k] # <<>> /\ chan[k] \in Seq(Callers)
    BY DEF StreamReady, StreamFails
  <1>2. PICK h \in Callers : h = Head(chan[k]) /\ h = chan[k][1] /\ caller[h] = k
    <2>1. 1 \in 1..Len(chan[k]) /\ Head(chan[k]) = chan[k][1] /\ Head(chan[k]) \in Callers
      BY <1>1
    <2>2. caller[chan[k][1]] = k
      BY <2>1, Waits
    <2>. QED BY <2>1, <2>2
  <1>3. PICK x \in {"holds", "idle"} :
            /\ chan' = [chan EXCEPT ![k] = Tail(chan[k])]
            /\ caller' = [caller EXCEPT ![h] = x]
            /\ x = "holds" => streams' = streams + 1
            /\ x = "idle" => streams' = streams
    BY <1>2 DEF StreamReady, StreamFails
  <1>4. chan' \in [Kinds -> Seq(Callers)] /\ caller' \in [Callers -> Kinds \cup {"idle", "holds"}]
    BY <1>1, <1>3
  <1>5. streams' = Cardinality(Holding')
    <2>1. h \notin Holding
      BY <1>2 DEF Holding
    <2>2. CASE x = "holds"
      <3>1. Holding' = Holding \cup {h}
        BY <1>3, <2>2 DEF Holding
      <3>. QED BY <1>3, <2>1, <2>2, <3>1, CountedIn, HoldingCount
    <2>3. CASE x = "idle"
      <3>1. Holding' = Holding
        BY <1>2, <1>3, <2>3 DEF Holding
      <3>. QED BY <1>3, <2>3, <3>1
    <2>. QED BY <2>2, <2>3
  <1>6. Waiting'
    <2>. SUFFICES ASSUME NEW j \in Kinds, NEW m \in 1..Len(chan'[j]), NEW n \in 1..Len(chan'[j])
                  PROVE  caller'[chan'[j][m]] = j /\ (chan'[j][m] = chan'[j][n] => m = n)
      BY Zenon DEF Waiting
    <2>1. CASE j # k
      <3>1. chan'[j] = chan[j] /\ chan[j][m] \in Callers /\ caller[chan[j][m]] = j
        BY <1>3, <2>1 DEF Waiting
      <3>2. chan[j][m] # h
        BY <3>1, <1>2, <2>1
      <3>. QED BY <3>1, <3>2, <1>3 DEF Waiting
    <2>2. CASE j = k
      <3>1. /\ chan'[j] = Tail(chan[k]) /\ Len(chan'[j]) = Len(chan[k]) - 1
            /\ Len(chan[k]) \in Nat
            /\ m + 1 \in 1..Len(chan[k]) /\ n + 1 \in 1..Len(chan[k])
            /\ chan'[j][m] = chan[k][m + 1] /\ chan'[j][n] = chan[k][n + 1]
        BY <1>1, <1>3, <2>2
      <3>2. chan[k][m + 1] \in Callers /\ 1 \in 1..Len(chan[k])
        BY <1>1, <3>1
      <3>4. /\ caller[chan[k][m + 1]] = k
            /\ chan[k][m + 1] = chan[k][n + 1] => m + 1 = n + 1
            /\ chan[k][m + 1] = chan[k][1] => m + 1 = 1
        BY <3>1, <3>2, Waits
      <3>3. chan[k][m + 1] # h
        BY <1>2, <3>4
      <3>. QED BY <3>1, <3>2, <3>3, <3>4, <1>3, <2>2
    <2>. QED BY <2>1, <2>2
  <1>. QED BY <1>4, <1>5, <1>6

LEMMA ReleaseMoves ==
    ASSUME StreamPart, NEW c \in Callers, StreamReleased(c)
    PROVE  StreamPart'
  <1>. USE DEF StreamPart, Kinds
  <1>1. /\ caller[c] = "holds" /\ caller' = [caller EXCEPT ![c] = "idle"]
        /\ chan' = chan /\ streams' = streams - 1
    BY DEF StreamReleased
  <1>2. Holding' = Holding \ {c} /\ c \in Holding
    BY <1>1 DEF Holding
  <1>3. streams' = Cardinality(Holding')
    BY <1>1, <1>2, CountedOut, HoldingCount
  <1>4. ASSUME NEW j \in Kinds, NEW m \in 1..Len(chan[j])
        PROVE  chan[j][m] \in Callers /\ chan[j][m] # c
    BY <1>1 DEF Waiting
  <1>5. Waiting'
    BY <1>1, <1>4 DEF Waiting
  <1>. QED BY <1>1, <1>3, <1>5

LEMMA StreamMoves ==
    ASSUME StreamPart, SessionNext
    PROVE  StreamPart'
  <1>1. CASE UNCHANGED streamVars
    BY <1>1 DEF streamVars, StreamPart, Waiting, Holding
  <1>2. CASE BootStep \/ Close \/ ConnectionLost
    BY <1>1, <1>2 DEF BootStep, InsertEntry, CallbackDelivered, CallbackFailed, TakeSession, Close,
                ConnectionLost
  <1>3. CASE TermStep
    BY <1>1, <1>3 DEF TermStep, TermEnds, TermMark, TermFinalize, TermWait, TermSettle, termFrame
  <1>4. CASE ForwardGot \/ ForwardStep
    BY <1>1, <1>4 DEF ForwardGot, ForwardStep, ForwardEnds, ForwardCharge, ForwardArm,
                ForwardRecheck, ForwardSend, ForwardInterrupted, ForwardLeave, ForwardDrain, fwdFrame
  <1>5. ASSUME NEW r \in Readers, ReadStart(r) \/ ReadLock(r) \/ ReadStep(r)
        PROVE  StreamPart'
    BY <1>1, <1>5 DEF ReadStart, ReadLock, ReadStep, ReadFirst, ReadTry, ReadRecheck, ReadSelect,
                readFrame
  <1>6. ASSUME NEW s \in Senders, SendReserve(s) \/ SendEnqueue(s) \/ SendRefund(s)
        PROVE  StreamPart'
    BY <1>1, <1>6 DEF SendReserve, SendEnqueue, SendRefund
  <1>7. CASE TrySend \/ SendTaskStep
    BY <1>1, <1>7 DEF TrySend, SendTaskStep, SendTake, SendDrain, SendTaskEnds
  <1>8. ASSUME NEW c \in Callers, StreamReleased(c) \/ \E k \in Kinds : RequestStream(c, k)
        PROVE  StreamPart'
    BY <1>8, ReleaseMoves, RequestMoves
  <1>9. ASSUME NEW k \in Kinds, StreamReady(k) \/ StreamFails(k)
        PROVE  StreamPart'
    BY <1>9, AnswerMoves
  <1>. QED BY <1>2, <1>3, <1>4, <1>5, <1>6, <1>7, <1>8, <1>9 DEF SessionNext

LEMMA ByteMoves ==
    ASSUME BytePart, SessionNext
    PROVE  BytePart'
  <1>1. CASE UNCHANGED <<fwd, recvq, sendVars, queued>>
    BY <1>1 DEF BytePart, ByteTypes, QueuedExact, sendVars
  <1>2. CASE BootStep \/ Close \/ ConnectionLost
    BY <1>1, <1>2 DEF BootStep, InsertEntry, CallbackDelivered, CallbackFailed, TakeSession, Close,
                ConnectionLost, InitiateClose, recvVars
  <1>3. ASSUME NEW c \in Callers, StreamReleased(c) \/ \E k \in Kinds : RequestStream(c, k)
        PROVE  BytePart'
    BY <1>1, <1>3 DEF StreamReleased, RequestStream, streamFrame, recvVars
  <1>4. ASSUME NEW k \in Kinds, StreamReady(k) \/ StreamFails(k)
        PROVE  BytePart'
    BY <1>1, <1>4 DEF StreamReady, StreamFails, streamFrame, recvVars
  <1>. QED BY <1>2, <1>3, <1>4, ForwardBytes, ReadBytes, TermBytes, SendBytes, SendTaskBytes
           DEF SessionNext

-----------------------------------------------------------------------------
(* The theorems about a session. *)

LEMMA SessionStarts ==
    ASSUME SessionInit
    PROVE  SessionInvariant
  <1>. USE DEF SessionInit
  <1>1. Cardinality({}) = 0
    BY FS_EmptySet
  <1>2. BytePart
    <2>1. Offering = {} /\ Charged = 0
      BY DEF Offering, Charged
    <2>2. ByteTypes
      BY SessionAssumption DEF ByteTypes
    <2>. QED BY <1>1, <2>1, <2>2, QueuedSum DEF BytePart
  <1>3. EndPart
    BY DEF EndPart, ReceiveSettled
  <1>4. ReadPart
    BY SessionAssumption DEF ReadPart, OneReaderInside
  <1>5. StreamPart
    <2>1. Holding = {}
      BY DEF Holding
    <2>. QED BY <1>1, <2>1 DEF StreamPart, Waiting, Kinds
  <1>. QED BY <1>2, <1>3, <1>4, <1>5 DEF SessionInvariant

LEMMA SessionStutters ==
    ASSUME SessionInvariant, UNCHANGED sessionVars
    PROVE  SessionInvariant'
  BY DEF SessionInvariant, BytePart, ByteTypes, QueuedExact, EndPart, ReceiveSettled, ReadPart,
         OneReaderInside, StreamPart, Waiting, Holding, sessionVars, closeVars, recvVars, sendVars,
         streamVars, bootVars

LEMMA SessionSteps == SessionInvariant /\ [SessionNext]_sessionVars => SessionInvariant'
  <1>. SUFFICES ASSUME SessionInvariant, [SessionNext]_sessionVars
                PROVE  SessionInvariant'
    OBVIOUS
  <1>1. CASE SessionNext
    BY <1>1, ByteMoves, EndMoves, ReaderMoves, StreamMoves DEF SessionInvariant
  <1>2. CASE UNCHANGED sessionVars
    BY <1>2, SessionStutters
  <1>. QED BY <1>1, <1>2

LEMMA SessionImplies == SessionInvariant => BytesSettled
  <1>. SUFFICES ASSUME SessionInvariant
                PROVE  BytesSettled
    OBVIOUS
  <1>1. Holding \subseteq Callers
    BY DEF Holding
  <1>2. Cardinality(Callers) \in Nat /\ Cardinality(Holding) \in 0..Cardinality(Callers)
    BY <1>1, SessionAssumption, Counted, FS_CardinalityType
  <1>3. SessionTypeOK
    BY <1>2 DEF SessionTypeOK, SessionInvariant, BytePart, ByteTypes, EndPart, ReadPart, StreamPart
  <1>. QED BY <1>3 DEF BytesSettled, SessionInvariant, BytePart, EndPart, ReadPart

\* The bytes of a client session (client.rs queued_bytes) are counted exactly
\* by every interleaving of its tasks and callers, the budget and the channel
\* capacities are kept, once the terminal task and the forwarder have ended no
\* receive reservation is left, and one reader at a time is in the receiver.
THEOREM ClientBytesSettled == SessionSpec => []BytesSettled
  <1>. QED BY SessionStarts, SessionSteps, SessionImplies, PTL DEF SessionSpec

\* A datagram in the receive channel is dropped undelivered (by the forwarder
\* or the terminal task) only in a session whose close flag is set.
THEOREM ClientDiscards == SessionSpec => DiscardsOnlyWhenClosed
  <1>1. SessionInvariant /\ [SessionNext]_sessionVars
            => [recvq' < recvq /\ UNCHANGED reader => closed]_sessionVars
    <2>. SUFFICES ASSUME SessionInvariant, SessionNext, recvq' < recvq, UNCHANGED reader
                  PROVE  closed
      BY DEF SessionInvariant, EndPart
    <2>0. recvq \in Nat
      BY SessionAssumption DEF SessionInvariant, BytePart, ByteTypes
    <2>1. CASE UNCHANGED recvq
      BY <2>0, <2>1
    <2>2. CASE BootStep \/ Close \/ ConnectionLost
      BY <2>1, <2>2 DEF BootStep, InsertEntry, CallbackDelivered, CallbackFailed, TakeSession,
                  Close, ConnectionLost, InitiateClose, recvVars
    <2>3. CASE TermStep
      BY <2>1, <2>3 DEF TermStep, TermEnds, TermMark, TermFinalize, TermWait, TermSettle, recvVars,
                  SessionInvariant, EndPart
    <2>4. CASE ForwardGot \/ ForwardStep
      <3>1. CASE ForwardDrain
        BY <3>1 DEF ForwardDrain, SessionInvariant, EndPart
      <3>2. CASE ForwardSend
        BY <2>0, <3>2 DEF ForwardSend
      <3>. QED BY <2>1, <2>4, <3>1, <3>2
               DEF ForwardGot, ForwardStep, ForwardEnds, ForwardCharge, ForwardArm, ForwardRecheck,
                   ForwardInterrupted, ForwardLeave
    <2>5. ASSUME NEW r \in Readers, ReadStart(r) \/ ReadLock(r) \/ ReadStep(r)
          PROVE  closed
      <3>1. CASE ReadStart(r) \/ ReadLock(r)
        BY <2>1, <3>1 DEF ReadStart, ReadLock
      <3>2. ASSUME reader' = [reader EXCEPT ![r] = "idle"], reader[r] # "idle"
            PROVE  FALSE
        BY <3>2 DEF SessionInvariant, ReadPart
      <3>3. CASE ReadStep(r)
        BY <2>1, <3>2, <3>3 DEF ReadStep, ReadFirst, ReadTry, ReadRecheck, ReadSelect, ReadBatch,
                    ReadTake, ReadEof
      <3>. QED BY <2>5, <3>1, <3>3
    <2>6. ASSUME NEW s \in Senders, SendReserve(s) \/ SendEnqueue(s) \/ SendRefund(s)
          PROVE  closed
      BY <2>1, <2>6 DEF SendReserve, SendEnqueue, SendRefund, recvVars
    <2>7. CASE TrySend \/ SendTaskStep
      BY <2>1, <2>7 DEF TrySend, SendTaskStep, SendTake, SendDrain, SendTaskEnds, recvVars
    <2>8. ASSUME NEW c \in Callers, StreamReleased(c) \/ \E k \in Kinds : RequestStream(c, k)
          PROVE  closed
      BY <2>1, <2>8 DEF StreamReleased, RequestStream, streamFrame, recvVars
    <2>9. ASSUME NEW k \in Kinds, StreamReady(k) \/ StreamFails(k)
          PROVE  closed
      BY <2>1, <2>9 DEF StreamReady, StreamFails, streamFrame, recvVars
    <2>. QED BY <2>2, <2>3, <2>4, <2>5, <2>6, <2>7, <2>8, <2>9 DEF SessionNext
  <1>. QED BY <1>1, SessionStarts, SessionSteps, PTL DEF SessionSpec, DiscardsOnlyWhenClosed

-----------------------------------------------------------------------------
(* Connecting: the invariant. *)

Entered == {"handshake", "live", "dropped", "failed", "evicting", "closed"}
Using == {"handshake", "live"}
Unborn == {"idle", "pool", "plain", "dial0rtt"}
Early == {"early", "hello"}

\* The fields a connect has at each point.
Formed(r) ==
    /\ "pc" \in DOMAIN r
    /\ r.pc \in Entered =>
          {"key", "entry"} \subseteq DOMAIN r /\ r.key \in Keys /\ r.entry \in Connects
    /\ r.pc \in Early =>
          /\ {"id", "server", "before"} \subseteq DOMAIN r
          /\ r.id \in Identities /\ r.server \in Servers /\ r.before \in Nat
    /\ r.pc = "resumed" => {"has0Rtt", "accepted"} \subseteq DOMAIN r
ConnsFormed == DOMAIN conns = Connects /\ \A c \in Connects : Formed(conns[c])

\* A connect that has not come to the pool is no entry of it.
EntriesBorn ==
    \A e \in Connects : conns[e].pc \in Unborn => Users(e) = {} /\ \A k \in Keys : pool[k] # e

PoolPart ==
    /\ pool \in [Keys -> Connects \cup {NoEntry}]
    /\ refs \in [Connects -> Nat] /\ DOMAIN stamp = Connects
    /\ RefsExact /\ PoolBounded /\ EntriesBorn
    /\ IsFiniteSet(Pooled) /\ \A e \in Connects : IsFiniteSet(Users(e))

-----------------------------------------------------------------------------
(* What a step makes of one connect. *)

LEMMA Rewritten ==
    ASSUME ConnsFormed, NEW c \in Connects, NEW r, conns' = [conns EXCEPT ![c] = r]
    PROVE  /\ DOMAIN conns' = Connects /\ conns'[c] = r
           /\ \A d \in Connects : d # c => conns'[d] = conns[d]
  BY DEF ConnsFormed

LEMMA Advanced ==
    ASSUME ConnsFormed, NEW c \in Connects, NEW x, conns' = [conns EXCEPT ![c].pc = x]
    PROVE  /\ DOMAIN conns' = Connects
           /\ \A d \in Connects : d # c => conns'[d] = conns[d]
           /\ DOMAIN conns'[c] = DOMAIN conns[c] /\ conns'[c].pc = x
           /\ conns[c].pc \in Entered =>
                 conns'[c].key = conns[c].key /\ conns'[c].entry = conns[c].entry
           /\ conns[c].pc \in Early =>
                 /\ conns'[c].id = conns[c].id /\ conns'[c].server = conns[c].server
                 /\ conns'[c].before = conns[c].before
  <1>1. Formed(conns[c])
    BY DEF ConnsFormed
  <1>2. /\ DOMAIN conns' = Connects /\ conns'[c] = [conns[c] EXCEPT !.pc = x]
        /\ \A d \in Connects : d # c => conns'[d] = conns[d]
    BY DEF ConnsFormed
  <1>. QED BY <1>1, <1>2 DEF Formed, Entered, Early

LEMMA StillFormed ==
    ASSUME ConnsFormed, NEW c \in Connects, DOMAIN conns' = Connects,
           \A d \in Connects : d # c => conns'[d] = conns[d], Formed(conns'[c])
    PROVE  ConnsFormed'
  <1>1. \A d \in Connects : Formed(conns'[d])
    BY DEF ConnsFormed
  <1>2. ConnsFormed' <=> DOMAIN conns' = Connects /\ \A d \in Connects : Formed(conns'[d])
    BY DEF ConnsFormed, Formed
  <1>. QED BY <1>1, <1>2

\* A step that neither takes nor gives back a reference.
LEMMA UsersKept ==
    ASSUME ConnsFormed, NEW c \in Connects, NEW e \in Connects,
           \A d \in Connects : d # c => conns'[d] = conns[d],
           \/ conns[c].pc \notin Using /\ conns'[c].pc \notin Using
           \/ conns[c].pc \in Using /\ conns'[c].pc \in Using /\ conns'[c].entry = conns[c].entry
    PROVE  Users(e)' = Users(e)
  BY DEF Users, Using

LEMMA QuietPool ==
    ASSUME ConnsFormed, PoolPart, NEW c \in Connects, UNCHANGED <<pool, refs>>,
           DOMAIN stamp' = Connects,
           \A d \in Connects : d # c => conns'[d] = conns[d],
           \/ conns[c].pc \notin Using /\ conns'[c].pc \notin Using
           \/ conns[c].pc \in Using /\ conns'[c].pc \in Using /\ conns'[c].entry = conns[c].entry,
           conns'[c].pc \in Unborn => conns[c].pc \in Unborn
    PROVE  PoolPart'
  <1>1. \A e \in Connects : Users(e)' = Users(e)
    BY UsersKept
  <1>2. Pooled' = Pooled
    BY DEF Pooled
  <1>. QED BY <1>1, <1>2 DEF PoolPart, RefsExact, PoolBounded, EntriesBorn

\* The counts of takes are counts.
TakesTyped == takes \in [Identities -> [Servers -> Nat]]

\* What the steps outside the pool do to the connect they are about.
LEMMA OutsideForms ==
    ASSUME ConnsFormed, TakesTyped, NEW c \in Connects,
           \/ PlainConnect(c) \/ (\E o \in Options : Dial(c, o))
           \/ (\E i \in Identities, s \in Servers : Begin0Rtt(c, i, s))
           \/ TakeTicket(c) \/ Resolve0Rtt(c) \/ Fail0Rtt(c) \/ Confirm0Rtt(c)
    PROVE  /\ ConnsFormed'
           /\ \A d \in Connects : d # c => conns'[d] = conns[d]
           /\ conns[c].pc \notin Using /\ conns'[c].pc \notin Using
           /\ conns'[c].pc \in Unborn => conns[c].pc \in Unborn
  <1>0. Formed(conns[c])
    BY DEF ConnsFormed
  <1>1. CASE PlainConnect(c)
    <2>1. PICK x \in {"connected", "rejected"} : conns' = [conns EXCEPT ![c].pc = x]
      BY <1>1 DEF PlainConnect
    <2>2. /\ DOMAIN conns' = Connects /\ \A d \in Connects : d # c => conns'[d] = conns[d]
          /\ DOMAIN conns'[c] = DOMAIN conns[c] /\ conns'[c].pc = x
      BY <2>1, Advanced
    <2>3. Formed(conns'[c])
      BY <1>0, <2>2 DEF Formed, Entered, Early
    <2>4. ConnsFormed'
      BY <2>2, <2>3, StillFormed
    <2>. QED BY <1>1, <2>2, <2>4 DEF PlainConnect, Using, Unborn
  <1>2. CASE \E o \in Options : Dial(c, o)
    <2>1. PICK o \in Options : Dial(c, o)
      BY <1>2
    <2>2. PICK x \in {"rejected", "pool", "dial0rtt", "plain"} :
              conns' = [conns EXCEPT ![c] = [pc |-> x]]
      BY <2>1 DEF Dial, Route
    <2>3. /\ DOMAIN conns' = Connects /\ \A d \in Connects : d # c => conns'[d] = conns[d]
          /\ conns'[c] = [pc |-> x]
      BY <2>2, Rewritten
    <2>4. Formed(conns'[c])
      BY <2>3 DEF Formed, Entered, Early
    <2>5. ConnsFormed'
      BY <2>3, <2>4, StillFormed
    <2>. QED BY <2>1, <2>3, <2>5 DEF Dial, Using, Unborn
  <1>3. CASE \E i \in Identities, s \in Servers : Begin0Rtt(c, i, s)
    <2>1. PICK i \in Identities, s \in Servers : Begin0Rtt(c, i, s)
      BY <1>3
    <2>2. /\ conns[c].pc = "dial0rtt"
          /\ conns' = [conns EXCEPT ![c] =
                [pc |-> "early", id |-> i, server |-> s, before |-> takes[i][s]]]
      BY <2>1 DEF Begin0Rtt
    <2>3. /\ DOMAIN conns' = Connects /\ \A d \in Connects : d # c => conns'[d] = conns[d]
          /\ conns'[c] = [pc |-> "early", id |-> i, server |-> s, before |-> takes[i][s]]
      BY <2>2, Rewritten
    <2>4. Formed(conns'[c])
      BY <2>3 DEF Formed, Entered, Early, TakesTyped
    <2>5. ConnsFormed'
      BY <2>3, <2>4, StillFormed
    <2>. QED BY <2>2, <2>3, <2>5 DEF Using, Unborn
  <1>4. CASE TakeTicket(c)
    <2>1. conns[c].pc = "early" /\ conns' = [conns EXCEPT ![c].pc = "hello"]
      BY <1>4 DEF TakeTicket
    <2>2. /\ DOMAIN conns' = Connects /\ \A d \in Connects : d # c => conns'[d] = conns[d]
          /\ DOMAIN conns'[c] = DOMAIN conns[c] /\ conns'[c].pc = "hello"
          /\ conns'[c].id = conns[c].id /\ conns'[c].server = conns[c].server
          /\ conns'[c].before = conns[c].before
      BY <2>1, Advanced DEF Early
    <2>3. Formed(conns'[c])
      BY <1>0, <2>1, <2>2 DEF Formed, Entered, Early
    <2>4. ConnsFormed'
      BY <2>2, <2>3, StillFormed
    <2>. QED BY <2>1, <2>2, <2>4 DEF Using, Unborn
  <1>5. CASE Resolve0Rtt(c)
    <2>1. PICK b, a : /\ conns[c].pc = "hello"
                      /\ conns' = [conns EXCEPT ![c] =
                              [pc |-> "resumed", has0Rtt |-> b, accepted |-> a]]
      BY <1>5 DEF Resolve0Rtt
    <2>2. /\ DOMAIN conns' = Connects /\ \A d \in Connects : d # c => conns'[d] = conns[d]
          /\ conns'[c] = [pc |-> "resumed", has0Rtt |-> b, accepted |-> a]
      BY <2>1, Rewritten
    <2>3. Formed(conns'[c])
      BY <2>2 DEF Formed, Entered, Early
    <2>4. ConnsFormed'
      BY <2>2, <2>3, StillFormed
    <2>. QED BY <2>1, <2>2, <2>4 DEF Using, Unborn
  <1>6. CASE Fail0Rtt(c)
    <2>1. conns[c].pc \in Early /\ conns' = [conns EXCEPT ![c] = [pc |-> "rejected"]]
      BY <1>6 DEF Fail0Rtt, Early
    <2>2. /\ DOMAIN conns' = Connects /\ \A d \in Connects : d # c => conns'[d] = conns[d]
          /\ conns'[c] = [pc |-> "rejected"]
      BY <2>1, Rewritten
    <2>3. Formed(conns'[c])
      BY <2>2 DEF Formed, Entered, Early
    <2>4. ConnsFormed'
      BY <2>2, <2>3, StillFormed
    <2>. QED BY <2>1, <2>2, <2>4 DEF Using, Unborn, Early
  <1>7. CASE Confirm0Rtt(c)
    <2>1. PICK a : conns[c].pc = "resumed" /\ conns' = [conns EXCEPT ![c].accepted = a]
      BY <1>7 DEF Confirm0Rtt
    <2>2. /\ DOMAIN conns' = Connects /\ \A d \in Connects : d # c => conns'[d] = conns[d]
          /\ conns'[c] = [conns[c] EXCEPT !.accepted = a]
      BY <2>1 DEF ConnsFormed
    <2>3. conns'[c].pc = "resumed" /\ DOMAIN conns'[c] = DOMAIN conns[c]
      BY <1>0, <2>1, <2>2 DEF Formed
    <2>4. Formed(conns'[c])
      BY <1>0, <2>1, <2>3 DEF Formed, Entered, Early
    <2>5. ConnsFormed'
      BY <2>2, <2>4, StillFormed
    <2>. QED BY <2>1, <2>2, <2>3, <2>5 DEF Using, Unborn
  <1>. QED BY <1>1, <1>2, <1>3, <1>4, <1>5, <1>6, <1>7

LEMMA OutsidePool ==
    ASSUME ConnsFormed, TakesTyped, PoolPart, NEW c \in Connects,
           \/ PlainConnect(c) \/ (\E o \in Options : Dial(c, o))
           \/ (\E i \in Identities, s \in Servers : Begin0Rtt(c, i, s))
           \/ TakeTicket(c) \/ Resolve0Rtt(c) \/ Fail0Rtt(c) \/ Confirm0Rtt(c)
    PROVE  PoolPart'
  <1>1. UNCHANGED poolVars
    BY DEF PlainConnect, Dial, Begin0Rtt, TakeTicket, Resolve0Rtt, Fail0Rtt, Confirm0Rtt
  <1>2. /\ \A d \in Connects : d # c => conns'[d] = conns[d]
        /\ conns[c].pc \notin Using /\ conns'[c].pc \notin Using
        /\ conns'[c].pc \in Unborn => conns[c].pc \in Unborn
    BY OutsideForms
  <1>3. UNCHANGED <<pool, refs>> /\ DOMAIN stamp' = Connects
    BY <1>1 DEF poolVars, PoolPart
  <1>. QED BY <1>2, <1>3, QuietPool

-----------------------------------------------------------------------------
(* The pool. *)

\* A connect enters a handshake on entry e.
LEMMA Joins ==
    ASSUME ConnsFormed, PoolPart, NEW c \in Connects, NEW k \in Keys, NEW e \in Connects,
           conns[c].pc = "pool",
           conns' = [conns EXCEPT ![c] = [pc |-> "handshake", key |-> k, entry |-> e]]
    PROVE  /\ ConnsFormed'
           /\ \A d \in Connects : d # c => conns'[d] = conns[d]
           /\ conns'[c].pc = "handshake" /\ c \notin Users(e)
           /\ Users(e)' = Users(e) \cup {c}
           /\ \A d \in Connects : d # e => Users(d)' = Users(d)
           /\ IsFiniteSet(Users(e)') /\ Cardinality(Users(e)') = Cardinality(Users(e)) + 1
  <1>1. /\ DOMAIN conns' = Connects /\ \A d \in Connects : d # c => conns'[d] = conns[d]
        /\ conns'[c] = [pc |-> "handshake", key |-> k, entry |-> e]
    BY Rewritten
  <1>2. Formed(conns'[c])
    BY <1>1 DEF Formed, Entered, Early
  <1>3. ConnsFormed'
    BY <1>1, <1>2, StillFormed
  <1>4. conns'[c].pc = "handshake" /\ conns'[c].entry = e
    BY <1>1
  <1>5. c \notin Users(e) /\ Users(e)' = Users(e) \cup {c}
    BY <1>1, <1>4 DEF Users
  <1>6. \A d \in Connects : d # e => Users(d)' = Users(d)
    BY <1>1, <1>4 DEF Users
  <1>7. IsFiniteSet(Users(e)) /\ IsFiniteSet(Users(e)')
    BY <1>5, FS_AddElement DEF PoolPart
  <1>8. Cardinality(Users(e)') = Cardinality(Users(e)) + 1
    BY <1>5, <1>7, CountedIn
  <1>. QED BY <1>1, <1>3, <1>4, <1>5, <1>6, <1>7, <1>8

\* Keys leave the pool.
LEMMA FewerPooled ==
    ASSUME PoolPart, pool' \in [Keys -> Connects \cup {NoEntry}],
           Pooled' \subseteq Pooled
    PROVE  IsFiniteSet(Pooled') /\ Cardinality(Pooled') <= MaxPoolEntries
  <1>1. /\ IsFiniteSet(Pooled') /\ Cardinality(Pooled') \in Nat
        /\ Cardinality(Pooled') <= Cardinality(Pooled)
    BY Counted DEF PoolPart
  <1>2. Cardinality(Pooled) \in Nat /\ Cardinality(Pooled) <= MaxPoolEntries
    BY FS_CardinalityType DEF PoolPart, PoolBounded
  <1>. QED BY <1>1, <1>2, ConnectAssumption

\* The entries an acquire evicts are unreferenced.
LEMMA EvictedIdle ==
    ASSUME NEW out \in Headroom \cup {EvictIdle}
    PROVE  out \subseteq Idles
  BY DEF Headroom, EvictIdle, EvictOne

LEMMA IdleUnused ==
    ASSUME PoolPart, NEW k \in Idles
    PROVE  pool[k] \in Connects /\ Users(pool[k]) = {}
  <1>1. pool[k] \in Connects /\ refs[pool[k]] = 0
    BY DEF Idles, Pooled, PoolPart
  <1>2. Cardinality(Users(pool[k])) = 0 /\ IsFiniteSet(Users(pool[k]))
    BY <1>1 DEF PoolPart, RefsExact
  <1>. QED BY <1>1, <1>2, FS_EmptySet

LEMMA WithoutPool ==
    ASSUME PoolPart, NEW out \in SUBSET Keys
    PROVE  /\ Without(out) \in [Keys -> Connects \cup {NoEntry}]
           /\ \A k \in Keys : Without(out)[k] = IF k \in out THEN NoEntry ELSE pool[k]
  BY DEF Without, PoolPart

\* A connect that is rejected by the pool is in no handshake.
LEMMA Rejected ==
    ASSUME ConnsFormed, NEW c \in Connects, conns[c].pc = "pool",
           conns' = [conns EXCEPT ![c] = [pc |-> "rejected"]]
    PROVE  /\ ConnsFormed'
           /\ \A d \in Connects : d # c => conns'[d] = conns[d]
           /\ conns'[c].pc = "rejected"
           /\ \A e \in Connects : Users(e)' = Users(e)
  <1>1. /\ DOMAIN conns' = Connects /\ \A d \in Connects : d # c => conns'[d] = conns[d]
        /\ conns'[c] = [pc |-> "rejected"]
    BY Rewritten
  <1>2. conns'[c].pc = "rejected" /\ Formed(conns'[c])
    BY <1>1 DEF Formed, Entered, Early
  <1>3. ConnsFormed'
    BY <1>1, <1>2, StillFormed
  <1>4. \A e \in Connects : Users(e)' = Users(e)
    BY <1>1, <1>2, UsersKept DEF Using
  <1>. QED BY <1>1, <1>2, <1>3, <1>4

LEMMA AcquireHitMoves ==
    ASSUME ConnsFormed, PoolPart, NEW c \in Connects, NEW k \in Keys, AcquireHit(c, k)
    PROVE  ConnsFormed' /\ PoolPart'
  <1>1. /\ conns[c].pc = "pool" /\ pool[k] \in Connects /\ pool' = Without(EvictIdle)
        /\ stamp' = stamp /\ EvictIdle \subseteq Keys /\ DOMAIN stamp' = Connects
    BY DEF AcquireHit, Pooled, PoolPart, EvictIdle, Idles
  <1>2. /\ pool' \in [Keys -> Connects \cup {NoEntry}]
        /\ \A j \in Keys : pool'[j] \in {NoEntry, pool[j]}
    BY <1>1, WithoutPool
  <1>3. IsFiniteSet(Pooled') /\ Cardinality(Pooled') <= MaxPoolEntries
    <2>1. Pooled' \subseteq Pooled
      BY <1>2 DEF Pooled
    <2>. QED BY <1>2, <2>1, FewerPooled
  <1>4. CASE refs[pool[k]] < MaxPerKey
    <2>2. PICK e \in Connects : e = pool[k]
      BY <1>1
    <2>1. /\ refs' = [refs EXCEPT ![e] = @ + 1]
          /\ conns' = [conns EXCEPT ![c] = [pc |-> "handshake", key |-> k, entry |-> e]]
      BY <1>4, <2>2 DEF AcquireHit
    <2>3. /\ ConnsFormed'
          /\ \A d \in Connects : d # c => conns'[d] = conns[d]
          /\ conns'[c].pc = "handshake"
          /\ Users(e)' = Users(e) \cup {c}
          /\ \A d \in Connects : d # e => Users(d)' = Users(d)
          /\ IsFiniteSet(Users(e)') /\ Cardinality(Users(e)') = Cardinality(Users(e)) + 1
      <3>1. conns[c].pc = "pool"
        BY <1>1
      <3>. QED BY <2>1, <3>1, Joins
    <2>4. /\ refs' \in [Connects -> Nat] /\ refs'[e] = refs[e] + 1
          /\ \A d \in Connects : d # e => refs'[d] = refs[d]
      BY <2>1, <2>2 DEF PoolPart
    <2>5. refs'[e] <= MaxPerKey
      BY <1>4, <2>2, <2>4, ConnectAssumption DEF PoolPart
    <2>6. RefsExact'
      <3>1. \A d \in Connects : refs'[d] = Cardinality(Users(d)')
        BY <2>2, <2>3, <2>4 DEF PoolPart, RefsExact
      <3>. QED BY <3>1 DEF RefsExact
    <2>7. \A d \in Connects : refs'[d] <= MaxPerKey
      BY <2>4, <2>5 DEF PoolPart, PoolBounded
    <2>8. \A d \in Connects : IsFiniteSet(Users(d)')
      BY <2>3 DEF PoolPart
    <2>9. conns[e].pc \notin Unborn
      BY <2>2 DEF PoolPart, EntriesBorn
    <2>10. EntriesBorn'
      <3>1. ASSUME NEW d \in Connects, conns'[d].pc \in Unborn
            PROVE  Users(d)' = {} /\ \A j \in Keys : pool'[j] # d
        <4>1. d # c
          BY <2>3, <3>1 DEF Unborn
        <4>2. conns[d].pc \in Unborn
          BY <2>3, <3>1, <4>1
        <4>3. d # e
          BY <2>9, <4>2
        <4>4. Users(d) = {} /\ \A j \in Keys : pool[j] # d
          BY <4>2 DEF PoolPart, EntriesBorn
        <4>5. d # NoEntry
          BY ConnectAssumption
        <4>. QED BY <1>2, <2>3, <4>3, <4>4, <4>5
      <3>. QED BY <3>1 DEF EntriesBorn
    <2>. QED BY <1>1, <1>2, <1>3, <2>3, <2>4, <2>6, <2>7, <2>8, <2>10 DEF PoolPart, PoolBounded
  <1>5. CASE ~(refs[pool[k]] < MaxPerKey)
    <2>1. refs' = refs /\ conns' = [conns EXCEPT ![c] = [pc |-> "rejected"]]
      BY <1>5 DEF AcquireHit
    <2>2. /\ ConnsFormed'
          /\ \A d \in Connects : d # c => conns'[d] = conns[d]
          /\ conns'[c].pc = "rejected"
          /\ \A e \in Connects : Users(e)' = Users(e)
      BY <1>1, <2>1, Rejected
    <2>3. EntriesBorn'
      <3>1. ASSUME NEW d \in Connects, conns'[d].pc \in Unborn
            PROVE  Users(d)' = {} /\ \A j \in Keys : pool'[j] # d
        <4>1. conns[d].pc \in Unborn
          BY <2>2, <3>1 DEF Unborn
        <4>2. Users(d) = {} /\ \A j \in Keys : pool[j] # d
          BY <4>1 DEF PoolPart, EntriesBorn
        <4>3. d # NoEntry
          BY ConnectAssumption
        <4>. QED BY <1>2, <2>2, <4>2, <4>3
      <3>. QED BY <3>1 DEF EntriesBorn
    <2>4. RefsExact' /\ \A d \in Connects : IsFiniteSet(Users(d)')
      BY <2>1, <2>2 DEF PoolPart, RefsExact
    <2>. QED BY <1>1, <1>2, <1>3, <2>1, <2>2, <2>3, <2>4 DEF PoolPart, PoolBounded
  <1>. QED BY <1>4, <1>5

\* Headroom leaves a place for the new entry.
LEMMA RoomForOne ==
    ASSUME PoolPart, NEW out \in Headroom
    PROVE  /\ out \subseteq Keys /\ IsFiniteSet(Pooled \ out)
           /\ Cardinality(Pooled \ out) \in Nat /\ Cardinality(Pooled \ out) < MaxPoolEntries
  <1>1. /\ IsFiniteSet(Pooled) /\ Cardinality(Pooled) \in Nat
        /\ Cardinality(Pooled) <= MaxPoolEntries /\ MaxPoolEntries \in Nat
    BY FS_CardinalityType, ConnectAssumption DEF PoolPart, PoolBounded
  <1>2. out \subseteq Keys
    BY EvictedIdle DEF Idles, Pooled
  <1>3. IsFiniteSet(Pooled \ EvictIdle) /\ Cardinality(Pooled \ EvictIdle) \in Nat
        /\ Cardinality(Pooled \ EvictIdle) <= Cardinality(Pooled)
    BY <1>1, Counted
  <1>4. CASE Cardinality(Pooled \ EvictIdle) < MaxPoolEntries
    <2>1. out = EvictIdle
      BY <1>4 DEF Headroom
    <2>. QED BY <1>2, <1>3, <1>4, <2>1
  <1>5. CASE ~(Cardinality(Pooled \ EvictIdle) < MaxPoolEntries)
    <2>1. PICK v \in EvictOne : out = EvictIdle \cup {v}
      BY <1>5 DEF Headroom
    <2>2. v \in Pooled \ EvictIdle
      BY DEF EvictOne, Idles
    <2>3. Pooled \ out = (Pooled \ EvictIdle) \ {v}
      BY <2>1
    <2>4. /\ IsFiniteSet(Pooled \ out)
          /\ Cardinality(Pooled \ out) = Cardinality(Pooled \ EvictIdle) - 1
      BY <1>3, <2>2, <2>3, CountedOut, FS_RemoveElement
    <2>5. Cardinality(Pooled \ out) \in Nat
      BY <2>4, FS_CardinalityType
    <2>. QED BY <1>1, <1>2, <1>3, <2>4, <2>5
  <1>. QED BY <1>4, <1>5

LEMMA AcquireMissMoves ==
    ASSUME ConnsFormed, PoolPart, NEW c \in Connects, NEW k \in Keys, AcquireMiss(c, k)
    PROVE  ConnsFormed' /\ PoolPart'
  <1>1. PICK out \in Headroom :
          /\ pool' = [Without(out) EXCEPT ![k] = c]
          /\ refs' = [refs EXCEPT ![c] = 1]
          /\ stamp' = [stamp EXCEPT ![c] = now]
          /\ conns' = [conns EXCEPT ![c] = [pc |-> "handshake", key |-> k, entry |-> c]]
    BY DEF AcquireMiss
  <1>2. conns[c].pc = "pool"
    BY DEF AcquireMiss
  <1>3. Users(c) = {} /\ \A j \in Keys : pool[j] # c
    BY <1>2 DEF PoolPart, EntriesBorn, Unborn
  <1>4. /\ ConnsFormed'
        /\ \A d \in Connects : d # c => conns'[d] = conns[d]
        /\ conns'[c].pc = "handshake"
        /\ Users(c)' = Users(c) \cup {c}
        /\ \A d \in Connects : d # c => Users(d)' = Users(d)
        /\ IsFiniteSet(Users(c)') /\ Cardinality(Users(c)') = Cardinality(Users(c)) + 1
    BY <1>1, <1>2, Joins
  <1>5. /\ out \subseteq Keys /\ IsFiniteSet(Pooled \ out)
        /\ Cardinality(Pooled \ out) \in Nat /\ Cardinality(Pooled \ out) < MaxPoolEntries
    BY RoomForOne
  <1>6. /\ Without(out) \in [Keys -> Connects \cup {NoEntry}]
        /\ \A j \in Keys : Without(out)[j] = IF j \in out THEN NoEntry ELSE pool[j]
    BY <1>5, WithoutPool
  <1>7. /\ pool' \in [Keys -> Connects \cup {NoEntry}] /\ pool'[k] = c
        /\ \A j \in Keys : j # k => pool'[j] = IF j \in out THEN NoEntry ELSE pool[j]
    BY <1>1, <1>6
  <1>8. IsFiniteSet(Pooled') /\ Cardinality(Pooled') <= MaxPoolEntries
    <2>1. Pooled' = (Pooled \ out) \cup {k}
      BY <1>7, ConnectAssumption DEF Pooled
    <2>2. /\ IsFiniteSet((Pooled \ out) \cup {k})
          /\ \/ Cardinality((Pooled \ out) \cup {k}) = Cardinality(Pooled \ out)
             \/ Cardinality((Pooled \ out) \cup {k}) = Cardinality(Pooled \ out) + 1
      BY <1>5, FS_AddElement
    <2>. QED BY <1>5, <2>1, <2>2, ConnectAssumption
  <1>9. /\ refs' \in [Connects -> Nat] /\ refs'[c] = 1
        /\ \A d \in Connects : d # c => refs'[d] = refs[d]
    BY <1>1 DEF PoolPart
  <1>10. RefsExact'
    <2>1. Cardinality(Users(c)') = 1
      BY <1>3, <1>4, FS_EmptySet
    <2>2. \A d \in Connects : refs'[d] = Cardinality(Users(d)')
      BY <1>4, <1>9, <2>1 DEF PoolPart, RefsExact
    <2>. QED BY <2>2 DEF RefsExact
  <1>11. \A d \in Connects : refs'[d] <= MaxPerKey
    BY <1>9, ConnectAssumption DEF PoolPart, PoolBounded
  <1>12. \A d \in Connects : IsFiniteSet(Users(d)')
    BY <1>4 DEF PoolPart
  <1>13. EntriesBorn'
    <2>1. ASSUME NEW d \in Connects, conns'[d].pc \in Unborn
          PROVE  Users(d)' = {} /\ \A j \in Keys : pool'[j] # d
      <3>1. d # c
        BY <1>4, <2>1 DEF Unborn
      <3>2. conns[d].pc \in Unborn
        BY <1>4, <2>1, <3>1
      <3>3. Users(d) = {} /\ \A j \in Keys : pool[j] # d
        BY <3>2 DEF PoolPart, EntriesBorn
      <3>4. d # NoEntry
        BY ConnectAssumption
      <3>. QED BY <1>4, <1>7, <3>1, <3>3, <3>4
    <2>. QED BY <2>1 DEF EntriesBorn
  <1>14. DOMAIN stamp' = Connects
    BY <1>1 DEF PoolPart
  <1>. QED BY <1>4, <1>7, <1>8, <1>9, <1>10, <1>11, <1>12, <1>13, <1>14 DEF PoolPart, PoolBounded

LEMMA AcquireFailsMoves ==
    ASSUME ConnsFormed, PoolPart, NEW c \in Connects, NEW k \in Keys, AcquireFails(c, k)
    PROVE  ConnsFormed' /\ PoolPart'
  <1>1. PICK out \in Headroom \cup {EvictIdle} : pool' = Without(out)
    BY DEF AcquireFails
  <1>2. /\ conns[c].pc = "pool" /\ conns' = [conns EXCEPT ![c] = [pc |-> "rejected"]]
        /\ refs' = refs /\ DOMAIN stamp' = Connects
    BY DEF AcquireFails, PoolPart
  <1>3. /\ pool' \in [Keys -> Connects \cup {NoEntry}]
        /\ \A j \in Keys : pool'[j] \in {NoEntry, pool[j]}
    <2>1. out \subseteq Keys
      BY EvictedIdle DEF Idles, Pooled
    <2>. QED BY <1>1, <2>1, WithoutPool
  <1>4. IsFiniteSet(Pooled') /\ Cardinality(Pooled') <= MaxPoolEntries
    <2>1. Pooled' \subseteq Pooled
      BY <1>3 DEF Pooled
    <2>. QED BY <1>3, <2>1, FewerPooled
  <1>5. /\ ConnsFormed'
        /\ \A d \in Connects : d # c => conns'[d] = conns[d]
        /\ conns'[c].pc = "rejected"
        /\ \A e \in Connects : Users(e)' = Users(e)
    BY <1>2, Rejected
  <1>6. EntriesBorn'
    <2>1. ASSUME NEW d \in Connects, conns'[d].pc \in Unborn
          PROVE  Users(d)' = {} /\ \A j \in Keys : pool'[j] # d
      <3>1. conns[d].pc \in Unborn
        BY <1>5, <2>1 DEF Unborn
      <3>2. Users(d) = {} /\ \A j \in Keys : pool[j] # d
        BY <3>1 DEF PoolPart, EntriesBorn
      <3>3. d # NoEntry
        BY ConnectAssumption
      <3>. QED BY <1>3, <1>5, <3>2, <3>3
    <2>. QED BY <2>1 DEF EntriesBorn
  <1>7. RefsExact' /\ \A d \in Connects : IsFiniteSet(Users(d)')
    BY <1>2, <1>5 DEF PoolPart, RefsExact
  <1>. QED BY <1>2, <1>3, <1>4, <1>5, <1>6, <1>7 DEF PoolPart, PoolBounded

LEMMA HandshakeDoneMoves ==
    ASSUME ConnsFormed, PoolPart, NEW c \in Connects, HandshakeDone(c)
    PROVE  ConnsFormed' /\ PoolPart'
  <1>1. /\ conns[c].pc = "handshake" /\ conns' = [conns EXCEPT ![c].pc = "live"]
        /\ UNCHANGED <<pool, refs>> /\ DOMAIN stamp' = Connects
    BY DEF HandshakeDone, PoolPart, poolVars
  <1>2. /\ DOMAIN conns' = Connects
        /\ \A d \in Connects : d # c => conns'[d] = conns[d]
        /\ DOMAIN conns'[c] = DOMAIN conns[c] /\ conns'[c].pc = "live"
        /\ conns'[c].key = conns[c].key /\ conns'[c].entry = conns[c].entry
    BY <1>1, Advanced DEF Entered
  <1>3. Formed(conns'[c])
    BY <1>1, <1>2 DEF ConnsFormed, Formed, Entered, Early
  <1>4. ConnsFormed'
    BY <1>2, <1>3, StillFormed
  <1>. QED BY <1>1, <1>2, <1>4, QuietPool DEF Using, Unborn

\* A reference is given back.
LEMMA DropRefMoves ==
    ASSUME ConnsFormed, PoolPart, NEW c \in Connects, DropRef(c)
    PROVE  ConnsFormed' /\ PoolPart'
  <1>1. PICK x \in {"dropped", "failed"} : conns' = [conns EXCEPT ![c].pc = x]
    BY DEF DropRef
  <1>2. conns[c].pc \in Using /\ UNCHANGED pool /\ DOMAIN stamp' = Connects
    BY DEF DropRef, Using, PoolPart
  <1>3. PICK e \in Connects : e = conns[c].entry
    BY <1>2 DEF ConnsFormed, Formed, Using, Entered
  <1>4. /\ DOMAIN conns' = Connects
        /\ \A d \in Connects : d # c => conns'[d] = conns[d]
        /\ DOMAIN conns'[c] = DOMAIN conns[c] /\ conns'[c].pc = x
        /\ conns'[c].key = conns[c].key /\ conns'[c].entry = conns[c].entry
    BY <1>1, <1>2, Advanced DEF Entered, Using
  <1>5. Formed(conns'[c])
    BY <1>2, <1>4 DEF ConnsFormed, Formed, Entered, Early, Using
  <1>6. ConnsFormed'
    BY <1>4, <1>5, StillFormed
  <1>7. c \in Users(e) /\ Users(e)' = Users(e) \ {c}
    BY <1>2, <1>3, <1>4 DEF Users, Using
  <1>8. \A d \in Connects : d # e => Users(d)' = Users(d)
    BY <1>2, <1>3, <1>4 DEF Users, Using
  <1>9. /\ IsFiniteSet(Users(e)') /\ Cardinality(Users(e)') = Cardinality(Users(e)) - 1
        /\ Cardinality(Users(e)') \in Nat
    <2>1. IsFiniteSet(Users(e))
      BY DEF PoolPart
    <2>2. IsFiniteSet(Users(e) \ {c}) /\ Cardinality(Users(e) \ {c}) = Cardinality(Users(e)) - 1
      BY <1>7, <2>1, CountedOut, FS_RemoveElement
    <2>. QED BY <1>7, <2>2, FS_CardinalityType
  <1>10. refs' = [refs EXCEPT ![e] = @ - 1]
    BY <1>3 DEF DropRef
  <1>11. /\ refs'[e] = refs[e] - 1 /\ \A d \in Connects : d # e => refs'[d] = refs[d]
         /\ refs[e] = Cardinality(Users(e)) /\ refs[e] \in Nat
    BY <1>10 DEF PoolPart, RefsExact
  <1>12. refs'[e] \in Nat /\ refs'[e] = Cardinality(Users(e)')
    BY <1>9, <1>11
  <1>13. refs' \in [Connects -> Nat]
    BY <1>10, <1>11, <1>12 DEF PoolPart
  <1>14. RefsExact'
    <2>1. \A d \in Connects : refs'[d] = Cardinality(Users(d)')
      BY <1>8, <1>11, <1>12 DEF PoolPart, RefsExact
    <2>. QED BY <2>1 DEF RefsExact
  <1>15. \A d \in Connects : refs'[d] <= MaxPerKey
    BY <1>11, <1>12, ConnectAssumption DEF PoolPart, PoolBounded
  <1>16. \A d \in Connects : IsFiniteSet(Users(d)')
    BY <1>8, <1>9 DEF PoolPart
  <1>17. EntriesBorn'
    <2>1. ASSUME NEW d \in Connects, conns'[d].pc \in Unborn
          PROVE  Users(d)' = {} /\ \A j \in Keys : pool'[j] # d
      <3>1. d # c
        BY <1>4, <2>1 DEF Unborn
      <3>2. conns[d].pc \in Unborn
        BY <1>4, <2>1, <3>1
      <3>3. Users(d) = {} /\ \A j \in Keys : pool[j] # d
        BY <3>2 DEF PoolPart, EntriesBorn
      <3>. QED BY <1>2, <1>7, <1>8, <3>3
    <2>. QED BY <2>1 DEF EntriesBorn
  <1>18. Pooled' = Pooled
    BY <1>2 DEF Pooled
  <1>. QED BY <1>2, <1>6, <1>13, <1>14, <1>15, <1>16, <1>17, <1>18 DEF PoolPart, PoolBounded

LEMMA TouchMoves ==
    ASSUME ConnsFormed, PoolPart, NEW c \in Connects, Touch(c)
    PROVE  ConnsFormed' /\ PoolPart'
  <1>1. PICK x \in {"evicting", "closed"} : conns' = [conns EXCEPT ![c].pc = x]
    BY DEF Touch
  <1>2. conns[c].pc \in {"dropped", "failed"} /\ UNCHANGED <<pool, refs>> /\ DOMAIN stamp' = Connects
    BY DEF Touch, PoolPart
  <1>3. /\ DOMAIN conns' = Connects
        /\ \A d \in Connects : d # c => conns'[d] = conns[d]
        /\ DOMAIN conns'[c] = DOMAIN conns[c] /\ conns'[c].pc = x
        /\ conns'[c].key = conns[c].key /\ conns'[c].entry = conns[c].entry
    BY <1>1, <1>2, Advanced DEF Entered
  <1>4. Formed(conns'[c])
    BY <1>2, <1>3 DEF ConnsFormed, Formed, Entered, Early
  <1>5. ConnsFormed'
    BY <1>3, <1>4, StillFormed
  <1>. QED BY <1>2, <1>3, <1>5, QuietPool DEF Using, Unborn

LEMMA EvictBrokenMoves ==
    ASSUME ConnsFormed, PoolPart, NEW c \in Connects, EvictBroken(c)
    PROVE  ConnsFormed' /\ PoolPart'
  <1>1. /\ conns[c].pc = "evicting" /\ conns' = [conns EXCEPT ![c].pc = "closed"]
        /\ refs' = refs /\ DOMAIN stamp' = Connects
    BY DEF EvictBroken, PoolPart
  <1>2. /\ pool' \in [Keys -> Connects \cup {NoEntry}]
        /\ \A j \in Keys : pool'[j] \in {NoEntry, pool[j]}
    BY DEF EvictBroken, PoolPart
  <1>3. /\ DOMAIN conns' = Connects
        /\ \A d \in Connects : d # c => conns'[d] = conns[d]
        /\ DOMAIN conns'[c] = DOMAIN conns[c] /\ conns'[c].pc = "closed"
        /\ conns'[c].key = conns[c].key /\ conns'[c].entry = conns[c].entry
    BY <1>1, Advanced DEF Entered
  <1>4. Formed(conns'[c])
    BY <1>1, <1>3 DEF ConnsFormed, Formed, Entered, Early
  <1>5. ConnsFormed'
    BY <1>3, <1>4, StillFormed
  <1>6. \A e \in Connects : Users(e)' = Users(e)
    BY <1>1, <1>3, UsersKept DEF Using
  <1>7. IsFiniteSet(Pooled') /\ Cardinality(Pooled') <= MaxPoolEntries
    <2>1. Pooled' \subseteq Pooled
      BY <1>2 DEF Pooled
    <2>. QED BY <1>2, <2>1, FewerPooled
  <1>8. EntriesBorn'
    <2>1. ASSUME NEW d \in Connects, conns'[d].pc \in Unborn
          PROVE  Users(d)' = {} /\ \A j \in Keys : pool'[j] # d
      <3>1. conns[d].pc \in Unborn
        BY <1>3, <2>1 DEF Unborn
      <3>2. Users(d) = {} /\ \A j \in Keys : pool[j] # d
        BY <3>1 DEF PoolPart, EntriesBorn
      <3>3. d # NoEntry
        BY ConnectAssumption
      <3>. QED BY <1>2, <1>6, <3>2, <3>3
    <2>. QED BY <2>1 DEF EntriesBorn
  <1>9. RefsExact' /\ \A d \in Connects : IsFiniteSet(Users(d)')
    BY <1>1, <1>6 DEF PoolPart, RefsExact
  <1>. QED BY <1>1, <1>2, <1>5, <1>7, <1>8, <1>9 DEF PoolPart, PoolBounded

\* Steps that touch neither the pool's entries nor any connect.
LEMMA PoolStands ==
    ASSUME ConnsFormed, PoolPart, UNCHANGED <<pool, refs, stamp, conns>>
    PROVE  ConnsFormed' /\ PoolPart'
  BY DEF ConnsFormed, Formed, PoolPart, RefsExact, PoolBounded, EntriesBorn, Pooled, Users

LEMMA PoolMoves ==
    ASSUME ConnsFormed, TakesTyped, PoolPart, ConnectNext
    PROVE  ConnsFormed' /\ PoolPart'
  <1>1. CASE RouteNext
    BY <1>1, OutsideForms, OutsidePool DEF RouteNext
  <1>2. CASE PoolNext
    <2>1. CASE Tick
      BY <2>1, PoolStands DEF Tick
    <2>. QED BY <1>2, <2>1, AcquireHitMoves, AcquireMissMoves, AcquireFailsMoves,
                HandshakeDoneMoves, DropRefMoves, TouchMoves, EvictBrokenMoves DEF PoolNext
  <1>3. CASE TicketNext
    <2>1. ASSUME NEW i \in Identities, NEW s \in Servers, NEW t \in Tickets, TicketIssued(i, s, t)
          PROVE  ConnsFormed' /\ PoolPart'
      BY <2>1, PoolStands DEF TicketIssued, poolVars
    <2>2. ASSUME NEW i \in Identities, NEW v \in Vaults, NEW some, ExportVault(i, some, v)
          PROVE  ConnsFormed' /\ PoolPart'
      BY <2>2, PoolStands DEF ExportVault, poolVars
    <2>3. ASSUME NEW i \in Identities, NEW v \in Vaults, ImportVault(i, v)
          PROVE  ConnsFormed' /\ PoolPart'
      BY <2>3, PoolStands DEF ImportVault, poolVars
    <2>. QED BY <1>3, <2>1, <2>2, <2>3, OutsideForms, OutsidePool DEF TicketNext
  <1>. QED BY <1>1, <1>2, <1>3 DEF ConnectNext

-----------------------------------------------------------------------------
(* Tickets: where they are.  A place is a position in a queue of a store or *)
(* of a vault token.                                                        *)

Queue(a, w, s) == IF a = "store" THEN store[w][s] ELSE vault[w][s]

Live(a, w, s) ==
    \/ a = "store" /\ w \in Identities /\ s \in DOMAIN store[w]
    \/ a = "vault" /\ w \in DOMAIN vault /\ s \in DOMAIN vault[w]

At(a, w, s, m) == Live(a, w, s) /\ m \in 1..Len(Queue(a, w, s))

QueuesTyped ==
    /\ DOMAIN store = Identities
    /\ \A i \in Identities :
          /\ DOMAIN store[i] \subseteq Servers /\ IsFiniteSet(DOMAIN store[i])
          /\ \A s \in DOMAIN store[i] : store[i][s] \in Seq(Tickets)
    /\ \A v \in DOMAIN vault :
          /\ DOMAIN vault[v] \subseteq Servers /\ IsFiniteSet(DOMAIN vault[v])
          /\ \A s \in DOMAIN vault[v] : vault[v][s] \in Seq(Tickets)

\* Two places hold different tickets.
PlacedOnce ==
    \A a, w, s, m, b, x, u, n :
        At(a, w, s, m) /\ At(b, x, u, n) /\ Queue(a, w, s)[m] = Queue(b, x, u)[n]
            => a = b /\ w = x /\ s = u /\ m = n

\* A taken ticket is in no place, and was taken once.
SpentOnce ==
    /\ spent \subseteq Tickets \X Connects
    /\ \A x, y \in spent : x[1] = y[1] => x = y
    /\ \A a, w, s, m : At(a, w, s, m) => \A x \in spent : x[1] # Queue(a, w, s)[m]

TicketPart == QueuesTyped /\ PlacedOnce /\ SpentOnce /\ StoreBounded

-----------------------------------------------------------------------------
(* The operations on one queue. *)

LEMMA LiveQueue ==
    ASSUME QueuesTyped, NEW a, NEW w, NEW s, Live(a, w, s)
    PROVE  s \in Servers /\ Queue(a, w, s) \in Seq(Tickets)
  BY DEF QueuesTyped, Live, Queue

LEMMA PushFacts ==
    ASSUME NEW q \in Seq(Tickets), NEW t \in Tickets, Len(q) <= MaxPerServer
    PROVE  \E off \in {0, 1} :
              /\ Push(q, t) \in Seq(Tickets) /\ Len(Push(q, t)) = Len(q) - off + 1
              /\ Len(Push(q, t)) <= MaxPerServer
              /\ Push(q, t)[Len(Push(q, t))] = t
              /\ \A m \in 1..Len(Push(q, t)) :
                    m # Len(Push(q, t)) => m + off \in 1..Len(q) /\ Push(q, t)[m] = q[m + off]
  <1>1. MaxPerServer \in Nat /\ MaxPerServer > 0
    BY ConnectAssumption
  <1>2. CASE Len(q) >= MaxPerServer
    <2>1. q # <<>> /\ Push(q, t) = Append(Tail(q), t)
      BY <1>1, <1>2 DEF Push
    <2>2. Tail(q) \in Seq(Tickets) /\ Len(Tail(q)) = Len(q) - 1
      BY <2>1
    <2>3. /\ Push(q, t) \in Seq(Tickets) /\ Len(Push(q, t)) = Len(q)
          /\ Push(q, t)[Len(q)] = t
          /\ \A m \in 1..(Len(q) - 1) : Push(q, t)[m] = q[m + 1]
      BY <2>1, <2>2
    <2>. QED BY <1>1, <1>2, <2>3
  <1>3. CASE ~(Len(q) >= MaxPerServer)
    <2>1. Push(q, t) = Append(q, t)
      BY <1>3 DEF Push
    <2>2. /\ Push(q, t) \in Seq(Tickets) /\ Len(Push(q, t)) = Len(q) + 1
          /\ Push(q, t)[Len(q) + 1] = t
          /\ \A m \in 1..Len(q) : Push(q, t)[m] = q[m]
      BY <2>1
    <2>. QED BY <1>1, <1>3, <2>2
  <1>. QED BY <1>2, <1>3

LEMMA TailFacts ==
    ASSUME NEW q \in Seq(Tickets), q # <<>>
    PROVE  \E r \in Seq(Tickets) :
              /\ r = Tail(q) /\ Len(r) = Len(q) - 1
              /\ \A m \in 1..Len(r) : m + 1 \in 1..Len(q) /\ r[m] = q[m + 1]
  <1>1. /\ Tail(q) \in Seq(Tickets) /\ Len(Tail(q)) = Len(q) - 1
        /\ \A m \in 1..(Len(q) - 1) : Tail(q)[m] = q[m + 1]
    OBVIOUS
  <1>2. ASSUME NEW m \in 1..Len(Tail(q))
        PROVE  m + 1 \in 1..Len(q) /\ Tail(q)[m] = q[m + 1]
    <2>1. m \in 1..(Len(q) - 1) /\ Len(q) \in Nat
      BY <1>1
    <2>. QED BY <1>1, <2>1
  <1>. QED BY <1>1, <1>2, Zenon

LEMMA MergeFacts ==
    ASSUME NEW q \in Seq(Tickets), NEW more \in Seq(Tickets)
    PROVE  \E off \in Nat :
              /\ Merge(q, more) \in Seq(Tickets) /\ Len(Merge(q, more)) <= MaxPerServer
              /\ Len(Merge(q, more)) + off = Len(q) + Len(more)
              /\ \A m \in 1..Len(Merge(q, more)) :
                    \/ m + off \in 1..Len(q) /\ Merge(q, more)[m] = q[m + off]
                    \/ /\ m + off > Len(q) /\ m + off - Len(q) \in 1..Len(more)
                       /\ Merge(q, more)[m] = more[m + off - Len(q)]
  <1>0. MaxPerServer \in Nat
    BY ConnectAssumption
  <1>. DEFINE all == q \o more
              off == IF Len(all) > MaxPerServer THEN Len(all) - MaxPerServer ELSE 0
  <1>1. all \in Seq(Tickets) /\ Len(all) = Len(q) + Len(more)
    OBVIOUS
  <1>2. \A n \in 1..Len(all) :
            all[n] = IF n <= Len(q) THEN q[n] ELSE more[n - Len(q)]
    OBVIOUS
  <1>3. Len(q) \in Nat /\ Len(more) \in Nat
    OBVIOUS
  <1>. HIDE DEF all
  <1>4. off \in Nat /\ Len(all) - off <= MaxPerServer /\ Len(all) - off >= 0
    BY <1>0, <1>1
  <1>5. Merge(q, more) = SubSeq(all, off + 1, Len(all))
    BY <1>0, <1>1, <1>3 DEF Merge, all
  <1>. HIDE DEF off
  <1>6. /\ Merge(q, more) \in Seq(Tickets) /\ Len(Merge(q, more)) = Len(all) - off
        /\ \A m \in 1..(Len(all) - off) : Merge(q, more)[m] = all[m + off]
    <2>1. /\ Len(SubSeq(all, off + 1, Len(all))) = Len(all) - off
          /\ \A m \in 1..(Len(all) - off) : SubSeq(all, off + 1, Len(all))[m] = all[m + off]
      BY <1>1, <1>3, <1>4
    <2>2. SubSeq(all, off + 1, Len(all)) \in Seq(Tickets)
      BY <1>1, <1>3, <1>4
    <2>. QED BY <1>5, <2>1, <2>2
  <1>7. ASSUME NEW m \in 1..Len(Merge(q, more))
        PROVE  \/ m + off \in 1..Len(q) /\ Merge(q, more)[m] = q[m + off]
               \/ /\ m + off > Len(q) /\ m + off - Len(q) \in 1..Len(more)
                  /\ Merge(q, more)[m] = more[m + off - Len(q)]
    <2>0. m \in 1..(Len(all) - off)
      BY <1>6
    <2>1. m + off \in 1..Len(all) /\ Merge(q, more)[m] = all[m + off]
      <3>1. Merge(q, more)[m] = all[m + off]
        BY <1>6, <2>0, Zenon
      <3>2. m + off \in 1..Len(all)
        BY <1>1, <1>3, <1>4, <2>0
      <3>. QED BY <3>1, <3>2
    <2>. QED BY <1>1, <1>2, <1>3, <1>4, <2>1
  <1>8. Len(Merge(q, more)) <= MaxPerServer /\ Len(Merge(q, more)) + off = Len(q) + Len(more)
    BY <1>1, <1>3, <1>4, <1>6
  <1>. QED BY <1>4, <1>6, <1>7, <1>8

-----------------------------------------------------------------------------
(* The ticket steps. *)

\* A fresh ticket is in no place and not spent.
LEMMA FreshFacts ==
    ASSUME QueuesTyped, NEW t, Fresh(t)
    PROVE  /\ \A a, w, s, m : At(a, w, s, m) => Queue(a, w, s)[m] # t
           /\ \A x \in spent : x[1] # t
  <1>1. \A x \in spent : x[1] # t
    BY DEF Fresh
  <1>2. ASSUME NEW a, NEW w, NEW s, NEW m, At(a, w, s, m)
        PROVE  Queue(a, w, s)[m] # t
    <2>1. CASE a = "store"
      <3>1. w \in Identities /\ s \in DOMAIN store[w] /\ m \in 1..Len(store[w][s])
        BY <1>2, <2>1 DEF At, Live, Queue
      <3>2. t \notin Elems(store[w][s])
        BY <3>1 DEF Fresh
      <3>. QED BY <2>1, <3>1, <3>2 DEF Elems, Queue
    <2>2. CASE a # "store"
      <3>1. w \in DOMAIN vault /\ s \in DOMAIN vault[w] /\ m \in 1..Len(vault[w][s])
        BY <1>2, <2>2 DEF At, Live, Queue
      <3>2. t \notin Elems(vault[w][s])
        BY <3>1 DEF Fresh
      <3>. QED BY <2>2, <3>1, <3>2 DEF Elems, Queue
    <2>. QED BY <2>1, <2>2
  <1>. QED BY <1>1, <1>2

\* The store of identity i is replaced by f.
LEMMA Restocked ==
    ASSUME QueuesTyped, NEW i \in Identities, NEW f, store' = [store EXCEPT ![i] = f]
    PROVE  /\ DOMAIN store' = Identities /\ store'[i] = f
           /\ \A j \in Identities : j # i => store'[j] = store[j]
  BY DEF QueuesTyped

LEMMA IssuedMoves ==
    ASSUME TicketPart, NEW i \in Identities, NEW s \in Servers, NEW t \in Tickets,
           TicketIssued(i, s, t)
    PROVE  TicketPart'
  <1>. DEFINE known == DOMAIN store[i]
              q == IF s \in known THEN store[i][s] ELSE <<>>
  <1>0. QueuesTyped /\ PlacedOnce /\ SpentOnce /\ StoreBounded
    BY DEF TicketPart
  <1>1. PICK keep \in SUBSET known :
          /\ s \in known => keep = known
          /\ Cardinality(known) >= MaxServers /\ s \notin known => \E x \in known : keep = known \ {x}
          /\ store' = [store EXCEPT ![i] = [x \in keep \cup {s} |->
                  IF x = s THEN Push(q, t) ELSE store[i][x]]]
    BY <1>0 DEF TicketIssued, QueuesTyped
  <1>2. vault' = vault /\ spent' = spent /\ Fresh(t)
    BY DEF TicketIssued
  <1>3. /\ DOMAIN store' = Identities /\ \A j \in Identities : j # i => store'[j] = store[j]
        /\ store'[i] = [x \in keep \cup {s} |-> IF x = s THEN Push(q, t) ELSE store[i][x]]
    BY <1>0, <1>1, Restocked
  <1>4. q \in Seq(Tickets) /\ Len(q) <= MaxPerServer
    BY <1>0, ConnectAssumption DEF QueuesTyped, StoreBounded
  <1>8. s \notin known => q = <<>> /\ Len(q) = 0
    OBVIOUS
  <1>9. s \in known => q = store[i][s] /\ s \in keep
    BY <1>1
  <1>. HIDE DEF q, known
  <1>a. PICK off \in {0, 1} :
              /\ Push(q, t) \in Seq(Tickets) /\ Len(Push(q, t)) = Len(q) - off + 1
              /\ Len(Push(q, t)) <= MaxPerServer
              /\ Push(q, t)[Len(Push(q, t))] = t
              /\ \A m \in 1..Len(Push(q, t)) :
                    m # Len(Push(q, t)) => m + off \in 1..Len(q) /\ Push(q, t)[m] = q[m + off]
    BY <1>4, PushFacts, Zenon
  <1>5. PICK r \in Seq(Tickets) : r = Push(q, t)
    BY <1>a
  <1>6. /\ Len(r) = Len(q) - off + 1 /\ Len(r) <= MaxPerServer /\ r[Len(r)] = t
        /\ \A m \in 1..Len(r) : m # Len(r) => m + off \in 1..Len(q) /\ r[m] = q[m + off]
    BY <1>5, <1>a, Zenon
  <1>7. /\ DOMAIN store'[i] = keep \cup {s} /\ store'[i][s] = r
        /\ \A x \in keep : x # s => store'[i][x] = store[i][x]
    BY <1>3, <1>5
  <1>10. QueuesTyped'
    <2>1. keep \cup {s} \subseteq Servers /\ IsFiniteSet(keep \cup {s})
      BY <1>0, FS_Subset, FS_AddElement DEF QueuesTyped, known
    <2>2. \A j \in Identities :
              /\ DOMAIN store'[j] \subseteq Servers /\ IsFiniteSet(DOMAIN store'[j])
              /\ \A x \in DOMAIN store'[j] : store'[j][x] \in Seq(Tickets)
      BY <1>0, <1>3, <1>7, <2>1 DEF QueuesTyped, known
    <2>. QED BY <1>0, <1>2, <1>3, <2>2 DEF QueuesTyped
  <1>11. StoreBounded'
    <2>0. /\ IsFiniteSet(known) /\ Cardinality(known) \in Nat /\ Cardinality(known) <= MaxServers
          /\ MaxServers \in Nat
      BY <1>0, FS_CardinalityType, ConnectAssumption DEF QueuesTyped, StoreBounded, known
    <2>1. Cardinality(keep \cup {s}) <= MaxServers
      <3>1. CASE s \in known
        <4>1. keep \cup {s} = known
          BY <1>1, <3>1
        <4>. QED BY <2>0, <4>1
      <3>2. CASE s \notin known /\ Cardinality(known) >= MaxServers
        <4>1. PICK x \in known : keep = known \ {x}
          BY <1>1, <3>2
        <4>2. IsFiniteSet(keep) /\ Cardinality(keep) = Cardinality(known) - 1
          BY <2>0, <4>1, CountedOut, FS_RemoveElement
        <4>3. Cardinality(keep \cup {s}) = Cardinality(keep) + 1
          BY <3>2, <4>2, CountedIn
        <4>. QED BY <2>0, <4>2, <4>3
      <3>3. CASE s \notin known /\ ~(Cardinality(known) >= MaxServers)
        <4>1. /\ IsFiniteSet(keep) /\ Cardinality(keep) \in Nat
              /\ Cardinality(keep) <= Cardinality(known)
          BY <2>0, Counted
        <4>2. Cardinality(keep \cup {s}) = Cardinality(keep) + 1
          BY <3>3, <4>1, CountedIn
        <4>. QED BY <2>0, <3>3, <4>1, <4>2
      <3>. QED BY <3>1, <3>2, <3>3
    <2>2. \A j \in Identities :
              /\ Cardinality(DOMAIN store'[j]) <= MaxServers
              /\ \A x \in DOMAIN store'[j] : Len(store'[j][x]) <= MaxPerServer
      <3>1. Cardinality(DOMAIN store'[i]) <= MaxServers
        BY <1>7, <2>1
      <3>2. \A x \in DOMAIN store'[i] : Len(store'[i][x]) <= MaxPerServer
        BY <1>0, <1>6, <1>7 DEF StoreBounded, known
      <3>. QED BY <1>0, <1>3, <3>1, <3>2 DEF StoreBounded
    <2>. QED BY <2>2 DEF StoreBounded
  <1>. DEFINE Pushed(a, w, u) == a = "store" /\ w = i /\ u = s
              Old(a, w, u, m) == IF Pushed(a, w, u) THEN m + off ELSE m
              New(a, w, u, m) == Pushed(a, w, u) /\ m = Len(r)
  <1>12. ASSUME NEW a, NEW w, NEW u, NEW m, At(a, w, u, m)'
         PROVE  /\ m \in Nat
                /\ New(a, w, u, m) => Queue(a, w, u)'[m] = t
                /\ ~New(a, w, u, m) =>
                      /\ At(a, w, u, Old(a, w, u, m))
                      /\ Queue(a, w, u)'[m] = Queue(a, w, u)[Old(a, w, u, m)]
    <2>1. CASE Pushed(a, w, u)
      <3>1. Queue(a, w, u)' = r /\ m \in 1..Len(r)
        BY <1>7, <1>12, <2>1 DEF At, Queue
      <3>2. CASE m = Len(r)
        BY <1>6, <2>1, <3>1, <3>2
      <3>3. CASE m # Len(r)
        <4>1. m + off \in 1..Len(q) /\ r[m] = q[m + off]
          BY <1>6, <3>1, <3>3
        <4>2. s \in known
          BY <1>8, <4>1
        <4>3. Queue(a, w, u) = q /\ Live(a, w, u)
          BY <1>9, <2>1, <4>2 DEF Queue, Live, known
        <4>. QED BY <2>1, <3>1, <3>3, <4>1, <4>3 DEF At
      <3>. QED BY <3>2, <3>3
    <2>2. CASE ~Pushed(a, w, u)
      <3>1. Live(a, w, u) /\ Queue(a, w, u)' = Queue(a, w, u)
        <4>1. CASE a = "store" /\ w = i
          BY <1>7, <1>12, <2>2, <4>1 DEF At, Live, Queue, known
        <4>2. CASE a = "store" /\ w # i
          BY <1>3, <1>12, <4>2 DEF At, Live, Queue
        <4>3. CASE a # "store"
          BY <1>2, <1>12, <4>3 DEF At, Live, Queue
        <4>. QED BY <4>1, <4>2, <4>3
      <3>. QED BY <1>12, <2>2, <3>1 DEF At
    <2>. QED BY <2>1, <2>2
  <1>13. /\ \A a, w, u, m : At(a, w, u, m) => Queue(a, w, u)[m] # t
         /\ \A x \in spent : x[1] # t
    BY <1>0, <1>2, FreshFacts
  <1>14. PlacedOnce'
    <2>. SUFFICES ASSUME NEW a, NEW w, NEW u, NEW m, NEW b, NEW x, NEW y, NEW n,
                         At(a, w, u, m)', At(b, x, y, n)',
                         Queue(a, w, u)'[m] = Queue(b, x, y)'[n]
                  PROVE  a = b /\ w = x /\ u = y /\ m = n
      BY DEF PlacedOnce
    <2>1. CASE New(a, w, u, m) /\ New(b, x, y, n)
      BY <2>1
    <2>2. CASE New(a, w, u, m) /\ ~New(b, x, y, n)
      BY <1>12, <1>13, <2>2
    <2>3. CASE ~New(a, w, u, m) /\ New(b, x, y, n)
      BY <1>12, <1>13, <2>3
    <2>4. CASE ~New(a, w, u, m) /\ ~New(b, x, y, n)
      <3>1. /\ At(a, w, u, Old(a, w, u, m)) /\ At(b, x, y, Old(b, x, y, n))
            /\ Queue(a, w, u)[Old(a, w, u, m)] = Queue(b, x, y)[Old(b, x, y, n)]
            /\ m \in Nat /\ n \in Nat
        BY <1>12, <2>4
      <3>2. a = b /\ w = x /\ u = y /\ Old(a, w, u, m) = Old(b, x, y, n)
        BY <1>0, <3>1 DEF PlacedOnce
      <3>. QED BY <3>1, <3>2
    <2>. QED BY <2>1, <2>2, <2>3, <2>4
  <1>15. SpentOnce'
    <2>1. ASSUME NEW a, NEW w, NEW u, NEW m, At(a, w, u, m)', NEW x \in spent
          PROVE  x[1] # Queue(a, w, u)'[m]
      BY <1>0, <1>12, <1>13, <2>1 DEF SpentOnce
    <2>. QED BY <1>0, <1>2, <2>1 DEF SpentOnce
  <1>. QED BY <1>10, <1>11, <1>14, <1>15 DEF TicketPart

\* What PlacedOnce says of two places.
LEMMA PlacedApart ==
    ASSUME PlacedOnce, NEW a, NEW w, NEW s, NEW m, NEW b, NEW x, NEW u, NEW n,
           At(a, w, s, m), At(b, x, u, n), Queue(a, w, s)[m] = Queue(b, x, u)[n]
    PROVE  a = b /\ w = x /\ s = u /\ m = n
  BY DEF PlacedOnce

\* The head of a queue is taken.
LEMMA TakeMoves ==
    ASSUME ConnsFormed, TicketPart, NEW c \in Connects, TakeTicket(c),
           \A x \in spent : x[2] # c
    PROVE  /\ TicketPart'
           /\ \/ UNCHANGED <<takes, spent>>
              \/ \E t \in Tickets :
                    /\ spent' = spent \cup {<<t, c>>}
                    /\ takes' = IF t \in EarlyTickets
                                THEN [takes EXCEPT ![conns[c].id][conns[c].server] = @ + 1]
                                ELSE takes
  <1>0. QueuesTyped /\ PlacedOnce /\ SpentOnce /\ StoreBounded /\ vault' = vault
    BY DEF TicketPart, TakeTicket
  <1>1. PICK i \in Identities, s \in Servers : i = conns[c].id /\ s = conns[c].server
    BY DEF TakeTicket, ConnsFormed, Formed, Early
  <1>2. CASE UNCHANGED <<store, takes, spent>>
    <2>1. TicketPart'
      BY <1>0, <1>2 DEF TicketPart, QueuesTyped, PlacedOnce, SpentOnce, StoreBounded, At, Live, Queue
    <2>. QED BY <1>2, <2>1
  <1>3. CASE ~UNCHANGED <<store, takes, spent>>
    <2>0. /\ s \in DOMAIN store[i] /\ store[i][s] # <<>>
          /\ store' = [store EXCEPT ![i][s] = Tail(store[i][s])]
          /\ spent' = spent \cup {<<Head(store[i][s]), c>>}
          /\ takes' = IF Head(store[i][s]) \in EarlyTickets
                      THEN [takes EXCEPT ![i][s] = @ + 1] ELSE takes
      BY <1>1, <1>3 DEF TakeTicket
    <2>1. PICK q \in Seq(Tickets) :
            /\ s \in DOMAIN store[i] /\ q = store[i][s] /\ q # <<>>
            /\ store' = [store EXCEPT ![i][s] = Tail(q)]
            /\ spent' = spent \cup {<<Head(q), c>>}
            /\ takes' = IF Head(q) \in EarlyTickets THEN [takes EXCEPT ![i][s] = @ + 1] ELSE takes
      BY <1>0, <2>0 DEF QueuesTyped
    <2>2. PICK t \in Tickets : t = Head(q) /\ t = q[1]
      BY <2>1
    <2>3. /\ DOMAIN store' = Identities /\ \A j \in Identities : j # i => store'[j] = store[j]
          /\ DOMAIN store'[i] = DOMAIN store[i] /\ store'[i][s] = Tail(q)
          /\ \A u \in DOMAIN store[i] : u # s => store'[i][u] = store[i][u]
      BY <1>0, <2>1 DEF QueuesTyped
    <2>4. PICK r \in Seq(Tickets) :
            /\ r = Tail(q) /\ Len(r) = Len(q) - 1
            /\ \A m \in 1..Len(r) : m + 1 \in 1..Len(q) /\ r[m] = q[m + 1]
      BY <2>1, TailFacts, Zenon
    <2>5. QueuesTyped'
      <3>1. \A j \in Identities :
              /\ DOMAIN store'[j] \subseteq Servers /\ IsFiniteSet(DOMAIN store'[j])
              /\ \A x \in DOMAIN store'[j] : store'[j][x] \in Seq(Tickets)
        BY <1>0, <2>3, <2>4 DEF QueuesTyped
      <3>. QED BY <1>0, <2>3, <3>1 DEF QueuesTyped
    <2>6. StoreBounded'
      <3>1. Len(r) <= MaxPerServer
        <4>1. Len(q) <= MaxPerServer /\ Len(q) \in Nat /\ MaxPerServer \in Nat
          BY <1>0, <2>1, ConnectAssumption DEF StoreBounded
        <4>. QED BY <2>4, <4>1
      <3>2. \A j \in Identities :
              /\ Cardinality(DOMAIN store'[j]) <= MaxServers
              /\ \A x \in DOMAIN store'[j] : Len(store'[j][x]) <= MaxPerServer
        BY <1>0, <2>3, <2>4, <3>1 DEF StoreBounded
      <3>. QED BY <3>2 DEF StoreBounded
    <2>. DEFINE Popped(a, w, u) == a = "store" /\ w = i /\ u = s
                Old(a, w, u, m) == IF Popped(a, w, u) THEN m + 1 ELSE m
    <2>7. ASSUME NEW a, NEW w, NEW u, NEW m, At(a, w, u, m)'
          PROVE  /\ m \in Nat /\ m > 0
                 /\ At(a, w, u, Old(a, w, u, m))
                 /\ Queue(a, w, u)'[m] = Queue(a, w, u)[Old(a, w, u, m)]
      <3>1. CASE Popped(a, w, u)
        <4>1. Queue(a, w, u)' = r /\ m \in 1..Len(r)
          BY <2>3, <2>4, <2>7, <3>1 DEF At, Queue
        <4>2. Queue(a, w, u) = q /\ Live(a, w, u)
          BY <2>1, <3>1 DEF Queue, Live
        <4>. QED BY <2>4, <3>1, <4>1, <4>2 DEF At
      <3>2. CASE ~Popped(a, w, u)
        <4>1. Live(a, w, u) /\ Queue(a, w, u)' = Queue(a, w, u)
          <5>1. CASE a = "store" /\ w = i
            BY <2>3, <2>7, <3>2, <5>1 DEF At, Live, Queue
          <5>2. CASE a = "store" /\ w # i
            BY <2>3, <2>7, <5>2 DEF At, Live, Queue
          <5>3. CASE a # "store"
            BY <1>0, <2>7, <5>3 DEF At, Live, Queue
          <5>. QED BY <5>1, <5>2, <5>3
        <4>. QED BY <2>7, <3>2, <4>1 DEF At
      <3>. QED BY <3>1, <3>2
    <2>8. PlacedOnce'
      <3>. SUFFICES ASSUME NEW a, NEW w, NEW u, NEW m, NEW b, NEW x, NEW y, NEW n,
                           At(a, w, u, m)', At(b, x, y, n)',
                           Queue(a, w, u)'[m] = Queue(b, x, y)'[n]
                    PROVE  a = b /\ w = x /\ u = y /\ m = n
        BY DEF PlacedOnce
      <3>1. /\ At(a, w, u, Old(a, w, u, m)) /\ At(b, x, y, Old(b, x, y, n))
            /\ Queue(a, w, u)[Old(a, w, u, m)] = Queue(b, x, y)[Old(b, x, y, n)]
            /\ m \in Nat /\ n \in Nat
        BY <2>7
      <3>2. a = b /\ w = x /\ u = y /\ Old(a, w, u, m) = Old(b, x, y, n)
        BY <1>0, <3>1 DEF PlacedOnce
      <3>. QED BY <3>1, <3>2
    <2>9. SpentOnce'
      <3>1. At("store", i, s, 1) /\ Queue("store", i, s)[1] = t
        BY <2>1, <2>2 DEF At, Live, Queue
      <3>2. ASSUME NEW a, NEW w, NEW u, NEW m, At(a, w, u, m)'
            PROVE  Queue(a, w, u)'[m] # t
        <4>1. /\ m \in Nat /\ m > 0 /\ At(a, w, u, Old(a, w, u, m))
              /\ Queue(a, w, u)'[m] = Queue(a, w, u)[Old(a, w, u, m)]
          BY <2>7, <3>2
        <4>2. ~(a = "store" /\ w = i /\ u = s /\ Old(a, w, u, m) = 1)
          BY <4>1
        <4>3. Queue(a, w, u)[Old(a, w, u, m)] = t =>
                 a = "store" /\ w = i /\ u = s /\ Old(a, w, u, m) = 1
          BY <1>0, <3>1, <4>1 DEF PlacedOnce
        <4>. QED BY <4>1, <4>2, <4>3
      <3>3. ASSUME NEW a, NEW w, NEW u, NEW m, At(a, w, u, m)', NEW x \in spent
            PROVE  Queue(a, w, u)'[m] # x[1]
        BY <1>0, <2>7, <3>3 DEF SpentOnce
      <3>4. \A x \in spent : x[1] # t
        BY <1>0, <3>1 DEF SpentOnce
      <3>5. spent' = spent \cup {<<t, c>>} /\ spent' \subseteq Tickets \X Connects
        BY <1>0, <2>1, <2>2 DEF SpentOnce
      <3>6. \A x, y \in spent' : x[1] = y[1] => x = y
        BY <1>0, <3>4, <3>5 DEF SpentOnce
      <3>7. \A a, w, u, m : At(a, w, u, m)' => \A x \in spent' : x[1] # Queue(a, w, u)'[m]
        BY <3>2, <3>3, <3>5
      <3>. QED BY <3>5, <3>6, <3>7 DEF SpentOnce
    <2>10. TicketPart'
      BY <2>5, <2>6, <2>8, <2>9 DEF TicketPart
    <2>11. /\ spent' = spent \cup {<<t, c>>}
           /\ takes' = IF t \in EarlyTickets
                       THEN [takes EXCEPT ![conns[c].id][conns[c].server] = @ + 1] ELSE takes
      BY <1>1, <2>1, <2>2
    <2>. QED BY <2>10, <2>11
  <1>. QED BY <1>2, <1>3

\* The queues of one identity move behind a new token.
LEMMA ExportMoves ==
    ASSUME TicketPart, NEW i \in Identities, NEW v \in Vaults, NEW some, ExportVault(i, some, v)
    PROVE  TicketPart'
  <1>0. QueuesTyped /\ PlacedOnce /\ SpentOnce /\ StoreBounded /\ spent' = spent
    BY DEF TicketPart, ExportVault
  <1>. DEFINE known == DOMAIN store[i]
  <1>1. v \notin DOMAIN vault
    BY DEF ExportVault
  <1>2. /\ DOMAIN vault' = DOMAIN vault \cup {v}
        /\ \A x \in DOMAIN vault : vault'[x] = vault[x]
        /\ vault'[v] = [s \in known \cap some |-> store[i][s]]
    BY <1>1 DEF ExportVault
  <1>3. /\ DOMAIN store' = Identities /\ \A j \in Identities : j # i => store'[j] = store[j]
        /\ store'[i] = [s \in known \ some |-> store[i][s]]
    BY <1>0 DEF ExportVault, QueuesTyped
  <1>4. /\ DOMAIN store'[i] = known \ some /\ \A s \in known \ some : store'[i][s] = store[i][s]
        /\ DOMAIN vault'[v] = known \cap some /\ \A s \in known \cap some : vault'[v][s] = store[i][s]
    BY <1>2, <1>3
  <1>5. /\ IsFiniteSet(known) /\ known \subseteq Servers /\ Cardinality(known) \in Nat
        /\ Cardinality(known) <= MaxServers /\ MaxServers \in Nat
        /\ \A s \in known : store[i][s] \in Seq(Tickets)
    BY <1>0, FS_CardinalityType, ConnectAssumption DEF QueuesTyped, StoreBounded
  <1>6. /\ IsFiniteSet(known \ some) /\ IsFiniteSet(known \cap some)
        /\ Cardinality(known \ some) <= MaxServers
    <2>1. /\ IsFiniteSet(known \ some) /\ Cardinality(known \ some) \in Nat
          /\ Cardinality(known \ some) <= Cardinality(known)
      BY <1>5, Counted
    <2>2. IsFiniteSet(known \cap some)
      BY <1>5, FS_Subset
    <2>. QED BY <1>5, <2>1, <2>2
  <1>. HIDE DEF known
  <1>7. QueuesTyped'
    <2>1. \A j \in Identities :
            /\ DOMAIN store'[j] \subseteq Servers /\ IsFiniteSet(DOMAIN store'[j])
            /\ \A x \in DOMAIN store'[j] : store'[j][x] \in Seq(Tickets)
      BY <1>0, <1>3, <1>4, <1>5, <1>6 DEF QueuesTyped
    <2>2. \A x \in DOMAIN vault' :
            /\ DOMAIN vault'[x] \subseteq Servers /\ IsFiniteSet(DOMAIN vault'[x])
            /\ \A s \in DOMAIN vault'[x] : vault'[x][s] \in Seq(Tickets)
      BY <1>0, <1>2, <1>4, <1>5, <1>6 DEF QueuesTyped
    <2>. QED BY <1>3, <2>1, <2>2 DEF QueuesTyped
  <1>8. StoreBounded'
    <2>1. \A j \in Identities :
            /\ Cardinality(DOMAIN store'[j]) <= MaxServers
            /\ \A x \in DOMAIN store'[j] : Len(store'[j][x]) <= MaxPerServer
      BY <1>0, <1>3, <1>4, <1>6 DEF StoreBounded, known
    <2>. QED BY <2>1 DEF StoreBounded
  <1>. DEFINE Moved(a, w) == a = "vault" /\ w = v
              OldA(a, w) == IF Moved(a, w) THEN "store" ELSE a
              OldW(a, w) == IF Moved(a, w) THEN i ELSE w
  <1>9. ASSUME NEW a, NEW w, NEW u, NEW m, At(a, w, u, m)'
        PROVE  /\ At(OldA(a, w), OldW(a, w), u, m)
               /\ Queue(a, w, u)'[m] = Queue(OldA(a, w), OldW(a, w), u)[m]
               /\ a \in {"store", "vault"}
               /\ a = "store" /\ w = i => u \notin some
               /\ Moved(a, w) => u \in some
    <2>1. CASE a = "store" /\ w = i
      BY <1>4, <1>9, <2>1 DEF At, Live, Queue, known
    <2>2. CASE a = "store" /\ w # i
      BY <1>3, <1>9, <2>2 DEF At, Live, Queue
    <2>3. CASE Moved(a, w)
      BY <1>2, <1>4, <1>9, <2>3 DEF At, Live, Queue, known
    <2>4. CASE a # "store" /\ ~Moved(a, w)
      BY <1>2, <1>9, <2>4 DEF At, Live, Queue
    <2>. QED BY <2>1, <2>2, <2>3, <2>4
  <1>10. PlacedOnce'
    <2>. SUFFICES ASSUME NEW a, NEW w, NEW u, NEW m, NEW b, NEW x, NEW y, NEW n,
                         At(a, w, u, m)', At(b, x, y, n)',
                         Queue(a, w, u)'[m] = Queue(b, x, y)'[n]
                  PROVE  a = b /\ w = x /\ u = y /\ m = n
      BY DEF PlacedOnce
    <2>1. /\ OldA(a, w) = OldA(b, x) /\ OldW(a, w) = OldW(b, x) /\ u = y /\ m = n
      BY <1>0, <1>9 DEF PlacedOnce
    <2>2. /\ a \in {"store", "vault"} /\ b \in {"store", "vault"}
          /\ a = "store" /\ w = i => u \notin some
          /\ Moved(a, w) => u \in some
          /\ b = "store" /\ x = i => y \notin some
          /\ Moved(b, x) => y \in some
      BY <1>9
    <2>. QED BY <2>1, <2>2
  <1>11. SpentOnce'
    <2>1. ASSUME NEW a, NEW w, NEW u, NEW m, At(a, w, u, m)', NEW x \in spent
          PROVE  x[1] # Queue(a, w, u)'[m]
      BY <1>0, <1>9, <2>1 DEF SpentOnce
    <2>. QED BY <1>0, <2>1 DEF SpentOnce
  <1>. QED BY <1>7, <1>8, <1>10, <1>11 DEF TicketPart

\* A token is consumed and its queues are merged into a store.
LEMMA ImportMoves ==
    ASSUME TicketPart, NEW i \in Identities, NEW v \in Vaults, ImportVault(i, v)
    PROVE  TicketPart'
  <1>0. QueuesTyped /\ PlacedOnce /\ SpentOnce /\ StoreBounded /\ spent' = spent
        /\ v \in DOMAIN vault
    BY DEF TicketPart, ImportVault
  <1>. DEFINE known == DOMAIN store[i]
              fresh == DOMAIN vault[v] \ known
              room == MaxServers - Cardinality(known)
              mine(s) == IF s \in known THEN store[i][s] ELSE <<>>
              other(s) == IF s \in DOMAIN vault[v] THEN vault[v][s] ELSE <<>>
  <1>1. PICK kept \in SUBSET fresh :
          /\ Cardinality(kept) = IF Cardinality(fresh) < room THEN Cardinality(fresh) ELSE room
          /\ store' = [store EXCEPT ![i] = [s \in known \cup kept |-> Merge(mine(s), other(s))]]
    BY <1>0 DEF ImportVault, QueuesTyped
  <1>2. /\ DOMAIN vault' = DOMAIN vault \ {v}
        /\ \A x \in DOMAIN vault \ {v} : vault'[x] = vault[x]
    BY DEF ImportVault
  <1>3. /\ DOMAIN store' = Identities /\ \A j \in Identities : j # i => store'[j] = store[j]
        /\ store'[i] = [s \in known \cup kept |-> Merge(mine(s), other(s))]
    BY <1>0, <1>1, Restocked
  <1>4. /\ IsFiniteSet(known) /\ known \subseteq Servers /\ Cardinality(known) \in Nat
        /\ Cardinality(known) <= MaxServers /\ MaxServers \in Nat /\ MaxPerServer \in Nat
        /\ IsFiniteSet(DOMAIN vault[v]) /\ DOMAIN vault[v] \subseteq Servers
    BY <1>0, FS_CardinalityType, ConnectAssumption DEF QueuesTyped, StoreBounded
  <1>5. \A s \in Servers : mine(s) \in Seq(Tickets) /\ other(s) \in Seq(Tickets)
    BY <1>0 DEF QueuesTyped
  <1>6. \A s \in Servers :
            /\ (s \notin known => Len(mine(s)) = 0)
            /\ (s \notin DOMAIN vault[v] => Len(other(s)) = 0)
            /\ (s \in known => mine(s) = store[i][s])
            /\ (s \in DOMAIN vault[v] => other(s) = vault[v][s])
    OBVIOUS
  <1>7. Cardinality(known \cup kept) <= MaxServers /\ IsFiniteSet(known \cup kept)
    <2>1. IsFiniteSet(fresh) /\ Cardinality(fresh) \in Nat
      BY <1>4, Counted
    <2>2. IsFiniteSet(kept) /\ Cardinality(kept) \in Nat
      BY <2>1, Counted
    <2>3. known \cap kept = {}
      OBVIOUS
    <2>4. /\ IsFiniteSet(known \cup kept)
          /\ Cardinality(known \cup kept) = Cardinality(known) + Cardinality(kept) - 0
      BY <1>4, <2>2, <2>3, FS_Union, FS_EmptySet
    <2>5. Cardinality(kept) <= room
      BY <1>1, <1>4, <2>1
    <2>. QED BY <1>4, <2>2, <2>4, <2>5
  <1>8. known \cup kept \subseteq Servers
    BY <1>4
  <1>. HIDE DEF fresh, room, mine, other
  <1>9. /\ DOMAIN store'[i] = known \cup kept
        /\ \A s \in known \cup kept : store'[i][s] = Merge(mine(s), other(s))
    BY <1>3
  <1>. HIDE DEF known
  <1>10. QueuesTyped'
    <2>1. \A s \in known \cup kept : store'[i][s] \in Seq(Tickets)
      BY <1>5, <1>8, <1>9, MergeFacts
    <2>2. \A j \in Identities :
            /\ DOMAIN store'[j] \subseteq Servers /\ IsFiniteSet(DOMAIN store'[j])
            /\ \A x \in DOMAIN store'[j] : store'[j][x] \in Seq(Tickets)
      BY <1>0, <1>3, <1>7, <1>8, <1>9, <2>1 DEF QueuesTyped
    <2>. QED BY <1>0, <1>2, <1>3, <2>2 DEF QueuesTyped
  <1>11. StoreBounded'
    <2>1. \A s \in known \cup kept : Len(store'[i][s]) <= MaxPerServer
      BY <1>5, <1>8, <1>9, MergeFacts
    <2>2. \A j \in Identities :
            /\ Cardinality(DOMAIN store'[j]) <= MaxServers
            /\ \A x \in DOMAIN store'[j] : Len(store'[j][x]) <= MaxPerServer
      BY <1>0, <1>3, <1>7, <1>9, <2>1 DEF StoreBounded
    <2>. QED BY <2>2 DEF StoreBounded
  <1>. DEFINE off(s) == Len(mine(s)) + Len(other(s)) - Len(Merge(mine(s), other(s)))
              Merged(a, w) == a = "store" /\ w = i
              FromVault(a, w, u, m) == Merged(a, w) /\ m + off(u) > Len(mine(u))
              OldA(a, w, u, m) == IF FromVault(a, w, u, m) THEN "vault" ELSE a
              OldW(a, w, u, m) == IF FromVault(a, w, u, m) THEN v ELSE w
              OldM(a, w, u, m) == IF FromVault(a, w, u, m) THEN m + off(u) - Len(mine(u))
                                  ELSE IF Merged(a, w) THEN m + off(u) ELSE m
  <1>12. ASSUME NEW s \in known \cup kept, NEW m \in 1..Len(store'[i][s])
         PROVE  /\ off(s) \in Nat /\ Len(mine(s)) \in Nat /\ m \in Nat
                /\ \/ /\ m + off(s) \in 1..Len(mine(s)) /\ s \in known
                      /\ store'[i][s][m] = store[i][s][m + off(s)]
                      /\ m + off(s) \in 1..Len(store[i][s])
                      /\ ~(m + off(s) > Len(mine(s)))
                   \/ /\ m + off(s) > Len(mine(s)) /\ s \in DOMAIN vault[v]
                      /\ m + off(s) - Len(mine(s)) \in 1..Len(vault[v][s])
                      /\ store'[i][s][m] = vault[v][s][m + off(s) - Len(mine(s))]
    <2>1. PICK q \in Seq(Tickets), more \in Seq(Tickets) : q = mine(s) /\ more = other(s)
      BY <1>5, <1>8
    <2>2. PICK o \in Nat :
              /\ Merge(q, more) \in Seq(Tickets) /\ Len(Merge(q, more)) <= MaxPerServer
              /\ Len(Merge(q, more)) + o = Len(q) + Len(more)
              /\ \A n \in 1..Len(Merge(q, more)) :
                    \/ n + o \in 1..Len(q) /\ Merge(q, more)[n] = q[n + o]
                    \/ /\ n + o > Len(q) /\ n + o - Len(q) \in 1..Len(more)
                       /\ Merge(q, more)[n] = more[n + o - Len(q)]
      BY MergeFacts, Zenon
    <2>3. o = off(s)
      BY <2>1, <2>2
    <2>4. store'[i][s] = Merge(q, more)
      BY <1>9, <2>1
    <2>5. /\ (s \notin known => Len(q) = 0) /\ (s \notin DOMAIN vault[v] => Len(more) = 0)
          /\ (s \in known => q = store[i][s])
          /\ (s \in DOMAIN vault[v] => more = vault[v][s])
      BY <1>6, <1>8, <2>1
    <2>6. m \in 1..Len(Merge(q, more)) /\ m \in Nat /\ Len(q) \in Nat /\ Len(more) \in Nat
      BY <2>4
    <2>. HIDE DEF off
    <2>7. CASE m + o \in 1..Len(q) /\ Merge(q, more)[m] = q[m + o]
      <3>1. s \in known /\ ~(m + o > Len(q))
        BY <2>5, <2>6, <2>7
      <3>. QED BY <2>1, <2>3, <2>4, <2>5, <2>6, <2>7, <3>1, Zenon
    <2>8. CASE /\ m + o > Len(q) /\ m + o - Len(q) \in 1..Len(more)
               /\ Merge(q, more)[m] = more[m + o - Len(q)]
      <3>1. s \in DOMAIN vault[v]
        BY <2>5, <2>6, <2>8
      <3>. QED BY <2>1, <2>3, <2>4, <2>5, <2>6, <2>8, <3>1, Zenon
    <2>. QED BY <2>2, <2>6, <2>7, <2>8
  <1>. HIDE DEF off
  <1>13. ASSUME NEW a, NEW w, NEW u, NEW m, At(a, w, u, m)'
         PROVE  /\ At(OldA(a, w, u, m), OldW(a, w, u, m), u, OldM(a, w, u, m))
                /\ Queue(a, w, u)'[m] =
                      Queue(OldA(a, w, u, m), OldW(a, w, u, m), u)[OldM(a, w, u, m)]
                /\ a \in {"store", "vault"} /\ m \in Nat
                /\ a = "vault" => w # v
                /\ Merged(a, w) => off(u) \in Nat /\ Len(mine(u)) \in Nat
    <2>1. CASE Merged(a, w)
      <3>1. u \in known \cup kept /\ m \in 1..Len(store'[i][u]) /\ Queue(a, w, u)' = store'[i][u]
        BY <1>9, <1>13, <2>1 DEF At, Live, Queue
      <3>2. CASE FromVault(a, w, u, m)
        <4>1. /\ off(u) \in Nat /\ Len(mine(u)) \in Nat /\ m \in Nat /\ u \in DOMAIN vault[v]
              /\ m + off(u) - Len(mine(u)) \in 1..Len(vault[v][u])
              /\ store'[i][u][m] = vault[v][u][m + off(u) - Len(mine(u))]
          BY <1>12, <3>1, <3>2
        <4>2. At("vault", v, u, m + off(u) - Len(mine(u))) /\ Queue("vault", v, u) = vault[v][u]
          BY <1>0, <4>1 DEF At, Live, Queue
        <4>. QED BY <2>1, <3>1, <3>2, <4>1, <4>2
      <3>3. CASE ~FromVault(a, w, u, m)
        <4>1. /\ off(u) \in Nat /\ Len(mine(u)) \in Nat /\ m \in Nat /\ u \in known
              /\ m + off(u) \in 1..Len(store[i][u])
              /\ store'[i][u][m] = store[i][u][m + off(u)]
          BY <1>12, <2>1, <3>1, <3>3
        <4>2. At("store", i, u, m + off(u)) /\ Queue("store", i, u) = store[i][u]
          BY <4>1 DEF At, Live, Queue, known
        <4>. QED BY <2>1, <3>1, <3>3, <4>1, <4>2
      <3>. QED BY <3>2, <3>3
    <2>2. CASE a = "store" /\ w # i
      BY <1>3, <1>13, <2>2 DEF At, Live, Queue
    <2>3. CASE a # "store"
      BY <1>2, <1>13, <2>3 DEF At, Live, Queue
    <2>. QED BY <2>1, <2>2, <2>3
  <1>14. PlacedOnce'
    <2>. SUFFICES ASSUME NEW a, NEW w, NEW u, NEW m, NEW b, NEW x, NEW y, NEW n,
                         At(a, w, u, m)', At(b, x, y, n)',
                         Queue(a, w, u)'[m] = Queue(b, x, y)'[n]
                  PROVE  a = b /\ w = x /\ u = y /\ m = n
      BY DEF PlacedOnce
    <2>1. /\ At(OldA(a, w, u, m), OldW(a, w, u, m), u, OldM(a, w, u, m))
          /\ Queue(a, w, u)'[m] = Queue(OldA(a, w, u, m), OldW(a, w, u, m), u)[OldM(a, w, u, m)]
          /\ a \in {"store", "vault"} /\ m \in Nat
          /\ a = "vault" => w # v
          /\ Merged(a, w) => off(u) \in Nat /\ Len(mine(u)) \in Nat
      BY <1>13
    <2>2. /\ At(OldA(b, x, y, n), OldW(b, x, y, n), y, OldM(b, x, y, n))
          /\ Queue(b, x, y)'[n] = Queue(OldA(b, x, y, n), OldW(b, x, y, n), y)[OldM(b, x, y, n)]
          /\ b \in {"store", "vault"} /\ n \in Nat
          /\ b = "vault" => x # v
          /\ Merged(b, x) => off(y) \in Nat /\ Len(mine(y)) \in Nat
      BY <1>13
    <2>3. /\ OldA(a, w, u, m) = OldA(b, x, y, n) /\ OldW(a, w, u, m) = OldW(b, x, y, n)
          /\ u = y /\ OldM(a, w, u, m) = OldM(b, x, y, n)
      <3>. HIDE DEF OldA, OldW, OldM, Merged
      <3>1. PICK a1, w1, m1 :
                a1 = OldA(a, w, u, m) /\ w1 = OldW(a, w, u, m) /\ m1 = OldM(a, w, u, m)
        OBVIOUS
      <3>2. PICK a2, w2, m2 :
                a2 = OldA(b, x, y, n) /\ w2 = OldW(b, x, y, n) /\ m2 = OldM(b, x, y, n)
        OBVIOUS
      <3>3. At(a1, w1, u, m1) /\ Queue(a, w, u)'[m] = Queue(a1, w1, u)[m1]
        BY <2>1, <3>1
      <3>4. At(a2, w2, y, m2) /\ Queue(b, x, y)'[n] = Queue(a2, w2, y)[m2]
        BY <2>2, <3>2
      <3>5. Queue(a1, w1, u)[m1] = Queue(a2, w2, y)[m2]
        BY <3>3, <3>4
      <3>6. a1 = a2 /\ w1 = w2 /\ u = y /\ m1 = m2
        BY <1>0, <3>3, <3>4, <3>5, PlacedApart
      <3>. QED BY <3>1, <3>2, <3>6
    <2>. QED BY <2>1, <2>2, <2>3
  <1>15. SpentOnce'
    <2>1. ASSUME NEW a, NEW w, NEW u, NEW m, At(a, w, u, m)', NEW x \in spent
          PROVE  x[1] # Queue(a, w, u)'[m]
      BY <1>0, <1>13, <2>1 DEF SpentOnce
    <2>. QED BY <1>0, <2>1 DEF SpentOnce
  <1>. QED BY <1>10, <1>11, <1>14, <1>15 DEF TicketPart

\* Steps that leave stores, vault and spent tickets alone.
LEMMA TicketsStand ==
    ASSUME TicketPart, UNCHANGED <<store, vault, spent>>
    PROVE  TicketPart'
  BY DEF TicketPart, QueuesTyped, PlacedOnce, SpentOnce, StoreBounded, At, Live, Queue

LEMMA AtMostOne ==
    ASSUME NEW S, \A x, y \in S : x = y
    PROVE  Cardinality(S) \in {0, 1} /\ (S = {} => Cardinality(S) = 0)
  <1>1. CASE S = {}
    BY <1>1, FS_EmptySet
  <1>2. CASE S # {}
    <2>1. PICK x : S = {x}
      BY <1>2
    <2>. QED BY <1>2, <2>1, FS_Singleton
  <1>. QED BY <1>1, <1>2

LEMMA OneCopy == TicketPart => TicketOnce
  <1>. SUFFICES ASSUME TicketPart, NEW t \in Tickets
                PROVE  Cardinality({x \in Identities \X (Servers \X (1..MaxPerServer)) :
                                       x[2] \in Copies(store[x[1]], t)})
                       + Cardinality({x \in Vaults \X (Servers \X (1..MaxPerServer)) :
                                       x[1] \in DOMAIN vault /\ x[2] \in Copies(vault[x[1]], t)})
                       + Cardinality({x \in spent : x[1] = t}) <= 1
    BY DEF TicketOnce
  <1>. DEFINE A == {x \in Identities \X (Servers \X (1..MaxPerServer)) :
                       x[2] \in Copies(store[x[1]], t)}
              B == {x \in Vaults \X (Servers \X (1..MaxPerServer)) :
                       x[1] \in DOMAIN vault /\ x[2] \in Copies(vault[x[1]], t)}
              C == {x \in spent : x[1] = t}
  <1>0. PlacedOnce /\ SpentOnce
    BY DEF TicketPart
  <1>1. ASSUME NEW x \in A
        PROVE  /\ At("store", x[1], x[2][1], x[2][2])
               /\ Queue("store", x[1], x[2][1])[x[2][2]] = t
               /\ x = <<x[1], <<x[2][1], x[2][2]>>>>
    BY DEF Copies, At, Live, Queue
  <1>2. ASSUME NEW x \in B
        PROVE  /\ At("vault", x[1], x[2][1], x[2][2])
               /\ Queue("vault", x[1], x[2][1])[x[2][2]] = t
               /\ x = <<x[1], <<x[2][1], x[2][2]>>>>
    BY DEF Copies, At, Live, Queue
  <1>3. \A x \in C : x \in spent /\ x[1] = t
    OBVIOUS
  <1>. HIDE DEF A, B, C
  <1>4. \A x, y \in A : x = y
    <2>. SUFFICES ASSUME NEW x \in A, NEW y \in A
                  PROVE  x = y
      OBVIOUS
    <2>1. x[1] = y[1] /\ x[2][1] = y[2][1] /\ x[2][2] = y[2][2]
      BY <1>0, <1>1, PlacedApart
    <2>2. x = <<x[1], <<x[2][1], x[2][2]>>>> /\ y = <<y[1], <<y[2][1], y[2][2]>>>>
      BY <1>1
    <2>. QED BY <2>1, <2>2
  <1>5. \A x, y \in B : x = y
    <2>. SUFFICES ASSUME NEW x \in B, NEW y \in B
                  PROVE  x = y
      OBVIOUS
    <2>1. x[1] = y[1] /\ x[2][1] = y[2][1] /\ x[2][2] = y[2][2]
      BY <1>0, <1>2, PlacedApart
    <2>2. x = <<x[1], <<x[2][1], x[2][2]>>>> /\ y = <<y[1], <<y[2][1], y[2][2]>>>>
      BY <1>2
    <2>. QED BY <2>1, <2>2
  <1>6. \A x, y \in C : x = y
    BY <1>0, <1>3 DEF SpentOnce
  <1>7. A # {} => B = {}
    <2>. SUFFICES ASSUME NEW x \in A, NEW y \in B
                  PROVE  FALSE
      OBVIOUS
    <2>1. "store" = "vault"
      BY <1>0, <1>1, <1>2, PlacedApart
    <2>. QED BY <2>1
  <1>8. A # {} => C = {}
    BY <1>0, <1>1, <1>3 DEF SpentOnce
  <1>9. B # {} => C = {}
    BY <1>0, <1>2, <1>3 DEF SpentOnce
  <1>10. /\ Cardinality(A) \in {0, 1} /\ (A = {} => Cardinality(A) = 0)
         /\ Cardinality(B) \in {0, 1} /\ (B = {} => Cardinality(B) = 0)
         /\ Cardinality(C) \in {0, 1} /\ (C = {} => Cardinality(C) = 0)
    BY <1>4, <1>5, <1>6, AtMostOne
  <1>11. Cardinality(A) + Cardinality(B) + Cardinality(C) <= 1
    BY <1>7, <1>8, <1>9, <1>10
  <1>. QED BY <1>11 DEF A, B, C

-----------------------------------------------------------------------------
(* Early data. *)

Offered(c) == \E t \in EarlyTickets : <<t, c>> \in spent
Taker == {"hello", "resumed", "rejected"}

\* A connect takes a ticket once, on its way to the hello; the count has grown
\* since it was read if the ticket allowed early data.
OfferPart ==
    /\ \A c \in Connects, t \in Tickets : <<t, c>> \in spent => conns[c].pc \in Taker
    /\ \A c \in Connects :
          conns[c].pc \in Early => conns[c].before <= takes[conns[c].id][conns[c].server]
    /\ \A c \in Connects :
          conns[c].pc = "hello" /\ Offered(c) =>
              takes[conns[c].id][conns[c].server] > conns[c].before
    /\ OfferReported

\* A connect that has no ticket comes to a point that is not about tickets.
LEMMA OfferQuiet ==
    ASSUME OfferPart, NEW c \in Connects, UNCHANGED <<takes, spent>>,
           \A d \in Connects : d # c => conns'[d] = conns[d],
           conns[c].pc \notin Taker, conns'[c].pc \notin Early
    PROVE  OfferPart'
  <1>1. \A t \in Tickets : <<t, c>> \notin spent
    BY DEF OfferPart
  <1>2. ~Offered(c) /\ \A d \in Connects : Offered(d)' <=> Offered(d)
    BY <1>1, ConnectAssumption DEF Offered
  <1>3. \A d \in Connects, t \in Tickets : <<t, d>> \in spent' => conns'[d].pc \in Taker
    BY <1>1 DEF OfferPart
  <1>4. \A d \in Connects :
          conns'[d].pc \in Early => conns'[d].before <= takes'[conns'[d].id][conns'[d].server]
    BY DEF OfferPart
  <1>5. \A d \in Connects :
          conns'[d].pc = "hello" /\ Offered(d)' =>
              takes'[conns'[d].id][conns'[d].server] > conns'[d].before
    BY <1>2 DEF OfferPart, Early
  <1>6. OfferReported'
    BY <1>1, <1>2, ConnectAssumption DEF OfferPart, OfferReported, Offered
  <1>. QED BY <1>3, <1>4, <1>5, <1>6 DEF OfferPart

LEMMA OfferStands ==
    ASSUME OfferPart, UNCHANGED <<takes, spent, conns>>
    PROVE  OfferPart'
  BY DEF OfferPart, OfferReported, Offered

\* What the steps of the pool do to the connect they are about.
LEMMA PoolConns ==
    ASSUME ConnsFormed, PoolPart, NEW c \in Connects,
           \/ \E k \in Keys : AcquireHit(c, k) \/ AcquireMiss(c, k) \/ AcquireFails(c, k)
           \/ HandshakeDone(c) \/ DropRef(c) \/ Touch(c) \/ EvictBroken(c)
    PROVE  /\ UNCHANGED ticketVars
           /\ \A d \in Connects : d # c => conns'[d] = conns[d]
           /\ conns[c].pc \notin Taker /\ conns'[c].pc \notin Early
  <1>1. UNCHANGED ticketVars
    BY DEF AcquireHit, AcquireMiss, AcquireFails, HandshakeDone, DropRef, Touch, EvictBroken
  <1>2. conns[c].pc \notin Taker
    BY DEF AcquireHit, AcquireMiss, AcquireFails, HandshakeDone, DropRef, Touch, EvictBroken, Taker
  <1>3. CASE \E x \in Entered : conns' = [conns EXCEPT ![c].pc = x]
    BY <1>1, <1>2, <1>3, Advanced DEF Entered, Early
  <1>4. CASE \E r : conns' = [conns EXCEPT ![c] = r] /\ r.pc \in {"handshake", "rejected"}
    BY <1>1, <1>2, <1>4, Rewritten DEF Early
  <1>5. ASSUME NEW k \in Keys, AcquireHit(c, k) \/ AcquireMiss(c, k) \/ AcquireFails(c, k)
        PROVE  \E r : conns' = [conns EXCEPT ![c] = r] /\ r.pc \in {"handshake", "rejected"}
    <2>1. CASE \E e : conns' = [conns EXCEPT ![c] = [pc |-> "handshake", key |-> k, entry |-> e]]
      <3>1. PICK e, r : /\ r = [pc |-> "handshake", key |-> k, entry |-> e]
                        /\ conns' = [conns EXCEPT ![c] = r]
        BY <2>1
      <3>2. r.pc = "handshake"
        BY <3>1
      <3>. QED BY <3>1, <3>2, Zenon
    <2>2. CASE conns' = [conns EXCEPT ![c] = [pc |-> "rejected"]]
      <3>1. PICK r : r = [pc |-> "rejected"] /\ conns' = [conns EXCEPT ![c] = r]
        BY <2>2
      <3>2. r.pc = "rejected"
        BY <3>1
      <3>. QED BY <3>1, <3>2, Zenon
    <2>3. CASE AcquireHit(c, k)
      BY <2>1, <2>2, <2>3 DEF AcquireHit
    <2>4. CASE AcquireMiss(c, k)
      BY <2>1, <2>4 DEF AcquireMiss
    <2>5. CASE AcquireFails(c, k)
      BY <2>2, <2>5 DEF AcquireFails
    <2>. QED BY <1>5, <2>3, <2>4, <2>5
  <1>6. CASE HandshakeDone(c) \/ DropRef(c) \/ Touch(c) \/ EvictBroken(c)
    BY <1>3, <1>6 DEF HandshakeDone, DropRef, Touch, EvictBroken, Entered
  <1>. QED BY <1>4, <1>5, <1>6

LEMMA BeginOffers ==
    ASSUME ConnsFormed, TakesTyped, OfferPart, NEW c \in Connects, NEW i \in Identities,
           NEW s \in Servers, Begin0Rtt(c, i, s)
    PROVE  OfferPart'
  <1>1. /\ conns[c].pc = "dial0rtt" /\ UNCHANGED <<takes, spent>>
        /\ conns' = [conns EXCEPT ![c] =
              [pc |-> "early", id |-> i, server |-> s, before |-> takes[i][s]]]
    BY DEF Begin0Rtt, ticketVars
  <1>2. /\ \A d \in Connects : d # c => conns'[d] = conns[d]
        /\ conns'[c] = [pc |-> "early", id |-> i, server |-> s, before |-> takes[i][s]]
    BY <1>1, Rewritten
  <1>3. /\ conns'[c].pc = "early" /\ conns'[c].id = i /\ conns'[c].server = s
        /\ conns'[c].before = takes[i][s] /\ takes[i][s] \in Nat
    BY <1>2 DEF TakesTyped
  <1>4. \A t \in Tickets : <<t, c>> \notin spent
    BY <1>1 DEF OfferPart, Taker
  <1>5. ~Offered(c) /\ \A d \in Connects : Offered(d)' <=> Offered(d)
    BY <1>1, <1>4, ConnectAssumption DEF Offered
  <1>6. \A d \in Connects, t \in Tickets : <<t, d>> \in spent' => conns'[d].pc \in Taker
    BY <1>1, <1>2, <1>4 DEF OfferPart
  <1>7. \A d \in Connects :
          conns'[d].pc \in Early => conns'[d].before <= takes'[conns'[d].id][conns'[d].server]
    BY <1>1, <1>2, <1>3 DEF OfferPart
  <1>8. \A d \in Connects :
          conns'[d].pc = "hello" /\ Offered(d)' =>
              takes'[conns'[d].id][conns'[d].server] > conns'[d].before
    BY <1>1, <1>2, <1>3, <1>5 DEF OfferPart
  <1>9. OfferReported'
    BY <1>1, <1>2, <1>3 DEF OfferPart, OfferReported
  <1>. QED BY <1>6, <1>7, <1>8, <1>9 DEF OfferPart

LEMMA TakeOffers ==
    ASSUME ConnsFormed, TakesTyped, TicketPart, OfferPart, NEW c \in Connects, TakeTicket(c)
    PROVE  OfferPart' /\ TicketPart' /\ TakesTyped'
  <1>1. conns[c].pc = "early" /\ conns' = [conns EXCEPT ![c].pc = "hello"]
    BY DEF TakeTicket
  <1>2. /\ \A d \in Connects : d # c => conns'[d] = conns[d]
        /\ conns'[c].pc = "hello" /\ conns'[c].id = conns[c].id
        /\ conns'[c].server = conns[c].server /\ conns'[c].before = conns[c].before
    BY <1>1, Advanced DEF Early
  <1>3. PICK i \in Identities, s \in Servers, b \in Nat :
            i = conns[c].id /\ s = conns[c].server /\ b = conns[c].before
    BY <1>1 DEF ConnsFormed, Formed, Early
  <1>4. \A t \in Tickets : <<t, c>> \notin spent
    BY <1>1 DEF OfferPart, Taker
  <1>5. \A x \in spent : x[2] # c
    <2>1. \A x \in spent : x[1] \in Tickets /\ x = <<x[1], x[2]>>
      BY DEF TicketPart, SpentOnce
    <2>. QED BY <1>4, <2>1
  <1>6. /\ TicketPart'
        /\ \/ UNCHANGED <<takes, spent>>
           \/ \E t \in Tickets :
                 /\ spent' = spent \cup {<<t, c>>}
                 /\ takes' = IF t \in EarlyTickets
                             THEN [takes EXCEPT ![conns[c].id][conns[c].server] = @ + 1]
                             ELSE takes
    BY <1>5, TakeMoves
  <1>7. b <= takes[i][s] /\ takes[i][s] \in Nat
    BY <1>1, <1>3 DEF OfferPart, Early, TakesTyped
  <1>8. /\ TakesTyped' /\ spent \subseteq spent'
        /\ \A x \in spent' \ spent : x[2] = c
        /\ \A j \in Identities, u \in Servers : takes[j][u] <= takes'[j][u]
        /\ Offered(c)' => takes'[i][s] > b
    <2>1. CASE UNCHANGED <<takes, spent>>
      <3>1. ~Offered(c)'
        BY <1>4, <2>1, ConnectAssumption DEF Offered
      <3>. QED BY <2>1, <3>1 DEF TakesTyped
    <2>2. ASSUME NEW t \in Tickets, spent' = spent \cup {<<t, c>>},
                 takes' = IF t \in EarlyTickets THEN [takes EXCEPT ![i][s] = @ + 1] ELSE takes
          PROVE  /\ TakesTyped' /\ spent \subseteq spent'
                 /\ \A x \in spent' \ spent : x[2] = c
                 /\ \A j \in Identities, u \in Servers : takes[j][u] <= takes'[j][u]
                 /\ Offered(c)' => takes'[i][s] > b
      <3>1. spent \subseteq spent' /\ \A x \in spent' \ spent : x[2] = c
        BY <2>2
      <3>2. CASE t \in EarlyTickets
        <4>1. /\ takes' \in [Identities -> [Servers -> Nat]] /\ takes'[i][s] = takes[i][s] + 1
              /\ \A j \in Identities, u \in Servers :
                    takes'[j][u] = IF j = i /\ u = s THEN takes[j][u] + 1 ELSE takes[j][u]
              /\ \A j \in Identities, u \in Servers : takes[j][u] \in Nat
          BY <2>2, <3>2 DEF TakesTyped
        <4>2. \A j \in Identities, u \in Servers : takes[j][u] <= takes'[j][u]
          BY <4>1
        <4>3. takes'[i][s] > b
          BY <1>7, <4>1
        <4>. QED BY <3>1, <4>1, <4>2, <4>3 DEF TakesTyped
      <3>3. CASE t \notin EarlyTickets
        <4>1. takes' = takes /\ TakesTyped'
          BY <2>2, <3>3 DEF TakesTyped
        <4>2. ~Offered(c)'
          BY <1>4, <2>2, <3>3, ConnectAssumption DEF Offered
        <4>3. \A j \in Identities, u \in Servers : takes[j][u] <= takes'[j][u]
          BY <4>1 DEF TakesTyped
        <4>. QED BY <3>1, <4>1, <4>2, <4>3
      <3>. QED BY <3>2, <3>3
    <2>. QED BY <1>3, <1>6, <2>1, <2>2
  <1>9. \A d \in Connects : d # c => (Offered(d)' <=> Offered(d))
    <2>1. \A d \in Connects : \A t : d # c /\ <<t, d>> \in spent' => <<t, d>> \in spent
      BY <1>8
    <2>. QED BY <1>8, <2>1 DEF Offered
  <1>10. \A d \in Connects, t \in Tickets : <<t, d>> \in spent' => conns'[d].pc \in Taker
    <2>1. \A d \in Connects : \A t : d # c /\ <<t, d>> \in spent' => <<t, d>> \in spent
      BY <1>8
    <2>. QED BY <1>2, <2>1 DEF OfferPart, Taker
  <1>11. \A d \in Connects : d # c /\ conns[d].pc \in Early =>
            /\ conns[d].id \in Identities /\ conns[d].server \in Servers /\ conns[d].before \in Nat
            /\ takes[conns[d].id][conns[d].server] <= takes'[conns[d].id][conns[d].server]
            /\ takes[conns[d].id][conns[d].server] \in Nat
            /\ takes'[conns[d].id][conns[d].server] \in Nat
    BY <1>8 DEF ConnsFormed, Formed, TakesTyped
  <1>12. \A d \in Connects :
          conns'[d].pc \in Early => conns'[d].before <= takes'[conns'[d].id][conns'[d].server]
    <2>1. takes'[i][s] \in Nat /\ takes[i][s] <= takes'[i][s]
      BY <1>8 DEF TakesTyped
    <2>2. conns'[c].before <= takes'[conns'[c].id][conns'[c].server]
      BY <1>2, <1>3, <1>7, <2>1
    <2>3. ASSUME NEW d \in Connects, d # c, conns[d].pc \in Early
          PROVE  conns[d].before <= takes'[conns[d].id][conns[d].server]
      BY <1>11, <2>3 DEF OfferPart
    <2>. QED BY <1>2, <2>2, <2>3
  <1>13. \A d \in Connects :
          conns'[d].pc = "hello" /\ Offered(d)' =>
              takes'[conns'[d].id][conns'[d].server] > conns'[d].before
    <2>1. ASSUME NEW d \in Connects, d # c, conns[d].pc = "hello", Offered(d)
          PROVE  takes'[conns[d].id][conns[d].server] > conns[d].before
      BY <1>11, <2>1 DEF OfferPart, Early
    <2>. QED BY <1>2, <1>3, <1>8, <1>9, <2>1
  <1>14. OfferReported'
    <2>1. OfferReported' <=>
            \A d \in Connects : conns'[d].pc = "resumed" /\ Offered(d)' => conns'[d].has0Rtt
      BY DEF OfferReported, Offered
    <2>2. \A d \in Connects : conns[d].pc = "resumed" /\ Offered(d) => conns[d].has0Rtt
      BY DEF OfferPart, OfferReported, Offered
    <2>. QED BY <1>2, <1>9, <2>1, <2>2
  <1>15. OfferPart'
    BY <1>10, <1>12, <1>13, <1>14 DEF OfferPart
  <1>. QED BY <1>6, <1>8, <1>15

LEMMA ResolveOffers ==
    ASSUME ConnsFormed, OfferPart, NEW c \in Connects, Resolve0Rtt(c)
    PROVE  OfferPart'
  <1>1. PICK more, a :
          /\ more = (takes[conns[c].id][conns[c].server] > conns[c].before)
          /\ conns' = [conns EXCEPT ![c] = [pc |-> "resumed", has0Rtt |-> more, accepted |-> a]]
    BY DEF Resolve0Rtt
  <1>2. conns[c].pc = "hello" /\ UNCHANGED <<takes, spent>>
    BY DEF Resolve0Rtt, ticketVars
  <1>3. /\ \A d \in Connects : d # c => conns'[d] = conns[d]
        /\ conns'[c] = [pc |-> "resumed", has0Rtt |-> more, accepted |-> a]
    BY <1>1, Rewritten
  <1>4. conns'[c].pc = "resumed" /\ conns'[c].has0Rtt = more
    BY <1>3
  <1>5. Offered(c) => more
    BY <1>1, <1>2 DEF OfferPart
  <1>6. \A d \in Connects : Offered(d)' <=> Offered(d)
    BY <1>2 DEF Offered
  <1>7. \A d \in Connects, t \in Tickets : <<t, d>> \in spent' => conns'[d].pc \in Taker
    BY <1>2, <1>3, <1>4 DEF OfferPart, Taker
  <1>8. \A d \in Connects :
          conns'[d].pc \in Early => conns'[d].before <= takes'[conns'[d].id][conns'[d].server]
    BY <1>2, <1>3, <1>4 DEF OfferPart, Early
  <1>9. \A d \in Connects :
          conns'[d].pc = "hello" /\ Offered(d)' =>
              takes'[conns'[d].id][conns'[d].server] > conns'[d].before
    BY <1>2, <1>3, <1>4, <1>6 DEF OfferPart
  <1>10. OfferReported'
    <2>1. OfferReported' <=>
            \A d \in Connects : conns'[d].pc = "resumed" /\ Offered(d)' => conns'[d].has0Rtt
      BY DEF OfferReported, Offered
    <2>2. \A d \in Connects : conns[d].pc = "resumed" /\ Offered(d) => conns[d].has0Rtt
      BY DEF OfferPart, OfferReported, Offered
    <2>. QED BY <1>3, <1>4, <1>5, <1>6, <2>1, <2>2, Zenon
  <1>. QED BY <1>7, <1>8, <1>9, <1>10 DEF OfferPart

LEMMA ConfirmOffers ==
    ASSUME ConnsFormed, OfferPart, NEW c \in Connects, Confirm0Rtt(c) \/ Fail0Rtt(c)
    PROVE  OfferPart'
  <1>1. UNCHANGED <<takes, spent>>
    BY DEF Confirm0Rtt, Fail0Rtt, ticketVars
  <1>2. /\ \A d \in Connects : d # c => conns'[d] = conns[d]
        /\ conns'[c].pc \in {"resumed", "rejected"}
        /\ conns'[c].pc = "resumed" => conns[c].pc = "resumed" /\ conns'[c].has0Rtt = conns[c].has0Rtt
    <2>1. CASE Fail0Rtt(c)
      <3>1. conns' = [conns EXCEPT ![c] = [pc |-> "rejected"]]
        BY <2>1 DEF Fail0Rtt
      <3>2. /\ \A d \in Connects : d # c => conns'[d] = conns[d]
            /\ conns'[c] = [pc |-> "rejected"]
        BY <3>1, Rewritten
      <3>. QED BY <3>2
    <2>2. CASE Confirm0Rtt(c)
      <3>1. PICK a : conns[c].pc = "resumed" /\ conns' = [conns EXCEPT ![c].accepted = a]
        BY <2>2 DEF Confirm0Rtt
      <3>2. /\ \A d \in Connects : d # c => conns'[d] = conns[d]
            /\ conns'[c] = [conns[c] EXCEPT !.accepted = a] /\ Formed(conns[c])
        BY <3>1 DEF ConnsFormed
      <3>3. conns'[c].pc = "resumed" /\ conns'[c].has0Rtt = conns[c].has0Rtt
        BY <3>1, <3>2 DEF Formed
      <3>. QED BY <3>1, <3>2, <3>3
    <2>. QED BY <2>1, <2>2
  <1>3. \A d \in Connects : Offered(d)' <=> Offered(d)
    BY <1>1 DEF Offered
  <1>4. \A d \in Connects, t \in Tickets : <<t, d>> \in spent' => conns'[d].pc \in Taker
    BY <1>1, <1>2 DEF OfferPart, Taker
  <1>5. \A d \in Connects :
          conns'[d].pc \in Early => conns'[d].before <= takes'[conns'[d].id][conns'[d].server]
    BY <1>1, <1>2 DEF OfferPart, Early
  <1>6. \A d \in Connects :
          conns'[d].pc = "hello" /\ Offered(d)' =>
              takes'[conns'[d].id][conns'[d].server] > conns'[d].before
    BY <1>1, <1>2, <1>3 DEF OfferPart
  <1>7. OfferReported'
    <2>1. OfferReported' <=>
            \A d \in Connects : conns'[d].pc = "resumed" /\ Offered(d)' => conns'[d].has0Rtt
      BY DEF OfferReported, Offered
    <2>2. \A d \in Connects : conns[d].pc = "resumed" /\ Offered(d) => conns[d].has0Rtt
      BY DEF OfferPart, OfferReported, Offered
    <2>. QED BY <1>2, <1>3, <2>1, <2>2
  <1>. QED BY <1>4, <1>5, <1>6, <1>7 DEF OfferPart

-----------------------------------------------------------------------------
(* The theorems about connecting. *)

ConnectInvariant == ConnsFormed /\ TakesTyped /\ PoolPart /\ TicketPart /\ OfferPart

LEMMA ConnectStarts ==
    ASSUME ConnectInit
    PROVE  ConnectInvariant
  <1>. USE DEF ConnectInit
  <1>1. \A c \in Connects : conns[c].pc = "idle" /\ "pc" \in DOMAIN conns[c]
    BY DEF Idle
  <1>2. ConnsFormed
    BY <1>1 DEF ConnsFormed, Formed, Entered, Early
  <1>3. TakesTyped
    BY DEF TakesTyped
  <1>4. PoolPart
    <2>1. \A e \in Connects : Users(e) = {}
      BY <1>1 DEF Users
    <2>2. Pooled = {}
      BY DEF Pooled
    <2>3. IsFiniteSet({}) /\ Cardinality({}) = 0
      BY FS_EmptySet
    <2>4. RefsExact /\ PoolBounded
      BY <2>1, <2>2, <2>3, ConnectAssumption DEF RefsExact, PoolBounded
    <2>5. EntriesBorn
      BY <2>1, ConnectAssumption DEF EntriesBorn
    <2>. QED BY <2>1, <2>2, <2>3, <2>4, <2>5 DEF PoolPart
  <1>5. TicketPart
    <2>1. \A i \in Identities : store[i] = NoTickets
      OBVIOUS
    <2>2. DOMAIN NoTickets = {}
      BY DEF NoTickets
    <2>3. IsFiniteSet({}) /\ Cardinality({}) = 0
      BY FS_EmptySet
    <2>4. \A a, w, s, m : ~At(a, w, s, m)
      BY <2>1, <2>2 DEF At, Live
    <2>5. QueuesTyped
      BY <2>1, <2>2, <2>3 DEF QueuesTyped
    <2>6. StoreBounded
      BY <2>1, <2>2, <2>3, ConnectAssumption DEF StoreBounded
    <2>. QED BY <2>4, <2>5, <2>6 DEF TicketPart, PlacedOnce, SpentOnce
  <1>6. OfferPart
    BY <1>1 DEF OfferPart, OfferReported, Early, Taker
  <1>. QED BY <1>2, <1>3, <1>4, <1>5, <1>6 DEF ConnectInvariant

LEMMA ConnectStep ==
    ASSUME ConnectInvariant, ConnectNext
    PROVE  ConnectInvariant'
  <1>0. ConnsFormed /\ TakesTyped /\ PoolPart /\ TicketPart /\ OfferPart
    BY DEF ConnectInvariant
  <1>1. ConnsFormed' /\ PoolPart'
    BY <1>0, PoolMoves
  <1>2. ASSUME UNCHANGED ticketVars
        PROVE  TakesTyped' /\ TicketPart'
    BY <1>0, <1>2, TicketsStand DEF ticketVars, TakesTyped
  <1>3. CASE RouteNext
    <2>1. PICK c \in Connects : PlainConnect(c) \/ \E o \in Options : Dial(c, o)
      BY <1>3 DEF RouteNext
    <2>2. UNCHANGED ticketVars /\ conns[c].pc \notin Taker
      BY <2>1 DEF PlainConnect, Dial, Taker
    <2>3. \A d \in Connects : d # c => conns'[d] = conns[d]
      BY <1>0, <2>1, OutsideForms
    <2>4. conns'[c].pc \notin Early
      <3>1. CASE PlainConnect(c)
        <4>1. PICK x \in {"connected", "rejected"} : conns' = [conns EXCEPT ![c].pc = x]
          BY <3>1 DEF PlainConnect
        <4>2. conns'[c].pc = x
          BY <1>0, <4>1, Advanced
        <4>. QED BY <4>2 DEF Early
      <3>2. CASE \E o \in Options : Dial(c, o)
        <4>1. PICK x \in {"rejected", "pool", "dial0rtt", "plain"} :
                  conns' = [conns EXCEPT ![c] = [pc |-> x]]
          BY <3>2 DEF Dial, Route
        <4>2. conns'[c] = [pc |-> x]
          BY <1>0, <4>1, Rewritten
        <4>. QED BY <4>2 DEF Early
      <3>. QED BY <2>1, <3>1, <3>2
    <2>5. OfferPart'
      BY <1>0, <2>2, <2>3, <2>4, OfferQuiet DEF ticketVars
    <2>. QED BY <1>1, <1>2, <2>2, <2>5 DEF ConnectInvariant
  <1>4. CASE PoolNext
    <2>1. CASE Tick
      <3>1. UNCHANGED ticketVars /\ UNCHANGED conns
        BY <2>1 DEF Tick
      <3>2. OfferPart'
        BY <1>0, <3>1, OfferStands DEF ticketVars
      <3>. QED BY <1>1, <1>2, <3>1, <3>2 DEF ConnectInvariant
    <2>2. CASE ~Tick
      <3>1. PICK c \in Connects :
              \/ \E k \in Keys : AcquireHit(c, k) \/ AcquireMiss(c, k) \/ AcquireFails(c, k)
              \/ HandshakeDone(c) \/ DropRef(c) \/ Touch(c) \/ EvictBroken(c)
        BY <1>4, <2>2 DEF PoolNext
      <3>2. /\ UNCHANGED ticketVars
            /\ \A d \in Connects : d # c => conns'[d] = conns[d]
            /\ conns[c].pc \notin Taker /\ conns'[c].pc \notin Early
        BY <1>0, <3>1, PoolConns
      <3>3. OfferPart'
        BY <1>0, <3>2, OfferQuiet DEF ticketVars
      <3>. QED BY <1>1, <1>2, <3>2, <3>3 DEF ConnectInvariant
    <2>. QED BY <2>1, <2>2
  <1>5. CASE TicketNext
    <2>1. ASSUME NEW i \in Identities, NEW s \in Servers, NEW t \in Tickets, TicketIssued(i, s, t)
          PROVE  ConnectInvariant'
      <3>1. UNCHANGED <<takes, spent, conns>>
        BY <2>1 DEF TicketIssued
      <3>2. OfferPart' /\ TakesTyped'
        BY <1>0, <3>1, OfferStands DEF TakesTyped
      <3>. QED BY <1>0, <1>1, <2>1, <3>2, IssuedMoves DEF ConnectInvariant
    <2>2. ASSUME NEW i \in Identities, NEW v \in Vaults, NEW some, ExportVault(i, some, v)
          PROVE  ConnectInvariant'
      <3>1. UNCHANGED <<takes, spent, conns>>
        BY <2>2 DEF ExportVault
      <3>2. OfferPart' /\ TakesTyped'
        BY <1>0, <3>1, OfferStands DEF TakesTyped
      <3>. QED BY <1>0, <1>1, <2>2, <3>2, ExportMoves DEF ConnectInvariant
    <2>3. ASSUME NEW i \in Identities, NEW v \in Vaults, ImportVault(i, v)
          PROVE  ConnectInvariant'
      <3>1. UNCHANGED <<takes, spent, conns>>
        BY <2>3 DEF ImportVault
      <3>2. OfferPart' /\ TakesTyped'
        BY <1>0, <3>1, OfferStands DEF TakesTyped
      <3>. QED BY <1>0, <1>1, <2>3, <3>2, ImportMoves DEF ConnectInvariant
    <2>4. ASSUME NEW c \in Connects, NEW i \in Identities, NEW s \in Servers, Begin0Rtt(c, i, s)
          PROVE  ConnectInvariant'
      BY <1>0, <1>1, <1>2, <2>4, BeginOffers DEF Begin0Rtt, ConnectInvariant
    <2>5. ASSUME NEW c \in Connects, TakeTicket(c)
          PROVE  ConnectInvariant'
      BY <1>0, <1>1, <2>5, TakeOffers DEF ConnectInvariant
    <2>6. ASSUME NEW c \in Connects, Resolve0Rtt(c)
          PROVE  ConnectInvariant'
      <3>1. UNCHANGED ticketVars
        BY <2>6 DEF Resolve0Rtt
      <3>. QED BY <1>0, <1>1, <1>2, <2>6, <3>1, ResolveOffers DEF ConnectInvariant
    <2>7. ASSUME NEW c \in Connects, Confirm0Rtt(c) \/ Fail0Rtt(c)
          PROVE  ConnectInvariant'
      <3>1. UNCHANGED ticketVars
        BY <2>7 DEF Confirm0Rtt, Fail0Rtt
      <3>. QED BY <1>0, <1>1, <1>2, <2>7, <3>1, ConfirmOffers DEF ConnectInvariant
    <2>. QED BY <1>5, <2>1, <2>2, <2>3, <2>4, <2>5, <2>6, <2>7 DEF TicketNext
  <1>. QED BY <1>3, <1>4, <1>5 DEF ConnectNext

LEMMA ConnectSteps == ConnectInvariant /\ [ConnectNext]_connectVars => ConnectInvariant'
  <1>. SUFFICES ASSUME ConnectInvariant, [ConnectNext]_connectVars
                PROVE  ConnectInvariant'
    OBVIOUS
  <1>1. CASE ConnectNext
    BY <1>1, ConnectStep
  <1>2. CASE UNCHANGED connectVars
    <2>1. UNCHANGED <<pool, refs, stamp, conns, store, takes, vault, spent>>
      BY <1>2 DEF connectVars, poolVars, ticketVars
    <2>2. TakesTyped'
      BY <2>1 DEF ConnectInvariant, TakesTyped
    <2>. QED BY <2>1, <2>2, PoolStands, TicketsStand, OfferStands DEF ConnectInvariant
  <1>. QED BY <1>1, <1>2

LEMMA ConnectImplies == ConnectInvariant => ConnectSafe
  BY OneCopy DEF ConnectInvariant, ConnectSafe, PoolPart, TicketPart, OfferPart

\* Every reference on a pooled endpoint (client_pool.rs active_refs) is given
\* back once, the pool and the ticket stores keep their caps, a ticket
\* (zero_rtt.rs) is in one place at most and is used once, and a connect that
\* offered early data says so.
THEOREM ConnectingSafe == ConnectSpec => []ConnectSafe
  <1>. QED BY ConnectStarts, ConnectSteps, ConnectImplies, PTL DEF ConnectSpec

\* No eviction takes an endpoint out of the pool while a connect uses it, and a
\* late failure (release_failed_entry) takes out no other entry than its own.
THEOREM BusyEndpointsStay == ConnectSpec => BusyStaysPooled
  <1>1. ConnectInvariant /\ [ConnectNext]_connectVars =>
          [\A k \in Keys :
             pool[k] # NoEntry /\ pool'[k] # pool[k] /\ Users(pool[k]) # {}
                => \E c \in Connects : conns[c].pc = "evicting" /\ conns[c].entry = pool[k]]_connectVars
    <2>. SUFFICES ASSUME ConnectInvariant, ConnectNext, NEW k \in Keys,
                         pool[k] # NoEntry, pool'[k] # pool[k], Users(pool[k]) # {}
                  PROVE  \E c \in Connects : conns[c].pc = "evicting" /\ conns[c].entry = pool[k]
      OBVIOUS
    <2>0. PoolPart
      BY DEF ConnectInvariant
    <2>1. k \notin Idles
      BY <2>0, IdleUnused
    <2>2. CASE UNCHANGED pool
      BY <2>2
    <2>3. ASSUME NEW out \in Headroom \cup {EvictIdle},
                 \/ pool' = Without(out)
                 \/ \E c \in Connects, j \in Keys :
                       j \notin Pooled \ EvictIdle /\ pool' = [Without(out) EXCEPT ![j] = c]
          PROVE  FALSE
      <3>1. out \subseteq Idles /\ EvictIdle \subseteq Idles /\ Idles \subseteq Keys
        BY EvictedIdle DEF EvictIdle, Idles, Pooled
      <3>2. /\ Without(out) \in [Keys -> Connects \cup {NoEntry}] /\ Without(out)[k] = pool[k]
        BY <2>0, <2>1, <3>1, WithoutPool
      <3>3. k \in Pooled \ EvictIdle
        BY <2>1, <3>1 DEF Pooled
      <3>. QED BY <2>3, <3>2, <3>3
    <2>4. ASSUME NEW c \in Connects, NEW j \in Keys,
                 AcquireHit(c, j) \/ AcquireMiss(c, j) \/ AcquireFails(c, j)
          PROVE  FALSE
      <3>1. CASE AcquireHit(c, j)
        BY <2>3, <3>1 DEF AcquireHit
      <3>2. CASE AcquireMiss(c, j)
        <4>1. PICK out \in Headroom : pool' = [Without(out) EXCEPT ![j] = c]
          BY <3>2 DEF AcquireMiss
        <4>2. j \notin Pooled \ EvictIdle
          BY <3>2 DEF AcquireMiss
        <4>. QED BY <2>3, <4>1, <4>2
      <3>3. CASE AcquireFails(c, j)
        <4>1. PICK out \in Headroom \cup {EvictIdle} : pool' = Without(out)
          BY <3>3 DEF AcquireFails
        <4>. QED BY <2>3, <4>1
      <3>. QED BY <2>4, <3>1, <3>2, <3>3
    <2>5. ASSUME NEW c \in Connects, EvictBroken(c)
          PROVE  conns[c].pc = "evicting" /\ conns[c].entry = pool[k]
      BY <2>0, <2>5 DEF EvictBroken, PoolPart
    <2>6. CASE RouteNext \/ TicketNext
      BY <2>2, <2>6 DEF RouteNext, PlainConnect, Dial, TicketNext, TicketIssued, Begin0Rtt,
                        TakeTicket, Resolve0Rtt, Fail0Rtt, Confirm0Rtt, ExportVault, ImportVault,
                        poolVars
    <2>7. CASE PoolNext
      <3>1. CASE Tick
        BY <2>2, <3>1 DEF Tick
      <3>2. ASSUME NEW c \in Connects, HandshakeDone(c) \/ DropRef(c) \/ Touch(c)
            PROVE  UNCHANGED pool
        BY <3>2 DEF HandshakeDone, DropRef, Touch, poolVars
      <3>. QED BY <2>2, <2>4, <2>5, <2>7, <3>1, <3>2 DEF PoolNext
    <2>. QED BY <2>6, <2>7 DEF ConnectNext
  <1>. QED BY <1>1, ConnectStarts, ConnectSteps, PTL DEF ConnectSpec, BusyStaysPooled

=============================================================================
