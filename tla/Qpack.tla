------------------------------- MODULE Qpack ---------------------------------
(***************************************************************************)
(* Header compression of the WebAssembly endpoint (h3.rs, and the handlers *)
(* in endpoint.rs that feed it): one encoder, one decoder and the three    *)
(* kinds of stream between them.  QUIC orders bytes within a stream and    *)
(* nothing across streams, so a field section may arrive before the        *)
(* inserts it needs, and an acknowledgement after the next section left.   *)
(*                                                                         *)
(* The encoder is either this code's own or, to exercise the instructions  *)
(* only other implementations send, a peer that follows RFC 9204 and       *)
(* numbers its entries from 0.                                             *)
(***************************************************************************)
EXTENDS Integers, Sequences, FiniteSets, SequencesExt

CONSTANTS
    Names, Values,  \* of header fields
    NameLen(_),     \* bytes of a name; every value has one byte here
    Sections,       \* field lists an endpoint encodes, as sequences of fields
    QpackStreams,   \* request streams; each carries one field section
    Confs           \* [enc, dec: table capacities in bytes; blocked: streams]

ASSUME QpackAssumption ==
    /\ \A n \in Names : NameLen(n) \in Nat
    /\ \A c \in Confs : c.enc \in Nat /\ c.dec \in Nat /\ c.blocked \in Nat

Fields == [n: Names, v: Values]
entry_size(f) == NameLen(f.n) + 1 + 32
NoName(v) == [n |-> "", v |-> v]
NoField == NoName("")

VARIABLES
    conf,       \* the settings of this connection
    rfc,        \* the encoder is an RFC 9204 peer, not this code
    etable,     \* QpackEncoder.table: [entries, capacity, count]
    krc,        \* QpackEncoder.known_received_count
    pendingRic, \* [stream -> pending_section_ric, 0 when absent]
    encStream,  \* instructions on the encoder stream
    decStream,  \* instructions on the decoder stream
    section,    \* [stream -> the section sent on it, or <<>>]
    arrived,    \* streams whose section is in the receiver's buffer
    dtable,     \* QpackDecoder.table
    blockedOn,  \* qpack_blocked_streams
    conn,       \* "open", "encoder error", "decompression", "blocked"
    headers,    \* [stream -> what decoding gave, or <<>>]
    inserted,   \* history: every field the encoder inserted
    meant       \* history: [stream -> the field list encoded]

qpackVars == <<conf, rfc, etable, krc, pendingRic, encStream, decStream, section, arrived, dtable,
               blockedOn, conn, headers, inserted, meant>>

-----------------------------------------------------------------------------
(* DynamicTable: the oldest entry first, absolute indexes from 1.          *)

Table == [entries |-> <<>>, capacity |-> 0, count |-> 0]
\* The bytes of the entries from the i-th on.
BytesFrom(entries) ==
    LET from[i \in 1..Len(entries) + 1] ==
            IF i > Len(entries) THEN 0 ELSE entry_size(entries[i]) + from[i + 1]
    IN  from
Bytes(entries) == BytesFrom(entries)[1]
oldest(t) == t.count - Len(t.entries) + 1

\* evict_to_fit: how many of the oldest entries go.
Evicted(t, room) ==
    LET from == BytesFrom(t.entries) IN
    CHOOSE k \in 0..Len(t.entries) :
        /\ from[k + 1] + room <= t.capacity
        /\ k > 0 => from[k] + room > t.capacity

\* No entry above ack_floor may go; the decoder's floor is its own count.
EntryFits(t, room, floor) ==
    room <= t.capacity /\ oldest(t) + Evicted(t, room) - 1 <= floor

Evict(t, room) == [t EXCEPT !.entries = SubSeq(@, Evicted(t, room) + 1, Len(@))]

CanSetCapacity(t, capacity, limit, floor) ==
    capacity <= limit /\ EntryFits([t EXCEPT !.capacity = capacity], 0, floor)
SetCapacity(t, capacity) == Evict([t EXCEPT !.capacity = capacity], 0)

CanInsert(t, f, floor) == EntryFits(t, entry_size(f), floor)
Insert(t, f) ==
    [t EXCEPT !.entries = Append(Evict(t, entry_size(f)).entries, f), !.count = @ + 1]

Has(t, abs) == abs >= 1 /\ oldest(t) <= abs /\ abs <= t.count
get_absolute(t, abs) == t.entries[abs - oldest(t) + 1]

-----------------------------------------------------------------------------
(* The Required Insert Count travels modulo twice the entries that fit.    *)

MaxEntries(capacity) == capacity \div 32

encode_required_insert_count(ric, capacity) ==
    IF ric = 0 THEN 0 ELSE (ric % (2 * MaxEntries(capacity))) + 1

\* -1 stands for QpackError::Invalid.
decode_required_insert_count(encoded, capacity, total) ==
    LET max   == MaxEntries(capacity)
        range == 2 * max
        top   == total + max
        raw   == (top \div range) * range + encoded - 1
        ric   == IF raw <= top THEN raw
                 ELSE IF raw <= top + max THEN raw - range ELSE -1
    IN  IF encoded = 0 THEN 0 ELSE IF max = 0 \/ ric <= 0 THEN -1 ELSE ric

-----------------------------------------------------------------------------
(* The encoder.                                                            *)

LiteralSection(list) ==
    [ric |-> 0, sign |-> 0, delta |-> 0,
     lines |-> [i \in DOMAIN list |-> [form |-> "literal", idx |-> 0, f |-> list[i]]]]

\* find_absolute: the oldest live entry equal to the field, 0 if none.
find_absolute(t, f) ==
    LET at == {a \in 1..t.count : Has(t, a) /\ get_absolute(t, a) = f} IN
    IF at = {} THEN 0 ELSE CHOOSE a \in at : \A b \in at : a <= b

\* ensure_dynamic_entry, over the fields of one section: [t, out, abs, ok].
Ensure(s, f) ==
    LET abs == find_absolute(s.t, f) IN
    IF ~s.ok \/ abs # 0 THEN [s EXCEPT !.abs = Append(@, abs)]
    ELSE IF ~CanInsert(s.t, f, krc) THEN [s EXCEPT !.ok = FALSE]
    ELSE [t |-> Insert(s.t, f), out |-> Append(s.out, [op |-> "literal", f |-> f, idx |-> 0]),
          abs |-> Append(s.abs, s.t.count + 1), ok |-> TRUE]

Scratch(list) ==
    LET first == etable.count = 0
        start == [t |-> IF first THEN SetCapacity(etable, conf.enc) ELSE etable,
                  out |-> IF first THEN <<[op |-> "capacity", f |-> NoField, idx |-> conf.enc]>> ELSE <<>>,
                  abs |-> <<>>, ok |-> TRUE]
        done[i \in 0..Len(list)] == IF i = 0 THEN start ELSE Ensure(done[i - 1], list[i])
    IN  done[Len(list)]

\* write_encoded_headers: the inserts, then the HEADERS frame, then the RIC.
Send(sid, list, t, out, fs, ric) ==
    /\ etable' = t
    /\ encStream' = encStream \o out
    /\ section' = [section EXCEPT ![sid] = <<fs>>]
    /\ pendingRic' = [pendingRic EXCEPT ![sid] = IF ric > 0 THEN ric ELSE @]
    /\ inserted' = inserted \o [i \in 1..t.count - etable.count |->
                                   t.entries[Len(t.entries) - (t.count - etable.count) + i]]
    /\ meant' = [meant EXCEPT ![sid] = list]

\* encode_connect_request_with / encode_status_response_with: against a
\* clone; an error leaves the encoder as it was and sends literals.
Encode(sid, list) ==
    LET s == Scratch(list) IN
    /\ ~rfc /\ conn = "open" /\ section[sid] = <<>>
    /\ IF conf.enc = 0 \/ ~s.ok
       THEN Send(sid, list, etable, <<>>, LiteralSection(list), 0)
       ELSE Send(sid, list, s.t, s.out,
                 [ric |-> encode_required_insert_count(s.t.count, conf.enc), sign |-> 0, delta |-> 0,
                  lines |-> [i \in DOMAIN list |->
                     [form |-> "relative", idx |-> s.t.count - s.abs[i], f |-> NoField]]], s.t.count)
    /\ UNCHANGED <<conf, rfc, krc, decStream, arrived, dtable, blockedOn, conn, headers>>

\* note_peer_ici.
NoteIci(delta) == IF krc + delta > etable.count THEN etable.count ELSE krc + delta

\* parse_qpack_decoder over the first n instructions: increments first, then
\* each section acknowledgement raises the count to that section's RIC.
FeedDecoder(n) ==
    LET fed   == SubSeq(decStream, 1, n)
        sum[i \in 0..n] == IF i = 0 THEN 0 ELSE sum[i - 1] + fed[i].delta
        acked == {fed[i].sid : i \in {j \in 1..n : fed[j].delta = 0}}
        rics  == {pendingRic[s] : s \in acked} \cup {NoteIci(sum[n])}
    IN
    /\ conn = "open" /\ n \in 1..Len(decStream)
    /\ decStream' = SubSeq(decStream, n + 1, Len(decStream))
    /\ krc' = CHOOSE r \in rics : \A q \in rics : q <= r
    /\ pendingRic' = [s \in QpackStreams |-> IF s \in acked THEN 0 ELSE pendingRic[s]]
    /\ UNCHANGED <<conf, rfc, etable, encStream, section, arrived, dtable, blockedOn, conn, headers,
                   inserted, meant>>

-----------------------------------------------------------------------------
(* An RFC 9204 encoder (external): entries numbered from 0, Base anywhere, *)
(* entries evicted only when acknowledged and not referenced any more.     *)

Outstanding == {s \in QpackStreams : pendingRic[s] > 0}
Referenced == UNION {{find_absolute(etable, meant[s][i]) : i \in DOMAIN meant[s]} : s \in Outstanding}
RfcFloor ==
    LET held == {a \in Referenced : a > 0} IN
    IF held = {} THEN krc
    ELSE LET low == (CHOOSE a \in held : \A b \in held : a <= b) - 1 IN IF low < krc THEN low ELSE krc

\* Set Capacity, Insert With Literal Name, With Name Reference, Duplicate.
RfcInsert(instruction, f) ==
    /\ rfc /\ conn = "open" /\ CanInsert(etable, f, RfcFloor)
    /\ etable' = Insert(etable, f)
    /\ encStream' = Append(encStream, instruction)
    /\ inserted' = Append(inserted, f)
    /\ UNCHANGED <<conf, rfc, krc, pendingRic, decStream, section, arrived, dtable, blockedOn, conn,
                   headers, meant>>

RfcInstruct ==
    \/ /\ rfc /\ conn = "open" /\ etable.capacity = 0 /\ conf.dec > 0
       /\ etable' = [etable EXCEPT !.capacity = conf.dec]
       /\ encStream' = Append(encStream, [op |-> "capacity", f |-> NoField, idx |-> conf.dec])
       /\ UNCHANGED <<conf, rfc, krc, pendingRic, decStream, section, arrived, dtable, blockedOn, conn,
                      headers, inserted, meant>>
    \/ \E f \in Fields : RfcInsert([op |-> "literal", f |-> f, idx |-> 0], f)
    \/ \E a \in oldest(etable)..etable.count, v \in Values :
         RfcInsert([op |-> "name", f |-> NoName(v), idx |-> (etable.count - 1) - (a - 1)],
                   [n |-> get_absolute(etable, a).n, v |-> v])
    \/ \E a \in oldest(etable)..etable.count :
         RfcInsert([op |-> "duplicate", f |-> NoField, idx |-> (etable.count - 1) - (a - 1)],
                   get_absolute(etable, a))

\* One indexed line and one with a name reference, relative to a Base or
\* after it, with the sign bit when the Base is below the insert count.
RfcLine(form, abs0, base, f) ==
    [form |-> IF abs0 < base THEN form ELSE form \o " post",
     idx |-> IF abs0 < base THEN base - abs0 - 1 ELSE abs0 - base, f |-> f]

RfcEncode(sid, a, base, v) ==
    LET ric  == a + 1
        name == get_absolute(etable, a + 1).n IN
    /\ rfc /\ conn = "open" /\ section[sid] = <<>> /\ Cardinality(Outstanding) < conf.blocked
    /\ section' = [section EXCEPT ![sid] =
         <<[ric |-> encode_required_insert_count(ric, conf.dec),
            sign |-> IF base >= ric THEN 0 ELSE 1,
            delta |-> IF base >= ric THEN base - ric ELSE ric - base - 1,
            lines |-> <<RfcLine("relative", a, base, NoField), RfcLine("named", a, base, NoName(v))>>]>>]
    /\ pendingRic' = [pendingRic EXCEPT ![sid] = ric]
    /\ meant' = [meant EXCEPT ![sid] = <<get_absolute(etable, a + 1), [n |-> name, v |-> v]>>]
    /\ UNCHANGED <<conf, rfc, etable, krc, encStream, decStream, arrived, dtable, blockedOn, conn,
                   headers, inserted>>

-----------------------------------------------------------------------------
(* The decoder.                                                            *)

\* Mutant: indexes count from the oldest entry.
RelativeFromOldest(t, idx) == oldest(t) + idx
\* The index counts back from the newest entry.
Relative(t, idx) == t.count - idx

\* One instruction of feed_encoder_stream.  <<>> stands for an error.
Instructed(t, i) ==
    LET abs == Relative(t, i.idx)
        f   == CASE i.op = "literal" -> i.f
                 [] i.op = "name" /\ Has(t, abs) -> [n |-> get_absolute(t, abs).n, v |-> i.f.v]
                 [] i.op = "duplicate" /\ Has(t, abs) -> get_absolute(t, abs)
                 [] OTHER -> NoField
    IN  IF i.op = "capacity"
        THEN IF CanSetCapacity(t, i.idx, conf.dec, t.count) THEN <<SetCapacity(t, i.idx)>> ELSE <<>>
        ELSE IF f # NoField /\ CanInsert(t, f, t.count) THEN <<Insert(t, f)>> ELSE <<>>

feed_encoder_stream(t, fed) ==
    LET after[i \in 0..Len(fed)] ==
            IF i = 0 THEN <<t>>
            ELSE IF after[i - 1] = <<>> THEN <<>> ELSE Instructed(after[i - 1][1], fed[i])
    IN  after[Len(fed)]

\* get_relative / get_post_base.
Absolute(line, base) ==
    IF line.form \in {"relative post", "named post"} THEN base + line.idx + 1 ELSE base - line.idx

\* decode_field_section: "blocked", "invalid", or "ok" and the fields.
decode_field_section(s, t) ==
    LET ric  == decode_required_insert_count(s.ric, conf.dec, t.count)
        base == IF s.sign = 0 THEN ric + s.delta ELSE ric - s.delta - 1
        bad  == \E i \in DOMAIN s.lines :
                    s.lines[i].form # "literal" /\ ~Has(t, Absolute(s.lines[i], base))
        line(i) == LET l == s.lines[i] IN
            IF l.form = "literal" THEN l.f
            ELSE IF l.form \in {"relative", "relative post"} THEN get_absolute(t, Absolute(l, base))
            ELSE [n |-> get_absolute(t, Absolute(l, base)).n, v |-> l.f.v]
    IN  CASE ric = -1 -> [is |-> "invalid", list |-> <<>>, ric |-> 0]
          [] ric > t.count -> [is |-> "blocked", list |-> <<>>, ric |-> 0]
          [] ric <= t.count /\ ric # -1 /\ (base < 0 \/ bad) -> [is |-> "invalid", list |-> <<>>, ric |-> 0]
          [] OTHER -> [is |-> "ok", list |-> [i \in DOMAIN s.lines |-> line(i)], ric |-> ric]

Results(t, at) ==
    [s \in {r \in at : headers[r] = <<>>} |-> decode_field_section(section[s][1], t)]

\* note_qpack_header_blocked.
TooMany(blocked) == Cardinality(blocked) > conf.blocked

\* Decode every buffered section in at (one that arrived, or all waiting
\* ones after inserts, in the map's order: the acknowledgements commute).
Parse(t, at, acks) ==
    LET result  == Results(t, at)
        Of(is)  == {s \in DOMAIN result : result[s].is = is}
        blocked == (blockedOn \ Of("ok")) \cup Of("blocked") IN
    /\ headers' = [s \in QpackStreams |-> IF s \in Of("ok") THEN result[s].list ELSE headers[s]]
    /\ decStream' = decStream \o acks
                    \o SetToSeq({[sid |-> s, delta |-> 0] : s \in {r \in Of("ok") : result[r].ric > 0}})
    /\ blockedOn' = blocked
    /\ conn' = IF Of("invalid") # {} THEN "decompression"
               ELSE IF TooMany(blocked) THEN "blocked" ELSE "open"

\* retry_blocked_connects: every section that is whole and not decoded.
Retries == arrived

\* parse_qpack_encoder over what arrived, then retry_blocked_connects.
FeedEncoder(n) ==
    LET t == feed_encoder_stream(dtable, SubSeq(encStream, 1, n)) IN
    /\ conn = "open" /\ n \in 1..Len(encStream)
    /\ encStream' = SubSeq(encStream, n + 1, Len(encStream))
    /\ IF t = <<>>
       THEN conn' = "encoder error" /\ UNCHANGED <<dtable, headers, decStream, blockedOn>>
       ELSE /\ dtable' = t[1]
            /\ Parse(t[1], Retries, IF t[1].count > dtable.count
                        THEN <<[sid |-> CHOOSE s \in QpackStreams : TRUE, delta |-> t[1].count - dtable.count]>>
                        ELSE <<>>)
    /\ UNCHANGED <<conf, rfc, etable, krc, pendingRic, section, arrived, inserted, meant>>

\* A HEADERS frame is whole in a stream's buffer.
Arrives(sid) ==
    /\ conn = "open" /\ section[sid] # <<>> /\ sid \notin arrived
    /\ arrived' = arrived \cup {sid}
    /\ Parse(dtable, {sid}, <<>>)
    /\ UNCHANGED <<conf, rfc, etable, krc, pendingRic, encStream, section, dtable, inserted, meant>>

-----------------------------------------------------------------------------
QpackInit ==
    /\ conf \in Confs /\ rfc \in BOOLEAN
    /\ etable = Table /\ dtable = Table /\ krc = 0
    /\ pendingRic = [s \in QpackStreams |-> 0]
    /\ encStream = <<>> /\ decStream = <<>> /\ inserted = <<>>
    /\ section = [s \in QpackStreams |-> <<>>] /\ meant = [s \in QpackStreams |-> <<>>]
    /\ headers = [s \in QpackStreams |-> <<>>]
    /\ arrived = {} /\ blockedOn = {} /\ conn = "open"

Transport ==
    \/ \E n \in 1..Len(encStream) : FeedEncoder(n)
    \/ \E n \in 1..Len(decStream) : FeedDecoder(n)
    \/ \E s \in QpackStreams : Arrives(s)

QpackNext ==
    \/ \E s \in QpackStreams, l \in Sections : Encode(s, l)
    \/ RfcInstruct
    \/ \E s \in QpackStreams, a \in oldest(etable) - 1..etable.count - 1, b \in 0..etable.count, v \in Values :
         RfcEncode(s, a, b, v)
    \/ Transport

QpackSpec == QpackInit /\ [][QpackNext]_qpackVars

-----------------------------------------------------------------------------
(* Properties                                                              *)

\* The state keeps its type, and the known received count stays below the
\* inserts made.
QpackTypeOK ==
    /\ etable.entries \in Seq(Fields) /\ dtable.entries \in Seq(Fields)
    /\ krc \in 0..etable.count /\ blockedOn \subseteq QpackStreams /\ arrived \subseteq QpackStreams
    /\ conn \in {"open", "encoder error", "decompression", "blocked"}

\* A decoded field section is the one that was encoded: through modular
\* insert counts, evictions, sections overtaking their inserts and both index
\* conventions, the decoder fails rather than yield another header
\* (h3.rs:659-690, 1058-1166).
NeverWrongHeaders == \A s \in QpackStreams : headers[s] # <<>> => headers[s] = meant[s]

\* The decoder's table is a run of what the encoder inserted, within the
\* capacity in force, whatever was refused or fell back to literals.
TableReplicates ==
    /\ dtable.entries = SubSeq(inserted, oldest(dtable), dtable.count)
    /\ Bytes(dtable.entries) <= dtable.capacity /\ dtable.capacity <= conf.dec

\* The encoder never believes an insert received that the decoder has not
\* applied, in whatever order increments and section acknowledgements arrive.
KnownIsReceived == krc <= dtable.count

\* No more streams wait for inserts than SETTINGS_QPACK_BLOCKED_STREAMS allows
\* while the connection lives (endpoint.rs:447-476).
BlockedWithinLimit == conn = "open" => Cardinality(blockedOn) <= conf.blocked

\* The encoder never evicted under the feet of a section: an RFC 9204 peer,
\* or this code's own with a capacity, agreed on, that holds all it sent.
SoundEncoder == rfc \/ (conf.enc = conf.dec /\ Len(etable.entries) = etable.count)

Allowed == rfc \/ conf.blocked >= Cardinality(QpackStreams)

\* Nobody is cut off wrongly: a sound encoder loses the connection at most
\* for a section that overtook its inserts after the insert count came near
\* its wrap (decode_required_insert_count answers Invalid, h3.rs:679-685).
EncoderAccepted ==
    SoundEncoder /\ Allowed =>
        \/ conn = "open"
        \/ /\ etable.count > MaxEntries(conf.dec)
           /\ \E s \in arrived : headers[s] = <<>> /\ pendingRic[s] > dtable.count

\* A section that arrived is decoded as soon as its inserts are: when the
\* encoder stream is empty nothing is left waiting for a retry that no event
\* will cause (endpoint.rs:3142-3176).
NoSectionStuck ==
    SoundEncoder /\ conn = "open" /\ encStream = <<>> => \A s \in arrived : headers[s] # <<>>

\* Header compression gives back what was sent, within its limits, or closes
\* the connection for a fault of the peer.
QpackSafe ==
    /\ QpackTypeOK /\ NeverWrongHeaders /\ TableReplicates /\ KnownIsReceived
    /\ BlockedWithinLimit /\ EncoderAccepted /\ NoSectionStuck
=============================================================================
