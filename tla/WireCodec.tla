------------------------------ MODULE WireCodec ------------------------------
(***************************************************************************)
(* The WebAssembly crate's wire formats over bytes: QUIC integers          *)
(* (varint.rs), QPACK prefix integers and datagram framing (h3.rs), and    *)
(* the session capsules with their assembler (capsule.rs), fed in whatever *)
(* pieces the CONNECT stream delivers.                                     *)
(***************************************************************************)
EXTENDS Integers, Sequences

CONSTANTS
    MaxReason,      \* MAX_REASON_LEN, in bytes
    Scripts         \* capsule sequences a peer sends

ASSUME MaxReason \in Nat

\* What decoding answers when bytes are missing.
Missing == <<-1, 0>>

VARIABLES
    number,     \* an integer to encode
    meantCaps,  \* history: the capsules sent
    stream,     \* bytes of the CONNECT stream not delivered yet
    buf,        \* CapsuleAssembler.buf
    caps,       \* capsules next() returned
    capError    \* next() returned an error

codecVars == <<number, meantCaps, stream, buf, caps, capError>>

-----------------------------------------------------------------------------
(* varint.rs                                                               *)

Big(v, n) == [i \in 1..n |-> (v \div 256^(n - i)) % 256]
\* The length in the two upper bits of the first byte.
Tagged(tag, v, n) == [i \in 1..n |-> Big(v, n)[i] + IF i = 1 THEN tag ELSE 0]

encode(v) ==
    IF v < 64 THEN <<v>>
    ELSE IF v < 64 * 256 THEN Tagged(64, v, 2)
    ELSE IF v < 64 * 256^3 THEN Tagged(128, v, 4)
    ELSE <<192, 0, 0, 0>> \o Big(v, 4)

width(v) == IF v < 64 THEN 1 ELSE IF v < 64 * 256 THEN 2 ELSE IF v < 64 * 256^3 THEN 4 ELSE 8

\* <<value, bytes used>>.
decode(b) ==
    LET len == IF b = <<>> THEN 1 ELSE 2^(b[1] \div 64)
        value[i \in 1..len] == IF i = 1 THEN b[1] % 64 ELSE value[i - 1] * 256 + b[i]
    IN  IF Len(b) < len THEN Missing ELSE <<value[len], len>>

-----------------------------------------------------------------------------
(* h3.rs: prefix integers; the upper bits of the first byte are flags.     *)

qpack_int(prefix, n, v) ==
    LET max == 2^n - 1
        rest == v - max
        count == CHOOSE k \in 1..5 : (k > 1 => rest >= 128^(k - 1)) /\ (k < 5 => rest < 128^k)
    IN  IF v < max THEN <<prefix + v>>
        ELSE <<prefix + max>> \o
             [i \in 1..count |-> ((rest \div 128^(i - 1)) % 128) + (IF i < count THEN 128 ELSE 0)]

qpack_int_decode(b, n) ==
    LET max  == 2^n - 1
        ends == {i \in 2..Len(b) : b[i] < 128}
        last == CHOOSE i \in ends : \A j \in ends : i <= j
        value[i \in 1..last] == IF i = 1 THEN max ELSE value[i - 1] + (b[i] % 128) * 128^(i - 2)
    IN  IF b = <<>> THEN Missing
        ELSE IF b[1] % 2^n < max THEN <<b[1] % 2^n, 1>>
        ELSE IF ends = {} THEN Missing ELSE <<value[last], last>>

\* wrap_datagram / unwrap_datagram: the quarter stream id before the payload.
wrap_datagram(id, payload) == encode(id \div 4) \o payload
unwrap_datagram(b) == <<decode(b)[1], SubSeq(b, decode(b)[2] + 1, Len(b))>>
datagram_prefix_len(id) == width(id \div 4)

-----------------------------------------------------------------------------
(* capsule.rs                                                              *)

CloseType == 10307     \* 0x2843
DrainType == 30894     \* 0x78ae
OtherType == 64        \* some type nobody here knows

Continuation(byte) == byte \div 64 = 2

\* Every byte that needs a follower has it: one- and two-byte characters.
Utf8(b) ==
    \A i \in DOMAIN b :
        /\ Continuation(b[i]) => i > 1 /\ b[i - 1] \in 192..223
        /\ b[i] \in 192..223 => i < Len(b) /\ Continuation(b[i + 1])

truncate_reason(reason) ==
    LET cuts == {e \in 0..MaxReason : e = 0 \/ ~Continuation(reason[e + 1])} IN
    IF Len(reason) <= MaxReason THEN reason
    ELSE SubSeq(reason, 1, CHOOSE e \in cuts : \A f \in cuts : f <= e)

encode_capsule(kind, value) == encode(kind) \o encode(Len(value)) \o value
encode_close(code, reason) == encode_capsule(CloseType, Big(code, 4) \o truncate_reason(reason))
encode_drain == encode_capsule(DrainType, <<>>)

\* A script's element is a capsule, or something a peer may also send.
CapsuleBytes(c) ==
    CASE c.kind = "close" -> encode_close(c.code, c.reason)
      [] c.kind = "drain" -> encode_drain
      [] c.kind = "other" -> encode_capsule(OtherType, c.reason)
      [] c.kind = "short" -> encode_capsule(CloseType, <<0, 0>>)
      [] c.kind = "huge"  -> encode(OtherType) \o encode(30 + MaxReason) \o [i \in 1..21 + MaxReason |-> 0]

Script(list) ==
    LET upTo[i \in 0..Len(list)] == IF i = 0 THEN <<>> ELSE upTo[i - 1] \o CapsuleBytes(list[i])
    IN  upTo[Len(list)]

\* MAX_CAPSULE_VALUE_LEN
TooLong(len) == len > 4 + MaxReason

\* parse_capsule and one turn of CapsuleAssembler::next.
Parsed(b) ==
    LET kind == decode(b)
        len  == IF kind = Missing THEN Missing ELSE decode(SubSeq(b, kind[2] + 1, Len(b)))
        total == kind[2] + len[2] + len[1]
        value == SubSeq(b, kind[2] + len[2] + 1, total)
        reason == SubSeq(value, 5, Len(value))
    IN  IF kind = Missing \/ len = Missing THEN [is |-> "incomplete"]
        ELSE IF TooLong(len[1]) THEN [is |-> "error"]
        ELSE IF Len(b) < total THEN [is |-> "incomplete"]
        ELSE IF kind[1] = CloseType
        THEN IF Len(value) < 4 \/ ~Utf8(reason) THEN [is |-> "error"]
             ELSE [is |-> "close", used |-> total, reason |-> reason,
                   code |-> value[4] + 256 * (value[3] + 256 * (value[2] + 256 * value[1]))]
        ELSE IF kind[1] = DrainType THEN [is |-> "drain", used |-> total]
        ELSE [is |-> "skipped", used |-> total]

push(bytes) == buf \o bytes

\* push, then next() until it wants more.
Deliver(n) ==
    LET Popped[b \in Seq(0..255)] ==
            LET p == Parsed(b) IN
            IF p.is \in {"incomplete", "error"} THEN <<b, <<>>, p.is = "error">>
            ELSE LET rest == Popped[SubSeq(b, p.used + 1, Len(b))]
                     this == IF p.is = "skipped" THEN <<>>
                             ELSE IF p.is = "drain" THEN <<[kind |-> "drain"]>>
                             ELSE <<[kind |-> "close", code |-> p.code, reason |-> p.reason]>>
                 IN  <<rest[1], this \o rest[2], rest[3]>>
        done == Popped[push(SubSeq(stream, 1, n))]
    IN
    /\ ~capError /\ n \in 1..Len(stream)
    /\ stream' = SubSeq(stream, n + 1, Len(stream))
    /\ buf' = done[1] /\ caps' = caps \o done[2] /\ capError' = done[3]
    /\ UNCHANGED <<number, meantCaps>>

CodecInit ==
    /\ number \in {0, 63, 64, 127, 128, 255, 16383, 16384, 2^24, 2^30 - 1, 2^30}
    /\ meantCaps \in Scripts
    /\ stream = Script(meantCaps) /\ buf = <<>> /\ caps = <<>> /\ capError = FALSE

CodecNext == \E n \in 1..Len(stream) : Deliver(n)

-----------------------------------------------------------------------------
(* Properties                                                              *)

Bad == {"short", "huge"}
Known(list) == SelectSeq(list, LAMBDA c : c.kind \in {"close", "drain"})
Seen(c) == IF c.kind = "drain" THEN [kind |-> "drain"]
           ELSE [kind |-> "close", code |-> c.code, reason |-> truncate_reason(c.reason)]
Before(list) ==
    LET bad == {i \in DOMAIN list : list[i].kind \in Bad} IN
    IF bad = {} THEN list ELSE SubSeq(list, 1, (CHOOSE i \in bad : \A j \in bad : i <= j) - 1)
Expected == [i \in DOMAIN Known(Before(meantCaps)) |-> Seen(Known(Before(meantCaps))[i])]

\* However the stream is cut into pieces, the assembler yields the capsules
\* that were sent, in order, unknown ones skipped, and stops at the first bad
\* one: at the end nothing is missing and nothing is left over.
CapsulesWhole ==
    /\ caps = SubSeq(Expected, 1, Len(caps))
    /\ stream = <<>> => caps = Expected /\ (capError \/ buf = <<>>)
    /\ capError => \E i \in DOMAIN meantCaps : meantCaps[i].kind \in Bad

\* What waits in the assembler is less than one capsule of the largest kind.
AssemblerBounded == ~capError => Len(buf) < 16 + 4 + MaxReason

\* A reason in UTF-8 stays UTF-8 when it is cut, and keeps all it can.
ReasonCut ==
    \A i \in DOMAIN meantCaps :
        meantCaps[i].kind = "close" =>
            LET cut == truncate_reason(meantCaps[i].reason) IN
            /\ Utf8(cut) /\ Len(cut) <= MaxReason
            /\ Len(cut) < Len(meantCaps[i].reason) => Len(cut) >= MaxReason - 1

\* Integers survive both encodings at every width boundary, whatever follows
\* them, and a cut encoding is never taken for a whole one.
IntegersRoundTrip ==
    LET e == encode(number) IN
    /\ decode(e \o <<7>>) = <<number, Len(e)>> /\ Len(e) = width(number)
    /\ \A k \in 0..Len(e) - 1 : decode(SubSeq(e, 1, k)) = Missing
    /\ \A n \in 3..8 :
         LET q == qpack_int(0, n, number) IN
         /\ qpack_int_decode(q \o <<7>>, n) = <<number, Len(q)>>
         /\ \A k \in 0..Len(q) - 1 : qpack_int_decode(SubSeq(q, 1, k), n) = Missing
    /\ unwrap_datagram(wrap_datagram(number, <<9>>)) = <<number \div 4, <<9>>>>
    /\ Len(wrap_datagram(number, <<9>>)) = datagram_prefix_len(number) + 1

\* Capsules, reasons and integers survive the wire.
CodecSafe == CapsulesWhole /\ AssemblerBounded /\ ReasonCut /\ IntegersRoundTrip
=============================================================================
