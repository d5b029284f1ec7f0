---------------------------- MODULE PayloadBuffer ----------------------------
(***************************************************************************)
(* How a payload reaches JavaScript (payload_buffer.rs).  Small ones are   *)
(* copied into memory the engine owns and accounts; a large one is handed  *)
(* over as it is, with an explicit charge to the engine that a guard or,   *)
(* later, the finalizer gives back.                                        *)
(***************************************************************************)
EXTENDS Integers, Sequences

CONSTANTS
    PayloadSizes,   \* payload lengths
    EngineMax,      \* ENGINE_OWNED_MAX_BYTES
    MaxPayloads     \* bound: payloads delivered

ASSUME PayloadAssumption == PayloadSizes \subseteq Nat /\ EngineMax \in Nat /\ MaxPayloads \in Nat

VARIABLES
    charged,   \* what napi_adjust_external_memory has been told in sum
    payload,   \* sequence of [len, at, armed, memory], one per payload
    current    \* the payload being converted on the JavaScript thread, or 0

payloadVars == <<charged, payload, current>>

PayloadInit == charged = 0 /\ payload = <<>> /\ current = 0

\* plan_delivery; the two engine-owned constructions differ in their API only.
plan_delivery(len) == IF len = 0 THEN "empty" ELSE IF len > EngineMax THEN "external" ELSE "engine"

\* to_napi_value and ExternalAccountingGuard::charge.  memory says who must
\* free the bytes: "rust", "engine", or nobody any more.
Convert(len) ==
    LET external == plan_delivery(len) = "external" IN
    /\ current = 0 /\ Len(payload) < MaxPayloads
    /\ payload' = Append(payload, [len |-> len, at |-> IF external THEN "create" ELSE "copy",
                                   armed |-> external, memory |-> "rust"])
    /\ charged' = charged + IF external THEN len ELSE 0
    /\ current' = Len(payload) + 1

\* The conversion returns: the bytes Rust still has are dropped, and so is
\* the guard, which gives its charge back while it is armed.
Returns(how, p) ==
    /\ payload' = [payload EXCEPT ![current] =
                      [p EXCEPT !.at = how, !.armed = FALSE, !.memory = IF @ = "rust" THEN "freed" ELSE @]]
    /\ charged' = charged - IF p.armed THEN p.len ELSE 0
    /\ current' = 0

\* napi_create_external_buffer succeeds: the guard is disarmed.
CreateExternal ==
    /\ current # 0 /\ payload[current].at = "create"
    /\ Returns("external", [payload[current] EXCEPT !.memory = "engine", !.armed = FALSE])

\* No external buffers here: the engine copies, and accounts its copy.
FallBack ==
    /\ current # 0 /\ payload[current].at = "create"
    /\ payload' = [payload EXCEPT ![current].at = "copy"]
    /\ UNCHANGED <<charged, current>>

\* An engine-owned copy is made.
CopyMade == current # 0 /\ payload[current].at = "copy" /\ Returns("engine", payload[current])

\* Either construction fails.
ConvertFails == current # 0 /\ Returns("failed", payload[current])

\* finalize_payload, when the collector takes an external buffer.
Finalize(i) ==
    /\ payload[i].at = "external"
    /\ payload' = [payload EXCEPT ![i].at = "collected", ![i].memory = "freed"]
    /\ charged' = charged - payload[i].len
    /\ UNCHANGED current

PayloadNext ==
    \/ \E len \in PayloadSizes : Convert(len)
    \/ CreateExternal \/ FallBack \/ CopyMade \/ ConvertFails
    \/ \E i \in DOMAIN payload : Finalize(i)

-----------------------------------------------------------------------------
(* Properties                                                              *)

\* The engine is told exactly of the native bytes it cannot see: external
\* buffers that live, and the one being made, whichever way each call ends.
ChargeExact ==
    LET external(i) == payload[i].memory = "engine" \/ payload[i].armed
        upTo[i \in 0..Len(payload)] ==
            IF i = 0 THEN 0 ELSE upTo[i - 1] + IF external(i) THEN payload[i].len ELSE 0
    IN  charged = upTo[Len(payload)]

\* Only what is too large to copy keeps native memory behind a JavaScript
\* wrapper; everything else has left it when the conversion returns.
SmallNeverPinned ==
    \A i \in DOMAIN payload :
        i # current /\ payload[i].memory # "freed" => payload[i].at = "external" /\ payload[i].len > EngineMax

\* Native memory handed to the engine is charged exactly and only where it
\* pays.
PayloadSafe == ChargeExact /\ SmallNeverPinned
=============================================================================
