------------------------------ MODULE ServerTls ------------------------------
(***************************************************************************)
(* Certificate selection and its rotation while the server runs            *)
(* (server_tls.rs, the rotation functions of server.rs).  Names are        *)
(* abstract: Canon gives the canonical form of a name as a caller or a     *)
(* client spells it (case, trailing dot, IDNA), WildcardOf the wildcard    *)
(* entry that may stand in for a canonical name.                           *)
(***************************************************************************)
EXTENDS Integers, Sequences, FiniteSets

CONSTANTS
    Spelled,     \* names as callers and clients write them
    Names,       \* canonical names, wildcard entries included
    Canon,       \* [Spelled -> Names \cup {Invalid}]: normalize_server_name
    WildcardOf,  \* [Names -> Names \cup {Invalid}]: wildcard_lookup_key
    Certs,       \* PEM pairs that parse
    SniLists,    \* the lists of [name, pem] entries callers pass
    MaxHellos    \* bound: handshakes observed

Invalid == "invalid"
NoCert  == "no-cert"
BadPem  == "bad-pem"

ASSUME TlsAssumption ==
    /\ MaxHellos \in Nat /\ Invalid \notin Names
    /\ Canon \in [Spelled -> Names \cup {Invalid}] /\ WildcardOf \in [Names -> Names \cup {Invalid}]
    /\ {NoCert, BadPem, "dev"} \cap Certs = {} /\ "none" \notin Names
    /\ \A list \in SniLists : \A i \in DOMAIN list :
          list[i].name \in Spelled /\ list[i].pem \in Certs \cup {BadPem}

Pems == Certs \cup {BadPem}
Policies == {"reject", "default"}
NoMap == [n \in Names |-> NoCert]

VARIABLES
    default,    \* inner.default_cert
    byName,     \* inner.certs_by_name
    policy,     \* inner.unknown_sni_policy
    explicit,   \* explicit_default_cert
    open,       \* ~ServerRuntimeState.closed
    outcome,    \* what the last call returned: "ok" | "error"
    hello,      \* the last handshake: [name, got]; got is a cert or NoCert
    counts      \* [sni, default, rejected, malformed]: selections so far

tlsVars == <<default, byName, policy, explicit, open, outcome, hello, counts>>

resolver == <<default, byName, policy>>

\* Type of the certificate resolver and of the rotations on their way.
TlsTypeOK ==
    /\ default \in Certs \cup {"dev"} /\ byName \in [Names -> Certs \cup {NoCert}]
    /\ policy \in Policies /\ explicit \in BOOLEAN /\ open \in BOOLEAN
    /\ outcome \in {"ok", "error"}
    /\ counts \in [{"sni", "default", "rejected", "malformed"} -> 0..MaxHellos]

\* The constructor was given a default certificate, or made a development one.
TlsInit ==
    /\ \/ default \in Certs /\ explicit = TRUE
       \/ default = "dev" /\ explicit = FALSE
    /\ byName = NoMap /\ policy = "reject"
    /\ open = TRUE /\ outcome = "ok" /\ hello = [name |-> Invalid, got |-> NoCert]
    /\ counts = [c \in {"sni", "default", "rejected", "malformed"} |-> 0]

Repeated(list) ==
    \E i, j \in DOMAIN list :
        /\ i # j /\ Canon[list[i].name] # Invalid
        /\ Canon[list[i].name] = Canon[list[j].name]

\* The whole list parses: names normalise, none twice, every PEM is good.
Parses(list) ==
    /\ \A i \in DOMAIN list : Canon[list[i].name] # Invalid /\ list[i].pem # BadPem
    /\ ~Repeated(list)

MapOf(list) ==
    [n \in Names |->
        IF \E i \in DOMAIN list : Canon[list[i].name] = n
        THEN list[CHOOSE i \in DOMAIN list : Canon[list[i].name] = n].pem ELSE NoCert]

Answer(o) == outcome' = o /\ UNCHANGED <<open, hello, counts>>
Refuse == Answer("error") /\ UNCHANGED <<default, byName, policy, explicit>>

\* rotate_default_cert.
UpdateCert(pem) ==
    IF open /\ pem # BadPem
    THEN default' = pem /\ explicit' = TRUE /\ Answer("ok") /\ UNCHANGED <<byName, policy>>
    ELSE Refuse

\* Mutant: the default certificate is replaced before the SNI list is parsed.
UpdateTlsEager(pem, list, p) ==
    IF open /\ pem # BadPem
    THEN /\ default' = pem /\ explicit' = TRUE
         /\ IF Parses(list) THEN byName' = MapOf(list) /\ policy' = p /\ Answer("ok")
            ELSE Answer("error") /\ UNCHANGED <<byName, policy>>
    ELSE Refuse

\* rotate_tls_config: default, map and policy in one replacement.
UpdateTls(pem, list, p) ==
    IF open /\ pem # BadPem /\ Parses(list)
    THEN /\ default' = pem /\ explicit' = TRUE
         /\ byName' = MapOf(list) /\ policy' = p /\ Answer("ok")
    ELSE Refuse

\* replace_sni_certs_state.
ReplaceSni(list) ==
    IF open /\ explicit /\ Parses(list)
    THEN byName' = MapOf(list) /\ Answer("ok") /\ UNCHANGED <<default, policy, explicit>>
    ELSE Refuse

\* upsert_sni_cert_state.
UpsertSni(name, pem) ==
    IF open /\ explicit /\ pem # BadPem /\ Canon[name] # Invalid
    THEN /\ byName' = [byName EXCEPT ![Canon[name]] = pem]
         /\ Answer("ok") /\ UNCHANGED <<default, policy, explicit>>
    ELSE Refuse

\* remove_sni_cert_state: a name that is not there is an error.
RemoveSni(name) ==
    IF open /\ explicit /\ Canon[name] # Invalid /\ byName[Canon[name]] # NoCert
    THEN /\ byName' = [byName EXCEPT ![Canon[name]] = NoCert]
         /\ Answer("ok") /\ UNCHANGED <<default, policy, explicit>>
    ELSE Refuse

SetPolicy(p) ==
    IF open /\ explicit
    THEN policy' = p /\ Answer("ok") /\ UNCHANGED <<default, byName, explicit>>
    ELSE Refuse

CloseTls ==
    /\ open
    /\ open' = FALSE /\ outcome' = "ok"
    /\ UNCHANGED <<default, byName, policy, explicit, hello, counts>>

\* resolve for a client that sent a name: exact, wildcard, then the policy,
\* which only counts while there are entries.
Resolve(key) ==
    LET wild == WildcardOf[key] IN
    IF byName[key] # NoCert THEN byName[key]
    ELSE IF wild # Invalid /\ byName[wild] # NoCert THEN byName[wild]
    ELSE IF byName # NoMap /\ policy = "reject" THEN NoCert
    ELSE default

\* A handshake; the listener's resolver outlives close().  "none": no SNI.
Hello(name) ==
    /\ counts["sni"] + counts["default"] + counts["rejected"] + counts["malformed"] < MaxHellos
    /\ LET key == IF name = "none" THEN "none" ELSE Canon[name]
           got == IF name = "none" THEN default
                  ELSE IF key = Invalid THEN NoCert ELSE Resolve(key)
           why == IF key = Invalid THEN "malformed"
                  ELSE IF got = NoCert THEN "rejected"
                  ELSE IF key # "none" /\ (byName[key] # NoCert \/
                            (WildcardOf[key] # Invalid /\ byName[WildcardOf[key]] # NoCert))
                       THEN "sni" ELSE "default"
       IN /\ hello' = [name |-> key, got |-> got]
          /\ counts' = [counts EXCEPT ![why] = @ + 1]
    /\ UNCHANGED <<default, byName, policy, explicit, open, outcome>>

Rotate ==
    \/ \E pem \in Pems : UpdateCert(pem)
    \/ \E pem \in Pems, list \in SniLists, p \in Policies : UpdateTls(pem, list, p)
    \/ \E list \in SniLists : ReplaceSni(list)
    \/ \E name \in Spelled, pem \in Pems : UpsertSni(name, pem)
    \/ \E name \in Spelled : RemoveSni(name)
    \/ \E p \in Policies : SetPolicy(p)

TlsNext == Rotate \/ CloseTls \/ \E name \in Spelled \cup {"none"} : Hello(name)

TlsSpec == TlsInit /\ [][TlsNext]_tlsVars

-----------------------------------------------------------------------------
(* Properties                                                              *)

\* A rotation that is refused, whatever part of it was wrong, leaves the
\* certificates and the policy exactly as they were.
RefusedChangesNothing == [][outcome' = "error" => UNCHANGED <<resolver, explicit>>]_tlsVars

\* SNI entries never stand beside the self-signed development certificate
\* (SPEC.md:246), through any sequence of rotations.
SniNeedsDefault == byName # NoMap => explicit /\ default # "dev"

\* close() freezes what handshakes that are still in flight see.
ClosedFrozen == [][~open => UNCHANGED <<resolver, explicit>>]_tlsVars

\* What a name deserves, said without the lookup order: the entry of the
\* most specific name that covers it; nothing when entries exist, none covers
\* it and the policy is to reject; the default certificate otherwise.
Covering(n) == {m \in {n, WildcardOf[n]} \cap Names : byName[m] # NoCert}
Best(n) == IF n \in Covering(n) THEN {n} ELSE Covering(n)
Deserved(n, got) ==
    IF Best(n) # {} THEN \E m \in Best(n) : got = byName[m]
    ELSE /\ (got = NoCert) = ((\E m \in Names : byName[m] # NoCert) /\ policy = "reject")
         /\ got \in {NoCert, default}

\* Every handshake that names a name is given what the name deserves
\* (server_tls.rs: resolve).
HelloHonest ==
    [][\A n \in Names :
         hello' = [name |-> n, got |-> hello'.got] /\ counts' # counts => Deserved(n, hello'.got)]_tlsVars
=============================================================================
