-------------------------------- MODULE QuicLb --------------------------------
(***************************************************************************)
(* Connection ids a balancer can route (quic_lb.rs): configuration checks, *)
(* generation, decoding and validation.  Octets are 0..255; the three top  *)
(* bits of the first one carry the configuration rotation.                 *)
(***************************************************************************)
EXTENDS Integers, Sequences

RESERVED_CONFIG_ROTATION == 7
MIN_SERVER_ID_LEN == 1
MIN_NONCE_LEN == 4
MAX_PLAINTEXT_BLOCK_LEN == 19

\* QuicLbConfig::new over lengths and the rotation.
Accepts(config) ==
    /\ Len(config.id) >= MIN_SERVER_ID_LEN
    /\ config.nonce >= MIN_NONCE_LEN
    /\ Len(config.id) + config.nonce <= MAX_PLAINTEXT_BLOCK_LEN
    /\ config.rotation < RESERVED_CONFIG_ROTATION

cid_len(config) == 1 + Len(config.id) + config.nonce

\* generate_cid; random supplies the first octet and the nonce octets.
generate_cid(config, first, random) ==
    <<config.rotation * 32 + (first % 32)>> \o config.id \o [i \in 1..config.nonce |-> random]

\* decode_server_id; <<>> stands for None.
decode_server_id(cid, len) ==
    IF len = 0 \/ Len(cid) < len + 1 THEN <<>> ELSE SubSeq(cid, 2, len + 1)

decode_config_rotation(cid) == cid[1] \div 32

\* ConnectionIdGenerator::validate.
validates(config, cid) ==
    /\ Len(cid) = cid_len(config)
    /\ decode_config_rotation(cid) = config.rotation
    /\ decode_server_id(cid, Len(config.id)) = config.id

\* An id one instance issues decodes, by the lengths the balancer was given,
\* to that instance and rotation, whatever the random octets; it is accepted
\* by its issuer and by no instance of another id, rotation or layout.
RoutesHome(issuer, other, first, random) ==
    LET cid == generate_cid(issuer, first, random) IN
    Accepts(issuer) /\ Accepts(other) =>
        /\ decode_server_id(cid, Len(issuer.id)) = issuer.id
        /\ decode_config_rotation(cid) = issuer.rotation
        /\ Len(cid) <= 20
        /\ validates(issuer, cid)
        /\ validates(other, cid) =>
             other.rotation = issuer.rotation /\ cid_len(other) = cid_len(issuer)
             /\ (Len(other.id) = Len(issuer.id) => other.id = issuer.id)
=============================================================================
