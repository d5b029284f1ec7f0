------------------------ MODULE MCSessionLifecycle ------------------------
(* Small instances of SessionLifecycle for TLC: three sessions that        *)
(* contend for the slots, or one session that meets everything that can    *)
(* happen to it.                                                           *)
EXTENDS SessionLifecycle

CONSTANTS s1, s2, s3, i1, i2, p1

\* Two addresses behind one prefix; s1 and s3 share an address.
MCIpOf == [s \in Sessions |-> IF s = s2 THEN i2 ELSE i1]
MCPrefixOf == [i \in Ips |-> p1]
=============================================================================
