--------------------------- MODULE MCWasmEndpoint ---------------------------
(* Instances of WasmEndpoint: two CONNECT streams on one connection, and   *)
(* two connections that compete for the event queue.                       *)
EXTENDS WasmEndpoint
CONSTANTS c1, c2, x1, x2, y1, d1, d2, z1

St(c, kind, local, bidi, sess) ==
    [c |-> c, kind |-> kind, local |-> local, bidi |-> bidi, sess |-> sess]

(* One connection: sessions x1, x2, an own bidirectional stream on x1      *)
OneConn ==
    x1 :> St(c1, "connect", FALSE, TRUE, None) @@ x2 :> St(c1, "connect", FALSE, TRUE, None)
      @@ d1 :> St(c1, "data", TRUE, TRUE, x1)

(* Two connections, a session and a stream of the peer on each             *)
TwoConns ==
    x1 :> St(c1, "connect", FALSE, TRUE, None) @@ y1 :> St(c2, "connect", FALSE, TRUE, None)
      @@ d1 :> St(c1, "data", FALSE, FALSE, x1) @@ z1 :> St(c2, "data", FALSE, FALSE, y1)

ColdOrWarm == {{}, {c1}}
Warm == {{c1, c2}}
=============================================================================
