--------------------------- MODULE MCUdpEndpoints ---------------------------
(* Small instances of UdpEndpoints. *)
EXTENDS UdpEndpoints

CONSTANTS alice, bob

\* alice waits for bob, who may come from any port
MCKind == [n \in Node |-> IF n = alice THEN "server" ELSE "client"]
=============================================================================
