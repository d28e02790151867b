--------------------------- MODULE MCPianoConnect ---------------------------
(* Small instances of PianoConnect. *)
EXTENDS PianoConnect

CONSTANTS alice, bob, i1, i2

\* every input device is opened by alice; bob only listens
MCPeerOf == [i \in Input |-> alice]

\* the clock of bob is two ticks ahead
MCOffset == [p \in Peer |-> IF p = alice THEN 0 ELSE 2]

MCFixedLatency == [p \in Peer |-> 1]

MCDeltaEst == [p \in Peer |-> IF p = alice THEN {2} ELSE {-2, -1}]

\* where only what is heard at home counts
MCDeltaExact == [p \in Peer |-> IF p = alice THEN {2} ELSE {-2}]
=============================================================================
