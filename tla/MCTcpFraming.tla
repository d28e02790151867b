---------------------------- MODULE MCTcpFraming ----------------------------
(* Small instances of TcpFraming. *)
EXTENDS TcpFraming

CONSTANTS main, callback

\* a ClockSync is shorter than a MIDI message
MCSize == [t \in Thread |-> IF t = main THEN 2 ELSE 3]
=============================================================================
