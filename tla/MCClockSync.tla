---------------------------- MODULE MCClockSync -----------------------------
(* Small instances of ClockSync. *)
EXTENDS ClockSync

\* the other clock starts ahead
MCOffset == {3}

\* set back and set forward, by more than any round trip
MCJump == {-5, 4}
=============================================================================
