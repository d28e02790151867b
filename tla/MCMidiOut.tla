----------------------------- MODULE MCMidiOut ------------------------------
(* Small instances of MidiOut. *)
EXTENDS MidiOut

\* one program that calls everything
MCPrograms == {{"openPort", "closePort", "delete", "openVirtualPort", "sendMessage"}}
=============================================================================
