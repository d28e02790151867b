--------------------------- MODULE MCMidiInWinMM ----------------------------
(* Small instances of MidiInWinMM. *)
EXTENDS MidiInWinMM

\* A program that opens its port again, one that gives up its callback, and one
\* that wants sysex messages.
MCPrograms == {
    {"openPort", "closePort", "delete"},
    {"openPort", "setCallback", "cancelCallback"},
    {"openPort", "ignoreTypes", "closePort"}}
=============================================================================
