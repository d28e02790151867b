---------------------------- MODULE MCMidiInAlsa ----------------------------
(* Small instances of MidiInAlsa. *)
EXTENDS MidiInAlsa

\* A program that opens its port again and then wants sysex messages, one with a
\* virtual port as well and one that gives up its callback.
MCPrograms == {
    {"ignoreTypes", "openPort", "closePort", "delete"},
    {"openPort", "openVirtualPort", "closePort"},
    {"openPort", "setCallback", "cancelCallback", "closePort"}}
=============================================================================
