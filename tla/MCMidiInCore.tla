---------------------------- MODULE MCMidiInCore ----------------------------
(* Small instances of MidiInCore. *)
EXTENDS MidiInCore

\* A program that polls, one that gives up its callback, one that changes what to
\* ignore, and one with a virtual port as well.
MCPrograms == {
    {"openPort", "getMessage"},
    {"openPort", "setCallback", "cancelCallback"},
    {"openPort", "ignoreTypes"},
    {"openPort", "openVirtualPort", "closePort", "delete"}}
=============================================================================
