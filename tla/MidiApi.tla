------------------------------ MODULE MidiApi -------------------------------
(***************************************************************************)
(* What every device object of RtMidi (src/RtMidi.cpp) has in common: a    *)
(* program calls its functions one at a time, a function may be in the     *)
(* middle of its work while other threads run, and a call of the operating *)
(* system that fails ends the function with an exception.                  *)
(*                                                                         *)
(* "fault" says that the code has done something whose outcome C++, or the *)
(* library it calls, leaves undefined: used memory that was freed, written *)
(* past a buffer, called through NULL.  The model stops there.             *)
(***************************************************************************)
EXTENDS Naturals

CONSTANTS
    Programs,   \* sets of functions; a program calls those of one set
    Fails,      \* calls of the operating system that may fail
    MaxCalls    \* bound: calls of a program

ASSUME ApiAssumption == MaxCalls \in Nat

VARIABLES
    program,    \* the functions this program calls
    calls,      \* how many calls it has made
    upc,        \* where it is in a function: "idle" outside, "gone" after the destructor
    after,      \* where it goes on after a part that functions share
    connected,  \* connected_
    failed,     \* calls of the system that have failed
    fault       \* "none", or what went wrong

callVars == <<program, calls, upc, after>>
apiVars == <<callVars, connected, failed, fault>>

ApiInit ==
    /\ program \in Programs
    /\ calls = 0
    /\ upc = "idle"
    /\ after = "idle"
    /\ connected = FALSE
    /\ failed = {}
    /\ fault = "none"

\* The program calls a function, whose work goes on at "to".
Begin(function, to) ==
    /\ upc = "idle"
    /\ function \in program
    /\ calls < MaxCalls
    /\ calls' = calls + 1
    /\ upc' = to
    /\ UNCHANGED program

\* a function done in one step
Call(function) == Begin(function, "idle")

\* a function goes on from one place to another
Continue(from, to) ==
    /\ upc = from
    /\ upc' = to
    /\ UNCHANGED <<program, calls>>

\* A call of the system fails.  error() reports it: warnings are printed,
\* everything else is thrown, and the function ends where it is.
Fail(what) ==
    /\ what \in Fails
    /\ failed' = failed \cup {what}

(* Types. *)
ApiTypeOK(places) ==
    /\ program \in Programs
    /\ calls \in 0 .. MaxCalls
    /\ upc \in places
    /\ after \in places
    /\ connected \in BOOLEAN
    /\ failed \subseteq Fails
=============================================================================
