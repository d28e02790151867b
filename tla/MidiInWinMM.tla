----------------------------- MODULE MidiInWinMM ----------------------------
(***************************************************************************)
(* The input object of RtMidi on Windows (src/RtMidi.cpp, class            *)
(* MidiInWinMM).  The driver calls midiInputCallback with a short message, *)
(* or with one of the buffers for sysex messages it was given, which the   *)
(* callback gives back.  A critical section keeps closePort, which deletes *)
(* the buffers, and the giving back apart.                                 *)
(*                                                                         *)
(* Taken from the system as the code takes it: one callback at a time,     *)
(* midiInReset hands the buffers back empty, and no callback begins after  *)
(* it.  Whether it waits for one that runs the code does not say: "waits"  *)
(* is either.                                                              *)
(***************************************************************************)
EXTENDS MidiInApi, SequencesExt

CONSTANT Buffers    \* RT_SYSEX_BUFFER_COUNT

ASSUME WinAssumption == Buffers \in Nat \ {0}

VARIABLES
    waits,      \* whether midiInReset waits for a callback
    started,    \* whether the device is open and sends
    locked,     \* whether closePort is in _mutex
    queued,     \* buffers the driver has
    freed,      \* whether the buffers were deleted
    wpc,        \* where the callback is
    message     \* WinMidiData::message

winVars == <<waits, started, locked, queued, freed, wpc, message>>
vars == <<apiVars, inVars, winVars>>

Init ==
    /\ ApiInit /\ InInit
    /\ waits \in BOOLEAN
    /\ started = FALSE
    /\ locked = FALSE
    /\ queued = 0
    /\ freed = FALSE
    /\ wpc = "none"
    /\ message = NoMessage

-----------------------------------------------------------------------------
(* The functions of the program. *)

OpenConnected ==
    /\ connected
    /\ Call("openPort")
    /\ UNCHANGED <<connected, failed, started, queued, freed>>

OpenPort ==
    /\ ~connected
    /\ Call("openPort")
    /\ connected' = TRUE
    /\ started' = TRUE
    /\ queued' = Buffers
    /\ freed' = FALSE
    /\ UNCHANGED failed

\* There is no such device, or it cannot be opened or started.
OpenFails ==
    /\ ~connected
    /\ Call("openPort")
    /\ Fail("port")
    /\ UNCHANGED <<connected, started, queued, freed>>

Open ==
    /\ OpenConnected \/ OpenPort \/ OpenFails
    /\ UNCHANGED <<after, fault, locked, wpc>>

\* closePort, and the destructor, which begins with it: into the critical section,
Close(function_, to) ==
    /\ Begin(function_, IF connected THEN "reset" ELSE to)
    /\ after' = to
    /\ locked' = (locked \/ connected)
    /\ UNCHANGED <<connected, failed, fault, started, queued, freed, wpc>>

\* Seeded fault: the device is not stopped first.
ResetMissing ==
    /\ Continue("reset", "unprepare")
    /\ UNCHANGED <<after, connected, failed, fault, started, locked, queued, freed,
                   wpc>>

\* midiInReset stops the device,
Reset ==
    /\ Continue("reset", "flush")
    /\ started' = FALSE
    /\ UNCHANGED <<after, connected, failed, fault, locked, queued, freed, wpc>>

\* and may wait until the callback has seen the buffers the driver still had;
Flush ==
    /\ waits => wpc = "none" /\ queued = 0
    /\ Continue("flush", "unprepare")
    /\ queued' = 0
    /\ UNCHANGED <<after, connected, failed, fault, started, locked, freed, wpc>>

\* a callback that has one in its hands
Holding == wpc \in {"hold", "empty"}

\* and the buffers are deleted.  A callback that has one still reads it.
Unprepare ==
    /\ Continue("unprepare", after)
    /\ fault' = IF freed \/ Holding THEN "used after free" ELSE fault
    /\ freed' = TRUE
    /\ connected' = FALSE
    /\ locked' = FALSE
    /\ UNCHANGED <<after, failed, started, queued, wpc>>

\* When the driver does not let go of a buffer, closePort throws: inside the
\* critical section, with a buffer deleted, and still connected.
UnprepareFails ==
    /\ Continue("unprepare", IF after = "idle" THEN "idle" ELSE "gone")
    /\ Fail("unprepare")
    /\ fault' = IF freed \/ Holding THEN "used after free" ELSE fault
    /\ freed' = TRUE
    /\ UNCHANGED <<after, connected, started, locked, queued, wpc>>

\* The rest of the destructor.
Destroy ==
    /\ Continue("destroy", "gone")
    /\ fault' = IF wpc = "none" THEN fault ELSE "used after free"
    /\ UNCHANGED <<after, connected, failed, started, locked, queued, freed, wpc>>

UserStep ==
    \/ /\ \/ Open
          \/ Close("closePort", "idle") \/ Close("delete", "destroy")
          \/ Reset \/ Flush \/ Unprepare \/ UnprepareFails \/ Destroy
       /\ UNCHANGED <<inVars, waits, message>>
    \/ InCall /\ UNCHANGED winVars

-----------------------------------------------------------------------------
(* midiInputCallback *)

\* The driver calls with the next of what the device sent.
Arrives(c) ==
    /\ started /\ wpc = "none"
    /\ Pending # <<>> /\ c = Head(Pending)
    /\ Consume(<<c>>)

\* MIM_DATA
Short(c) ==
    /\ Arrives(c)
    /\ c.kind # "sysex"
    /\ IF Wanted(c)
       THEN /\ message' = Append(message, c)
            /\ wpc' = "hand"
            /\ HandOver(message')
       ELSE HandNothing /\ UNCHANGED <<message, wpc>>
    /\ UNCHANGED <<queued, failed>>

\* MIM_LONGDATA: a sysex message, or what of it fits into a buffer
Long(c) ==
    /\ Arrives(c)
    /\ c.kind = "sysex" /\ queued > 0
    /\ queued' = queued - 1
    /\ message' = IF Wanted(c) THEN Append(message, c) ELSE message
    /\ wpc' = "hold"
    /\ HandNothing
    /\ UNCHANGED failed

\* MIM_LONGERROR: what is damaged is not copied.
LongError(c) ==
    /\ Arrives(c)
    /\ c.kind = "sysex" /\ queued > 0
    /\ Fail("damaged")
    /\ queued' = queued - 1
    /\ wpc' = "hold"
    /\ HandNothing
    /\ UNCHANGED message

\* Without a buffer the driver has no use for a sysex message.
NoBuffer(c) ==
    /\ Arrives(c)
    /\ c.kind = "sysex" /\ queued = 0
    /\ HandNothing
    /\ UNCHANGED <<queued, message, wpc, failed>>

\* While midiInReset is under way the driver hands back an empty buffer,
EmptyBuffer ==
    /\ upc = "flush" /\ wpc = "none" /\ queued > 0
    /\ queued' = queued - 1
    /\ wpc' = "empty"
    /\ HandNothing
    /\ UNCHANGED <<message, failed, ignoreVars, streamVars>>

\* with dwBytesRecorded 0: the callback copies nothing and does not give it back.
LeaveEmpty ==
    /\ wpc = "empty"
    /\ wpc' = "none"
    /\ HandNothing
    /\ UNCHANGED <<queued, message, failed, ignoreVars, streamVars>>

\* The callback gives the buffer back, in the critical section, and looks again
\* whether sysex messages are ignored.
GiveBack ==
    /\ wpc = "hold" /\ ~locked
    /\ \/ queued' = queued + 1 /\ UNCHANGED failed
       \/ Fail("requeue") /\ UNCHANGED queued
    /\ IF "sysex" \in ignore
       THEN wpc' = "none" /\ HandNothing
       ELSE wpc' = "hand" /\ HandOver(message)
    /\ retyped' = (retyped \/ upc = "ignore")
    /\ UNCHANGED <<message, ignore, todo, streamVars>>

\* Seeded fault: the message is not cleared.
ClearMissing ==
    /\ wpc = "hand" /\ tail = "none"
    /\ wpc' = "none"
    /\ HandNothing
    /\ UNCHANGED <<message, queued, failed, ignoreVars, streamVars>>

\* Seeded fault: the message is cleared in the critical section.
ClearLocked ==
    /\ wpc = "hand" /\ tail = "none" /\ ~locked
    /\ message' = NoMessage
    /\ wpc' = "none"
    /\ HandNothing
    /\ UNCHANGED <<queued, failed, ignoreVars, streamVars>>

\* apiData->message.bytes.clear()
Clear ==
    /\ wpc = "hand" /\ tail = "none"
    /\ message' = NoMessage
    /\ wpc' = "none"
    /\ HandNothing
    /\ UNCHANGED <<queued, failed, ignoreVars, streamVars>>

CallbackStep ==
    \/ /\ \/ \E c \in ToSet(emitted) :
                 Short(c) \/ Long(c) \/ LongError(c) \/ NoBuffer(c)
          \/ EmptyBuffer \/ LeaveEmpty \/ GiveBack \/ Clear
       /\ UNCHANGED <<callVars, connected, fault, callbackVars, queueVars, waits,
                      started, locked, freed>>
    \/ TailStep /\ UNCHANGED winVars

-----------------------------------------------------------------------------
DeviceStep ==
    /\ started
    /\ Emit
    /\ UNCHANGED <<apiVars, callbackVars, ignoreVars, queueVars, handVars,
                   winVars>>

Next == fault = "none" /\ (UserStep \/ CallbackStep \/ DeviceStep)

\* A function that was called goes on, and so does a callback.
Going == upc # "idle" /\ UserStep

Fairness ==
    /\ WF_vars(fault = "none" /\ Going)
    /\ WF_vars(fault = "none" /\ CallbackStep)

Spec == Init /\ [][Next]_vars /\ Fairness

-----------------------------------------------------------------------------
(* Properties. *)

\* The types of the variables.
TypeOK ==
    /\ ApiTypeOK(InPlaces \cup {"reset", "flush", "unprepare", "destroy"})
    /\ InTypeOK
    /\ waits \in BOOLEAN /\ started \in BOOLEAN
    /\ locked \in BOOLEAN /\ freed \in BOOLEAN
    /\ queued \in 0 .. Buffers
    /\ wpc \in {"none", "hold", "empty", "hand"}
    /\ message \in Message

\* If midiInReset waits for the callback and Windows lets go of the buffers,
\* nothing is used after it was deleted: not by a callback that closePort did not
\* see, and not by a second closePort after one that threw.
FaultHasCause ==
    /\ fault = "null callback" => "cancelCallback" \in program
    /\ fault = "used after free" => ~waits \/ "unprepare" \in failed

\* RtMidi.h:476-477 says that each message a program gets is one and only one MIDI
\* message.  What the callback hands over is what one buffer held: the wanted
\* chunks the device sent, each alone, in order and no other, with nothing lost
\* between closePort and openPort and nothing left over in front of the next.  So
\* the header is right as long as no sysex message is longer than a buffer, and
\* wrong of one that is: its parts come as so many messages.
OneBufferEach ==
    ~retyped /\ failed \cap {"damaged", "requeue"} = {} =>
        LET wanted == Unignored(consumed, ignore)
            held == wpc = "hold" /\ "sysex" \notin ignore
            longer == \E i \in DOMAIN wanted : ~(wanted[i].first /\ wanted[i].last)
        IN  /\ handed \o (IF held THEN <<message>> ELSE <<>>)
                   = [i \in DOMAIN wanted |-> <<wanted[i]>>]
            /\ longer \/ \A i \in DOMAIN handed : Whole(handed[i])

\* closePort is in the critical section and waits for the callback, which waits
\* for the critical section to give its buffer back.
Embraced == waits /\ upc = "flush" /\ wpc = "hold"

\* Every function returns, unless closePort and a callback with a sysex message
\* wait for each other.
CallReturns ==
    upc \notin {"idle", "gone"} ~>
        upc \in {"idle", "gone"} \/ Embraced \/ fault # "none"
=============================================================================
