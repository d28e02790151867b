------------------------------ MODULE Startup -------------------------------
(***************************************************************************)
(* The start of one process: main() of src/pianoconnect.cpp constructs the *)
(* connection, the MIDI devices and the timer one after the other and ties *)
(* each to the application with setDelegate().  The constructors start     *)
(* threads: the listen thread, the callback of a device and the timer run  *)
(* while main() is still on its way, and find their delegate in whatever   *)
(* state it is.                                                            *)
(*                                                                         *)
(* A pointer is "app" or "wrapper" (where it should go), "null", or "wild": *)
(* a field no constructor has written holds what the memory held before,   *)
(* and a call through it, or through NULL, ends the process ("crash").     *)
(* That is one outcome of undefined behaviour; no property says what a     *)
(* process does after it.                                                  *)
(***************************************************************************)
EXTENDS Naturals

CONSTANTS
    Devices,        \* number of input devices
    Garbage,        \* what an unwritten pointer may hold
    RingSize,       \* messages RtMidi keeps for a device without callback
    MaxEvents,      \* bound: MIDI events of a device
    MaxPackets      \* bound: datagrams handled

ASSUME StartupAssumption ==
    /\ Devices \in Nat
    /\ Garbage \subseteq {"null", "wild"} /\ Garbage # {}
    /\ RingSize \in Nat
    /\ MaxEvents \in Nat
    /\ MaxPackets \in Nat

VARIABLES
    keyed,      \* whether a key is configured: the connection is wrapped
    fixed,      \* whether the connection has the port of an earlier run ("udp",
                \* "udp-server")
    pc,         \* what main() does next
    opening,    \* the input device it opens next, or is opening
    conn,       \* delegate of the UDP connection, "none" before it exists
    wrapper,    \* delegate of the HMAC wrapper
    lpc,        \* the listen thread: "wait", or in HMAC_Wrapper::onPacket
    held,       \* the packet it has there
    packets,    \* packets handled
    open,       \* per device, whether its port is open
    hook,       \* usingCallback
    device,     \* delegate of the device
    ring,       \* messages in its RtMidi queue
    events,     \* events it has had
    outputs,    \* whether the output devices are open
    ticking,    \* whether the timer thread runs
    timer,      \* delegate of the timer
    delta,      \* "unset", "zero" or "measured"
    asked,      \* whether main() has sent a ClockSync
    acked,      \* whether an ack to what it sent has been handled
    astray,     \* whether a message was scheduled by an unset delta
    scheduled,  \* messages pushed to message_queue
    played,     \* and played
    crash       \* where a call went through a bad pointer

mainVars == <<keyed, fixed, pc, opening>>
packetVars == <<conn, wrapper, lpc, held, packets, astray, acked>>
deviceVars == <<open, hook, device, ring, events>>
timerVars == <<ticking, timer, played>>
vars == <<mainVars, packetVars, deviceVars, outputs, timerVars, delta, asked, scheduled, crash>>

Index == 1 .. Devices
Pointer == {"null", "wild", "wrapper", "app"}
Kinds == {"midi", "request", "ack", "old ack"}

-----------------------------------------------------------------------------
Init ==
    /\ keyed \in BOOLEAN /\ fixed \in BOOLEAN
    /\ pc = "connect"
    /\ opening = 1
    /\ conn = "none"
    /\ wrapper \in Garbage
    /\ lpc = "wait"
    /\ held = "none"
    /\ packets = 0
    /\ open = [i \in Index |-> FALSE]
    /\ hook = [i \in Index |-> FALSE]
    /\ device \in [Index -> Garbage]
    /\ ring = [i \in Index |-> 0]
    /\ events = [i \in Index |-> 0]
    /\ outputs = FALSE
    /\ ticking = FALSE
    /\ timer \in Garbage
    /\ delta = "unset"
    /\ asked = FALSE
    /\ acked = FALSE
    /\ astray = FALSE
    /\ scheduled = 0
    /\ played = 0
    /\ crash = "no"

-----------------------------------------------------------------------------
(* main()                                                                  *)

Advance(from, to) ==
    /\ crash = "no"
    /\ pc = from
    /\ pc' = to
    /\ UNCHANGED <<keyed, fixed>>

\* Seeded fault: the constructor does not set the delegate.
ConnectUncleared ==
    /\ Advance("connect", IF keyed THEN "wrap" ELSE "delegate")
    /\ conn' \in Garbage
    /\ UNCHANGED <<opening, wrapper, lpc, held, packets, astray, acked, deviceVars, outputs,
                   timerVars, delta, asked, scheduled, crash>>

\* the connection: delegate = NULL, then its thread is started
Connect ==
    /\ Advance("connect", IF keyed THEN "wrap" ELSE "delegate")
    /\ conn' = "null"
    /\ UNCHANGED <<opening, wrapper, lpc, held, packets, astray, acked, deviceVars, outputs,
                   timerVars, delta, asked, scheduled, crash>>

\* HMAC_Wrapper: connection->setDelegate(this)
Wrap ==
    /\ Advance("wrap", "unwire")
    /\ conn' = "wrapper"
    /\ UNCHANGED <<opening, wrapper, lpc, held, packets, astray, acked, deviceVars, outputs,
                   timerVars, delta, asked, scheduled, crash>>

\* HMAC_Wrapper: delegate = NULL
Unwire ==
    /\ Advance("unwire", "delegate")
    /\ wrapper' = "null"
    /\ UNCHANGED <<opening, conn, lpc, held, packets, astray, acked, deviceVars, outputs,
                   timerVars, delta, asked, scheduled, crash>>

\* networking->setDelegate(this)
Delegate ==
    /\ Advance("delegate", IF Devices = 0 THEN "outputs" ELSE "open")
    /\ IF keyed THEN wrapper' = "app" /\ UNCHANGED conn
               ELSE conn' = "app" /\ UNCHANGED wrapper
    /\ UNCHANGED <<opening, lpc, held, packets, astray, acked, deviceVars, outputs,
                   timerVars, delta, asked, scheduled, crash>>

\* MIDIDevice_RtMidiIn: openPort
OpenPort ==
    /\ Advance("open", "hook")
    /\ open' = [open EXCEPT ![opening] = TRUE]
    /\ UNCHANGED <<opening, packetVars, hook, device, ring, events, outputs, timerVars,
                   delta, asked, scheduled, crash>>

\* Seeded fault: the callback is not set.
SetCallbackMissing ==
    /\ Advance("hook", "clear")
    /\ UNCHANGED <<opening, packetVars, deviceVars, outputs, timerVars,
                   delta, asked, scheduled, crash>>

\* MIDIDevice_RtMidiIn: setCallback
SetCallback ==
    /\ Advance("hook", "clear")
    /\ hook' = [hook EXCEPT ![opening] = TRUE]
    /\ UNCHANGED <<opening, packetVars, open, device, ring, events, outputs, timerVars,
                   delta, asked, scheduled, crash>>

\* MIDIDevice_RtMidiIn: delegate = NULL
ClearDevice ==
    /\ Advance("clear", "device")
    /\ device' = [device EXCEPT ![opening] = "null"]
    /\ UNCHANGED <<opening, packetVars, open, hook, ring, events, outputs, timerVars,
                   delta, asked, scheduled, crash>>

\* Seeded fault: the device is not tied to the application.
SetDeviceMissing ==
    /\ Advance("device", IF opening < Devices THEN "open" ELSE "outputs")
    /\ opening' = opening + 1
    /\ UNCHANGED <<packetVars, deviceVars, outputs, timerVars, delta, asked, scheduled, crash>>

\* device->setDelegate(this), and on to the next device
SetDevice ==
    /\ Advance("device", IF opening < Devices THEN "open" ELSE "outputs")
    /\ device' = [device EXCEPT ![opening] = "app"]
    /\ opening' = opening + 1
    /\ UNCHANGED <<packetVars, open, hook, ring, events, outputs, timerVars,
                   delta, asked, scheduled, crash>>

\* the output devices and virtual ports
OpenOutputs ==
    /\ Advance("outputs", "reset")
    /\ outputs' = TRUE
    /\ UNCHANGED <<opening, packetVars, deviceVars, timerVars, delta, asked, scheduled, crash>>

\* Seeded fault: delta is left as it is.
ResetMissing ==
    /\ Advance("reset", "timer")
    /\ UNCHANGED <<opening, packetVars, deviceVars, outputs, timerVars, delta, asked,
                   scheduled, crash>>

\* delta = 0
Reset ==
    /\ Advance("reset", "timer")
    /\ delta' = "zero"
    /\ UNCHANGED <<opening, packetVars, deviceVars, outputs, timerVars, asked, scheduled, crash>>

\* Seeded fault: the timer is made, and tied, before the output devices.
StartTimerEarly ==
    /\ crash = "no" /\ pc \in {"outputs", "timer"} /\ ~ticking
    /\ pc' = IF pc = "timer" THEN "tie" ELSE pc
    /\ ticking' = TRUE
    /\ timer' = "app"
    /\ UNCHANGED <<keyed, fixed, opening, packetVars, deviceVars, outputs, played, delta, asked,
                   scheduled, crash>>

\* HighResolutionTimer::Create: its thread runs, its delegate is not written
StartTimer ==
    /\ Advance("timer", "tie")
    /\ ticking' = TRUE
    /\ UNCHANGED <<opening, packetVars, deviceVars, outputs, timer, played, delta, asked,
                   scheduled, crash>>

\* Seeded fault: the timer is not tied to the application.
SetTimerMissing ==
    /\ Advance("tie", "loop")
    /\ timer' = "null"
    /\ UNCHANGED <<opening, packetVars, deviceVars, outputs, ticking, played, delta, asked,
                   scheduled, crash>>

\* timer->setDelegate(this); opening the log is left out
SetTimer ==
    /\ Advance("tie", "loop")
    /\ timer' = "app"
    /\ UNCHANGED <<opening, packetVars, deviceVars, outputs, ticking, played, delta, asked,
                   scheduled, crash>>

\* Seeded fault: delta is set to zero in the loop.
SendClockSyncReset ==
    /\ Advance("loop", "loop")
    /\ asked' = TRUE
    /\ delta' = "zero"
    /\ UNCHANGED <<opening, packetVars, deviceVars, outputs, timerVars, scheduled, crash>>

\* the loop: clock requests, the first of which lets acks come in
SendClockSync ==
    /\ Advance("loop", "loop")
    /\ asked' = TRUE
    /\ UNCHANGED <<opening, packetVars, deviceVars, outputs, timerVars, delta, scheduled, crash>>

Main ==
    \/ Connect \/ Wrap \/ Unwire \/ Delegate
    \/ OpenPort \/ SetCallback \/ ClearDevice \/ SetDevice \/ OpenOutputs
    \/ Reset \/ StartTimer \/ SetTimer \/ SendClockSync

-----------------------------------------------------------------------------
(* The listen thread.  A packet while the connection's delegate is NULL is *)
(* dropped there.                                                          *)

\* PianoConnectApplication::onPacket.  A message moved by an unset delta is due
\* at no time anybody knows; it is noted in astray and not counted.
Handle(kind) ==
    /\ astray' = (astray \/ (kind = "midi" /\ delta = "unset"))
    /\ scheduled' = IF kind = "midi" /\ delta # "unset" THEN scheduled + 1 ELSE scheduled
    /\ delta' = IF kind \in {"ack", "old ack"} THEN "measured" ELSE delta
    /\ acked' = (acked \/ kind = "ack")

\* a call of onPacket through pointer to
Deliver(to, kind) ==
    IF to = "app"
    THEN Handle(kind) /\ UNCHANGED crash
    ELSE crash' = "connection" /\ UNCHANGED <<astray, scheduled, delta, acked>>

\* What can arrive: the other process may send as soon as it likes, but answers
\* only what it was asked, by this run or, at the same port, by an earlier one.
Arrives(kind) ==
    /\ crash = "no"
    /\ packets < MaxPackets
    /\ kind \in Kinds
    /\ kind = "ack" => asked
    /\ kind = "old ack" => fixed
    /\ packets' = packets + 1

\* straight to the application
ReceivePlain(kind) ==
    /\ lpc = "wait"
    /\ conn \notin {"none", "null", "wrapper"}
    /\ Arrives(kind)
    /\ Deliver(conn, kind)
    /\ UNCHANGED <<mainVars, conn, wrapper, lpc, held, deviceVars, outputs, timerVars, asked>>

\* HMAC_Wrapper::onPacket tests its delegate, and the digest is right
ReceiveWrapped(kind) ==
    /\ lpc = "wait"
    /\ conn = "wrapper"
    /\ wrapper # "null"
    /\ Arrives(kind)
    /\ lpc' = "call"
    /\ held' = kind
    /\ UNCHANGED <<mainVars, conn, wrapper, astray, acked, deviceVars, outputs, timerVars,
                   delta, asked, scheduled, crash>>

\* it reads its delegate again and calls
ForwardPacket ==
    /\ crash = "no"
    /\ lpc = "call"
    /\ lpc' = "wait"
    /\ held' = "none"
    /\ Deliver(wrapper, held)
    /\ UNCHANGED <<mainVars, conn, wrapper, packets, deviceVars, outputs, timerVars, asked>>

Listen ==
    \/ \E kind \in Kinds : ReceivePlain(kind) \/ ReceiveWrapped(kind)
    \/ ForwardPacket

-----------------------------------------------------------------------------
\* Seeded fault: the queue of RtMidi has no limit.
EventUnlimited(i) ==
    /\ crash = "no"
    /\ open[i]
    /\ events[i] < MaxEvents
    /\ events' = [events EXCEPT ![i] = @ + 1]
    /\ ring' = IF hook[i] THEN ring ELSE [ring EXCEPT ![i] = @ + 1]
    /\ scheduled' = IF hook[i] THEN scheduled + 1 ELSE scheduled
    /\ UNCHANGED <<mainVars, packetVars, open, hook, device, outputs, timerVars, delta, asked,
                   crash>>

\* A MIDI event: to the queue of RtMidi, which is full at RingSize, or through
\* the callback to the application.
Event(i) ==
    /\ crash = "no"
    /\ open[i]
    /\ events[i] < MaxEvents
    /\ events' = [events EXCEPT ![i] = @ + 1]
    /\ \/ /\ ~hook[i]
          /\ ring' = IF ring[i] < RingSize THEN [ring EXCEPT ![i] = @ + 1] ELSE ring
          /\ UNCHANGED <<scheduled, crash>>
       \/ /\ hook[i] /\ device[i] = "app"
          /\ scheduled' = scheduled + 1
          /\ UNCHANGED <<ring, crash>>
       \/ /\ hook[i] /\ device[i] # "app"
          /\ crash' = "device"
          /\ UNCHANGED <<ring, scheduled>>
    /\ UNCHANGED <<mainVars, packetVars, open, hook, device, outputs, timerVars, delta, asked>>

\* The timer thread: nothing, what is due of what was scheduled, or a wild call.
Tick ==
    /\ crash = "no"
    /\ ticking
    /\ \/ /\ timer = "app"
          /\ played' \in played + 1 .. scheduled
          /\ UNCHANGED crash
       \/ /\ timer = "wild"
          /\ crash' = "timer"
          /\ UNCHANGED played
    /\ UNCHANGED <<mainVars, packetVars, deviceVars, outputs, ticking, timer, delta, asked,
                   scheduled>>

Next ==
    \/ Main
    \/ Listen
    \/ \E i \in Index : Event(i)
    \/ Tick

Spec == Init /\ [][Next]_vars

(* main() goes on, and the timer comes round.  Time passes, so that what is *)
(* scheduled is due some day.                                              *)
FairSpec == Spec /\ WF_vars(Main) /\ WF_vars(Tick)

-----------------------------------------------------------------------------
(* Type invariant. *)
TypeOK ==
    /\ keyed \in BOOLEAN /\ fixed \in BOOLEAN
    /\ pc \in {"connect", "wrap", "unwire", "delegate", "open", "hook", "clear", "device",
               "outputs", "reset", "timer", "tie", "loop"}
    /\ opening \in 1 .. Devices + 1
    /\ pc \in {"open", "hook", "clear", "device"} => opening \in Index
    /\ conn \in Pointer \cup {"none"}
    /\ wrapper \in Pointer
    /\ lpc \in {"wait", "call"}
    /\ held \in Kinds \cup {"none"}
    /\ lpc = "call" => held \in Kinds
    /\ packets \in 0 .. MaxPackets
    /\ open \in [Index -> BOOLEAN]
    /\ hook \in [Index -> BOOLEAN]
    /\ device \in [Index -> Pointer]
    /\ ring \in [Index -> 0 .. RingSize]
    /\ events \in [Index -> 0 .. MaxEvents]
    /\ outputs \in BOOLEAN /\ ticking \in BOOLEAN
    /\ timer \in Pointer
    /\ delta \in {"unset", "zero", "measured"}
    /\ asked \in BOOLEAN /\ acked \in BOOLEAN /\ astray \in BOOLEAN
    /\ scheduled \in Nat
    /\ played \in 0 .. scheduled
    /\ crash \in {"no", "connection", "device", "timer"}

\* Every danger is over when setDelegate has been called: a bad call happens only
\* between the start of a thread and that moment, at whatever speed the threads
\* run.
SafeOnceTied ==
    /\ crash = "connection" => pc \in {"unwire", "delegate"}
    /\ crash = "device" => pc \in {"clear", "device"}
    /\ crash = "timer" => pc = "tie"

\* A connection that is not wrapped never calls through a bad pointer: its
\* delegate is cleared before its thread runs.
PlainIsSafe == ~keyed => crash # "connection"

\* Both threads write delta without a lock.  What an ack measured is overwritten in
\* one way only: at a port that is the same in every run an ack to an earlier run
\* can be handled before main() sets delta to zero (pianoconnect.cpp:308), and is
\* lost.  Nothing measured after that is, whatever comes when.
OnlyOldSyncLost ==
    [][delta = "measured" /\ delta' # "measured" =>
           pc = "reset" /\ fixed /\ ~acked]_vars

\* No message is played before all output devices are open, although devices and
\* connection deliver from the moment they are tied.
PlayedOnAll == played > 0 => outputs

\* A message of the other process is moved by a delta nobody has written only
\* before the timer runs: none of those that come while the program plays.
AstrayOnlyAtStart == [][ticking => astray' = astray]_vars

\* A message is left in the queue of RtMidi, which nobody reads, only in between
\* openPort and setCallback of its device.
StrandedAtOpening ==
    [][\A i \in Index : ring'[i] > ring[i] => pc = "hook" /\ opening = i]_vars

\* What is struck or received while main() still opens devices is played when
\* the timer has been started.
EventuallyPlayed ==
    \A n \in 1 .. MaxPackets + Devices * MaxEvents :
        (scheduled >= n) ~> (played >= n \/ crash # "no")
=============================================================================
