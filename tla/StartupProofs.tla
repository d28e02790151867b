--------------------------- MODULE StartupProofs ----------------------------
(***************************************************************************)
(* Proofs about Startup, for any number of devices, any garbage and any    *)
(* speed of the threads.  The inductive invariant says what main() has     *)
(* done by the time its program counter is where it is; the callbacks can  *)
(* then be shown to find what they need, or to meet main() in the one      *)
(* place where they do not.                                                *)
(***************************************************************************)
EXTENDS Startup, TLAPS

\* What the listen thread can find in the two delegates of the connection.
Wired ==
    /\ conn \in {"none", "null", "wrapper", "app"}
    /\ conn = "wrapper" => pc \notin {"connect", "wrap"}
    /\ conn = "wrapper" /\ wrapper # "app" => pc \in {"unwire", "delegate"}
    /\ conn = "wrapper" => keyed
    /\ pc = "wrap" => keyed
    /\ lpc = "call" => conn = "wrapper"

\* A device whose port is open has its callback, and one that has that has its
\* delegate, or it is the one main() is at.
Hooked ==
    /\ \A i \in Index : hook[i] /\ device[i] # "app"
           => pc \in {"clear", "device"} /\ opening = i
    /\ \A i \in Index : open[i] /\ ~hook[i] => pc = "hook" /\ opening = i
    /\ pc \in {"connect", "wrap", "unwire", "delegate"} => opening = 1

\* The timer runs late, when delta has been written, and is tied in the step that
\* follows.
Ticking ==
    /\ ticking => pc \in {"tie", "loop"}
    /\ pc \in {"timer", "tie", "loop"} => delta # "unset"
    /\ pc \in {"reset", "timer", "tie", "loop"} => outputs
    /\ pc = "loop" => timer = "app"
    /\ played > 0 => ticking

\* Acks come when main() has asked, and it asks when delta is zero; what else can
\* have measured delta is an ack to an earlier run.
Asked ==
    /\ asked => pc = "loop"
    /\ lpc = "call" /\ held = "ack" => asked
    /\ lpc = "call" /\ held = "old ack" => fixed
    /\ acked => asked
    /\ delta = "measured" => acked \/ fixed

IInv ==
    TypeOK /\ Wired /\ Hooked /\ Ticking /\ Asked /\ SafeOnceTied /\ PlainIsSafe
-----------------------------------------------------------------------------
\* Everything starts unasked, untied and unharmed.
LEMMA InitIInv == Init => IInv
<1> SUFFICES ASSUME Init PROVE IInv
  OBVIOUS
<1>1. TypeOK
  <2>1. device \in [Index -> Pointer] /\ wrapper \in Pointer /\ timer \in Pointer
    BY StartupAssumption DEF Init, Pointer
  <2>2. /\ open \in [Index -> BOOLEAN] /\ hook \in [Index -> BOOLEAN]
        /\ ring \in [Index -> 0 .. RingSize] /\ events \in [Index -> 0 .. MaxEvents]
    BY StartupAssumption DEF Init
  <2>3. opening \in 1 .. Devices + 1 /\ packets \in 0 .. MaxPackets /\ played \in 0 .. scheduled
    BY StartupAssumption DEF Init
  <2> QED
    BY <2>1, <2>2, <2>3 DEF Init, TypeOK, Pointer
<1>2. Wired /\ Ticking /\ Asked /\ SafeOnceTied /\ PlainIsSafe
  BY DEF Init, Wired, Ticking, Asked, SafeOnceTied, PlainIsSafe
<1>3. Hooked
  BY DEF Init, Hooked
<1> QED
  BY <1>1, <1>2, <1>3 DEF IInv

\* Constructing and tying the connection.
LEMMA ConnectionStep ==
  ASSUME IInv, Connect \/ Wrap \/ Unwire \/ Delegate
  PROVE  IInv'
<1> USE StartupAssumption DEF IInv, Advance, deviceVars, timerVars
<1>1. CASE Connect
  <2>1. TypeOK'
    BY <1>1 DEF Connect, TypeOK, Index, Pointer
  <2>2. (Wired /\ Ticking /\ Asked /\ SafeOnceTied /\ PlainIsSafe)'
    BY <1>1 DEF Connect, Wired, Ticking, Asked, SafeOnceTied, PlainIsSafe
  <2>3. Hooked'
    BY <1>1 DEF Connect, Hooked
  <2> QED BY <2>1, <2>2, <2>3
<1>2. CASE Wrap
  <2>1. TypeOK'
    BY <1>2 DEF Wrap, TypeOK, Index, Pointer
  <2>2. (Wired /\ Ticking /\ Asked /\ SafeOnceTied /\ PlainIsSafe)'
    BY <1>2 DEF Wrap, Wired, Ticking, Asked, SafeOnceTied, PlainIsSafe
  <2>3. Hooked'
    BY <1>2 DEF Wrap, Hooked
  <2> QED BY <2>1, <2>2, <2>3
<1>3. CASE Unwire
  <2>1. TypeOK'
    BY <1>3 DEF Unwire, TypeOK, Index, Pointer
  <2>2. (Wired /\ Ticking /\ Asked /\ SafeOnceTied /\ PlainIsSafe)'
    BY <1>3 DEF Unwire, Wired, Ticking, Asked, SafeOnceTied, PlainIsSafe
  <2>3. Hooked'
    BY <1>3 DEF Unwire, Hooked
  <2> QED BY <2>1, <2>2, <2>3
<1>4. CASE Delegate
  <2>0. opening = 1 /\ (Devices # 0 => 1 \in Index)
    BY <1>4 DEF Delegate, Hooked, Index
  <2>1. TypeOK'
    BY <1>4, <2>0 DEF Delegate, TypeOK, Pointer
  <2>2. (Wired /\ Ticking /\ Asked /\ SafeOnceTied /\ PlainIsSafe)'
    BY <1>4 DEF Delegate, Wired, Ticking, Asked, SafeOnceTied, PlainIsSafe
  <2>3. Hooked'
    BY <1>4 DEF Delegate, Hooked
  <2> QED BY <2>1, <2>2, <2>3
<1> QED
  BY <1>1, <1>2, <1>3, <1>4

\* Opening the devices: only the one main() is at is between its callback and
\* its delegate.
LEMMA DeviceStep ==
  ASSUME IInv, OpenPort \/ SetCallback \/ ClearDevice \/ SetDevice
  PROVE  IInv'
<1> USE StartupAssumption DEF IInv, Advance, packetVars, timerVars
<1>1. CASE OpenPort
  <2>1. TypeOK'
    BY <1>1 DEF OpenPort, TypeOK, Index
  <2>2. (Wired /\ Ticking /\ Asked /\ SafeOnceTied /\ PlainIsSafe)'
    BY <1>1 DEF OpenPort, Wired, Ticking, Asked, SafeOnceTied, PlainIsSafe
  <2>3. Hooked'
    BY <1>1 DEF OpenPort, Hooked
  <2> QED BY <2>1, <2>2, <2>3
<1>2. CASE SetCallback
  <2>1. TypeOK'
    BY <1>2 DEF SetCallback, TypeOK, Index
  <2>2. (Wired /\ Ticking /\ Asked /\ SafeOnceTied /\ PlainIsSafe)'
    BY <1>2 DEF SetCallback, Wired, Ticking, Asked, SafeOnceTied, PlainIsSafe
  <2>3. Hooked'
    BY <1>2 DEF SetCallback, Hooked, TypeOK
  <2> QED BY <2>1, <2>2, <2>3
<1>3. CASE ClearDevice
  <2>1. TypeOK'
    BY <1>3 DEF ClearDevice, TypeOK, Index, Pointer
  <2>2. (Wired /\ Ticking /\ Asked /\ SafeOnceTied /\ PlainIsSafe)'
    BY <1>3 DEF ClearDevice, Wired, Ticking, Asked, SafeOnceTied, PlainIsSafe
  <2>3. Hooked'
    BY <1>3 DEF ClearDevice, Hooked, TypeOK
  <2> QED BY <2>1, <2>2, <2>3
<1>4. CASE SetDevice
  <2>1. TypeOK'
    BY <1>4 DEF SetDevice, TypeOK, Index, Pointer
  <2>2. (Wired /\ Ticking /\ Asked /\ SafeOnceTied /\ PlainIsSafe)'
    BY <1>4 DEF SetDevice, Wired, Ticking, Asked, SafeOnceTied, PlainIsSafe
  <2>3. Hooked'
    BY <1>4 DEF SetDevice, Hooked, TypeOK
  <2> QED BY <2>1, <2>2, <2>3
<1> QED
  BY <1>1, <1>2, <1>3, <1>4

\* The rest of main(): outputs, delta, the timer and the loop.
LEMMA LoopStep ==
  ASSUME IInv, OpenOutputs \/ Reset \/ StartTimer \/ SetTimer \/ SendClockSync
  PROVE  IInv'
<1> USE StartupAssumption DEF IInv, Advance, packetVars, deviceVars, timerVars
<1>1. CASE OpenOutputs
  <2>1. TypeOK'
    BY <1>1 DEF OpenOutputs, TypeOK
  <2>2. (Wired /\ Ticking /\ Asked /\ SafeOnceTied /\ PlainIsSafe)'
    BY <1>1 DEF OpenOutputs, Wired, Ticking, Asked, SafeOnceTied, PlainIsSafe
  <2>3. Hooked'
    BY <1>1 DEF OpenOutputs, Hooked
  <2> QED BY <2>1, <2>2, <2>3
<1>2. CASE Reset
  <2>1. TypeOK'
    BY <1>2 DEF Reset, TypeOK
  <2>2. (Wired /\ Ticking /\ Asked /\ SafeOnceTied /\ PlainIsSafe)'
    BY <1>2 DEF Reset, Wired, Ticking, Asked, SafeOnceTied, PlainIsSafe
  <2>3. Hooked'
    BY <1>2 DEF Reset, Hooked
  <2> QED BY <2>1, <2>2, <2>3
<1>3. CASE StartTimer
  <2>1. TypeOK'
    BY <1>3 DEF StartTimer, TypeOK
  <2>2. (Wired /\ Ticking /\ Asked /\ SafeOnceTied /\ PlainIsSafe)'
    BY <1>3 DEF StartTimer, Wired, Ticking, Asked, SafeOnceTied, PlainIsSafe
  <2>3. Hooked'
    BY <1>3 DEF StartTimer, Hooked
  <2> QED BY <2>1, <2>2, <2>3
<1>4. CASE SetTimer
  <2>1. TypeOK'
    BY <1>4 DEF SetTimer, TypeOK, Pointer
  <2>2. (Wired /\ Ticking /\ Asked /\ SafeOnceTied /\ PlainIsSafe)'
    BY <1>4 DEF SetTimer, Wired, Ticking, Asked, SafeOnceTied, PlainIsSafe
  <2>3. Hooked'
    BY <1>4 DEF SetTimer, Hooked
  <2> QED BY <2>1, <2>2, <2>3
<1>5. CASE SendClockSync
  <2>1. TypeOK'
    BY <1>5 DEF SendClockSync, TypeOK
  <2>2. (Wired /\ Ticking /\ Asked /\ SafeOnceTied /\ PlainIsSafe)'
    BY <1>5 DEF SendClockSync, Wired, Ticking, Asked, SafeOnceTied, PlainIsSafe
  <2>3. Hooked'
    BY <1>5 DEF SendClockSync, Hooked
  <2> QED BY <2>1, <2>2, <2>3
<1> QED
  BY <1>1, <1>2, <1>3, <1>4, <1>5

\* The listen thread: what it calls without a test is where it should be, and
\* what the wrapper calls may be bad only before main() has tied it.
LEMMA ListenStep ==
  ASSUME IInv, Listen
  PROVE  IInv'
<1> USE StartupAssumption DEF IInv, mainVars, deviceVars, timerVars
<1>0. ASSUME NEW kind, Arrives(kind) PROVE packets' \in 0 .. MaxPackets /\ kind \in Kinds
  <2>1. packets \in 0 .. MaxPackets /\ packets < MaxPackets /\ packets' = packets + 1
    BY <1>0 DEF Arrives, TypeOK
  <2>2. \A k \in 0 .. MaxPackets : k < MaxPackets => k + 1 \in 0 .. MaxPackets
    BY DEF StartupAssumption
  <2> QED
    BY <1>0, <2>1, <2>2 DEF Arrives
<1>1. ASSUME NEW kind \in Kinds, ReceivePlain(kind) PROVE IInv'
  <2>1. conn = "app"
    BY <1>1 DEF ReceivePlain, Wired
  <2>2. TypeOK'
    <3>1. scheduled' \in {scheduled, scheduled + 1} /\ crash' = crash
          /\ packets' \in 0 .. MaxPackets
      BY <1>0, <1>1, <2>1 DEF ReceivePlain, Deliver, Handle, TypeOK
    <3>2. played \in 0 .. scheduled' /\ scheduled' \in Nat
      BY <3>1 DEF TypeOK
    <3>3. delta' \in {delta, "measured"} /\ acked' \in BOOLEAN /\ astray' \in BOOLEAN
      BY <1>1, <2>1 DEF ReceivePlain, Deliver, Handle, TypeOK
    <3> QED
      BY <1>1, <3>1, <3>2, <3>3 DEF ReceivePlain, TypeOK
  <2>3. (Wired /\ Ticking /\ Asked /\ SafeOnceTied /\ PlainIsSafe)'
    BY <1>1, <2>1
    DEF ReceivePlain, Arrives, Deliver, Handle, Wired, Ticking, Asked, SafeOnceTied,
        PlainIsSafe
  <2>4. Hooked'
    BY <1>1 DEF ReceivePlain, Hooked
  <2> QED BY <2>2, <2>3, <2>4
<1>2. ASSUME NEW kind \in Kinds, ReceiveWrapped(kind) PROVE IInv'
  <2>1. TypeOK'
    <3>1. packets' \in 0 .. MaxPackets /\ held' \in Kinds
      BY <1>0, <1>2 DEF ReceiveWrapped
    <3> QED
      BY <1>2, <3>1 DEF ReceiveWrapped, TypeOK
  <2>2. (Wired /\ Ticking /\ Asked /\ SafeOnceTied /\ PlainIsSafe)'
    BY <1>2 DEF ReceiveWrapped, Arrives, Wired, Ticking, Asked, SafeOnceTied, PlainIsSafe
  <2>3. Hooked'
    BY <1>2 DEF ReceiveWrapped, Hooked
  <2> QED BY <2>1, <2>2, <2>3
<1>3. CASE ForwardPacket
  <2>1. wrapper # "app" => pc \in {"unwire", "delegate"}
    BY <1>3 DEF ForwardPacket, Wired
  <2>2. TypeOK'
    <3>1. scheduled' \in {scheduled, scheduled + 1} /\ crash' \in {crash, "connection"}
      BY <1>3 DEF ForwardPacket, Deliver, Handle
    <3>2. played \in 0 .. scheduled'
      BY <3>1 DEF TypeOK
    <3>3. delta' \in {delta, "measured"} /\ acked' \in BOOLEAN /\ astray' \in BOOLEAN
      BY <1>3 DEF ForwardPacket, Deliver, Handle, TypeOK
    <3> QED
      BY <1>3, <3>1, <3>2, <3>3 DEF ForwardPacket, TypeOK
  <2>3. (Wired /\ Ticking /\ Asked /\ SafeOnceTied /\ PlainIsSafe)'
    BY <1>3, <2>1
    DEF ForwardPacket, Deliver, Handle, Wired, Ticking, Asked, SafeOnceTied, PlainIsSafe
  <2>4. Hooked'
    BY <1>3 DEF ForwardPacket, Hooked
  <2> QED BY <2>2, <2>3, <2>4
<1> QED
  BY <1>1, <1>2, <1>3 DEF Listen

\* A MIDI event: a bad call is of the device main() is at.
LEMMA EventStep ==
  ASSUME IInv, NEW i \in Index, Event(i)
  PROVE  IInv'
<1> USE StartupAssumption DEF IInv, mainVars, packetVars, timerVars
<1>1. TypeOK'
  BY DEF Event, TypeOK
<1>2. hook[i] /\ device[i] # "app" => pc \in {"clear", "device"}
  BY DEF Hooked
<1>3. (Wired /\ Ticking /\ Asked /\ SafeOnceTied /\ PlainIsSafe)'
  BY <1>2 DEF Event, Wired, Ticking, Asked, SafeOnceTied, PlainIsSafe
<1>4. Hooked'
  BY DEF Event, Hooked
<1> QED
  BY <1>1, <1>3, <1>4

\* The timer: a bad call is before main() has tied it.
LEMMA TickStep ==
  ASSUME IInv, Tick
  PROVE  IInv'
<1> USE StartupAssumption DEF IInv, mainVars, packetVars, deviceVars
<1>1. TypeOK'
  BY DEF Tick, TypeOK
<1>2. timer = "wild" => pc = "tie"
  BY DEF Tick, Ticking
<1>3. (Wired /\ Ticking /\ Asked /\ SafeOnceTied /\ PlainIsSafe)'
  BY <1>2 DEF Tick, Wired, Ticking, Asked, SafeOnceTied, PlainIsSafe
<1>4. Hooked'
  BY DEF Tick, Hooked
<1> QED
  BY <1>1, <1>3, <1>4

\* The invariant holds through the start and after it.
THEOREM StartInvariant == Spec => []IInv
<1>1. IInv /\ [Next]_vars => IInv'
  <2> SUFFICES ASSUME IInv, [Next]_vars PROVE IInv'
    OBVIOUS
  <2>1. CASE Main
    BY <2>1, ConnectionStep, DeviceStep, LoopStep DEF Main
  <2>2. CASE Listen
    BY <2>2, ListenStep
  <2>3. ASSUME NEW i \in Index, Event(i) PROVE IInv'
    BY <2>3, EventStep
  <2>4. CASE Tick
    BY <2>4, TickStep
  <2>5. CASE UNCHANGED vars
    <3> USE <2>5 DEF IInv, vars, mainVars, packetVars, deviceVars, timerVars
    <3>1. TypeOK'
      BY DEF TypeOK
    <3>2. (Wired /\ Ticking /\ Asked /\ SafeOnceTied /\ PlainIsSafe)'
      BY DEF Wired, Ticking, Asked, SafeOnceTied, PlainIsSafe
    <3>3. Hooked'
      BY DEF Hooked
    <3> QED
      BY <3>1, <3>2, <3>3
  <2> QED
    BY <2>1, <2>2, <2>3, <2>4, <2>5 DEF Next
<1> QED
  BY InitIInv, <1>1, PTL DEF Spec

\* Every variable of a starting process keeps its type.
THEOREM StartTypeCorrect == Spec => []TypeOK
<1>1. IInv => TypeOK
  BY DEF IInv
<1> QED
  BY StartInvariant, <1>1, PTL

\* setDelegate ends every danger: for any number of devices, a call through a bad
\* pointer happens only between the start of a thread and the moment main()
\* ties it to the application.
THEOREM SafeOnceMainHasTied == Spec => []SafeOnceTied
<1>1. IInv => SafeOnceTied
  BY DEF IInv
<1> QED
  BY StartInvariant, <1>1, PTL

\* A connection that is not wrapped never calls through a bad pointer.
THEOREM PlainIsAlwaysSafe == Spec => []PlainIsSafe
<1>1. IInv => PlainIsSafe
  BY DEF IInv
<1> QED
  BY StartInvariant, <1>1, PTL

\* Of what acks measured only that of an ack to an earlier run, which came before
\* main() had set delta to zero, is lost: never what this run asked for.
THEOREM OnlyOldSyncIsLost == Spec => OnlyOldSyncLost
<1>1. IInv /\ [Next]_vars
          => [delta = "measured" /\ delta' # "measured" => pc = "reset" /\ fixed /\ ~acked]_vars
  <2> SUFFICES ASSUME IInv, Next, delta = "measured", delta' # "measured"
               PROVE  pc = "reset" /\ fixed /\ ~acked
    OBVIOUS
  <2>1. Main => Reset \/ UNCHANGED delta
    BY DEF Main, Connect, Wrap, Unwire, Delegate, OpenPort, SetCallback, ClearDevice,
           SetDevice, OpenOutputs, Reset, StartTimer, SetTimer, SendClockSync
  <2>2. Listen => delta' \in {delta, "measured"}
    BY DEF Listen, ReceivePlain, ReceiveWrapped, ForwardPacket, Deliver, Handle
  <2>3. Reset
    BY <2>1, <2>2 DEF Next, Event, Tick
  <2> QED
    BY <2>3 DEF IInv, Asked, Reset, Advance
<1> QED
  BY StartInvariant, <1>1, PTL DEF Spec, OnlyOldSyncLost

\* Nothing is played before every output device is open.
THEOREM AllOutputsPlay == Spec => []PlayedOnAll
<1>1. IInv => PlayedOnAll
  BY DEF IInv, Ticking, PlayedOnAll
<1> QED
  BY StartInvariant, <1>1, PTL


\* RtMidi's queue gets messages only of the device main() is about to hook.
THEOREM StrandedOnlyAtOpening == Spec => StrandedAtOpening
<1>1. IInv /\ [Next]_vars
          => [\A i \in Index : ring'[i] > ring[i] => pc = "hook" /\ opening = i]_vars
  <2> SUFFICES ASSUME IInv, Next, NEW i \in Index, ring'[i] > ring[i]
               PROVE  pc = "hook" /\ opening = i
    OBVIOUS
  <2>1. PICK j \in Index : Event(j)
    <3>1. ring' # ring
      BY DEF IInv, TypeOK
    <3>2. Main => UNCHANGED ring
      BY DEF Main, Connect, Wrap, Unwire, Delegate, OpenPort, SetCallback, ClearDevice,
             SetDevice, OpenOutputs, Reset, StartTimer, SetTimer, SendClockSync, deviceVars
    <3>3. Listen => UNCHANGED ring
      BY DEF Listen, ReceivePlain, ReceiveWrapped, ForwardPacket, deviceVars
    <3>4. Tick => UNCHANGED ring
      BY DEF Tick, deviceVars
    <3> QED
      BY <3>1, <3>2, <3>3, <3>4 DEF Next
  <2>2. i = j /\ open[i] /\ ~hook[i]
    BY <2>1 DEF Event, IInv, TypeOK
  <2> QED
    BY <2>2 DEF IInv, Hooked
<1> QED
  BY StartInvariant, <1>1, PTL DEF Spec, StrandedAtOpening

\* No message is moved by an unwritten delta once the timer runs: what such
\* messages there are came before.
THEOREM AstrayOnlyFromStart == Spec => AstrayOnlyAtStart
<1>1. IInv /\ [Next]_vars => [ticking => astray' = astray]_vars
  <2> SUFFICES ASSUME IInv, Next, ticking
               PROVE  astray' = astray
    OBVIOUS
  <2>1. delta # "unset" /\ astray \in BOOLEAN
    BY DEF IInv, Ticking, TypeOK
  <2>2. Main => UNCHANGED astray
    BY DEF Main, Connect, Wrap, Unwire, Delegate, OpenPort, SetCallback, ClearDevice,
           SetDevice, OpenOutputs, Reset, StartTimer, SetTimer, SendClockSync, packetVars
  <2>3. Listen => UNCHANGED astray
    BY <2>1 DEF Listen, ReceivePlain, ReceiveWrapped, ForwardPacket, Deliver, Handle
  <2>4. ASSUME NEW i \in Index, Event(i) PROVE UNCHANGED astray
    BY <2>4 DEF Event, packetVars
  <2>5. Tick => UNCHANGED astray
    BY DEF Tick, packetVars
  <2> QED
    BY <2>2, <2>3, <2>4, <2>5 DEF Next
<1> QED
  BY StartInvariant, <1>1, PTL DEF Spec, AstrayOnlyAtStart
=============================================================================
