------------------------- MODULE MidiInWinMMProofs --------------------------
(***************************************************************************)
(* Proofs about MidiInWinMM, for any programs, any number of buffers,      *)
(* calls and messages, and any place of the callback.                      *)
(***************************************************************************)
EXTENDS MidiInWinMM, MidiInApiProofs

\* The buffers exist as long as the object is connected, and without a connection
\* no callback runs.
Orderly ==
    /\ fault # "used after free"
    /\ connected => ~freed
    /\ upc \in {"reset", "flush", "unprepare"} => connected
    /\ upc = "flush" => ~started
    /\ ~connected \/ upc = "unprepare" => ~started /\ wpc = "none"
    /\ upc = "destroy" => ~connected

\* The invariant.
IInv ==
    /\ CallbackSafe
    /\ after \in {"idle", "destroy"}
    /\ waits /\ "unprepare" \notin failed => Orderly

\* The invariant holds at the start.
LEMMA InitIInv == Init => IInv
BY DEF Init, ApiInit, InInit, IInv, CallbackSafe, Orderly

-----------------------------------------------------------------------------
\* The functions every platform has leave device and buffers alone.
LEMMA InCallKeeps == IInv /\ InCall /\ UNCHANGED winVars => IInv'
<1> SUFFICES ASSUME IInv, InCall, UNCHANGED winVars PROVE IInv'
  OBVIOUS
<1>1. CallbackSafe'
  BY InCallSafe DEF IInv
<1>2. UNCHANGED <<after, connected, failed, fault, waits, started, freed, wpc>>
  BY DEF InCall, winVars
<1>3. upc' \in {"idle", "cancel", "ignore", "load", "store"}
  BY DEF InCall, SetCallback, CancelFunction, CancelUsing, IgnoreTypes, IgnoreFlag,
         GetNothing, GetMessage, GetLoad, GetStore, Begin, Call, Continue
<1> QED
  BY <1>1, <1>2, <1>3 DEF IInv, Orderly

\* openPort, closePort and the destructor leave the callback alone,
LEMMA PortSafe ==
    ASSUME CallbackSafe, UNCHANGED inVars,
           \/ Open
           \/ Close("closePort", "idle") \/ Close("delete", "destroy")
           \/ Reset \/ Flush \/ Unprepare \/ UnprepareFails \/ Destroy,
           after \in {"idle", "destroy"}
    PROVE  CallbackSafe' /\ after' \in {"idle", "destroy"}
<1> USE DEF Begin, Call, Continue
<1>1. UNCHANGED <<using, function, tail>>
  BY DEF inVars, callbackVars, handVars
<1>2. program' = program /\ upc' # "cancel" /\ after' \in {"idle", "destroy"}
  BY DEF Open, OpenConnected, OpenPort, OpenFails, Close, Reset, Flush, Unprepare,
         UnprepareFails, Destroy
<1>3. fault' = "null callback" => fault = "null callback"
  BY DEF Open, Close, Reset, Flush, Unprepare, UnprepareFails, Destroy
<1> QED
  BY <1>1, <1>2, <1>3, RestSafe

\* and keep the order between connection, device and buffers.
LEMMA PortKeeps ==
    ASSUME IInv, UNCHANGED <<inVars, waits, message>>,
           \/ Open
           \/ Close("closePort", "idle") \/ Close("delete", "destroy")
           \/ Reset \/ Flush \/ Unprepare \/ UnprepareFails \/ Destroy
    PROVE  IInv'
<1>1. CallbackSafe' /\ after' \in {"idle", "destroy"}
  BY PortSafe DEF IInv
<1> SUFFICES ASSUME waits, "unprepare" \notin failed' PROVE Orderly'
  BY <1>1 DEF IInv
<1> USE DEF Begin, Call, Continue, Fail
<1>2. failed \subseteq failed'
  BY DEF Open, OpenConnected, OpenPort, OpenFails, Close, Reset, Flush, Unprepare,
         UnprepareFails, Destroy
<1>3. Orderly /\ after \in {"idle", "destroy"}
  BY <1>2 DEF IInv
<1> HIDE DEF Fail
<1> USE DEF Orderly
<1>4. CASE Open
  <2>1. upc' = "idle" /\ UNCHANGED <<fault, wpc>>
    BY <1>4 DEF Open, OpenConnected, OpenPort, OpenFails
  <2>2. CASE UNCHANGED <<connected, started, freed>>
    BY <1>3, <2>1, <2>2
  <2>3. CASE connected' = TRUE /\ freed' = FALSE
    BY <1>3, <2>1, <2>3
  <2> QED
    BY <1>4, <2>2, <2>3 DEF Open, OpenConnected, OpenPort, OpenFails
<1>5. CASE Close("closePort", "idle")
  BY <1>3, <1>5 DEF Close
<1>6. CASE Close("delete", "destroy")
  BY <1>3, <1>6 DEF Close
<1>7. CASE Reset
  BY <1>3, <1>7 DEF Reset
<1>8. CASE Flush
  BY <1>3, <1>8 DEF Flush
<1>9. CASE Unprepare
  BY <1>3, <1>9 DEF Unprepare, Holding
<1>10. CASE UnprepareFails
  BY <1>10 DEF UnprepareFails, Fail
<1>11. CASE Destroy
  BY <1>3, <1>11 DEF Destroy
<1> QED
  BY <1>4, <1>5, <1>6, <1>7, <1>8, <1>9, <1>10, <1>11

\* A callback begins only while the device is started, or to hand back a buffer.
LEMMA CallbackKeeps == IInv /\ CallbackStep => IInv'
<1> SUFFICES ASSUME IInv, CallbackStep PROVE IInv'
  OBVIOUS
<1>1. CASE TailStep /\ UNCHANGED winVars
  <2>1. CallbackSafe' /\ (fault' = fault \/ fault' = "null callback")
    BY <1>1, TailSafe DEF IInv
  <2>2. UNCHANGED <<upc, after, connected, failed, waits, started, freed, wpc>>
    BY <1>1 DEF TailStep, callVars, winVars
  <2> QED
    BY <2>1, <2>2 DEF IInv, Orderly
<1>2. ASSUME ~(TailStep /\ UNCHANGED winVars)
      PROVE  IInv'
  <2>1. UNCHANGED <<program, upc, after, connected, fault, using, function, waits,
                    started, freed>>
    BY <1>2 DEF CallbackStep, callVars, callbackVars
  <2>2. tail' = "call" => tail = "call"
    BY <1>2 DEF CallbackStep, Short, Long, LongError, NoBuffer, EmptyBuffer, LeaveEmpty, GiveBack, Clear,
                HandOver, HandNothing, handVars
  <2>3. /\ failed \subseteq failed'
        /\ wpc' = "none" \/ wpc # "none" \/ started \/ upc = "flush"
    BY <1>2 DEF CallbackStep, Short, Long, LongError, NoBuffer, EmptyBuffer, LeaveEmpty, GiveBack, Clear,
                Arrives, Fail
  <2>4. CallbackSafe'
    BY <2>1, <2>2, RestSafe DEF IInv
  <2> QED
    BY <2>1, <2>3, <2>4 DEF IInv, Orderly
<1> QED
  BY <1>1, <1>2

-----------------------------------------------------------------------------
\* Every step keeps the invariant.
LEMMA NextKeeps == IInv /\ [Next]_vars => IInv'
<1> SUFFICES ASSUME IInv, [Next]_vars PROVE IInv'
  OBVIOUS
<1>1. CASE UserStep
  BY <1>1, InCallKeeps, PortKeeps DEF UserStep
<1>2. CASE CallbackStep
  BY <1>2, CallbackKeeps
<1>3. CASE DeviceStep \/ UNCHANGED vars
  <2>1. UNCHANGED <<program, upc, after, connected, failed, fault, using, function,
                    tail, waits, started, freed, wpc>>
    BY <1>3 DEF DeviceStep, vars, apiVars, callVars, inVars, callbackVars, handVars,
                winVars
  <2> QED
    BY <2>1 DEF IInv, CallbackSafe, Orderly
<1> QED
  BY <1>1, <1>2, <1>3 DEF Next

\* For any sequence of calls, with the callback in any place: if midiInReset waits
\* for the callback and Windows lets go of the buffers, closePort and the
\* destructor free nothing that is still used or was freed before, and the
\* callback calls no NULL unless the program cancels it.
THEOREM FaultsHaveCauses == Spec => []FaultHasCause
<1>1. IInv => FaultHasCause
  BY DEF IInv, CallbackSafe, Orderly, FaultHasCause
<1>2. IInv /\ [Next]_vars => IInv'
  BY NextKeeps
<1> QED
  BY <1>1, <1>2, InitIInv, PTL DEF Spec

-----------------------------------------------------------------------------
(* Types, and what the queue holds. *)

\* Where the buffers are.  The driver has all of them but the one the callback
\* holds, unless it has refused one, and only a device that is open sends.
InPlace ==
    /\ started => connected
    /\ upc \in {"reset", "flush", "unprepare"} => connected
    /\ upc \in {"flush", "unprepare"} => ~started
    /\ wpc = "hold" => queued < Buffers /\ (fault = "none" => connected)
    /\ wpc = "hold" => consumed # <<>>
    /\ tail # "none" => wpc = "hand"
    /\ started /\ "requeue" \notin failed =>
           queued = IF wpc = "hold" THEN Buffers - 1 ELSE Buffers

\* Types, and where the queue is.
Typed ==
    /\ TypeOK
    /\ InTypes
    /\ after \in {"idle", "destroy"}
    /\ InPlace
    /\ InRing

\* where a function of the program may be
WinPlaces == InPlaces \cup {"reset", "flush", "unprepare", "destroy"}

\* Types and queue hold at the start.
LEMMA InitTyped == Init => Typed
<1> SUFFICES ASSUME Init PROVE Typed
  OBVIOUS
<1>1. InTypes /\ InRing
  BY InTypesInit, InRingInit DEF Init
<1>2. ApiTypeOK(WinPlaces)
  <2>1. "idle" \in WinPlaces /\ 0 \in 0 .. MaxCalls
    BY ApiAssumption DEF WinPlaces, InPlaces, ApiAssumption
  <2> QED
    BY <2>1 DEF Init, ApiInit, ApiTypeOK
<1>3. /\ waits \in BOOLEAN /\ started \in BOOLEAN
      /\ locked \in BOOLEAN /\ freed \in BOOLEAN
      /\ queued \in 0 .. Buffers
      /\ wpc \in {"none", "hold", "empty", "hand"}
      /\ message \in Message
  <2>1. NoMessage \in Message /\ 0 \in 0 .. Buffers
    BY WinAssumption DEF NoMessage, Message, WinAssumption
  <2> QED
    BY <2>1 DEF Init
<1>4. after \in {"idle", "destroy"} /\ InPlace
  BY DEF Init, ApiInit, InInit, InPlace
<1> QED
  BY <1>1, <1>2, <1>3, <1>4 DEF Typed, TypeOK, InTypes, WinPlaces

\* The functions every platform has.
LEMMA InCallTyped == Typed /\ InCall /\ UNCHANGED winVars => Typed'
<1> SUFFICES ASSUME Typed, InCall, UNCHANGED winVars PROVE Typed'
  OBVIOUS
<1>1. InTypes' /\ InRing'
  BY InCallTypes, InCallQueue DEF Typed
<1>2. UNCHANGED <<after, connected, failed, fault, consumed, tail>>
  BY DEF InCall, streamVars, handVars
<1>3. /\ UNCHANGED program
      /\ calls' = calls \/ (calls < MaxCalls /\ calls' = calls + 1)
      /\ upc' \in {"idle", "cancel", "ignore", "load", "store"}
  BY DEF InCall, SetCallback, CancelFunction, CancelUsing, IgnoreTypes, IgnoreFlag,
         GetNothing, GetMessage, GetLoad, GetStore, Begin, Call, Continue
<1>4. ApiTypeOK(WinPlaces)
  BY DEF Typed, TypeOK, WinPlaces
<1>5. connected \in BOOLEAN /\ after \in WinPlaces
  BY <1>4 DEF ApiTypeOK
<1>6. ApiTypeOK(WinPlaces)'
  BY <1>2, <1>3, <1>4, <1>5, CallTypes DEF WinPlaces, InPlaces
<1>7. InPlace'
  BY <1>2, <1>3 DEF winVars, Typed, InPlace
<1>8. TypeOK'
  BY <1>1, <1>6 DEF Typed, TypeOK, InTypes, WinPlaces, winVars
<1> QED
  BY <1>1, <1>2, <1>7, <1>8 DEF Typed

\* openPort, closePort and the destructor.
LEMMA PortTyped ==
    ASSUME Typed, fault = "none", UNCHANGED <<inVars, waits, message>>,
           \/ Open
           \/ Close("closePort", "idle") \/ Close("delete", "destroy")
           \/ Reset \/ Flush \/ Unprepare \/ UnprepareFails \/ Destroy
    PROVE  Typed'
<1> USE DEF Begin, Call, Continue
<1>1. UNCHANGED <<callbackVars, queueVars, ignore, todo, retyped, emitted, consumed, handVars>>
  BY DEF inVars, ignoreVars, streamVars
<1>2. after \in {"idle", "destroy"}
  BY DEF Typed
<1>3. /\ UNCHANGED program
      /\ calls' = calls \/ (calls < MaxCalls /\ calls' = calls + 1)
      /\ upc' \in {"idle", "reset", "flush", "unprepare", "destroy", "gone"}
      /\ upc \in {"idle", "reset", "flush", "unprepare", "destroy"}
      /\ after' \in {"idle", "destroy"}
  BY <1>2 DEF Open, OpenConnected, OpenPort, OpenFails, Close, Reset, Flush, Unprepare,
         UnprepareFails, Destroy
<1>4. InRing'
  <2>1. Getting' = Getting /\ Putting' = Putting
    BY <1>1, <1>3 DEF Getting, Putting, handVars
  <2> QED
    BY <1>1, <2>1, InRingStays DEF Typed
<1>5. InTypes'
  BY <1>1, <1>3, RestTypes DEF Typed, InTypes, InTypeOK
<1>6. connected' \in BOOLEAN /\ started' \in BOOLEAN /\ locked' \in BOOLEAN
      /\ freed' \in BOOLEAN /\ queued' \in 0 .. Buffers /\ wpc' = wpc
  <2>1. /\ connected \in BOOLEAN /\ started \in BOOLEAN /\ locked \in BOOLEAN
        /\ freed \in BOOLEAN /\ queued \in 0 .. Buffers
    BY DEF Typed, TypeOK, ApiTypeOK
  <2>2. connected' \in BOOLEAN /\ started' \in BOOLEAN /\ freed' \in BOOLEAN /\ wpc' = wpc
    BY <2>1 DEF Open, OpenConnected, OpenPort, OpenFails, Close, Reset, Flush, Unprepare,
           UnprepareFails, Destroy
  <2>3. locked' = locked \/ locked' = FALSE \/ locked' = (locked \/ connected)
    BY DEF Open, Close, Reset, Flush, Unprepare, UnprepareFails, Destroy
  <2>4. queued' \in {queued, 0, Buffers}
    BY DEF Open, OpenConnected, OpenPort, OpenFails, Close, Reset, Flush, Unprepare,
           UnprepareFails, Destroy
  <2> QED
    <3>1. locked' \in BOOLEAN
      BY <2>1, <2>3
    <3>2. queued' \in 0 .. Buffers
      BY <2>1, <2>4, WinAssumption DEF WinAssumption
    <3> QED
      BY <2>2, <3>1, <3>2
<1>7. failed' = failed \/ \E what \in Fails : failed' = failed \cup {what}
  BY DEF Open, OpenConnected, OpenPort, OpenFails, Close, Reset, Flush, Unprepare,
         UnprepareFails, Destroy, Fail
<1>8. TypeOK'
  <2>1. ApiTypeOK(WinPlaces)
    BY DEF Typed, TypeOK, WinPlaces
  <2>2. ApiTypeOK(WinPlaces)'
    BY <1>3, <1>6, <1>7, <2>1, CallTypes DEF WinPlaces, InPlaces
  <2>3. waits' \in BOOLEAN /\ message' \in Message /\ wpc' \in {"none", "hold", "empty", "hand"}
    BY <1>6 DEF Typed, TypeOK
  <2> QED
    BY <1>5, <1>6, <2>2, <2>3 DEF TypeOK, InTypes, WinPlaces
<1>9. InPlace'
  <2>1. InPlace /\ tail' = tail /\ consumed' = consumed /\ wpc' = wpc
    BY <1>1, <1>6 DEF Typed, handVars
  <2>2. "requeue" \notin failed' => "requeue" \notin failed
    BY <1>7
  <2>3. CASE Open
    BY <2>1, <2>2, <2>3, WinAssumption DEF Open, OpenConnected, OpenPort, OpenFails, InPlace, WinAssumption
  <2>4. CASE Close("closePort", "idle") \/ Close("delete", "destroy")
    BY <2>1, <2>2, <2>4 DEF Close, InPlace
  <2>5. CASE Reset
    BY <2>1, <2>2, <2>5 DEF Reset, InPlace
  <2>9. CASE Flush
    BY <2>1, <2>2, <2>9, WinAssumption DEF Flush, InPlace, WinAssumption
  <2>6. CASE Unprepare
    BY <1>2, <2>1, <2>2, <2>6 DEF Unprepare, InPlace, Holding
  <2>7. CASE UnprepareFails
    BY <2>1, <2>2, <2>7 DEF UnprepareFails, InPlace
  <2>8. CASE Destroy
    BY <2>1, <2>2, <2>8 DEF Destroy, InPlace
  <2> QED
    BY <2>3, <2>4, <2>5, <2>6, <2>7, <2>8, <2>9
<1> QED
  BY <1>3, <1>4, <1>5, <1>8, <1>9 DEF Typed

\* The callback.
LEMMA CallbackTyped == Typed /\ fault = "none" /\ CallbackStep => Typed'
<1> SUFFICES ASSUME Typed, fault = "none", CallbackStep PROVE Typed'
  OBVIOUS
<1>1. CASE TailStep /\ UNCHANGED winVars
  <2>1. InTypes' /\ InRing'
    BY <1>1, TailTypes, TailQueue DEF Typed
  <2>2. UNCHANGED <<callVars, connected, failed, consumed>> /\ tail # "none"
    BY <1>1 DEF TailStep, streamVars, TestCallback, CallUser, TestRoom, StoreMessage,
                LoadSize, StoreSize, TailGoes
  <2>3. InPlace'
    BY <1>1, <2>2 DEF Typed, InPlace, callVars, winVars
  <2>4. TypeOK'
    <3>1. ApiTypeOK(WinPlaces)'
      BY <2>2 DEF Typed, TypeOK, ApiTypeOK, WinPlaces, callVars
    <3> QED
      BY <1>1, <2>1, <3>1 DEF Typed, TypeOK, InTypes, WinPlaces, winVars
  <2> QED
    BY <2>1, <2>2, <2>3, <2>4 DEF Typed, callVars
<1>2. ASSUME ~(TailStep /\ UNCHANGED winVars)
      PROVE  Typed'
  <2>1. /\ UNCHANGED <<callVars, connected, fault, callbackVars, queueVars, waits,
                       started, locked, freed>>
        /\ \/ \E c \in ToSet(emitted) : Short(c) \/ Long(c) \/ LongError(c) \/ NoBuffer(c)
           \/ EmptyBuffer \/ LeaveEmpty \/ GiveBack \/ Clear
    BY <1>2 DEF CallbackStep
  <2>2. /\ failed' = failed \/ \E what \in Fails : failed' = failed \cup {what}
        /\ "requeue" \notin failed' => "requeue" \notin failed
    BY <2>1 DEF Short, Long, LongError, NoBuffer, EmptyBuffer, LeaveEmpty, GiveBack, Clear, Fail
  <2>3. /\ message \in Message /\ queued \in 0 .. Buffers
        /\ ignore \subseteq Flags /\ todo \in Seq(Flags) /\ retyped \in BOOLEAN
        /\ emitted \in Seq(Chunk) /\ consumed \in Seq(Chunk)
        /\ InParts(emitted) /\ InParts(consumed)
        /\ InPlace
    BY DEF Typed, TypeOK, InTypes, InTypeOK
  <2>4. ASSUME NEW c, Short(c) \/ Long(c) \/ LongError(c) \/ NoBuffer(c)
        PROVE  /\ wpc = "none" /\ started
               /\ c \in Chunk /\ consumed' = Append(consumed, c)
               /\ consumed' \in Seq(Chunk) /\ InParts(consumed') /\ emitted' = emitted
               /\ ignore' = ignore /\ todo' = todo /\ retyped' \in BOOLEAN
    BY <2>3, <2>4, TakeTypes DEF Short, Long, LongError, NoBuffer, Arrives, Consume, Typed
  <2>5. /\ ignore' = ignore /\ todo' = todo /\ retyped' \in BOOLEAN
        /\ emitted' = emitted /\ consumed' \in Seq(Chunk) /\ InParts(consumed')
    <3>1. CASE EmptyBuffer \/ LeaveEmpty \/ GiveBack \/ Clear
      BY <2>3, <3>1 DEF EmptyBuffer, LeaveEmpty, GiveBack, Clear, ignoreVars, streamVars
    <3> QED
      BY <2>1, <2>4, <3>1
  <2>6. /\ message' \in Message
        /\ queued' \in 0 .. Buffers
        /\ wpc' \in {"none", "hold", "empty", "hand"}
        /\ handVars' = handVars \/ \E m \in Message : HandOver(m)
        /\ tail' # "none" => wpc' = "hand"
        /\ tail' = tail \/ (tail = "none" /\ tail' = "test")
        /\ wpc' = "hold" => queued' < Buffers /\ consumed' # <<>>
        /\ wpc' = "hold" => connected
        /\ started /\ "requeue" \notin failed' =>
               queued' = IF wpc' = "hold" THEN Buffers - 1 ELSE Buffers
    <3> DEFINE Goal == /\ message' \in Message
                       /\ queued' \in 0 .. Buffers
                       /\ wpc' \in {"none", "hold", "empty", "hand"}
                       /\ handVars' = handVars \/ \E m \in Message : HandOver(m)
                       /\ tail' # "none" => wpc' = "hand"
                       /\ tail' = tail \/ (tail = "none" /\ tail' = "test")
                       /\ wpc' = "hold" => queued' < Buffers /\ consumed' # <<>>
                       /\ wpc' = "hold" => connected
                       /\ started /\ "requeue" \notin failed' =>
                              queued' = IF wpc' = "hold" THEN Buffers - 1 ELSE Buffers
    <3> USE WinAssumption DEF WinAssumption
    <3>1. ASSUME NEW c, Short(c) \/ Long(c) \/ LongError(c) \/ NoBuffer(c) PROVE Goal
      <4>1. /\ wpc = "none" /\ started /\ c \in Chunk
            /\ consumed' = Append(consumed, c) /\ consumed' # <<>>
        BY <2>3, <2>4, <3>1
      <4>2. tail = "none" /\ connected
            /\ ("requeue" \notin failed' => queued = Buffers)
        BY <2>2, <2>3, <4>1 DEF InPlace
      <4>3. Append(message, c) \in Message
        BY <2>3, <4>1 DEF Message
      <4>4. CASE Short(c)
        <5>1. CASE Wanted(c)
          <6>1. message' = Append(message, c) /\ wpc' = "hand" /\ queued' = queued
                /\ HandOver(message')
            BY <4>4, <5>1 DEF Short
          <6> QED
            BY <2>3, <4>2, <4>3, <6>1 DEF HandOver
        <5>2. CASE ~Wanted(c)
          <6>1. message' = message /\ wpc' = wpc /\ queued' = queued /\ handVars' = handVars
            BY <4>4, <5>2 DEF Short, HandNothing
          <6> QED
            BY <2>3, <4>1, <4>2, <6>1 DEF handVars
        <5> QED
          BY <5>1, <5>2
      <4>5. CASE Long(c) \/ LongError(c)
        <5>1. /\ queued' = queued - 1 /\ queued > 0 /\ wpc' = "hold" /\ handVars' = handVars
              /\ message' \in {message, Append(message, c)}
          BY <4>5 DEF Long, LongError, HandNothing
        <5>2. message' \in Message
          BY <2>3, <4>3, <5>1
        <5>3. /\ queued' \in 0 .. Buffers /\ queued' < Buffers
              /\ "requeue" \notin failed' => queued' = Buffers - 1
          BY <2>3, <4>2, <5>1
        <5>4. tail' = tail
          BY <5>1 DEF handVars
        <5> QED
          BY <4>1, <4>2, <5>1, <5>2, <5>3, <5>4
      <4>6. CASE NoBuffer(c)
        <5>1. /\ queued' = queued /\ wpc' = wpc /\ message' = message /\ handVars' = handVars
          BY <4>6 DEF NoBuffer, HandNothing
        <5> QED
          BY <2>3, <4>1, <4>2, <5>1 DEF handVars
      <4> QED
        BY <3>1, <4>4, <4>5, <4>6
    <3>2. CASE GiveBack
      <4>1. /\ wpc = "hold" /\ message' = message /\ consumed' = consumed
            /\ queued' = queued + 1 \/ (queued' = queued /\ "requeue" \in failed')
            /\ \/ wpc' = "none" /\ handVars' = handVars
               \/ wpc' = "hand" /\ HandOver(message)
        BY <3>2 DEF GiveBack, HandNothing, streamVars, Fail
      <4>2. tail = "none" /\ queued < Buffers
            /\ (started /\ "requeue" \notin failed' => queued = Buffers - 1)
        BY <2>2, <2>3, <4>1 DEF InPlace
      <4> QED
        BY <2>3, <4>1, <4>2 DEF handVars, HandOver
    <3>3. CASE Clear
      <4>1. /\ wpc = "hand" /\ tail = "none" /\ wpc' = "none" /\ message' = <<>>
            /\ queued' = queued /\ handVars' = handVars
        BY <3>3 DEF Clear, HandNothing, NoMessage
      <4>2. message' \in Message
        BY <4>1 DEF Message
      <4>3. started /\ "requeue" \notin failed' => queued = Buffers
        BY <2>2, <2>3, <4>1 DEF InPlace
      <4> QED
        BY <2>3, <4>1, <4>2, <4>3 DEF handVars
    <3>4. CASE EmptyBuffer
      <4>1. /\ upc = "flush" /\ wpc = "none" /\ queued > 0 /\ queued' = queued - 1
            /\ wpc' = "empty" /\ message' = message /\ handVars' = handVars
        BY <3>4 DEF EmptyBuffer, HandNothing
      <4>2. tail = "none" /\ ~started
        BY <2>3, <4>1 DEF InPlace
      <4> QED
        BY <2>3, <4>1, <4>2 DEF handVars
    <3>5. CASE LeaveEmpty
      <4>1. /\ wpc = "empty" /\ queued' = queued
            /\ wpc' = "none" /\ message' = message /\ handVars' = handVars
        BY <3>5 DEF LeaveEmpty, HandNothing
      <4>2. tail = "none"
        BY <2>3, <4>1 DEF InPlace
      <4>3. started /\ "requeue" \notin failed' => queued = Buffers
        BY <2>2, <2>3, <4>1 DEF InPlace
      <4> QED
        BY <2>3, <4>1, <4>2, <4>3 DEF handVars
    <3> QED
      BY <2>1, <3>1, <3>2, <3>3, <3>4, <3>5
  <2>7. InTypes'
    BY <2>1, <2>3, <2>5, <2>6, RestTypes DEF Typed, callVars
  <2>8. InRing'
    <3>1. Getting' = Getting
      BY <2>1 DEF callVars, Getting
    <3>2. Putting' = Putting
      BY <2>6 DEF Putting
    <3> QED
      BY <2>1, <3>1, <3>2, InRingStays DEF Typed
  <2>9. TypeOK'
    <3>1. ApiTypeOK(WinPlaces)'
      BY <2>1, <2>2 DEF Typed, TypeOK, ApiTypeOK, WinPlaces, callVars
    <3> QED
      BY <2>1, <2>6, <2>7, <3>1 DEF Typed, TypeOK, InTypes, WinPlaces
  <2>10. InPlace'
    BY <2>1, <2>3, <2>6 DEF InPlace, callVars
  <2> QED
    BY <2>1, <2>7, <2>8, <2>9, <2>10 DEF Typed, callVars
<1> QED
  BY <1>1, <1>2

\* Every step keeps types and queue; a model that has stopped takes none.
LEMMA NextTyped == Typed /\ [Next]_vars => Typed'
<1> SUFFICES ASSUME Typed, [Next]_vars PROVE Typed'
  OBVIOUS
<1>1. CASE fault = "none" /\ UserStep
  BY <1>1, InCallTyped, PortTyped DEF UserStep
<1>2. CASE fault = "none" /\ CallbackStep
  BY <1>2, CallbackTyped
<1>3. CASE DeviceStep \/ UNCHANGED vars
  <2>1. UNCHANGED <<callVars, connected, failed, fault, callbackVars, queueVars,
                    ignoreVars, handVars, consumed, winVars>>
    BY <1>3 DEF DeviceStep, Emit, vars, apiVars, inVars, streamVars
  <2>2. emitted' \in Seq(Chunk) /\ InParts(emitted')
    BY <1>3, EmitTypes DEF DeviceStep, vars, inVars, streamVars, Typed, InTypes, InTypeOK
  <2>3. InTypes'
    <3>1. /\ ignore \subseteq Flags /\ todo \in Seq(Flags) /\ retyped \in BOOLEAN
          /\ consumed \in Seq(Chunk) /\ InParts(consumed)
      BY DEF Typed, InTypes, InTypeOK
    <3> QED
      BY <2>1, <2>2, <3>1, RestTypes DEF Typed, callVars, ignoreVars, InParts
  <2>4. InRing'
    BY <2>1, InRingStays DEF Typed, callVars, handVars, Getting, Putting
  <2>5. TypeOK'
    <3>1. ApiTypeOK(WinPlaces)'
      BY <2>1 DEF Typed, TypeOK, ApiTypeOK, WinPlaces, callVars
    <3> QED
      BY <2>1, <2>3, <3>1 DEF Typed, TypeOK, InTypes, WinPlaces, winVars
  <2>6. InPlace'
    BY <2>1 DEF Typed, InPlace, callVars, handVars, winVars
  <2> QED
    BY <2>1, <2>3, <2>4, <2>5, <2>6 DEF Typed, callVars
<1> QED
  BY <1>1, <1>2, <1>3 DEF Next

\* Types and queue always hold.
LEMMA AlwaysTyped == Spec => []Typed
BY InitTyped, NextTyped, PTL DEF Spec

\* TypeOK, and with it that size never exceeds the ring, whatever getMessage and
\* the callback overwrite.
THEOREM WinTypeCorrect == Spec => []TypeOK
<1>1. Typed => TypeOK
  BY DEF Typed
<1> QED
  BY <1>1, AlwaysTyped, PTL

\* For a ring of any size: until an update of queue.size is overwritten, getMessage
\* returns what the callback put in, in that order, and the rest is in the ring.
THEOREM WinQueueExact == Spec => []QueueExact
<1>1. Typed => QueueExact
  BY InRingExact DEF Typed
<1> QED
  BY <1>1, AlwaysTyped, PTL

-----------------------------------------------------------------------------
(* What the callback hands over. *)

\* the chunks of s, each as a message of its own
Singles(s) == [i \in DOMAIN s |-> <<s[i]>>]

\* what OneBufferEach assumes
Sound == ~retyped /\ failed \cap {"damaged", "requeue"} = {}

\* Until the types change under way, or Windows damages or refuses a buffer: the
\* message is empty between two callbacks, and a buffer the callback holds is for
\* a message that the program wants, or its content was not copied.
Faithful ==
    Sound =>
        /\ consumed # <<>> => upc # "ignore"
        /\ wpc \in {"none", "empty"} => message = <<>>
        /\ wpc = "hold" /\ "sysex" \in ignore => message = <<>>
        /\ handed \o (IF wpc = "hold" /\ "sysex" \notin ignore
                      THEN <<message>> ELSE <<>>)
               = Singles(Unignored(consumed, ignore))

\* One more chunk is one more message.
LEMMA SinglesAppend ==
    ASSUME NEW s \in Seq(Chunk), NEW c \in Chunk
    PROVE  /\ Singles(s) \in Seq(Message)
           /\ Singles(Append(s, c)) = Append(Singles(s), <<c>>)
<1>1. Singles(s) \in Seq(Message) /\ Len(Singles(s)) = Len(s)
  <2>1. \A i \in 1 .. Len(s) : <<s[i]>> \in Message
    BY DEF Message
  <2>2. Singles(s) = [i \in 1 .. Len(s) |-> <<s[i]>>]
    BY DEF Singles
  <2> QED
    BY <2>1, <2>2
<1>2. Append(s, c) \in Seq(Chunk) /\ Len(Append(s, c)) = Len(s) + 1
  OBVIOUS
<1>3. Singles(Append(s, c)) \in Seq(Message) /\ Len(Singles(Append(s, c))) = Len(s) + 1
  <2> DEFINE t == Append(s, c)
  <2>1. \A i \in 1 .. Len(t) : <<t[i]>> \in Message
    BY <1>2 DEF Message
  <2>2. Singles(t) = [i \in 1 .. Len(t) |-> <<t[i]>>]
    BY <1>2 DEF Singles
  <2> HIDE DEF t
  <2>3. Len(t) = Len(s) + 1
    BY <1>2 DEF t
  <2>4. Singles(t) \in Seq(Message) /\ Len(Singles(t)) = Len(s) + 1
    BY <2>1, <2>2, <2>3
  <2> QED
    BY <2>4 DEF t
<1>4. Append(Singles(s), <<c>>) \in Seq(Message)
      /\ Len(Append(Singles(s), <<c>>)) = Len(s) + 1
  BY <1>1 DEF Message
<1>5. ASSUME NEW i \in 1 .. Len(s) + 1
      PROVE  Singles(Append(s, c))[i] = Append(Singles(s), <<c>>)[i]
  <2>1. Singles(Append(s, c))[i] = <<Append(s, c)[i]>>
    BY <1>2 DEF Singles
  <2>2. CASE i = Len(s) + 1
    BY <1>1, <2>1, <2>2
  <2>3. CASE i # Len(s) + 1
    <3>1. i \in 1 .. Len(s) /\ Append(s, c)[i] = s[i]
      BY <2>3
    <3>2. Singles(s)[i] = <<s[i]>>
      BY <3>1 DEF Singles
    <3> QED
      BY <1>1, <2>1, <3>1, <3>2
  <2> QED
    BY <2>2, <2>3
<1> QED
  BY <1>1, <1>3, <1>4, <1>5, SeqEqual

\* No chunks make no messages.
LEMMA SinglesNone == Singles(<<>>) = <<>>
BY DEF Singles

\* At the start nothing was taken and nothing handed over.
LEMMA InitFaithful == Init => Faithful
<1> SUFFICES ASSUME Init PROVE Faithful
  OBVIOUS
<1>1. /\ consumed = <<>> /\ handed = <<>> /\ wpc = "none" /\ message = <<>>
  BY DEF Init, InInit, NoMessage
<1>2. Singles(Unignored(consumed, ignore)) = <<>>
  BY <1>1, UnignoredNone, SinglesNone
<1> QED
  BY <1>1, <1>2 DEF Faithful

\* A step that neither begins nor ends a callback nor touches the flags.
LEMMA ElseFaithful ==
    ASSUME Faithful, UNCHANGED <<ignore, retyped, consumed, handed, message, wpc>>,
           failed \subseteq failed', upc' = "ignore" => upc = "ignore"
    PROVE  Faithful'
<1>1. Sound' => Sound
  BY DEF Sound
<1> QED
  BY <1>1 DEF Faithful

\* The flags change before the first message comes, or Sound is over.
LEMMA InCallFaithful == Typed /\ Faithful /\ InCall /\ UNCHANGED winVars => Faithful'
<1> SUFFICES ASSUME Typed, Faithful, InCall, UNCHANGED winVars PROVE Faithful'
  OBVIOUS
<1>1. UNCHANGED <<failed, consumed, handed, message, wpc>>
  BY DEF InCall, streamVars, handVars, winVars
<1>2. CASE UNCHANGED <<ignore, retyped>> /\ (upc' = "ignore" => upc = "ignore")
  BY <1>1, <1>2, ElseFaithful
<1>3. CASE IgnoreTypes \/ IgnoreFlag
  <2> SUFFICES ASSUME Sound' PROVE Faithful'
    BY DEF Faithful
  <2>1. Sound
    <3>1. retyped => retyped'
      BY <1>3 DEF IgnoreTypes, IgnoreFlag
    <3> QED
      BY <1>1, <3>1 DEF Sound
  <2>2. consumed = <<>>
    BY <1>1, <1>3, <2>1 DEF Sound, Faithful, IgnoreTypes, IgnoreFlag, Continue
  <2>3. wpc # "hold"
    BY <2>2 DEF Typed, InPlace
  <2>4. Unignored(consumed, ignore) = Unignored(consumed, ignore')
    BY <2>2, UnignoredNone
  <2> QED
    BY <1>1, <2>1, <2>2, <2>3, <2>4 DEF Faithful
<1> QED
  BY <1>2, <1>3 DEF InCall, SetCallback, CancelFunction, CancelUsing, GetNothing, GetMessage,
     GetLoad, GetStore, Begin, Call, Continue, ignoreVars

\* The callback takes a chunk.
LEMMA ArrivesFaithful ==
    ASSUME Typed, Faithful, upc' = upc, fault = "none",
           NEW c, Short(c) \/ Long(c) \/ LongError(c) \/ NoBuffer(c)
    PROVE  Faithful'
<1> SUFFICES ASSUME Sound' PROVE Faithful'
  BY DEF Faithful
<1>1. wpc = "none" /\ started /\ Pending # <<>> /\ c = Head(Pending) /\ Consume(<<c>>)
  BY DEF Short, Long, LongError, NoBuffer, Arrives
<1>2. /\ consumed \in Seq(Chunk) /\ c \in Chunk /\ consumed' = Append(consumed, c)
      /\ ignore' = ignore /\ retyped' = (retyped \/ upc = "ignore")
  BY <1>1, TakeTypes DEF Typed, InTypes, InTypeOK, Consume
<1>3. failed \subseteq failed'
  BY DEF Short, Long, LongError, NoBuffer, Fail
<1>4. Sound /\ upc # "ignore"
  BY <1>2, <1>3 DEF Sound
<1>5. message = <<>> /\ handed \in Seq(Message)
  BY <1>1, <1>4 DEF Faithful, Typed, InTypes, InTypeOK
<1>6. handed = Singles(Unignored(consumed, ignore))
  BY <1>1, <1>4, <1>5 DEF Faithful
<1>7. Singles(Unignored(consumed', ignore'))
          = IF Wanted(c) THEN Append(handed, <<c>>) ELSE handed
  BY <1>2, <1>6, UnignoredAppend, SinglesAppend DEF Wanted
<1>8. Append(handed, <<c>>) = handed \o <<<<c>>>> /\ Append(message, c) = <<c>>
  BY <1>2, <1>5 DEF Message
<1>9. handed \o <<>> = handed
  BY <1>5
<1>10. queued # 0
  <2>1. "requeue" \notin failed
    BY <1>4 DEF Sound
  <2> QED
    BY <1>1, <2>1, WinAssumption DEF Typed, InPlace, WinAssumption
<1>11. CASE Short(c)
  <2>1. IF Wanted(c) THEN wpc' = "hand" /\ handed' = Append(handed, Append(message, c))
                     ELSE wpc' = "none" /\ handed' = handed /\ message' = message
    BY <1>1, <1>11 DEF Short, HandOver, HandNothing, handVars
  <2>2. wpc' \in {"hand", "none"} /\ (wpc' = "none" => message' = <<>>)
        /\ handed' = IF Wanted(c) THEN Append(handed, <<c>>) ELSE handed
    BY <1>5, <1>8, <2>1
  <2>3. handed' \o <<>> = handed'
    BY <1>8, <1>9, <2>2, <1>2, <1>5 DEF Message
  <2> QED
    BY <1>4, <1>7, <2>2, <2>3 DEF Faithful
<1>12. CASE Long(c)
  <2>1. /\ wpc' = "hold" /\ handed' = handed /\ c.kind = "sysex"
        /\ message' = IF Wanted(c) THEN <<c>> ELSE <<>>
    BY <1>5, <1>8, <1>12 DEF Long, HandNothing, handVars
  <2>2. Wanted(c) <=> "sysex" \notin ignore'
    BY <1>2, <2>1 DEF Wanted
  <2> QED
    BY <1>4, <1>7, <1>8, <1>9, <2>1, <2>2 DEF Faithful
<1>13. CASE LongError(c)
  BY <1>13 DEF LongError, Fail, Sound
<1>14. CASE NoBuffer(c)
  BY <1>10, <1>14 DEF NoBuffer
<1> QED
  BY <1>11, <1>12, <1>13, <1>14

\* It gives a buffer back, and clears the message when it was handed over.
LEMMA GiveBackFaithful == Typed /\ Faithful /\ GiveBack /\ upc' = upc => Faithful'
<1> SUFFICES ASSUME Typed, Faithful, GiveBack, upc' = upc, Sound' PROVE Faithful'
  BY DEF Faithful
<1>1. /\ UNCHANGED <<message, ignore, consumed>> /\ wpc = "hold"
      /\ IF "sysex" \in ignore THEN wpc' = "none" /\ handed' = handed
                               ELSE wpc' = "hand" /\ handed' = Append(handed, message)
      /\ retyped' = (retyped \/ upc = "ignore") /\ failed \subseteq failed'
  BY DEF GiveBack, HandNothing, HandOver, handVars, streamVars, Fail
<1>2. Sound
  BY <1>1 DEF Sound
<1>3. handed \in Seq(Message) /\ message \in Message
  BY DEF Typed, TypeOK, InTypeOK
<1>4. handed' = handed \o (IF "sysex" \notin ignore THEN <<message>> ELSE <<>>)
      /\ handed' \o <<>> = handed'
  BY <1>1, <1>3
<1> QED
  BY <1>1, <1>2, <1>4 DEF Faithful

\* A message that was handed over or ignored is cleared.
LEMMA ClearFaithful == Faithful /\ Clear /\ upc' = upc => Faithful'
<1> SUFFICES ASSUME Faithful, Clear, upc' = upc, Sound' PROVE Faithful'
  BY DEF Faithful
<1>1. /\ UNCHANGED <<ignore, consumed, handed, failed, retyped>>
      /\ wpc = "hand" /\ wpc' = "none" /\ message' = <<>>
  BY DEF Clear, HandNothing, handVars, streamVars, ignoreVars, NoMessage
<1> QED
  BY <1>1 DEF Faithful, Sound

\* An empty buffer leaves the message as it is.
LEMMA EmptyFaithful ==
    Faithful /\ (EmptyBuffer \/ LeaveEmpty) /\ upc' = upc => Faithful'
<1> SUFFICES ASSUME Faithful, EmptyBuffer \/ LeaveEmpty, upc' = upc, Sound'
             PROVE  Faithful'
  BY DEF Faithful
<1>1. /\ UNCHANGED <<ignore, consumed, handed, failed, retyped, message>>
      /\ wpc \in {"none", "empty"} /\ wpc' \in {"none", "empty"}
  BY DEF EmptyBuffer, LeaveEmpty, HandNothing, handVars, streamVars, ignoreVars
<1> QED
  BY <1>1 DEF Faithful, Sound

\* Every step keeps what was handed over faithful.
LEMMA NextFaithful == Typed /\ Faithful /\ [Next]_vars => Faithful'
<1> SUFFICES ASSUME Typed, Faithful, [Next]_vars PROVE Faithful'
  OBVIOUS
<1>1. CASE fault = "none" /\ UserStep
  <2>1. CASE InCall /\ UNCHANGED winVars
    BY <2>1, InCallFaithful
  <2>2. CASE ~(InCall /\ UNCHANGED winVars)
    <3>1. UNCHANGED <<ignore, retyped, consumed, handed, message>>
      BY <1>1, <2>2 DEF UserStep, inVars, ignoreVars, streamVars, handVars
    <3>2. wpc' = wpc /\ failed \subseteq failed'
      BY <1>1, <2>2 DEF UserStep, Open, OpenConnected, OpenPort, OpenFails, Close, Reset, Flush,
         Unprepare, UnprepareFails, Destroy, Fail
    <3>3. after \in {"idle", "destroy"}
      BY DEF Typed
    <3>4. upc' # "ignore"
      BY <1>1, <2>2, <3>3 DEF UserStep, Open, OpenConnected, OpenPort, OpenFails, Close, Reset, Flush,
         Unprepare, UnprepareFails, Destroy, Begin, Call, Continue
    <3> QED
      BY <3>1, <3>2, <3>4, ElseFaithful
  <2> QED
    BY <2>1, <2>2
<1>2. CASE fault = "none" /\ CallbackStep
  <2>1. CASE TailStep /\ UNCHANGED winVars
    <3>1. UNCHANGED <<ignore, retyped, consumed, handed, message, wpc, failed, upc>>
      BY <2>1 DEF TailStep, TestCallback, CallUser, TestRoom, StoreMessage, LoadSize,
         StoreSize, TailGoes, callVars, ignoreVars, streamVars, winVars
    <3> QED
      BY <3>1, ElseFaithful
  <2>2. CASE ~(TailStep /\ UNCHANGED winVars)
    <3>1. upc' = upc
      BY <1>2, <2>2 DEF CallbackStep, callVars
    <3> QED
      BY <1>2, <2>2, <3>1, ArrivesFaithful, EmptyFaithful, GiveBackFaithful,
         ClearFaithful DEF CallbackStep
  <2> QED
    BY <2>1, <2>2
<1>3. CASE DeviceStep \/ UNCHANGED vars
  <2>1. UNCHANGED <<ignore, retyped, consumed, handed, message, wpc, failed, upc>>
    BY <1>3 DEF DeviceStep, Emit, vars, apiVars, callVars, inVars, ignoreVars, streamVars,
       handVars, winVars
  <2> QED
    BY <2>1, ElseFaithful
<1> QED
  BY <1>1, <1>2, <1>3 DEF Next

\* For any number of buffers and any sequence of calls: until the types to ignore
\* change under way, or Windows damages or refuses a buffer, the callback hands over
\* what each buffer held, in order and no other.  That is one MIDI message each, as
\* RtMidi.h says, exactly until a wanted sysex message is longer than a buffer.
THEOREM WinBuffersInOrder == Spec => []OneBufferEach
<1>1. Typed /\ Faithful => OneBufferEach
  <2> SUFFICES ASSUME Typed, Faithful, Sound PROVE OneBufferEach
    BY DEF Sound, OneBufferEach
  <2> DEFINE held == IF wpc = "hold" /\ "sysex" \notin ignore THEN <<message>> ELSE <<>>
             alone(c) == c.first /\ c.last
  <2>1. PICK wanted : wanted = Unignored(consumed, ignore)
    OBVIOUS
  <2>2. handed \in Seq(Message) /\ message \in Message
    BY DEF Typed, TypeOK, InTypeOK
  <2>3. handed \o held = [i \in DOMAIN wanted |-> <<wanted[i]>>]
    BY <2>1 DEF Faithful, Singles
  <2>4. ASSUME NEW i \in DOMAIN handed
        PROVE  i \in DOMAIN wanted /\ handed[i] = <<wanted[i]>>
    <3>1. held \in Seq(Message)
      BY <2>2
    <3>2. i \in DOMAIN (handed \o held) /\ (handed \o held)[i] = handed[i]
      BY <2>2, <3>1
    <3> QED
      BY <2>3, <3>2
  <2>5. (\E i \in DOMAIN wanted : ~alone(wanted[i])) \/ \A i \in DOMAIN handed : Whole(handed[i])
    <3>1. ASSUME NEW c, alone(c) PROVE Whole(<<c>>)
      BY <3>1 DEF Whole, LastOf
    <3> HIDE DEF alone
    <3> QED
      BY <2>4, <3>1
  <2> QED
    BY <2>1, <2>3, <2>5 DEF OneBufferEach
<1>2. Typed /\ Faithful /\ [Next]_vars => Faithful'
  BY NextFaithful
<1> QED
  BY <1>1, <1>2, InitFaithful, AlwaysTyped, PTL DEF Spec
=============================================================================
