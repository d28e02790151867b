-------------------------- MODULE MidiInAlsaProofs --------------------------
(***************************************************************************)
(* Proofs about MidiInAlsa, for any programs, any number of calls, events  *)
(* and bytes in the pipe, and any place of the handler.                    *)
(***************************************************************************)
EXTENDS MidiInAlsa, MidiInApiProofs

\* where a function waits for the handler to end, and is past that
Waiting == {"trigger", "check", "join", "joining"}
Closing == Waiting \cup {"destroy"}

\* While the system gives memory, doInput and the id say where the handler is: it
\* runs with input, or it was told to end and a function waits for it.
Tracked ==
    /\ fault \notin {"two handlers", "used after free"}
    /\ tail # "none" => hpc = "loop"
    /\ hpc = "none" <=> thread # "handler"
    /\ doInput => hpc # "none"
    /\ ~doInput /\ hpc # "none" => upc \in Waiting
    /\ ~doInput /\ hpc # "none" /\ upc = "joining" => joining = "handler"

\* While it gives threads, too, every id means something.
Named ==
    /\ fault # "joined nothing"
    /\ thread # "junk"
    /\ upc = "joining" => joining # "junk"

\* The invariant.
IInv ==
    /\ CallbackSafe
    /\ after \in {"idle", "destroy", "startVirtual"}
    /\ upc \in Closing => ~doInput
    /\ "memory" \notin failed => Tracked
    /\ "memory" \notin failed /\ "thread" \notin failed => Named

\* The invariant holds at the start.
LEMMA InitIInv == Init => IInv
BY DEF Init, ApiInit, InInit, AlsaInit, IInv, CallbackSafe, Tracked, Named, Closing,
       Waiting

-----------------------------------------------------------------------------
\* What the handler's state, as the invariant sees it, consists of.
handler == <<doInput, thread, joining, hpc, tail>>

\* A step that leaves the handler alone and waits for nothing keeps the invariant.
LEMMA AloneKeeps ==
    ASSUME IInv, CallbackSafe', UNCHANGED handler, failed \subseteq failed',
           fault' = fault \/ fault' = "null callback",
           after' \in {"idle", "destroy", "startVirtual"},
           upc \notin Waiting, upc' \in Closing => ~doInput, upc' # "joining"
    PROVE  IInv'
<1>1. "memory" \notin failed' => Tracked'
  BY DEF IInv, Tracked, handler
<1>2. "memory" \notin failed' /\ "thread" \notin failed' => Named'
  BY DEF IInv, Named, handler
<1> QED
  BY <1>1, <1>2 DEF IInv, handler

\* The functions every platform has leave it alone.
LEMMA InCallKeeps == IInv /\ InCall /\ UNCHANGED alsaVars => IInv'
<1> SUFFICES ASSUME IInv, InCall, UNCHANGED alsaVars PROVE IInv'
  OBVIOUS
<1>1. CallbackSafe'
  BY InCallSafe DEF IInv
<1>2. UNCHANGED <<after, failed, fault>> /\ UNCHANGED handler
  BY DEF InCall, alsaVars, handVars, handler
<1>3. {upc, upc'} \subseteq {"idle", "cancel", "ignore", "load", "store"}
  BY DEF InCall, SetCallback, CancelFunction, CancelUsing, IgnoreTypes, IgnoreFlag,
         GetNothing, GetMessage, GetLoad, GetStore, Begin, Call, Continue
<1> QED
  BY <1>1, <1>2, <1>3, AloneKeeps DEF IInv, Closing, Waiting

\* A function of the port itself does not touch the callback.
LEMMA PortSafe ==
    ASSUME CallbackSafe, UNCHANGED inVars, program' = program, upc' # "cancel",
           fault' = "null callback" => fault = "null callback"
    PROVE  CallbackSafe'
<1>1. UNCHANGED <<using, function, tail>>
  BY DEF inVars, callbackVars, handVars
<1> QED
  BY <1>1, RestSafe

\* Opening a port is calling the system, until the handler is started.
LEMMA OpenKeeps == IInv /\ Open /\ UNCHANGED inVars => IInv'
<1> SUFFICES ASSUME IInv, Open, UNCHANGED inVars PROVE IInv'
  OBVIOUS
<1> USE DEF Begin, Call
<1>1. program' = program /\ upc = "idle"
  BY DEF Open, OpenConnected, OpenPort, OpenFails, OpenVirtual, OpenVirtualFails
<1>2. upc' \in {"idle", "startPort", "check"} /\ (upc' = "check" => ~doInput)
  BY DEF Open, OpenConnected, OpenPort, OpenFails, OpenVirtual, OpenVirtualFails
<1>3. failed \subseteq failed' /\ after' \in {"idle", "destroy", "startVirtual"}
  BY DEF Open, OpenConnected, OpenPort, OpenFails, OpenVirtual, OpenVirtualFails,
         Fail, IInv
<1>4. fault' = fault /\ UNCHANGED handler
  BY DEF Open, threadVars, inVars, handVars, handler
<1>5. CallbackSafe'
  BY <1>1, <1>2, <1>4, PortSafe DEF IInv
<1> QED
  BY <1>1, <1>2, <1>3, <1>4, <1>5, AloneKeeps DEF Closing, Waiting

\* A handler is started only when there is none.
LEMMA StartKeeps == IInv /\ Start /\ UNCHANGED inVars => IInv'
<1> SUFFICES ASSUME IInv, UNCHANGED inVars,
                    NEW from \in {"startPort", "startVirtual"},
                    UNCHANGED <<after, joining>>,
                    StartHandler(from) \/ StartFails(from)
             PROVE  IInv'
  BY DEF Start
<1>1. program' = program /\ upc = from /\ upc' = "idle" /\ tail' = tail
  BY DEF StartHandler, StartFails, Continue, inVars, handVars
<1>2. fault' \in {fault, "two handlers"} /\ failed \subseteq failed'
  BY DEF StartHandler, StartFails, Fail
<1>3. CallbackSafe'
  BY <1>1, <1>2, PortSafe DEF IInv
<1>4. "memory" \notin failed' => Tracked'
  <2> SUFFICES ASSUME "memory" \notin failed' PROVE Tracked'
    OBVIOUS
  <2>1. Tracked /\ upc \notin Waiting
    BY <1>1, <1>2 DEF IInv, Waiting
  <2>2. CASE StartHandler(from)
    BY <1>1, <2>1, <2>2 DEF StartHandler, Tracked
  <2>3. CASE StartFails(from)
    BY <1>1, <2>1, <2>3 DEF StartFails, Tracked
  <2> QED
    BY <2>2, <2>3
<1>5. "memory" \notin failed' /\ "thread" \notin failed' => Named'
  BY <1>1, <1>2 DEF StartHandler, StartFails, Fail, IInv, Named
<1> QED
  BY <1>1, <1>3, <1>4, <1>5 DEF IInv, Closing, Waiting

-----------------------------------------------------------------------------
\* closePort leaves only when the handler has ended.
LEMMA ShutKeeps == IInv /\ Shut /\ UNCHANGED inVars => IInv'
<1> SUFFICES ASSUME IInv, Shut, UNCHANGED inVars PROVE IInv'
  OBVIOUS
<1> USE DEF Begin, Continue
<1>1. program' = program /\ upc' # "cancel" /\ after' \in {"idle", "destroy", "startVirtual"}
  BY DEF Shut, Close, Trigger, CheckThread, Join, Joined, Destroy, IInv
<1>2. fault' \in {fault, "joined nothing", "used after free"} /\ failed' = failed
  BY DEF Shut, Close, Trigger, CheckThread, Join, Joined, Destroy
<1>3. CallbackSafe'
  BY <1>1, <1>2, PortSafe DEF IInv
<1>4. upc' \in Closing => ~doInput'
  BY DEF Shut, Close, Trigger, CheckThread, Join, Joined, Destroy, IInv, Closing,
         Waiting, threadVars
<1>5. tail' = tail
  BY DEF inVars, handVars
<1>6. "memory" \notin failed => Tracked'
  <2> SUFFICES ASSUME "memory" \notin failed PROVE Tracked'
    OBVIOUS
  <2>1. Tracked /\ (upc \in Closing => ~doInput) /\ after \in {"idle", "destroy", "startVirtual"}
    BY DEF IInv
  <2> USE <1>5, <2>1 DEF Tracked, Waiting, Closing, threadVars
  <2>2. CASE Close("closePort", "idle") \/ Close("delete", "destroy")
    BY <2>2 DEF Close
  <2>3. CASE Trigger
    BY <2>3 DEF Trigger
  <2>4. CASE CheckThread
    BY <2>4 DEF CheckThread
  <2>5. CASE Join
    BY <2>5 DEF Join
  <2>6. CASE Joined
    BY <2>6 DEF Joined
  <2>7. CASE Destroy
    BY <2>7 DEF Destroy
  <2> QED
    BY <2>2, <2>3, <2>4, <2>5, <2>6, <2>7 DEF Shut
<1>7. "memory" \notin failed /\ "thread" \notin failed => Named'
  <2> SUFFICES ASSUME Tracked, Named PROVE Named'
    BY DEF IInv
  <2> USE DEF Named, threadVars
  <2>1. CASE Close("closePort", "idle") \/ Close("delete", "destroy")
    BY <2>1 DEF Close
  <2>2. CASE Trigger \/ CheckThread \/ Join \/ Destroy
    BY <2>2 DEF Trigger, CheckThread, Join, Destroy, IInv
  <2>3. CASE Joined
    BY <2>3 DEF Joined, Tracked, IInv
  <2> QED
    BY <2>1, <2>2, <2>3 DEF Shut
<1> QED
  BY <1>1, <1>2, <1>3, <1>4, <1>6, <1>7 DEF IInv

-----------------------------------------------------------------------------
\* The handler resets its id when it ends, and hands a message over between two
\* events.
LEMMA HandlerKeeps == IInv /\ HandlerStep => IInv'
<1> SUFFICES ASSUME IInv, HandlerStep PROVE IInv'
  OBVIOUS
<1>1. CASE TailStep /\ UNCHANGED alsaVars
  <2>1. CallbackSafe' /\ (fault' = fault \/ fault' = "null callback")
    BY <1>1, TailSafe DEF IInv
  <2>2. UNCHANGED <<upc, after, failed, doInput, thread, joining, hpc>>
    BY <1>1 DEF TailStep, callVars, alsaVars
  <2>3. tail # "none"
    BY <1>1 DEF TailStep, TestCallback, CallUser, TestRoom, StoreMessage, LoadSize,
                StoreSize, TailGoes
  <2> QED
    BY <2>1, <2>2, <2>3 DEF IInv, Tracked, Named
<1>2. ASSUME ~(TailStep /\ UNCHANGED alsaVars)
      PROVE  IInv'
  <2>1. Prepare \/ PrepareFails \/ TestInput \/ Poll \/ Input \/ Overrun
    BY <1>2 DEF HandlerStep
  <2>2. UNCHANGED <<program, upc, after, fault, using, function, joining>>
    BY <1>2 DEF HandlerStep, callVars, callbackVars
  <2>3. tail' = "call" => tail = "call"
    BY <2>1 DEF Prepare, PrepareFails, TestInput, Poll, Input, Overrun, HandOver, HandNothing,
                handVars
  <2>4. CallbackSafe'
    BY <2>2, <2>3, RestSafe DEF IInv
  <2>5. failed \subseteq failed' /\ (doInput' => doInput)
    BY <2>1 DEF Prepare, PrepareFails, TestInput, Poll, Input, Overrun, Fail
  <2>6. "memory" \notin failed' => Tracked'
    <3> SUFFICES ASSUME "memory" \notin failed' PROVE Tracked'
      OBVIOUS
    <3>1. Tracked
      BY <2>5 DEF IInv
    <3> USE <2>2, <3>1 DEF Tracked
    <3>2. CASE Prepare
      BY <3>2 DEF Prepare, handVars
    <3>3. CASE PrepareFails
      BY <3>3 DEF PrepareFails, Fail
    <3>4. CASE TestInput
      BY <3>4 DEF TestInput, handVars
    <3>5. CASE Poll
      BY <3>5 DEF Poll, handVars
    <3>6. CASE Input
      <4>1. hpc = "input" /\ hpc' = "loop" /\ thread' = thread
        BY <3>6 DEF Input
      <4>2. doInput' = doInput
        BY <3>6 DEF Input, Fail
      <4> QED
        BY <4>1, <4>2
    <3>7. CASE Overrun
      BY <3>7 DEF Overrun, handVars
    <3> QED
      BY <2>1, <3>2, <3>3, <3>4, <3>5, <3>6, <3>7
  <2>7. thread' \in {thread, "dummy"}
    BY <2>1 DEF Prepare, PrepareFails, TestInput, Poll, Input, Overrun
  <2> QED
    BY <2>2, <2>4, <2>5, <2>6, <2>7 DEF IInv, Named
<1> QED
  BY <1>1, <1>2

\* Every step keeps the invariant.
LEMMA NextKeeps == IInv /\ [Next]_vars => IInv'
<1> SUFFICES ASSUME IInv, [Next]_vars PROVE IInv'
  OBVIOUS
<1>1. CASE UserStep
  BY <1>1, InCallKeeps, OpenKeeps, StartKeeps, ShutKeeps DEF UserStep
<1>2. CASE HandlerStep
  BY <1>2, HandlerKeeps
<1>3. CASE DeviceStep \/ UNCHANGED vars
  <2>1. UNCHANGED <<program, upc, after, failed, fault, using, function, tail,
                    doInput, thread, joining, hpc>>
    BY <1>3 DEF DeviceStep, vars, apiVars, callVars, inVars, callbackVars, handVars,
                alsaVars
  <2> QED
    BY <2>1 DEF IInv, CallbackSafe, Tracked, Named
<1> QED
  BY <1>1, <1>2, <1>3 DEF Next

\* The invariant always holds.
LEMMA AlwaysIInv == Spec => []IInv
<1>1. IInv /\ [Next]_vars => IInv'
  BY NextKeeps
<1> QED
  BY <1>1, InitIInv, PTL DEF Spec

\* For any program and any interleaving with the handler: when closePort has
\* returned, or the object is gone, no handler is left and no message is about to be
\* handed over, as long as the system gives memory.
THEOREM ClosedIsQuiet == Spec => []Quiet
<1>1. IInv => Quiet
  BY DEF IInv, Tracked, Waiting, Quiet
<1> QED
  BY <1>1, AlwaysIInv, PTL

\* Two handlers, a handler of a deleted object and a join of nothing come from
\* memory or threads the system refused, a call of NULL from cancelCallback, and
\* nothing else goes wrong.
THEOREM FaultsHaveCauses == Spec => []FaultHasCause
<1>1. IInv => FaultHasCause
  BY DEF IInv, CallbackSafe, Tracked, Named, FaultHasCause
<1> QED
  BY <1>1, AlwaysIInv, PTL

-----------------------------------------------------------------------------
(* Types, and what the queue holds. *)

\* Types, and where the queue is.
Typed ==
    /\ TypeOK
    /\ InTypes
    /\ after \in {"idle", "destroy", "startVirtual"}
    /\ hpc = "input" => tail = "none"
    /\ InRing

\* What is in the input buffer is the rest of what was sent.
LEMMA ComingIs ==
    ASSUME consumed \in Seq(Chunk), emitted \in Seq(Chunk), lost \in Nat
    PROVE  /\ Coming \in Seq(Chunk)
           /\ \A i \in 1 .. Len(Coming) :
                  /\ Len(consumed) + lost + i \in DOMAIN emitted
                  /\ Coming[i] = emitted[Len(consumed) + lost + i]
<1>1. PICK m, n : m = Len(consumed) + lost + 1 /\ n = Len(emitted)
  OBVIOUS
<1>2. m \in Nat \ {0} /\ n \in Nat /\ Coming = SubSeq(emitted, m, n)
  BY <1>1 DEF Coming
<1>3. Coming \in Seq(Chunk)
  BY <1>1, <1>2, SubSeqProperties
<1>4. ASSUME NEW i \in 1 .. Len(Coming)
      PROVE  m + i - 1 \in 1 .. n /\ Coming[i] = emitted[m + i - 1]
  <2>1. CASE m <= n + 1
    <3>1. Len(Coming) = n - m + 1
      BY <1>1, <1>2, <2>1, SubSeqProperties
    <3>2. Coming[i] = emitted[m + i - 1]
      BY <1>1, <1>2, <2>1, <3>1, SubSeqProperties
    <3> QED
      BY <1>2, <3>1, <3>2
  <2>2. CASE m > n + 1
    <3>1. Coming = <<>>
      BY <1>1, <1>2, <2>2, SubSeqProperties
    <3> QED
      BY <3>1
  <2> QED
    BY <1>2, <2>1, <2>2
<1>5. ASSUME NEW i \in 1 .. Len(Coming)
      PROVE  /\ Len(consumed) + lost + i \in DOMAIN emitted
             /\ Coming[i] = emitted[Len(consumed) + lost + i]
  <2>1. m + i - 1 = Len(consumed) + lost + i
    BY <1>1, <1>3
  <2> QED
    BY <1>1, <1>4, <2>1
<1> QED
  BY <1>3, <1>5

\* A chunk that is taken is one the device sent.
LEMMA TakeComing ==
    ASSUME Typed, Coming # <<>>, NEW c, c = Head(Coming), Consume(<<c>>)
    PROVE  /\ c \in Chunk /\ (c.kind = "sysex" \/ (c.first /\ c.last))
           /\ consumed' = Append(consumed, c)
           /\ consumed' \in Seq(Chunk) /\ InParts(consumed') /\ emitted' = emitted
           /\ Len(consumed) + lost + 1 \in DOMAIN emitted
           /\ c = emitted[Len(consumed) + lost + 1]
<1>1. /\ emitted \in Seq(Chunk) /\ InParts(emitted)
      /\ consumed \in Seq(Chunk) /\ InParts(consumed) /\ lost \in Nat
  BY DEF Typed, TypeOK, InTypes, InTypeOK
<1>2. Len(consumed) + lost + 1 \in DOMAIN emitted /\ c = emitted[Len(consumed) + lost + 1]
  <2>1. Coming \in Seq(Chunk)
    BY <1>1, ComingIs
  <2>2. 1 \in 1 .. Len(Coming) /\ Head(Coming) = Coming[1]
    BY <2>1
  <2> QED
    BY <1>1, <2>2, ComingIs
<1>3. c \in Chunk /\ (c.kind = "sysex" \/ (c.first /\ c.last))
  BY <1>1, <1>2 DEF InParts
<1>4. consumed' = Append(consumed, c) /\ emitted' = emitted
  BY <1>1, <1>3 DEF Consume
<1> QED
  BY <1>1, <1>2, <1>3, <1>4 DEF InParts

\* Types and queue hold at the start.
LEMMA InitTyped == Init => Typed
<1> SUFFICES ASSUME Init PROVE Typed
  OBVIOUS
<1>1. InTypes /\ InRing
  BY InTypesInit, InRingInit DEF Init
<1>2. ApiTypeOK(Places)
  <2>1. "idle" \in Places /\ 0 \in 0 .. MaxCalls
    BY ApiAssumption DEF Places, InPlaces, ApiAssumption
  <2> QED
    BY <2>1 DEF Init, ApiInit, ApiTypeOK
<1>3. message \in Message
  BY DEF Init, AlsaInit, NoMessage, Message
<1> QED
  BY <1>1, <1>2, <1>3 DEF Init, ApiInit, AlsaInit, Typed, TypeOK, InTypes

\* The functions every platform has.
LEMMA InCallTyped == Typed /\ InCall /\ UNCHANGED alsaVars => Typed'
<1> SUFFICES ASSUME Typed, InCall, UNCHANGED alsaVars PROVE Typed'
  OBVIOUS
<1>1. InTypes' /\ InRing'
  BY InCallTypes, InCallQueue DEF Typed
<1>2. UNCHANGED <<after, connected, failed, tail>>
  BY DEF InCall, streamVars, handVars
<1>3. /\ UNCHANGED program
      /\ calls' = calls \/ (calls < MaxCalls /\ calls' = calls + 1)
      /\ upc' \in {"idle", "cancel", "ignore", "load", "store"}
  BY DEF InCall, SetCallback, CancelFunction, CancelUsing, IgnoreTypes, IgnoreFlag,
         GetNothing, GetMessage, GetLoad, GetStore, Begin, Call, Continue
<1>4. ApiTypeOK(Places)
  BY DEF Typed, TypeOK
<1>5. connected \in BOOLEAN /\ after \in Places
  BY <1>4 DEF ApiTypeOK
<1>6. ApiTypeOK(Places)'
  BY <1>2, <1>3, <1>4, <1>5, CallTypes DEF Places, InPlaces
<1>7. TypeOK'
  BY <1>1, <1>6 DEF Typed, TypeOK, InTypes, alsaVars
<1> QED
  BY <1>1, <1>2, <1>7 DEF Typed, alsaVars

\* Opening, starting the handler and closing.
LEMMA PortTyped ==
    ASSUME Typed, fault = "none", UNCHANGED <<inVars, asmVars>>, Open \/ Start \/ Shut
    PROVE  Typed'
<1> USE DEF Begin, Call, Continue
<1> DEFINE Here == {"idle", "startPort", "startVirtual", "trigger", "check", "join",
                    "joining", "destroy", "gone"}
<1>1. UNCHANGED <<callbackVars, queueVars, ignore, todo, retyped, emitted, consumed, handVars>>
  BY DEF inVars, ignoreVars, streamVars
<1>2. after \in {"idle", "destroy", "startVirtual"}
  BY DEF Typed
<1>3. /\ UNCHANGED program
      /\ calls' = calls \/ (calls < MaxCalls /\ calls' = calls + 1)
      /\ upc' \in Here /\ upc \in Here
      /\ after' \in {"idle", "destroy", "startVirtual"}
  <2>1. CASE Open
    BY <1>2, <2>1 DEF Open, OpenConnected, OpenPort, OpenFails, OpenVirtual, OpenVirtualFails
  <2>2. CASE Start
    BY <1>2, <2>2 DEF Start, StartHandler, StartFails
  <2>3. CASE Shut
    BY <1>2, <2>3 DEF Shut, Close, Trigger, CheckThread, Join, Joined, Destroy
  <2> QED
    BY <2>1, <2>2, <2>3
<1>4. InRing'
  <2>1. Getting' = Getting /\ Putting' = Putting
    BY <1>1, <1>3 DEF Getting, Putting, handVars
  <2> QED
    BY <1>1, <2>1, InRingStays DEF Typed
<1>5. InTypes'
  BY <1>1, <1>3, RestTypes DEF Typed, InTypes, InTypeOK
<1>6. /\ connected' \in BOOLEAN /\ vport' \in BOOLEAN /\ link' \in {"none", "own", "other"}
      /\ doInput' \in BOOLEAN /\ foreign' \in BOOLEAN /\ pipe' \in Nat
      /\ thread' \in {"dummy", "handler", "junk"}
      /\ joining' \in {"dummy", "handler", "junk"}
      /\ hpc' \in {hpc, "init"} /\ hpc \in {"none", "init", "loop", "input"}
  <2>1. /\ connected \in BOOLEAN /\ vport \in BOOLEAN /\ link \in {"none", "own", "other"}
        /\ doInput \in BOOLEAN /\ foreign \in BOOLEAN /\ pipe \in Nat
        /\ thread \in {"dummy", "handler", "junk"}
        /\ joining \in {"dummy", "handler", "junk"}
        /\ hpc \in {"none", "init", "loop", "input"}
    BY DEF Typed, TypeOK, ApiTypeOK
  <2>2. CASE Open
    BY <2>1, <2>2 DEF Open, OpenConnected, OpenPort, OpenFails, OpenVirtual,
       OpenVirtualFails, threadVars
  <2>3. CASE Start
    BY <2>1, <2>3 DEF Start, StartHandler, StartFails
  <2>4. CASE Shut
    <3>1. /\ connected' \in {connected, FALSE} /\ vport' \in {vport, FALSE}
          /\ link' \in {link, "none"} /\ doInput' \in {doInput, FALSE}
          /\ foreign' = foreign /\ hpc' = hpc
      BY <2>4 DEF Shut, Close, Trigger, CheckThread, Join, Joined, Destroy, threadVars
    <3>2. pipe' \in {pipe, pipe + 1} /\ thread' \in {thread, "junk"} /\ joining' \in {joining, thread}
      BY <2>4 DEF Shut, Close, Trigger, CheckThread, Join, Joined, Destroy, threadVars
    <3>3. /\ connected' \in BOOLEAN /\ vport' \in BOOLEAN /\ link' \in {"none", "own", "other"}
          /\ doInput' \in BOOLEAN /\ foreign' \in BOOLEAN
      BY <2>1, <3>1
    <3>4. /\ pipe' \in Nat /\ thread' \in {"dummy", "handler", "junk"}
          /\ joining' \in {"dummy", "handler", "junk"}
      BY <2>1, <3>2
    <3> QED
      BY <2>1, <3>1, <3>3, <3>4
  <2> QED
    BY <2>2, <2>3, <2>4
<1>7. failed' = failed \/ \E what \in Fails : failed' = failed \cup {what}
  BY DEF Open, OpenConnected, OpenPort, OpenFails, OpenVirtual, OpenVirtualFails, Start,
     StartHandler, StartFails, Shut, Fail
<1>8. TypeOK'
  <2>1. ApiTypeOK(Places)'
    <3>1. ApiTypeOK(Places) /\ upc' \in Places /\ after' \in Places
      BY <1>3 DEF Typed, TypeOK, Places, InPlaces
    <3> HIDE DEF Here
    <3> QED
      BY <1>3, <1>6, <1>7, <3>1, CallTypes
  <2>2. message' \in Message /\ continueSysex' \in BOOLEAN /\ torn' \in BOOLEAN
        /\ lost' \in Nat
    BY DEF Typed, TypeOK, asmVars
  <2> QED
    BY <1>5, <1>6, <2>1, <2>2 DEF TypeOK, InTypes
<1> QED
  BY <1>1, <1>3, <1>4, <1>5, <1>6, <1>8 DEF Typed, handVars

\* The handler.
LEMMA HandlerTyped == Typed /\ fault = "none" /\ HandlerStep => Typed'
<1> SUFFICES ASSUME Typed, fault = "none", HandlerStep PROVE Typed'
  OBVIOUS
<1>1. CASE TailStep /\ UNCHANGED alsaVars
  <2>1. InTypes' /\ InRing'
    BY <1>1, TailTypes, TailQueue DEF Typed
  <2>2. UNCHANGED <<callVars, connected, failed>> /\ tail # "none"
    BY <1>1 DEF TailStep, TestCallback, CallUser, TestRoom, StoreMessage, LoadSize,
       StoreSize, TailGoes
  <2>3. ApiTypeOK(Places)'
    BY <2>2 DEF Typed, TypeOK, ApiTypeOK, callVars
  <2>4. TypeOK'
    BY <1>1, <2>1, <2>3 DEF Typed, TypeOK, InTypes, alsaVars
  <2> QED
    BY <1>1, <2>1, <2>2, <2>4 DEF Typed, callVars, alsaVars
<1>2. ASSUME ~(TailStep /\ UNCHANGED alsaVars)
      PROVE  Typed'
  <2>1. /\ UNCHANGED <<callVars, connected, fault, callbackVars, queueVars, portVars, joining>>
        /\ Prepare \/ PrepareFails \/ TestInput \/ Poll \/ Input \/ Overrun
    BY <1>2 DEF HandlerStep
  <2>2. failed' = failed \/ \E what \in Fails : failed' = failed \cup {what}
    BY <2>1 DEF Prepare, PrepareFails, TestInput, Poll, Input, Overrun, Fail
  <2>3. /\ message \in Message /\ continueSysex \in BOOLEAN /\ torn \in BOOLEAN
        /\ lost \in Nat
        /\ ignore \subseteq Flags /\ todo \in Seq(Flags) /\ retyped \in BOOLEAN
        /\ emitted \in Seq(Chunk) /\ consumed \in Seq(Chunk)
        /\ InParts(emitted) /\ InParts(consumed)
        /\ doInput \in BOOLEAN /\ thread \in {"dummy", "handler", "junk"} /\ pipe \in Nat
        /\ (hpc = "input" => tail = "none")
    BY DEF Typed, TypeOK, InTypes, InTypeOK
  <2>4. ASSUME Input
        PROVE  /\ hpc = "input" /\ hpc' = "loop" /\ thread' = thread /\ pipe' = pipe
               /\ torn' = torn /\ lost' = lost
               /\ consumed' \in Seq(Chunk) /\ InParts(consumed') /\ emitted' = emitted
               /\ ignore' = ignore /\ todo' = todo /\ retyped' \in BOOLEAN
               /\ message' \in Message /\ continueSysex' \in BOOLEAN /\ doInput' \in BOOLEAN
               /\ handVars' = handVars \/ \E m \in Message : HandOver(m)
    <3> DEFINE c == Head(Coming)
               kept == IF continueSysex THEN message ELSE NoMessage
    <3>1. Coming # <<>> /\ Consume(<<c>>)
      BY <2>4 DEF Input
    <3>2. /\ c \in Chunk
          /\ consumed' \in Seq(Chunk) /\ InParts(consumed') /\ emitted' = emitted
      BY <3>1, TakeComing
    <3>3. ignore' = ignore /\ todo' = todo /\ retyped' \in BOOLEAN
      BY <2>3, <3>1 DEF Consume
    <3>4. kept \in Message /\ Append(kept, c) \in Message
      <4>1. kept \in Message
        BY <2>3 DEF NoMessage, Message
      <4> HIDE DEF kept, c
      <4> QED
        BY <3>2, <4>1 DEF Message
    <3>5. /\ message' \in {kept, Append(kept, c)}
          /\ continueSysex' = continueSysex \/ continueSysex' = (c.kind = "sysex" /\ ~c.last)
          /\ doInput' = doInput \/ doInput' = FALSE
          /\ handVars' = handVars \/ (message' = Append(kept, c) /\ HandOver(message'))
      BY <2>4 DEF Input, HandNothing
    <3>6. hpc = "input" /\ hpc' = "loop" /\ thread' = thread /\ pipe' = pipe /\ torn' = torn
         /\ lost' = lost
      BY <2>4 DEF Input
    <3> HIDE DEF c, kept
    <3>7. message' \in Message
      BY <3>4, <3>5
    <3> QED
      BY <2>3, <3>2, <3>3, <3>5, <3>6, <3>7
  <2>5. /\ ignore' = ignore /\ todo' = todo /\ retyped' \in BOOLEAN
        /\ emitted' = emitted /\ consumed' \in Seq(Chunk) /\ InParts(consumed')
        /\ handVars' = handVars \/ \E m \in Message : HandOver(m)
        /\ message' \in Message /\ continueSysex' \in BOOLEAN /\ torn' \in BOOLEAN
        /\ lost' \in Nat
        /\ doInput' \in BOOLEAN /\ thread' \in {"dummy", "handler", "junk"} /\ pipe' \in Nat
        /\ hpc' \in {"none", "init", "loop", "input"}
        /\ (handVars' # handVars => hpc = "input" /\ hpc' = "loop")
        /\ (hpc' = "input" => tail = "none")
    <3>1. CASE Prepare \/ PrepareFails \/ TestInput
      <4>1. NoMessage \in Message
        BY DEF NoMessage, Message
      <4>2. UNCHANGED <<ignoreVars, streamVars, handVars, pipe>>
        BY <3>1 DEF Prepare, PrepareFails, TestInput
      <4>3. /\ message' \in {message, NoMessage}
            /\ continueSysex' = continueSysex \/ continueSysex' = FALSE
            /\ torn' = torn \/ torn' = (torn \/ (~doInput /\ continueSysex))
            /\ lost' = lost
        BY <3>1 DEF Prepare, PrepareFails, TestInput, asmVars
      <4>4. /\ doInput' = doInput \/ doInput' = FALSE
            /\ thread' \in {thread, "dummy"}
            /\ hpc' \in {"none", "loop", "input"}
            /\ (hpc' = "input" => tail = "none")
        BY <3>1 DEF Prepare, PrepareFails, TestInput
      <4>5. ignore' = ignore /\ todo' = todo /\ retyped' = retyped
            /\ emitted' = emitted /\ consumed' = consumed
        BY <4>2 DEF ignoreVars, streamVars
      <4>6. message' \in Message
        BY <2>3, <4>1, <4>3
      <4> QED
        BY <2>3, <4>2, <4>3, <4>4, <4>5, <4>6
    <3>2. CASE Poll
      <4>1. UNCHANGED <<ignoreVars, streamVars, handVars, doInput, thread, asmVars>>
            /\ pipe > 0 /\ pipe' = pipe - 1 /\ hpc' = "loop"
        BY <3>2 DEF Poll
      <4> QED
        BY <2>3, <4>1 DEF ignoreVars, streamVars, asmVars
    <3>3. CASE Input
      BY <2>3, <2>4, <3>3
    <3>4. CASE Overrun
      <4>1. /\ UNCHANGED <<ignoreVars, streamVars, handVars, doInput, thread, pipe>>
            /\ UNCHANGED <<message, continueSysex>> /\ hpc' = "loop"
        BY <3>4 DEF Overrun
      <4>2. lost' \in Nat /\ torn' \in BOOLEAN
        <5>1. PICK n \in 0 .. Len(Coming) :
                  /\ lost' = lost + n
                  /\ torn' = (torn \/ (n > 0 /\ ~(Coming[1].first /\ Coming[n].last)))
          BY <3>4 DEF Overrun
        <5>2. n \in Nat
          BY <2>3, ComingIs
        <5> QED
          BY <2>3, <5>1, <5>2
      <4> QED
        BY <2>3, <4>1, <4>2 DEF ignoreVars, streamVars
    <3> QED
      BY <2>1, <3>1, <3>2, <3>3, <3>4
  <2>6. tail' = tail \/ (tail = "none" /\ tail' = "test" /\ hpc' = "loop")
    BY <2>3, <2>5 DEF HandOver, handVars
  <2>7. InTypes'
    <3>1. /\ ignore' \subseteq Flags /\ todo' \in Seq(Flags) /\ retyped' \in BOOLEAN
          /\ emitted' \in Seq(Chunk) /\ consumed' \in Seq(Chunk)
          /\ InParts(emitted') /\ InParts(consumed')
      BY <2>3, <2>5
    <3>2. /\ upc' = upc /\ todo' = todo
          /\ handVars' = handVars \/ \E m \in Message : HandOver(m)
      BY <2>1, <2>5 DEF callVars
    <3> QED
      BY <2>1, <3>1, <3>2, RestTypes DEF Typed
  <2>8. InRing'
    <3>1. Getting' = Getting
      BY <2>1 DEF callVars, Getting
    <3>2. Putting' = Putting
      BY <2>6 DEF Putting
    <3> QED
      BY <2>1, <3>1, <3>2, InRingStays DEF Typed
  <2>9. TypeOK'
    <3>1. ApiTypeOK(Places)'
      BY <2>1, <2>2 DEF Typed, TypeOK, ApiTypeOK, callVars
    <3> QED
      BY <2>1, <2>5, <2>7, <3>1 DEF Typed, TypeOK, InTypes, portVars
  <2> QED
    BY <2>1, <2>5, <2>6, <2>7, <2>8, <2>9 DEF Typed, callVars
<1> QED
  BY <1>1, <1>2

\* Every step keeps types and queue; a model that has stopped takes none.
LEMMA NextTyped == Typed /\ [Next]_vars => Typed'
<1> SUFFICES ASSUME Typed, [Next]_vars PROVE Typed'
  OBVIOUS
<1>1. CASE fault = "none" /\ UserStep
  BY <1>1, InCallTyped, PortTyped DEF UserStep
<1>2. CASE fault = "none" /\ HandlerStep
  BY <1>2, HandlerTyped
<1>3. CASE DeviceStep \/ UNCHANGED vars
  <2>1. UNCHANGED <<callVars, connected, failed, callbackVars, queueVars,
                    ignoreVars, handVars, consumed, alsaVars>>
    BY <1>3 DEF DeviceStep, Emit, vars, apiVars, inVars, streamVars
  <2>2. emitted' \in Seq(Chunk) /\ InParts(emitted')
    BY <1>3, EmitTypes DEF DeviceStep, vars, inVars, streamVars, Typed, InTypes, InTypeOK
  <2>3. InTypes'
    <3>1. /\ ignore \subseteq Flags /\ todo \in Seq(Flags) /\ retyped \in BOOLEAN
          /\ consumed \in Seq(Chunk) /\ InParts(consumed)
      BY DEF Typed, InTypes, InTypeOK
    <3> QED
      BY <2>1, <2>2, <3>1, RestTypes DEF Typed, callVars, ignoreVars, InParts
  <2>4. InRing'
    BY <2>1, InRingStays DEF Typed, callVars, handVars, Getting, Putting
  <2>5. TypeOK'
    <3>1. ApiTypeOK(Places)'
      BY <2>1 DEF Typed, TypeOK, ApiTypeOK, callVars
    <3> QED
      BY <2>1, <2>3, <3>1 DEF Typed, TypeOK, InTypes, alsaVars
  <2> QED
    BY <2>1, <2>3, <2>4, <2>5 DEF Typed, callVars, handVars, alsaVars
<1> QED
  BY <1>1, <1>2, <1>3 DEF Next

\* Types and queue always hold.
LEMMA AlwaysTyped == Spec => []Typed
BY InitTyped, NextTyped, PTL DEF Spec

\* TypeOK, and with it that size never exceeds the ring, whatever getMessage and
\* the handler overwrite.
THEOREM AlsaTypeCorrect == Spec => []TypeOK
<1>1. Typed => TypeOK
  BY DEF Typed
<1> QED
  BY <1>1, AlwaysTyped, PTL

\* For a ring of any size: until an update of queue.size is overwritten, getMessage
\* returns what the handler put in, in that order, and the rest is in the ring.
THEOREM AlsaQueueExact == Spec => []QueueExact
<1>1. Typed => QueueExact
  BY InRingExact DEF Typed
<1> QED
  BY <1>1, AlwaysTyped, PTL

-----------------------------------------------------------------------------
(* What the handler hands over. *)

\* what Intact assumes
Sound == ~retyped /\ ~torn /\ "memory" \notin failed /\ WellFormed(consumed)

\* Inside a sysex message that the program wants, and only there, continueSysex is
\* set and the message begins where that one does.  A handler that starts or ends
\* is not inside one.
Assembled ==
    /\ consumed # <<>> => upc # "ignore"
    /\ hpc \in {"none", "init"} => ~continueSysex
    /\ continueSysex => /\ message # <<>> /\ Head(message).first
                        /\ consumed # <<>> /\ ~LastOf(consumed).last
                        /\ "sysex" \notin ignore
    /\ consumed # <<>> /\ ~LastOf(consumed).last /\ "sysex" \notin ignore =>
           continueSysex
    /\ \A i \in DOMAIN handed : Whole(handed[i])
    /\ FlattenSeq(handed) \o (IF continueSysex THEN message ELSE <<>>)
           = Unignored(consumed, ignore)

\* A message the device has ended is followed by the beginning of one, and an
\* overrun before the first chunk taken ended where a message does.
Faithful ==
    /\ \A i \in DOMAIN emitted : i = 1 \/ emitted[i - 1].last => emitted[i].first
    /\ ~torn /\ consumed = <<>> /\ lost > 0 =>
           lost \in DOMAIN emitted /\ emitted[lost].last
    /\ Sound => Assembled

\* Of a well-formed sequence the rest is well-formed, and the last chunk goes on
\* where the one before it did not end.
LEMMA WellFormedAppend ==
    ASSUME NEW s \in Seq(Chunk), NEW c \in Chunk, WellFormed(Append(s, c))
    PROVE  /\ WellFormed(s)
           /\ s # <<>> => (c.first <=> LastOf(s).last)
<1> DEFINE t == Append(s, c)
<1>1. /\ Len(t) = Len(s) + 1 /\ t[Len(s) + 1] = c
      /\ \A i \in 1 .. Len(s) : t[i] = s[i]
  OBVIOUS
<1>2. ASSUME NEW i \in 1 .. Len(s) + 1, i > 1
      PROVE  IF t[i].first THEN t[i - 1].last
                           ELSE ~t[i - 1].last /\ t[i - 1].msg = t[i].msg
  BY <1>1, <1>2 DEF WellFormed
<1> HIDE DEF t
<1>3. WellFormed(s)
  <2> SUFFICES ASSUME NEW i \in 1 .. Len(s), i > 1
               PROVE  IF s[i].first THEN s[i - 1].last
                                    ELSE ~s[i - 1].last /\ s[i - 1].msg = s[i].msg
    BY DEF WellFormed
  <2>1. t[i] = s[i] /\ t[i - 1] = s[i - 1]
    BY <1>1
  <2> QED
    BY <1>2, <2>1
<1>4. ASSUME s # <<>> PROVE c.first <=> LastOf(s).last
  <2>1. Len(s) \in Nat /\ Len(s) > 0
    BY <1>4
  <2>2. t[Len(s) + 1] = c /\ t[Len(s)] = LastOf(s)
    BY <1>1, <2>1 DEF LastOf
  <2>3. IF t[Len(s) + 1].first THEN t[Len(s)].last ELSE ~t[Len(s)].last
    BY <1>2, <2>1
  <2> QED
    BY <2>2, <2>3
<1> QED
  BY <1>3, <1>4

\* At the start nothing was taken and nothing handed over.
LEMMA InitFaithful == Init => Faithful
<1> SUFFICES ASSUME Init PROVE Faithful
  OBVIOUS
<1>1. /\ consumed = <<>> /\ handed = <<>> /\ continueSysex = FALSE /\ emitted = <<>> /\ lost = 0
  BY DEF Init, InInit, AlsaInit
<1>2. FlattenSeq(handed) \o <<>> = Unignored(consumed, ignore)
  <2>1. <<>> \o <<>> = <<>>
    OBVIOUS
  <2> QED
    BY <1>1, <2>1, UnignoredNone, FlattenNone
<1> QED
  BY <1>1, <1>2 DEF Faithful, Assembled

\* A step that leaves messages and flags alone.
LEMMA ElseFaithful ==
    ASSUME Faithful,
           UNCHANGED <<ignore, retyped, emitted, consumed, handed, message, continueSysex, lost>>,
           torn => torn', failed \subseteq failed', upc' = "ignore" => upc = "ignore",
           Sound' /\ hpc' \in {"none", "init"} =>
               hpc \in {"none", "init"} \/ ~continueSysex
    PROVE  Faithful'
<1> SUFFICES ASSUME Sound' PROVE Assembled'
  BY DEF Faithful
<1>1. Sound
  BY DEF Sound
<1> QED
  BY <1>1 DEF Faithful, Assembled

\* The flags change before the first message comes, or Sound is over.
LEMMA InCallFaithful == Typed /\ Faithful /\ InCall /\ UNCHANGED alsaVars => Faithful'
<1> SUFFICES ASSUME Typed, Faithful, InCall, UNCHANGED alsaVars PROVE Faithful'
  OBVIOUS
<1>1. UNCHANGED <<failed, emitted, consumed, handed, message, continueSysex, lost, torn, hpc>>
  BY DEF InCall, streamVars, handVars, alsaVars
<1>2. CASE UNCHANGED <<ignore, retyped>> /\ (upc' = "ignore" => upc = "ignore")
  BY <1>1, <1>2, ElseFaithful
<1>3. CASE IgnoreTypes \/ IgnoreFlag
  <2> SUFFICES ASSUME Sound' PROVE Assembled'
    BY <1>1 DEF Faithful
  <2>1. Sound
    <3>1. retyped => retyped'
      BY <1>3 DEF IgnoreTypes, IgnoreFlag
    <3> QED
      BY <1>1, <3>1 DEF Sound
  <2>2. Assembled
    BY <2>1 DEF Faithful
  <2>3. consumed = <<>>
    BY <1>1, <1>3, <2>2 DEF Sound, Assembled, IgnoreTypes, IgnoreFlag, Continue
  <2>4. ~continueSysex
    BY <2>2, <2>3 DEF Assembled
  <2>5. Unignored(consumed, ignore) = Unignored(consumed, ignore')
    BY <2>3, UnignoredNone
  <2> QED
    BY <1>1, <2>2, <2>3, <2>4, <2>5 DEF Assembled
<1> QED
  BY <1>2, <1>3 DEF InCall, SetCallback, CancelFunction, CancelUsing, GetNothing, GetMessage,
     GetLoad, GetStore, Begin, Call, Continue, ignoreVars

\* Opening, starting the handler and closing: no handler starts inside a message.
LEMMA PortFaithful ==
    ASSUME IInv, IInv', Typed, Faithful, fault = "none", UNCHANGED <<inVars, asmVars>>,
           Open \/ Start \/ Shut
    PROVE  Faithful'
<1>1. /\ UNCHANGED <<ignore, retyped, emitted, consumed, handed>>
      /\ UNCHANGED <<message, continueSysex, lost, torn>>
  BY DEF inVars, ignoreVars, streamVars, handVars, asmVars
<1>2. failed \subseteq failed' /\ upc' # "ignore"
  <2>1. after \in {"idle", "destroy", "startVirtual"}
    BY DEF Typed
  <2> USE DEF Begin, Call, Continue
  <2>2. CASE Open
    BY <2>2 DEF Open, OpenConnected, OpenPort, OpenFails, OpenVirtual, OpenVirtualFails, Fail
  <2>3. CASE Start
    BY <2>3 DEF Start, StartHandler, StartFails, Fail
  <2>4. CASE Shut
    BY <2>1, <2>4 DEF Shut, Close, Trigger, CheckThread, Join, Joined, Destroy
  <2> QED
    BY <2>2, <2>3, <2>4
<1>3. ASSUME Sound', hpc' \in {"none", "init"}
      PROVE  hpc \in {"none", "init"}
  <2>1. Tracked'
    BY <1>3 DEF Sound, IInv
  <2>2. CASE Start
    BY <1>3, <2>1, <2>2 DEF Start, StartHandler, StartFails, Tracked
  <2>3. CASE Open \/ Shut
    BY <1>3, <2>3 DEF Open, Shut, Close, Trigger, CheckThread, Join, Joined, Destroy, threadVars
  <2> QED
    BY <2>2, <2>3
<1> QED
  BY <1>1, <1>2, <1>3, ElseFaithful

\* The handler starts, tests doInput and sleeps.
LEMMA LoopFaithful ==
    ASSUME Faithful, UNCHANGED upc, Prepare \/ PrepareFails \/ TestInput \/ Poll
    PROVE  Faithful'
<1>1. UNCHANGED <<ignore, retyped, emitted, consumed, handed>> /\ failed \subseteq failed'
  BY DEF Prepare, PrepareFails, TestInput, Poll, Fail, ignoreVars, streamVars, handVars
<1>2. (torn => torn') /\ lost' = lost
  <2> USE DEF asmVars
  <2>1. CASE Prepare
    BY <2>1 DEF Prepare
  <2>2. CASE PrepareFails
    BY <2>2 DEF PrepareFails
  <2>3. CASE TestInput
    BY <2>3 DEF TestInput
  <2>4. CASE Poll
    BY <2>4 DEF Poll
  <2> QED
    BY <2>1, <2>2, <2>3, <2>4
<1>3. CASE Prepare
  <2> SUFFICES ASSUME Sound' PROVE Assembled'
    BY <1>1, <1>2 DEF Faithful
  <2>1. Assembled
    BY <1>1, <1>2 DEF Sound, Faithful
  <2>2. ~continueSysex /\ continueSysex' = FALSE
    BY <1>3, <2>1 DEF Prepare, Assembled
  <2> QED
    BY <1>1, <2>1, <2>2 DEF Assembled
<1>4. CASE PrepareFails
  BY <1>1, <1>2, <1>4 DEF PrepareFails, Fail, Faithful, Sound
<1>5. CASE TestInput \/ Poll
  <2>1. /\ UNCHANGED <<message, continueSysex>>
        /\ hpc' \in {"none", "init"} => torn' \/ ~continueSysex
    BY <1>5 DEF TestInput, Poll, asmVars
  <2> QED
    BY <1>1, <1>2, <2>1, ElseFaithful DEF Sound
<1> QED
  BY <1>3, <1>4, <1>5

\* The handler takes an event.
LEMMA InputFaithful ==
    ASSUME Typed, Faithful, Input, UNCHANGED upc
    PROVE  Faithful'
<1> DEFINE c == Head(Coming)
           kept == IF continueSysex THEN message ELSE <<>>
<1>1. /\ Coming # <<>> /\ Consume(<<c>>) /\ hpc' = "loop" /\ torn' = torn /\ lost' = lost
      /\ \/ /\ ~Wanted(c) /\ message' = kept
            /\ UNCHANGED <<handVars, continueSysex, failed>>
         \/ /\ Wanted(c) /\ message' = Append(kept, c) /\ failed' = failed
            /\ continueSysex' = (c.kind = "sysex" /\ ~c.last)
            /\ IF continueSysex' THEN UNCHANGED handVars ELSE HandOver(message')
         \/ "memory" \in failed'
  BY DEF Input, Fail, HandNothing, NoMessage
<1>2. /\ c \in Chunk /\ (c.kind = "sysex" \/ (c.first /\ c.last))
      /\ consumed' = Append(consumed, c) /\ emitted' = emitted
      /\ ignore' = ignore /\ retyped' = (retyped \/ upc = "ignore")
      /\ Len(consumed) + lost + 1 \in DOMAIN emitted /\ c = emitted[Len(consumed) + lost + 1]
  BY <1>1, TakeComing DEF Consume
<1>3. /\ consumed \in Seq(Chunk) /\ emitted \in Seq(Chunk) /\ handed \in Seq(Message)
      /\ message \in Message /\ continueSysex \in BOOLEAN
  BY DEF Typed, TypeOK, InTypeOK
<1>4. ~torn /\ consumed = <<>> => c.first
  <2> SUFFICES ASSUME ~torn, consumed = <<>> PROVE c.first
    OBVIOUS
  <2>1. lost \in Nat /\ lost + 1 \in DOMAIN emitted /\ c = emitted[lost + 1]
    <3>1. lost \in Nat /\ Len(consumed) = 0
      BY DEF Typed, TypeOK
    <3>2. Len(consumed) + lost + 1 = lost + 1
      BY <3>1
    <3> QED
      BY <1>2, <3>1, <3>2
  <2>2. lost + 1 = 1 \/ (lost > 0 /\ emitted[lost + 1 - 1].last)
    BY <2>1 DEF Faithful
  <2> HIDE DEF c
  <2> QED
    BY <2>1, <2>2 DEF Faithful
<1> SUFFICES ASSUME Sound' PROVE Assembled'
  <2>1. consumed' # <<>>
    BY <1>2, <1>3
  <2> QED
    BY <1>2, <2>1 DEF Faithful
<1>5. WellFormed(consumed) /\ (consumed # <<>> => (c.first <=> LastOf(consumed).last))
  <2>1. WellFormed(Append(consumed, c))
    BY <1>2 DEF Sound
  <2> QED
    BY <1>2, <1>3, <2>1, WellFormedAppend
<1>6. "memory" \notin failed' /\ failed' = failed
  BY <1>1 DEF Sound
<1>7. Sound /\ upc # "ignore"
  BY <1>1, <1>2, <1>5, <1>6 DEF Sound
<1>8. Assembled
  BY <1>7 DEF Faithful
<1>9. kept \in Message /\ Append(kept, c) \in Message
      /\ FlattenSeq(handed) \in Message
      /\ FlattenSeq(handed) \o kept = Unignored(consumed, ignore)
  <2>1. kept \in Message
    BY <1>3 DEF Message
  <2>2. FlattenSeq(handed) \in Message
    <3>1. handed \in Seq(Seq(Chunk)) /\ <<>> \in Seq(Chunk)
      BY <1>3 DEF Message
    <3> QED
      BY <3>1, FlattenAppend DEF Message
  <2>3. FlattenSeq(handed) \o kept = Unignored(consumed, ignore)
    BY <1>8 DEF Assembled
  <2> HIDE DEF c, kept
  <2> QED
    BY <1>2, <2>1, <2>2, <2>3 DEF Message
<1> HIDE DEF c
<1>10. LastOf(consumed') = c /\ consumed' # <<>>
  BY <1>2, <1>3 DEF LastOf
<1>11. CASE ~Wanted(c)
  <2>1. ~continueSysex
    <3>1. SUFFICES ASSUME continueSysex PROVE FALSE
      OBVIOUS
    <3>2. consumed # <<>> /\ ~LastOf(consumed).last /\ "sysex" \notin ignore
      BY <1>8, <3>1 DEF Assembled
    <3> QED
      BY <1>2, <1>5, <1>11, <3>2 DEF Wanted
  <2>2. handed' = handed /\ ~continueSysex'
    BY <1>1, <1>6, <1>11, <2>1 DEF handVars, Sound
  <2>3. Unignored(consumed', ignore') = Unignored(consumed, ignore)
    BY <1>2, <1>3, <1>11, UnignoredAppend DEF Wanted
  <2>4. ~c.last => "sysex" \in ignore'
    BY <1>2, <1>11 DEF Wanted
  <2> QED
    BY <1>1, <1>7, <1>8, <1>10, <2>1, <2>2, <2>3, <2>4 DEF Assembled
<1>12. CASE Wanted(c)
  <2>1. continueSysex \/ c.first
    <3>1. SUFFICES ASSUME ~c.first PROVE continueSysex
      OBVIOUS
    <3> QED
      BY <1>2, <1>4, <1>5, <1>7, <1>8, <1>12, <3>1 DEF Wanted, Assembled, Sound
  <2>2. kept # <<>> => Head(kept).first
    BY <1>8 DEF Assembled
  <2>3. /\ message' = Append(kept, c) /\ continueSysex' = (c.kind = "sysex" /\ ~c.last)
        /\ IF continueSysex' THEN UNCHANGED handVars ELSE HandOver(message')
    BY <1>1, <1>6, <1>12 DEF Sound
  <2>4. kept = <<>> => c.first
    BY <1>8, <2>1 DEF Assembled
  <2>5. message' # <<>> /\ Head(message').first /\ LastOf(message') = c /\ message' \in Message
    <3> HIDE DEF kept
    <3>1. kept \in Seq(Chunk) /\ message' \in Seq(Chunk)
      BY <1>9, <2>3 DEF Message
    <3>2. CASE kept = <<>>
      <4>1. message' = <<c>>
        BY <2>3, <3>2
      <4> QED
        BY <1>9, <2>3, <2>4, <3>2, <4>1 DEF LastOf
    <3>3. CASE kept # <<>>
      <4>1. Len(message') = Len(kept) + 1 /\ message'[1] = kept[1] /\ message'[Len(kept) + 1] = c
        BY <1>2, <2>3, <3>1, <3>3
      <4> QED
        BY <1>9, <2>2, <2>3, <3>1, <3>3, <4>1 DEF LastOf
    <3> QED
      BY <3>2, <3>3
  <2>6. Unignored(consumed', ignore') = FlattenSeq(handed) \o message'
    <3>1. Unignored(consumed', ignore') = Append(Unignored(consumed, ignore), c)
      BY <1>2, <1>3, <1>12, UnignoredAppend DEF Wanted
    <3> HIDE DEF kept
    <3>2. Append(FlattenSeq(handed) \o kept, c) = FlattenSeq(handed) \o Append(kept, c)
      <4> DEFINE before == FlattenSeq(handed)
      <4>1. before \in Seq(Chunk) /\ kept \in Seq(Chunk) /\ <<c>> \in Seq(Chunk)
        BY <1>2, <1>9 DEF Message
      <4> HIDE DEF before
      <4>2. (before \o kept) \o <<c>> = before \o (kept \o <<c>>)
        BY <4>1, ConcatAssociative
      <4>3. before \o kept \in Seq(Chunk)
        BY <4>1
      <4>4. Append(before \o kept, c) = (before \o kept) \o <<c>> /\ Append(kept, c) = kept \o <<c>>
        BY <1>2, <4>1, <4>3, AppendIsConcat
      <4> QED
        BY <4>2, <4>4 DEF before
    <3> QED
      BY <1>9, <2>3, <3>1, <3>2
  <2>7. CASE continueSysex'
    <3>1. handed' = handed /\ c.kind = "sysex" /\ ~c.last /\ "sysex" \notin ignore'
      BY <1>2, <1>12, <2>3, <2>7 DEF handVars, Wanted
    <3> QED
      BY <1>1, <1>7, <1>8, <1>10, <2>5, <2>6, <2>7, <3>1 DEF Assembled
  <2>8. CASE ~continueSysex'
    <3>1. handed' = Append(handed, message') /\ c.last
      BY <1>2, <2>3, <2>8 DEF HandOver
    <3>2. Whole(message')
      BY <2>5, <3>1 DEF Whole
    <3>3. \A i \in DOMAIN handed' : Whole(handed'[i])
      <4> SUFFICES ASSUME NEW i \in DOMAIN handed' PROVE Whole(handed'[i])
        OBVIOUS
      <4>1. DOMAIN handed' = 1 .. Len(handed) + 1
        BY <1>3, <2>5, <3>1
      <4>2. CASE i = Len(handed) + 1
        BY <1>3, <2>5, <3>1, <3>2, <4>2
      <4>3. CASE i # Len(handed) + 1
        <5>1. i \in DOMAIN handed /\ handed'[i] = handed[i]
          BY <1>3, <2>5, <3>1, <4>1, <4>3
        <5> QED
          BY <1>8, <5>1 DEF Assembled
      <4> QED
        BY <4>2, <4>3
    <3>4. FlattenSeq(handed') = FlattenSeq(handed) \o message'
          /\ FlattenSeq(handed') \o <<>> = FlattenSeq(handed')
      <4>1. handed \in Seq(Seq(Chunk)) /\ message' \in Seq(Chunk)
        BY <1>3, <2>5 DEF Message
      <4>2. FlattenSeq(handed') = FlattenSeq(handed) \o message'
        BY <3>1, <4>1, FlattenAppend
      <4>3. FlattenSeq(handed) \in Seq(Chunk)
        BY <1>9 DEF Message
      <4>4. FlattenSeq(handed') \in Seq(Chunk)
        BY <4>1, <4>2, <4>3
      <4> QED
        BY <4>2, <4>4
    <3> QED
      BY <1>1, <1>7, <1>10, <2>6, <2>8, <3>1, <3>3, <3>4 DEF Assembled
  <2> QED
    BY <2>7, <2>8
<1> QED
  BY <1>11, <1>12

\* The handler goes on as it was after an overrun; where one took a part of a
\* message Sound is over.
LEMMA OverrunFaithful ==
    ASSUME Typed, Faithful, Overrun, UNCHANGED upc
    PROVE  Faithful'
<1>1. /\ UNCHANGED <<ignore, retyped, emitted, consumed, handed, message, continueSysex>>
      /\ hpc' = "loop" /\ failed \subseteq failed'
  BY DEF Overrun, Fail, ignoreVars, streamVars, handVars
<1>2. PICK n \in 0 .. Len(Coming) :
          /\ lost' = lost + n
          /\ torn' = (torn \/ (n > 0 /\ ~(Coming[1].first /\ Coming[n].last)))
  BY DEF Overrun
<1>3. /\ consumed \in Seq(Chunk) /\ emitted \in Seq(Chunk) /\ lost \in Nat
  BY DEF Typed, TypeOK, InTypeOK
<1>4. Coming \in Seq(Chunk) /\ n \in Nat
  BY <1>3, ComingIs
<1>5. ASSUME ~torn', consumed' = <<>>, lost' > 0
      PROVE  lost' \in DOMAIN emitted' /\ emitted'[lost'].last
  <2>1. CASE n = 0
    <3>1. lost' = lost
      BY <1>2, <1>3, <2>1
    <3> QED
      BY <1>1, <1>2, <1>5, <3>1 DEF Faithful
  <2>2. CASE n > 0
    <3>1. n \in 1 .. Len(Coming) /\ Coming[n].last
      <4>1. Coming[n].last
        BY <1>2, <1>5, <2>2
      <4>2. \A k \in Nat : \A i \in 0 .. k : i > 0 => i \in 1 .. k
        OBVIOUS
      <4>3. Len(Coming) \in Nat
        BY <1>4
      <4> QED
        BY <1>2, <2>2, <4>1, <4>2, <4>3
    <3>2. Len(consumed) + lost + n \in DOMAIN emitted
          /\ Coming[n] = emitted[Len(consumed) + lost + n]
      BY <1>3, <3>1, ComingIs
    <3>3. Len(consumed) + lost + n = lost'
      BY <1>1, <1>2, <1>3, <1>4, <1>5
    <3> QED
      BY <1>1, <3>1, <3>2, <3>3
  <2> QED
    BY <1>4, <2>1, <2>2
<1>6. Sound' => Assembled'
  BY <1>1, <1>2 DEF Sound, Faithful, Assembled
<1> QED
  BY <1>1, <1>5, <1>6 DEF Faithful

\* The first chunk a device sends begins a message, and so does one that follows the
\* last of another.
LEMMA EmitFaithful ==
    ASSUME Typed, Faithful, Emit,
           UNCHANGED <<ignore, retyped, handed, message, continueSysex, lost, torn, hpc, failed, upc>>
    PROVE  Faithful'
<1>1. emitted \in Seq(Chunk) /\ emitted' \in Seq(Chunk) /\ consumed' = consumed
  BY EmitTypes DEF Typed, InTypes, InTypeOK
<1>2. PICK d \in NextChunks(emitted) : emitted' = Append(emitted, d)
  BY DEF Emit
<1>3. /\ Len(emitted) \in Nat /\ DOMAIN emitted' = 1 .. Len(emitted) + 1
      /\ emitted'[Len(emitted) + 1] = d
      /\ \A i \in 1 .. Len(emitted) : emitted'[i] = emitted[i]
  BY <1>1, <1>2
<1>4. ASSUME NEW i \in DOMAIN emitted', i = 1 \/ emitted'[i - 1].last
      PROVE  emitted'[i].first
  <2>1. CASE i = Len(emitted) + 1
    <3>1. CASE emitted = <<>>
      BY <1>2, <1>3, <2>1, <3>1 DEF NextChunks
    <3>2. CASE emitted # <<>>
      <4>1. Len(emitted) > 0
        BY <1>1, <3>2
      <4>2. i - 1 = Len(emitted) /\ i # 1
        BY <1>3, <2>1, <4>1
      <4>3. LastOf(emitted).last
        BY <1>3, <1>4, <4>1, <4>2 DEF LastOf
      <4> QED
        BY <1>2, <1>3, <2>1, <3>2, <4>3 DEF NextChunks
    <3> QED
      BY <3>1, <3>2
  <2>2. CASE i # Len(emitted) + 1
    <3>1. i \in DOMAIN emitted /\ emitted'[i] = emitted[i]
      BY <1>1, <1>3, <2>2
    <3>2. i = 1 \/ emitted[i - 1].last
      BY <1>1, <1>3, <1>4, <3>1
    <3> QED
      BY <3>1, <3>2 DEF Faithful
  <2> QED
    BY <2>1, <2>2
<1>5. ~torn' /\ consumed' = <<>> /\ lost' > 0 => lost' \in DOMAIN emitted' /\ emitted'[lost'].last
  BY <1>1, <1>3 DEF Faithful
<1>6. Sound' => Assembled'
  BY <1>1 DEF Sound, Faithful, Assembled
<1> QED
  BY <1>4, <1>5, <1>6 DEF Faithful

\* Every step keeps what was handed over faithful.
LEMMA NextFaithful == IInv /\ IInv' /\ Typed /\ Faithful /\ [Next]_vars => Faithful'
<1> SUFFICES ASSUME IInv, IInv', Typed, Faithful, [Next]_vars PROVE Faithful'
  OBVIOUS
<1>1. CASE fault = "none" /\ UserStep
  BY <1>1, InCallFaithful, PortFaithful DEF UserStep
<1>2. CASE fault = "none" /\ HandlerStep
  <2>1. CASE TailStep /\ UNCHANGED alsaVars
    <3>1. UNCHANGED <<ignore, retyped, emitted, consumed, handed, message, continueSysex,
                      lost, torn, failed, upc, hpc>>
      BY <2>1 DEF TailStep, TestCallback, CallUser, TestRoom, StoreMessage, LoadSize,
         StoreSize, TailGoes, callVars, ignoreVars, streamVars, alsaVars
    <3> QED
      BY <3>1, ElseFaithful
  <2>2. CASE ~(TailStep /\ UNCHANGED alsaVars)
    <3>1. upc' = upc
      BY <1>2, <2>2 DEF HandlerStep, callVars
    <3> QED
      BY <1>2, <2>2, <3>1, LoopFaithful, InputFaithful, OverrunFaithful DEF HandlerStep
  <2> QED
    BY <2>1, <2>2
<1>3. CASE DeviceStep
  BY <1>3, EmitFaithful DEF DeviceStep, apiVars, callVars, ignoreVars, handVars, alsaVars
<1>4. CASE UNCHANGED vars
  <2>1. UNCHANGED <<ignore, retyped, emitted, consumed, handed, message, continueSysex,
                    lost, torn, failed, upc, hpc>>
    BY <1>4 DEF vars, apiVars, callVars, inVars, ignoreVars, streamVars, handVars, alsaVars
  <2> QED
    BY <2>1, ElseFaithful
<1> QED
  BY <1>1, <1>2, <1>3, <1>4 DEF Next

\* For any sequence of calls and any interleaving with the handler: until the types
\* to ignore change under way, a handler ends inside a message, an overrun takes a
\* part of one or memory is refused, and as long as nothing comes between the parts of a sysex message, the handler
\* hands over the messages of the wanted types, whole and in order.
THEOREM AlsaMessagesIntact == Spec => []Intact
<1>1. Faithful => Intact
  BY DEF Faithful, Sound, Assembled, Intact
<1>2. IInv /\ IInv' /\ Typed /\ Faithful /\ [Next]_vars => Faithful'
  BY NextFaithful
<1> QED
  BY <1>1, <1>2, InitFaithful, AlwaysIInv, AlwaysTyped, PTL DEF Spec
=============================================================================
