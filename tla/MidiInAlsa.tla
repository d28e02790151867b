----------------------------- MODULE MidiInAlsa -----------------------------
(***************************************************************************)
(* The input object of RtMidi on Linux (src/RtMidi.cpp, class MidiInAlsa). *)
(* openPort subscribes a port of the object to a source and starts a       *)
(* thread, alsaMidiHandler, that turns the events of the ALSA sequencer    *)
(* into messages.  closePort tells the thread to end, wakes it through a   *)
(* pipe and waits for it.  The two share RtMidiInData and AlsaMidiData     *)
(* without a lock.                                                         *)
(***************************************************************************)
EXTENDS MidiInApi, SequencesExt

VARIABLES
    vport,      \* whether the object has its port (vport >= 0)
    link,       \* subscription: "none", from the source to "own" or to "other"
    doInput,    \* inputData_.doInput
    thread,     \* AlsaMidiData::thread: "dummy", "handler" or an id that names nothing
    joining,    \* the id pthread_join was given
    foreign,    \* whether the calls come from another thread than the constructor
    pipe,       \* bytes in the pipe
    hpc,        \* where the handler is: "none" when there is no such thread
    message,    \* the handler's message
    continueSysex,
    lost,       \* history: how many chunks an overrun of the input buffer took
    torn        \* history: whether a handler ended inside a message, or an overrun
                \* took a part of one

alsaVars == <<vport, link, doInput, thread, joining, foreign, pipe, hpc,
              message, continueSysex, lost, torn>>
portVars == <<vport, link, foreign>>
threadVars == <<doInput, thread, joining, pipe, hpc>>
asmVars == <<message, continueSysex, lost, torn>>
vars == <<apiVars, inVars, alsaVars>>

AlsaInit ==
    /\ vport = FALSE
    /\ link = "none"
    /\ doInput = FALSE
    /\ thread = "dummy"
    /\ joining = "dummy"
    /\ foreign \in BOOLEAN
    /\ pipe = 0
    /\ hpc = "none"
    /\ message = NoMessage
    /\ continueSysex = FALSE
    /\ lost = 0
    /\ torn = FALSE

Init == ApiInit /\ InInit /\ AlsaInit

-----------------------------------------------------------------------------
(* openPort and openVirtualPort. *)

OpenConnected ==
    /\ connected
    /\ Call("openPort")
    /\ UNCHANGED <<after, vport, link, failed>>

\* The object makes its port, if it has none, and subscribes it.  For a port it
\* has already the address of the receiver was never filled in: its client is 0,
\* the system.
OpenPort ==
    /\ ~connected
    /\ Begin("openPort", "startPort")
    /\ vport' = TRUE
    /\ link' = IF link # "none" THEN link ELSE IF vport THEN "other" ELSE "own"
    /\ UNCHANGED <<after, failed>>

\* There is no such source, no port, or no subscription.
OpenFails ==
    /\ ~connected
    /\ Call("openPort")
    /\ \/ Fail("port") /\ UNCHANGED vport
       \/ Fail("subscribe") /\ vport' = TRUE
       \/ vport /\ UNCHANGED <<vport, failed>>
    /\ UNCHANGED <<after, link>>

\* A virtual port waits for the old thread before it starts another.
OpenVirtual ==
    /\ Begin("openVirtualPort", IF doInput THEN "idle" ELSE "check")
    /\ after' = "startVirtual"
    /\ vport' = TRUE
    /\ UNCHANGED <<link, failed>>

OpenVirtualFails ==
    /\ ~vport
    /\ Call("openVirtualPort")
    /\ Fail("port")
    /\ UNCHANGED <<after, vport, link>>

Open ==
    /\ \/ OpenConnected \/ OpenPort \/ OpenFails
       \/ OpenVirtual \/ OpenVirtualFails
    /\ UNCHANGED <<connected, fault, foreign, threadVars>>

\* Seeded fault: a thread is started although there is one.
StartHandlerAlways(from) ==
    /\ Continue(from, "idle")
    /\ connected' = (connected \/ from = "startPort")
    /\ doInput' = TRUE
    /\ thread' = "handler"
    /\ hpc' = "init"
    /\ fault' = IF hpc = "none" THEN fault ELSE "two handlers"
    /\ UNCHANGED <<link, failed>>

\* The input thread, unless there is one already.
StartHandler(from) ==
    /\ Continue(from, "idle")
    /\ connected' = (connected \/ from = "startPort")
    /\ IF doInput
       THEN UNCHANGED <<doInput, thread, hpc, fault>>
       ELSE /\ doInput' = TRUE
            /\ thread' = "handler"
            /\ hpc' = "init"
            /\ fault' = IF hpc = "none" THEN fault ELSE "two handlers"
    /\ UNCHANGED <<link, failed>>

\* What pthread_create stores when it fails is not defined.
StartFails(from) ==
    /\ Continue(from, "idle")
    /\ ~doInput
    /\ Fail("thread")
    /\ link' = "none"
    /\ thread' \in {thread, "junk"}
    /\ UNCHANGED <<connected, doInput, hpc, fault>>

Start ==
    /\ \E from \in {"startPort", "startVirtual"} :
           StartHandler(from) \/ StartFails(from)
    /\ UNCHANGED <<after, vport, foreign, joining, pipe>>

-----------------------------------------------------------------------------
(* closePort and the destructor, which begins with it. *)

Close(function_, to) ==
    /\ Begin(function_, IF doInput THEN "trigger" ELSE to)
    /\ after' = to
    /\ link' = IF connected THEN "none" ELSE link
    /\ connected' = FALSE
    /\ doInput' = FALSE
    /\ UNCHANGED <<thread, joining, pipe, hpc, vport, fault>>

\* Seeded fault: nothing is written into the pipe.
TriggerMissing ==
    /\ Continue("trigger", "check")
    /\ UNCHANGED <<after, connected, vport, link, threadVars, fault>>

\* write( data->trigger_fds[1], ... )
Trigger ==
    /\ Continue("trigger", "check")
    /\ pipe' = pipe + 1
    /\ UNCHANGED <<after, connected, vport, link, doInput, thread, joining,
                   hpc, fault>>

\* Seeded fault: closePort does not wait for the thread.
CheckThreadNever ==
    /\ Continue("check", after)
    /\ UNCHANGED <<after, connected, vport, link, threadVars, fault>>

\* if ( !pthread_equal(data->thread, data->dummy_thread_id) )
CheckThread ==
    /\ Continue("check", IF thread = "dummy" THEN after ELSE "join")
    /\ UNCHANGED <<after, connected, vport, link, threadVars, fault>>

\* pthread_join reads data->thread again,
Join ==
    /\ Continue("join", "joining")
    /\ joining' = thread
    /\ UNCHANGED <<after, connected, vport, link, doInput, thread, pipe, hpc,
                   fault>>

\* and waits.  The thread that made the object cannot join itself and gets an
\* error at once; any other thread waits for it.  A joined id names nothing.
Joined ==
    /\ Continue("joining", after)
    /\ \/ joining = "handler" /\ hpc = "none" /\ UNCHANGED fault
       \/ joining = "dummy" /\ ~foreign /\ UNCHANGED fault
       \/ joining = "junk" /\ fault' = "joined nothing"
    /\ thread' = IF joining = "handler" /\ thread = "handler"
                 THEN "junk" ELSE thread
    /\ UNCHANGED <<after, connected, vport, link, doInput, joining, pipe, hpc>>

\* The rest of the destructor frees what the handler uses.
Destroy ==
    /\ Continue("destroy", "gone")
    /\ vport' = FALSE
    /\ fault' = IF hpc = "none" THEN fault ELSE "used after free"
    /\ UNCHANGED <<after, connected, link, threadVars>>

Shut ==
    /\ \/ Close("closePort", "idle") \/ Close("delete", "destroy")
       \/ Trigger \/ CheckThread \/ Join \/ Joined \/ Destroy
    /\ UNCHANGED <<failed, foreign>>

UserStep ==
    \/ Open /\ UNCHANGED <<inVars, asmVars>>
    \/ Start /\ UNCHANGED <<inVars, asmVars>>
    \/ Shut /\ UNCHANGED <<inVars, asmVars>>
    \/ InCall /\ UNCHANGED alsaVars

-----------------------------------------------------------------------------
(* alsaMidiHandler *)

\* the chunks in the input buffer
Coming == SubSeq(emitted, Len(consumed) + lost + 1, Len(emitted))

Prepare ==
    /\ hpc = "init"
    /\ hpc' = "loop"
    /\ message' = NoMessage
    /\ continueSysex' = FALSE
    /\ UNCHANGED <<doInput, thread, pipe, failed, lost, torn, streamVars,
                   ignoreVars, handVars>>

\* Without memory the handler ends and leaves its id behind.
PrepareFails ==
    /\ hpc = "init"
    /\ Fail("memory")
    /\ doInput' = FALSE
    /\ hpc' = "none"
    /\ UNCHANGED <<thread, pipe, asmVars, streamVars, ignoreVars, handVars>>

\* while ( data->doInput )
TestInput ==
    /\ hpc = "loop" /\ tail = "none"
    /\ hpc' = IF doInput THEN "input" ELSE "none"
    /\ thread' = IF doInput THEN thread ELSE "dummy"
    /\ torn' = (torn \/ (~doInput /\ continueSysex))
    /\ UNCHANGED <<doInput, pipe, failed, message, continueSysex, lost, streamVars,
                   ignoreVars, handVars>>

\* With nothing to do the handler sleeps in poll() until an event or a byte
\* comes, and takes the byte.
Poll ==
    /\ hpc = "input" /\ Coming = <<>> /\ pipe > 0
    /\ hpc' = "loop"
    /\ pipe' = pipe - 1
    /\ UNCHANGED <<doInput, thread, failed, asmVars, streamVars, ignoreVars,
                   handVars>>

\* Seeded fault: each event begins a new message.
InputForgetful ==
    /\ hpc = "input" /\ Coming # <<>>
    /\ hpc' = "loop"
    /\ LET c == Head(Coming) IN
       /\ Consume(<<c>>)
       /\ message' = IF Wanted(c) THEN <<c>> ELSE NoMessage
       /\ continueSysex' = (Wanted(c) /\ c.kind = "sysex" /\ ~c.last)
       /\ IF message' = NoMessage \/ continueSysex' THEN HandNothing
                                                    ELSE HandOver(message')
    /\ UNCHANGED <<doInput, failed, thread, pipe, lost, torn>>

\* The handler takes an event.  A sysex message may come in several, which it
\* puts together.
Input ==
    /\ hpc = "input" /\ Coming # <<>>
    /\ hpc' = "loop"
    /\ LET c == Head(Coming)
           kept == IF continueSysex THEN message ELSE NoMessage
       IN  /\ Consume(<<c>>)
           /\ \/ /\ ~Wanted(c)
                 /\ message' = kept
                 /\ HandNothing
                 /\ UNCHANGED <<continueSysex, doInput, failed>>
              \/ /\ Wanted(c)
                 /\ message' = Append(kept, c)
                 /\ continueSysex' = (c.kind = "sysex" /\ ~c.last)
                 /\ IF continueSysex' THEN HandNothing ELSE HandOver(message')
                 /\ UNCHANGED <<doInput, failed>>
              \/ /\ Wanted(c) /\ c.kind = "sysex"
                 /\ Fail("memory")
                 /\ doInput' = FALSE
                 /\ message' = kept
                 /\ HandNothing
                 /\ UNCHANGED continueSysex
    /\ UNCHANGED <<thread, pipe, lost, torn>>

\* Something was pending, but snd_seq_event_input reports an error: -ENOSPC when the
\* buffer ran over and what was in it is gone.  The handler goes on as it was,
\* inside a message or not.
Overrun ==
    /\ hpc = "input" /\ Coming # <<>>
    /\ hpc' = "loop"
    /\ Fail("overrun")
    /\ \E n \in 0 .. Len(Coming) :
           /\ lost' = lost + n
           /\ torn' = (torn \/ (n > 0 /\ ~(Coming[1].first /\ Coming[n].last)))
    /\ UNCHANGED <<doInput, thread, pipe, message, continueSysex, streamVars,
                   ignoreVars, handVars>>

HandlerStep ==
    \/ /\ Prepare \/ PrepareFails \/ TestInput \/ Poll \/ Input \/ Overrun
       /\ UNCHANGED <<callVars, connected, fault, callbackVars, queueVars,
                      portVars, joining>>
    \/ TailStep /\ UNCHANGED alsaVars

-----------------------------------------------------------------------------
\* Whoever knows the port of the object may send to it.
DeviceStep ==
    /\ vport
    /\ Emit
    /\ UNCHANGED <<apiVars, callbackVars, ignoreVars, queueVars, handVars,
                   alsaVars>>

Next == fault = "none" /\ (UserStep \/ HandlerStep \/ DeviceStep)

\* The program need not call anything, nor the device send: but a function that
\* was called goes on, and so does the handler.
Going == upc # "idle" /\ UserStep

Fairness ==
    /\ WF_vars(fault = "none" /\ Going)
    /\ WF_vars(fault = "none" /\ HandlerStep)

Spec == Init /\ [][Next]_vars /\ Fairness

-----------------------------------------------------------------------------
(* Properties. *)

Places == InPlaces \cup {"startPort", "startVirtual", "trigger", "check",
                         "join", "joining", "destroy"}

\* The types of the variables.
TypeOK ==
    /\ ApiTypeOK(Places)
    /\ InTypeOK
    /\ vport \in BOOLEAN
    /\ link \in {"none", "own", "other"}
    /\ doInput \in BOOLEAN
    /\ thread \in {"dummy", "handler", "junk"}
    /\ joining \in {"dummy", "handler", "junk"}
    /\ foreign \in BOOLEAN
    /\ pipe \in Nat
    /\ hpc \in {"none", "init", "loop", "input"}
    /\ message \in Message
    /\ continueSysex \in BOOLEAN
    /\ lost \in Nat
    /\ torn \in BOOLEAN

\* closePort is to "Stop thread to avoid triggering the callback, while the port
\* is intended to be closed" (RtMidi.cpp:1656): outside every function, when
\* there is no input, there is no handler left and nothing it is about to hand
\* over.  Only a handler that ended its input itself may still be on its way out.
Quiet ==
    upc \in {"idle", "gone"} /\ ~doInput /\ "memory" \notin failed =>
        hpc = "none" /\ tail = "none"

\* As long as the system gives memory and threads and the program does not
\* cancel its callback, there is never a second handler, the handler never uses
\* an object that was deleted and no thread is joined that does not exist.
FaultHasCause ==
    /\ fault = "null callback" => "cancelCallback" \in program
    /\ fault \in {"two handlers", "used after free"} => "memory" \in failed
    /\ fault = "joined nothing" => failed \cap {"memory", "thread"} # {}

\* Whatever the program did in between, the handler hands over what the device
\* sent: the messages of the wanted types, whole and in order, and what the input
\* buffer lost, whole messages only.  Four things break it: types that change under
\* way, a port closed inside a message, an input buffer that runs over inside one,
\* and something that comes between the parts of a sysex message.
Intact ==
    ~retyped /\ ~torn /\ "memory" \notin failed /\ WellFormed(consumed) =>
        /\ \A i \in DOMAIN handed : Whole(handed[i])
        /\ FlattenSeq(handed) \o (IF continueSysex THEN message ELSE <<>>)
               = Unignored(consumed, ignore)

\* A thread that did not make the object and found the handler's id, which the
\* handler reset before it was joined, waits for the thread that made the object.
Misled == foreign /\ upc = "joining" /\ joining = "dummy"

\* Every function returns: closePort wakes the handler wherever it is and the
\* handler ends, unless the caller was misled into waiting for another thread.
CallReturns ==
    upc \notin {"idle", "gone"} ~>
        upc \in {"idle", "gone"} \/ Misled \/ fault # "none"
=============================================================================
