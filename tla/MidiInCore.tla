----------------------------- MODULE MidiInCore -----------------------------
(***************************************************************************)
(* The input object of RtMidi on OS X (src/RtMidi.cpp, class MidiInCore).  *)
(* CoreMIDI calls midiInputCallback on a thread of its own with a list of  *)
(* packets; the callback takes the messages out of them.                   *)
(*                                                                         *)
(* Taken from the system as the code takes it: there is one callback at a  *)
(* time, disposing of a port or a client waits for the one that is         *)
(* running, a sysex message, or a part of one, is alone in its packet, and *)
(* nothing can be made with a client that was disposed of.                 *)
(***************************************************************************)
EXTENDS MidiInApi, SequencesExt

CONSTANT Empties    \* whether a packet may be empty

VARIABLES
    client,     \* whether the client of the object exists
    endpoint,   \* whether its virtual destination does
    list,       \* the packets the callback has yet to look at
    packet,     \* what it has yet to parse of the present one
    running,    \* whether the callback runs
    message,    \* RtMidiInData::message
    continueSysex,
    skipped     \* history: whether packets after an empty one were lost

coreVars == <<client, endpoint, list, packet, running, message, continueSysex,
              skipped>>
parseVars == <<list, packet, running, message, continueSysex, skipped>>
vars == <<apiVars, inVars, coreVars>>

Init ==
    /\ ApiInit /\ InInit
    /\ client = TRUE
    /\ endpoint = FALSE
    /\ list = <<>>
    /\ packet = <<>>
    /\ running = FALSE
    /\ message = NoMessage
    /\ continueSysex = FALSE
    /\ skipped = FALSE

-----------------------------------------------------------------------------
(* The functions of the program. *)

OpenPort ==
    /\ client \/ connected
    /\ Call("openPort")
    /\ connected' = TRUE
    /\ UNCHANGED <<failed, client, endpoint>>

\* There is no such source.
OpenNothing ==
    /\ ~connected
    /\ Call("openPort")
    /\ Fail("source")
    /\ UNCHANGED <<connected, client, endpoint>>

\* Without a port, an endpoint or a connection openPort disposes of the client
\* of the object, and with it goes the virtual destination.
OpenFails ==
    /\ ~connected
    /\ Call("openPort")
    /\ IF client THEN Fail("port") ELSE UNCHANGED failed
    /\ client' = FALSE
    /\ endpoint' = FALSE
    /\ UNCHANGED connected

OpenVirtual ==
    /\ client
    /\ Call("openVirtualPort")
    /\ endpoint' = TRUE
    /\ UNCHANGED <<connected, failed, client>>

OpenVirtualFails ==
    /\ Call("openVirtualPort")
    /\ IF client THEN Fail("port") ELSE UNCHANGED failed
    /\ UNCHANGED <<connected, client, endpoint>>

\* closePort and the destructor, which begins with it
Close(function_, to) ==
    /\ Begin(function_, "dispose")
    /\ after' = to
    /\ UNCHANGED <<connected, failed, client, endpoint>>

Disposed ==
    /\ connected => ~running
    /\ Continue("dispose", after)
    /\ connected' = FALSE
    /\ UNCHANGED <<after, failed, client, endpoint>>

\* The rest of the destructor disposes of the client.
Destroy ==
    /\ ~running
    /\ Continue("destroy", "gone")
    /\ client' = FALSE
    /\ endpoint' = FALSE
    /\ UNCHANGED <<after, connected, failed>>

UserStep ==
    \/ /\ \/ OpenPort \/ OpenNothing \/ OpenFails
          \/ OpenVirtual \/ OpenVirtualFails
       /\ UNCHANGED <<after, inVars, parseVars, fault>>
    \/ /\ Close("closePort", "idle") \/ Close("delete", "destroy")
          \/ Disposed \/ Destroy
       /\ UNCHANGED <<inVars, parseVars, fault>>
    \/ InCall /\ UNCHANGED coreVars

-----------------------------------------------------------------------------
(* midiInputCallback *)

Alone(p) == Len(p) = 1 \/ \A i \in DOMAIN p : p[i].kind # "sysex"
Packet(p) == IF p = <<>> THEN Empties ELSE Alone(p)

\* The lists of one or two packets that begin what the device has sent.
Lists(s) ==
    LET cut == {c \in (0 .. Len(s)) \X (0 .. Len(s)) : c[1] <= c[2]}
        two == {<<SubSeq(s, 1, c[1]), SubSeq(s, c[1] + 1, c[2])>> : c \in cut}
        one == {<<SubSeq(s, 1, n)>> : n \in 0 .. Len(s)}
    IN  {l \in one \cup two : \A i \in DOMAIN l : Packet(l[i])}

Deliver ==
    /\ ~running
    /\ connected \/ endpoint
    /\ Pending # <<>>
    /\ list' \in Lists(Pending)
    /\ Consume(FlattenSeq(list'))
    /\ running' = TRUE
    /\ HandNothing
    /\ UNCHANGED <<packet, message, continueSysex, skipped>>

Between == running /\ tail = "none" /\ packet = <<>>

Looks == retyped' = (retyped \/ upc = "ignore") /\ UNCHANGED <<ignore, todo>>

Return ==
    /\ Between /\ list = <<>>
    /\ running' = FALSE
    /\ HandNothing
    /\ UNCHANGED <<list, packet, message, continueSysex, skipped, ignoreVars,
                   streamVars>>

\* An empty packet is passed over without going on to the next one, which leaves
\* the rest of the list unseen.
Empty ==
    /\ Between /\ list # <<>> /\ Head(list) = <<>>
    /\ list' = <<>>
    /\ skipped' = (skipped \/ FlattenSeq(list) # <<>>)
    /\ HandNothing
    /\ UNCHANGED <<packet, running, message, continueSysex, ignoreVars,
                   streamVars>>

NextPacket ==
    /\ Between /\ list # <<>> /\ Head(list) # <<>> /\ ~continueSysex
    /\ packet' = Head(list)
    /\ list' = Tail(list)
    /\ HandNothing
    /\ UNCHANGED <<running, message, continueSysex, skipped, ignoreVars,
                   streamVars>>

\* Seeded fault: the end of the message is not looked for while it is ignored.
MoreSysexIgnored ==
    /\ Between /\ list # <<>> /\ Head(list) # <<>> /\ continueSysex
    /\ LET p == Head(list)
           more == message \o p
           done == LastOf(p).kind = "sysex" /\ LastOf(p).last
           kept == "sysex" \notin ignore
       IN  /\ continueSysex' = ~(kept /\ done)
           /\ message' = IF ~kept THEN message
                         ELSE IF done THEN NoMessage ELSE more
           /\ IF kept /\ done THEN HandOver(more) ELSE HandNothing
    /\ list' = Tail(list)
    /\ Looks
    /\ UNCHANGED <<packet, running, skipped, streamVars>>

\* Inside a sysex message, ignored or not, a whole packet belongs to it.
MoreSysex ==
    /\ Between /\ list # <<>> /\ Head(list) # <<>> /\ continueSysex
    /\ LET p == Head(list)
           more == message \o p
           done == LastOf(p).kind = "sysex" /\ LastOf(p).last
           kept == "sysex" \notin ignore
       IN  /\ continueSysex' = ~done
           /\ message' = IF ~kept THEN message
                         ELSE IF done THEN NoMessage ELSE more
           /\ IF kept /\ done THEN HandOver(more) ELSE HandNothing
    /\ list' = Tail(list)
    /\ Looks
    /\ UNCHANGED <<packet, running, skipped, streamVars>>

Parsing == running /\ tail = "none" /\ packet # <<>>

\* A packet that begins inside a message is not looked at.
Broken ==
    /\ Parsing /\ ~Head(packet).first
    /\ packet' = <<>>
    /\ HandNothing
    /\ UNCHANGED <<message, continueSysex, ignoreVars>>

\* a sysex message, or the first part of one
Sysex ==
    /\ Parsing /\ Head(packet).first /\ Head(packet).kind = "sysex"
    /\ continueSysex' = ~Head(packet).last
    /\ packet' = <<>>
    /\ Looks
    /\ IF Wanted(Head(packet)) /\ Head(packet).last
       THEN message' = NoMessage /\ HandOver(<<Head(packet)>>)
       ELSE /\ message' = IF Wanted(Head(packet)) THEN <<Head(packet)>>
                          ELSE message
            /\ HandNothing

Short ==
    /\ Parsing /\ Head(packet).first /\ Head(packet).kind # "sysex"
    /\ packet' = Tail(packet)
    /\ Looks
    /\ IF Wanted(Head(packet))
       THEN message' = NoMessage /\ HandOver(<<Head(packet)>>)
       ELSE HandNothing /\ UNCHANGED message
    /\ UNCHANGED continueSysex

CallbackStep ==
    \/ /\ \/ Deliver
          \/ Return \/ Empty \/ NextPacket \/ MoreSysex
          \/ /\ Broken \/ Sysex \/ Short
             /\ UNCHANGED <<list, running, skipped, streamVars>>
       /\ UNCHANGED <<apiVars, callbackVars, queueVars, client, endpoint>>
    \/ TailStep /\ UNCHANGED coreVars

-----------------------------------------------------------------------------
DeviceStep ==
    /\ connected \/ endpoint
    /\ Emit
    /\ UNCHANGED <<apiVars, callbackVars, ignoreVars, queueVars, handVars,
                   coreVars>>

Next == fault = "none" /\ (UserStep \/ CallbackStep \/ DeviceStep)

Spec == Init /\ [][Next]_vars

-----------------------------------------------------------------------------
(* Properties. *)

\* The types of the variables.
TypeOK ==
    /\ ApiTypeOK(InPlaces \cup {"dispose", "destroy"})
    /\ InTypeOK
    /\ client \in BOOLEAN /\ endpoint \in BOOLEAN
    /\ list \in Seq(Message)
    /\ packet \in Message
    /\ running \in BOOLEAN
    /\ message \in Message
    /\ continueSysex \in BOOLEAN
    /\ skipped \in BOOLEAN

\* what of a list is not parsed yet
Unparsed == packet \o FlattenSeq(list)

\* The callback hands over what the device sent, in whatever packets it comes and
\* across closePort and openPort: the messages of the wanted types, whole and in
\* order.  It fails when the types change under way, after an empty packet, and
\* when something comes between the parts of a sysex message.
Intact ==
    ~retyped /\ ~skipped /\ WellFormed(consumed) =>
        /\ \A i \in DOMAIN handed : Whole(handed[i])
        /\ FlattenSeq(handed) \o message \o Unignored(Unparsed, ignore)
               = Unignored(consumed, ignore)

\* A note is lost only inside an unfinished sysex message or behind an empty
\* packet, whether or not sysex messages are ignored: the callback never goes on
\* swallowing when the message has come to its end.
NotesSwallowed ==
    ~skipped /\ ~running =>
        \A i \in DOMAIN consumed :
            \/ consumed[i].kind # "note"
            \/ consumed[i] \in ToSet(FlattenSeq(handed))
            \/ \E j \in 1 .. i - 1 :
                   /\ consumed[j].kind = "sysex" /\ ~consumed[j].last
                   /\ \A k \in j + 1 .. i - 1 : consumed[k].kind # "sysex"
=============================================================================
