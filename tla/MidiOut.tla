------------------------------- MODULE MidiOut -------------------------------
(***************************************************************************)
(* The output objects of RtMidi (src/RtMidi.cpp, MidiOutAlsa, MidiOutCore  *)
(* and MidiOutWinMM).  RtMidiOut::openMidiApi makes the one its platform   *)
(* has; "api" says which.  A program may have a connection and, except on  *)
(* Windows, a virtual port that others connect to.                         *)
(*                                                                         *)
(* A message is its number.  What counts of its length is whether it fits: *)
(* one is longer than another by a factor of the initial buffer.           *)
(***************************************************************************)
EXTENDS MidiApi

CONSTANTS
    Apis,       \* the platforms
    Lengths     \* lengths of messages; 1 fits the buffer an object starts with

ASSUME OutAssumption ==
    /\ Apis \subseteq {"LINUX_ALSA", "MACOSX_CORE", "WINDOWS_MM"}
    /\ Lengths \subseteq Nat \ {0}

VARIABLES
    api,        \* the platform
    client,     \* OS X: whether the client of the object exists
    virtual,    \* whether the port others connect to exists (vport, endpoint)
    link,       \* ALSA: what subscription points to
    bufferSize, \* ALSA: AlsaMidiData::bufferSize
    coder,      \* ALSA: what the encoder has room for
    buffer,     \* ALSA: what the buffer has room for
    buffered,   \* ALSA: the messages in the sequencer's output buffer
    due,        \* history: the receivers each message was sent to
    left,       \* history: what was in the buffer when the receiver left
    silent,     \* history: the messages sendMessage raised no error for
    heard       \* history: the messages each receiver got

alsaVars == <<link, bufferSize, coder, buffer, buffered>>
sendVars == <<due, left, silent, heard>>
outVars == <<api, client, virtual, alsaVars, sendVars>>
vars == <<apiVars, outVars>>

Alsa == api = "LINUX_ALSA"
Core == api = "MACOSX_CORE"
Win == api = "WINDOWS_MM"

\* the destination of the connection, and whoever connected to the virtual port
Receivers == {"port", "others"}

\* those there are now
Present == {r \in Receivers : IF r = "port" THEN connected ELSE virtual}

Init ==
    /\ ApiInit
    /\ api \in Apis
    /\ client = TRUE
    /\ virtual = FALSE
    /\ link = "garbage"
    /\ bufferSize = 1 /\ coder = 1 /\ buffer = 1
    /\ buffered = {}
    /\ due = [m \in 1 .. MaxCalls |-> {}]
    /\ left = [r \in Receivers |-> {}]
    /\ silent = {}
    /\ heard = [r \in Receivers |-> {}]

-----------------------------------------------------------------------------
(* openPort, openVirtualPort, closePort and the destructor. *)

OpenConnected ==
    /\ connected
    /\ Call("openPort")
    /\ UNCHANGED <<connected, client, virtual, link, failed, fault>>

\* ALSA subscribes a port of its own; OS X needs the client.
OpenPort ==
    /\ ~connected /\ client
    /\ Call("openPort")
    /\ connected' = TRUE
    /\ virtual' = (virtual \/ Alsa)
    /\ link' = IF Alsa THEN "live" ELSE link
    /\ UNCHANGED <<client, failed, fault>>

\* There is no such destination, or its port cannot be opened.  OS X disposes of
\* the client, and with it goes the virtual port, for which the object keeps the
\* endpoint.
OpenFails ==
    /\ ~connected
    /\ Call("openPort")
    /\ \/ Fail("port") /\ UNCHANGED client
       \/ Core /\ client /\ Fail("port") /\ client' = FALSE
       \/ ~client /\ UNCHANGED <<client, failed>>
    /\ UNCHANGED <<connected, virtual, link, fault>>

\* ALSA: the subscription is refused, and freed.
SubscribeFails ==
    /\ Alsa /\ ~connected
    /\ Call("openPort")
    /\ Fail("subscribe")
    /\ virtual' = TRUE
    /\ link' = "freed"
    /\ UNCHANGED <<connected, client, fault>>

\* Windows has no virtual ports, and for a second one OS X only warns.
OpenVirtual ==
    /\ Call("openVirtualPort")
    /\ virtual' = (virtual \/ (~Win /\ client))
    /\ UNCHANGED <<connected, client, link, failed, fault>>

OpenVirtualFails ==
    /\ ~Win /\ ~virtual
    /\ Call("openVirtualPort")
    /\ Fail("port")
    /\ UNCHANGED <<connected, client, virtual, link, fault>>

\* What opens a port leaves the output buffer alone.
OpenStep ==
    /\ \/ OpenConnected \/ OpenPort \/ OpenFails
       \/ SubscribeFails
       \/ OpenVirtual \/ OpenVirtualFails
    /\ UNCHANGED <<buffered, left>>

\* closePort, which the destructor begins with.  The destination no longer gets
\* what is in the buffer; with the sequencer the destructor drops the buffer.
Close(function, to) ==
    /\ Begin(function, to)
    /\ connected' = FALSE
    /\ left' = [r \in Receivers |->
                   IF to = "gone" \/ (connected /\ r = "port")
                   THEN left[r] \cup buffered ELSE left[r]]
    /\ buffered' = IF to = "gone" THEN {} ELSE buffered
    /\ link' = IF Alsa /\ connected THEN "freed" ELSE link
    /\ fault' = IF Alsa /\ connected /\ link # "live" THEN "freed twice" ELSE fault
    /\ UNCHANGED <<client, virtual, failed>>

PortStep ==
    /\ OpenStep \/ Close("closePort", "idle") \/ Close("delete", "gone")
    /\ UNCHANGED <<after, api, bufferSize, coder, buffer, due, silent, heard>>

-----------------------------------------------------------------------------
(* sendMessage *)

\* The number of the call is that of the message.
Sends(to) ==
    /\ Begin("sendMessage", to)
    /\ due' = [due EXCEPT ![calls'] = Present]

\* The system takes the messages ms for the receivers rs.
Deliver(ms, rs) ==
    heard' = [r \in Receivers |-> IF r \in rs THEN heard[r] \cup ms ELSE heard[r]]

\* What is older than message k leaves the output buffer, which has the messages ms.
Drain(ms, k) ==
    /\ Deliver({m \in ms : m < k}, Present)
    /\ buffered' = {m \in ms : m >= k}

\* Seeded fault: only the encoder gets more room.
GrowCoder(n) ==
    /\ Alsa /\ n > bufferSize
    /\ bufferSize' = n
    /\ Sends("send")
    /\ coder' = n
    /\ UNCHANGED <<buffer, buffered, failed, silent, heard, fault>>

\* ALSA: a message longer than any before needs more room: first in the encoder,
\* then a new buffer.  bufferSize is raised before there is any.
Grow(n) ==
    /\ Alsa /\ n > bufferSize
    /\ bufferSize' = n
    /\ \/ /\ Sends("send")
          /\ coder' = n /\ buffer' = n
          /\ UNCHANGED failed
       \/ /\ Sends("idle")
          /\ Fail("memory")
          /\ \/ UNCHANGED <<coder, buffer>>
             \/ coder' = n /\ buffer' = 0
    /\ UNCHANGED <<buffered, silent, heard, fault>>

\* The message is copied and encoded: what the encoder does not take whole is only
\* warned about.  It goes into the output buffer, unless that is full and cannot be
\* drained, a warning too.  Whether the buffer could be drained in the end, into a
\* sequencer that does not wait, sendMessage does not look at.
SendAlsa(n) ==
    /\ Alsa
    /\ \/ n <= bufferSize /\ Sends("idle")
       \/ Continue("send", "idle") /\ n = bufferSize /\ UNCHANGED due
    /\ fault' = IF n > buffer THEN "written past the end" ELSE fault
    /\ \/ /\ n > coder
          /\ UNCHANGED <<buffered, silent, heard, failed>>
       \/ /\ n <= coder
          /\ Fail("send")
          /\ \E k \in 1 .. MaxCalls : Drain(buffered, k)
          /\ UNCHANGED silent
       \/ /\ n <= coder
          /\ silent' = silent \cup {calls'}
          /\ \/ Drain(buffered \cup {calls'}, calls' + 1) /\ UNCHANGED failed
             \/ /\ Fail("drain")
                /\ \E k \in buffered \cup {calls'} : Drain(buffered \cup {calls'}, k)
    /\ UNCHANGED <<bufferSize, coder, buffer>>

\* Seeded fault: the destination gets nothing when there is a virtual port.
SendCoreFirst ==
    /\ Core
    /\ Sends("idle")
    /\ silent' = silent \cup {calls'}
    /\ Deliver({calls'}, IF virtual THEN {"others"} ELSE due'[calls'])
    /\ UNCHANGED <<bufferSize, coder, buffer, buffered, fault, failed>>

\* OS X: a message, of at most 256 bytes, goes to those at the virtual port, and
\* then to the destination, even when the first failed, which is only warned about.
SendCore ==
    /\ Core
    /\ Sends("idle")
    /\ \/ /\ client \/ due'[calls'] = {}
          /\ silent' = silent \cup {calls'}
          /\ Deliver({calls'}, due'[calls'])
          /\ UNCHANGED failed
       \/ /\ Fail("send")
          /\ \E some \in SUBSET due'[calls'] :
                 (client \/ some = {}) /\ Deliver({calls'}, some)
          /\ UNCHANGED silent
       \/ /\ ~client /\ due'[calls'] # {}
          /\ UNCHANGED <<silent, heard, failed>>
    /\ UNCHANGED <<bufferSize, coder, buffer, buffered, fault>>

\* Windows: without a connection sendMessage returns.  A sysex message is given to
\* the device,
SendWin ==
    /\ Win
    /\ Sends(IF connected THEN "playing" ELSE "idle")
    /\ silent' = IF connected THEN silent ELSE silent \cup {calls'}
    /\ UNCHANGED <<bufferSize, coder, buffer, buffered, heard, failed, fault>>

\* which plays it, and sendMessage waits until it has.  A short one is sent at once.
Played ==
    /\ Continue("playing", "idle")
    /\ \/ /\ silent' = silent \cup {calls}
          /\ Deliver({calls}, due[calls])
          /\ UNCHANGED failed
       \/ Fail("send") /\ UNCHANGED <<silent, heard>>
    /\ UNCHANGED <<due, bufferSize, coder, buffer, buffered, fault>>

SendStep ==
    /\ \/ \E n \in Lengths : Grow(n) \/ SendAlsa(n)
       \/ SendCore \/ SendWin \/ Played
    /\ UNCHANGED <<after, connected, api, client, virtual, link, left>>

Next == fault = "none" /\ (PortStep \/ SendStep)

Spec == Init /\ [][Next]_vars

-----------------------------------------------------------------------------
(* Properties. *)

\* The types of the variables.
TypeOK ==
    /\ ApiTypeOK({"idle", "gone", "send", "playing"})
    /\ api \in Apis
    /\ client \in BOOLEAN /\ virtual \in BOOLEAN
    /\ link \in {"garbage", "live", "freed"}
    /\ bufferSize \in {1} \cup Lengths
    /\ coder \in {1} \cup Lengths
    /\ buffer \in {0, 1} \cup Lengths
    /\ buffered \subseteq 1 .. MaxCalls
    /\ due \in [1 .. MaxCalls -> SUBSET Receivers]
    /\ left \in [Receivers -> SUBSET (1 .. MaxCalls)]
    /\ silent \subseteq 1 .. MaxCalls
    /\ heard \in [Receivers -> SUBSET (1 .. MaxCalls)]

\* As long as there is memory, sendMessage never writes past its buffer and no
\* subscription is freed twice, in whatever order ports are opened and closed and
\* messages grow.
FaultHasCause == fault # "none" => "memory" \in failed

\* When sendMessage says nothing, every receiver there was when it was called has
\* the message.  That there was none it does not say, nor that ALSA's output buffer
\* could not be drained: the message is then in it until a later one takes it along,
\* or the receiver has left before.
SilentIsHeard ==
    /\ \A m \in silent : \A r \in due[m] :
           m \in heard[r] \/ m \in buffered \/ m \in left[r]
    /\ "drain" \notin failed => buffered = {} /\ \A r \in Receivers : left[r] = {}
=============================================================================
