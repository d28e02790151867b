----------------------------- MODULE MidiInApi ------------------------------
(***************************************************************************)
(* The half of an RtMidi input object that all platforms share             *)
(* (src/RtMidi.cpp, class MidiInApi): the callback, the queue for a        *)
(* program without one, the types to ignore, and the end of each           *)
(* platform's handler, which hands a message to the callback or puts it    *)
(* into the queue.  The handler runs on a thread of its own and nothing    *)
(* here is locked.                                                         *)
(*                                                                         *)
(* What a device sends is a stream of chunks.  A note, or a message of     *)
(* the clock, is one chunk; a system exclusive message comes in one or     *)
(* more.  A message as the program gets it is a sequence of chunks.        *)
(***************************************************************************)
EXTENDS MidiApi, Sequences

CONSTANTS
    RingSize,   \* queueSizeLimit
    Kinds,      \* types of messages a device sends
    Ragged,     \* whether a device may leave a sysex message unfinished
    MaxChunks   \* bound: chunks a device sends

ASSUME InAssumption ==
    /\ RingSize \in Nat
    /\ Kinds \subseteq {"note", "time", "sysex"}
    /\ Ragged \in BOOLEAN
    /\ MaxChunks \in Nat

VARIABLES
    using,      \* usingCallback
    function,   \* whether userCallback is set
    ignore,     \* the types in ignoreFlags
    todo,       \* the flags ignoreTypes has yet to set
    ring,       \* queue.ring, from 0
    front,      \* queue.front
    back,       \* queue.back
    size,       \* queue.size
    tail,       \* where the handler is in handing a message over
    handing,    \* the message
    mine,       \* the size the handler has read
    yours,      \* the size getMessage has read
    emitted,    \* history: the chunks the device has sent
    consumed,   \* history: the chunks the handler has taken
    handed,     \* history: the messages handed over
    called,     \* history: the messages the callback was given
    pushed,     \* history: the messages put into the queue
    got,        \* history: the messages getMessage returned
    raced,      \* history: whether an update of size was overwritten
    retyped     \* history: whether ignoreTypes came while messages did

callbackVars == <<using, function>>
ignoreVars == <<ignore, todo, retyped>>
queueVars == <<ring, front, back, size, mine, yours, pushed, got, raced>>
streamVars == <<emitted, consumed>>
handVars == <<tail, handing, handed, called>>
inVars == <<callbackVars, ignoreVars, queueVars, streamVars, handVars>>

-----------------------------------------------------------------------------
Chunk == [msg : Nat, kind : Kinds, first : BOOLEAN, last : BOOLEAN]
Message == Seq(Chunk)
NoMessage == <<>>
Flags == {"sysex", "time", "sense"}

Slots == 0 .. RingSize - 1
NextSlot(i) == IF i + 1 = RingSize THEN 0 ELSE i + 1

LastOf(s) == s[Len(s)]

\* one message from its beginning to its end
Whole(m) == m # <<>> /\ Head(m).first /\ LastOf(m).last

\* What a device may send after the chunks s: the next part of a sysex message,
\* or a new message.
NextChunks(s) ==
    LET n == IF s = <<>> THEN 0 ELSE LastOf(s).msg
        cut == s # <<>> /\ ~LastOf(s).last
        new == [msg : {n + 1}, kind : Kinds, first : {TRUE}, last : BOOLEAN]
        rest == [msg : {n}, kind : {"sysex"}, first : {FALSE}, last : BOOLEAN]
    IN  (IF cut THEN rest ELSE {}) \cup
        (IF cut /\ ~Ragged THEN {} ELSE {c \in new : c.kind = "sysex" \/ c.last})

\* The parts of each message follow one another.
WellFormed(s) ==
    \A i \in DOMAIN s :
        i > 1 => IF s[i].first THEN s[i - 1].last
                               ELSE ~s[i - 1].last /\ s[i - 1].msg = s[i].msg

Wanted(c) == c.kind \notin ignore

\* the chunks of s without those of the types in flags
Unignored(s, flags) ==
    LET to[n \in 0 .. Len(s)] ==
            IF n = 0 THEN <<>>
            ELSE IF s[n].kind \in flags THEN to[n - 1] ELSE Append(to[n - 1], s[n])
    IN  to[Len(s)]

InInit ==
    /\ using = FALSE
    /\ function = FALSE
    /\ ignore = Flags
    /\ todo = <<>>
    /\ ring = [i \in Slots |-> NoMessage]
    /\ front = 0
    /\ back = 0
    /\ size = 0
    /\ tail = "none"
    /\ handing = NoMessage
    /\ mine = 0
    /\ yours = 0
    /\ emitted = <<>>
    /\ consumed = <<>>
    /\ handed = <<>>
    /\ called = <<>>
    /\ pushed = <<>>
    /\ got = <<>>
    /\ raced = FALSE
    /\ retyped = FALSE

-----------------------------------------------------------------------------
(* The functions of a program. *)

\* setCallback, unless a callback is set already
SetCallback ==
    /\ Call("setCallback")
    /\ using' = TRUE
    /\ function' = (using => function)
    /\ UNCHANGED <<ignoreVars, queueVars>>

\* cancelCallback removes the function first,
CancelFunction ==
    /\ using
    /\ Begin("cancelCallback", "cancel")
    /\ function' = FALSE
    /\ UNCHANGED <<using, ignoreVars, queueVars>>

\* and then says that there is none.
CancelUsing ==
    /\ Continue("cancel", "idle")
    /\ using' = FALSE
    /\ UNCHANGED <<function, ignoreVars, queueVars>>

\* ignoreTypes clears the flags
IgnoreTypes ==
    \E new \in {<<>>, <<"time", "sense">>, <<"sysex", "time", "sense">>} :
        /\ Begin("ignoreTypes", IF new = <<>> THEN "idle" ELSE "ignore")
        /\ ignore' = {}
        /\ todo' = new
        /\ retyped' = (retyped \/ consumed # <<>>)
        /\ UNCHANGED <<callbackVars, queueVars>>

\* and sets one after the other.
IgnoreFlag ==
    /\ Continue("ignore", IF Len(todo) = 1 THEN "idle" ELSE "ignore")
    /\ ignore' = ignore \cup {Head(todo)}
    /\ todo' = Tail(todo)
    /\ UNCHANGED <<retyped, callbackVars, queueVars>>

\* getMessage with nothing to return
GetNothing ==
    /\ using \/ size = 0
    /\ Call("getMessage")
    /\ UNCHANGED <<callbackVars, ignoreVars, queueVars>>

\* getMessage copies the message at the front,
GetMessage ==
    /\ ~using /\ size # 0
    /\ Begin("getMessage", "load")
    /\ got' = Append(got, ring[front])
    /\ UNCHANGED <<callbackVars, ignoreVars, ring, front, back, size, mine,
                   yours, pushed, raced>>

\* and takes it off: queue.size--
GetLoad ==
    /\ Continue("load", "store")
    /\ yours' = size
    /\ UNCHANGED <<callbackVars, ignoreVars, ring, front, back, size, mine,
                   pushed, got, raced>>

GetStore ==
    /\ Continue("store", "idle")
    /\ size' = yours - 1
    /\ raced' = (raced \/ size # yours)
    /\ front' = NextSlot(front)
    /\ UNCHANGED <<callbackVars, ignoreVars, ring, back, mine, yours, pushed,
                   got>>

InCall ==
    /\ \/ SetCallback \/ CancelFunction \/ CancelUsing
       \/ IgnoreTypes \/ IgnoreFlag
       \/ GetNothing \/ GetMessage \/ GetLoad \/ GetStore
    /\ UNCHANGED <<after, connected, failed, fault, streamVars, handVars>>

InPlaces == {"idle", "gone", "cancel", "ignore", "load", "store"}

-----------------------------------------------------------------------------
(* The device and the handler. *)

\* A device sends a chunk.
Emit ==
    /\ Len(emitted) < MaxChunks
    /\ \E c \in NextChunks(emitted) : emitted' = Append(emitted, c)
    /\ UNCHANGED consumed

\* the chunks the handler has yet to take
Pending == SubSeq(emitted, Len(consumed) + 1, Len(emitted))

\* The handler takes chunks and looks up what to ignore.
Consume(chunks) ==
    /\ consumed' = consumed \o chunks
    /\ retyped' = (retyped \/ upc = "ignore")
    /\ UNCHANGED <<emitted, ignore, todo>>

\* The handler has a message to hand over.
HandOver(m) ==
    /\ tail' = "test"
    /\ handing' = m
    /\ handed' = Append(handed, m)
    /\ UNCHANGED called

HandNothing == UNCHANGED handVars

TailGoes(from, to) ==
    /\ tail = from
    /\ tail' = to
    /\ UNCHANGED <<handing, handed>>

\* if ( data->usingCallback )
TestCallback ==
    /\ TailGoes("test", IF using THEN "call" ELSE "room")
    /\ UNCHANGED <<called, queueVars, fault>>

\* callback( message.timeStamp, &message.bytes, data->userData )
CallUser ==
    /\ TailGoes("call", "none")
    /\ IF function
       THEN called' = Append(called, handing) /\ UNCHANGED fault
       ELSE fault' = "null callback" /\ UNCHANGED called
    /\ UNCHANGED queueVars

\* Seeded fault: a full queue takes one more.
TestRoomLoose ==
    /\ TailGoes("room", IF size <= RingSize THEN "slot" ELSE "none")
    /\ UNCHANGED <<called, queueVars, fault>>

\* A full queue drops the message.
TestRoom ==
    /\ TailGoes("room", IF size < RingSize THEN "slot" ELSE "none")
    /\ UNCHANGED <<called, queueVars, fault>>

StoreMessage ==
    /\ TailGoes("slot", "load")
    /\ ring' = [ring EXCEPT ![back] = handing]
    /\ back' = NextSlot(back)
    /\ pushed' = Append(pushed, handing)
    /\ UNCHANGED <<called, front, size, mine, yours, got, raced, fault>>

\* queue.size++
LoadSize ==
    /\ TailGoes("load", "store")
    /\ mine' = size
    /\ UNCHANGED <<called, ring, front, back, size, yours, pushed, got, raced,
                   fault>>

StoreSize ==
    /\ TailGoes("store", "none")
    /\ size' = mine + 1
    /\ raced' = (raced \/ size # mine)
    /\ UNCHANGED <<called, ring, front, back, mine, yours, pushed, got, fault>>

TailStep ==
    /\ \/ TestCallback \/ CallUser
       \/ TestRoom \/ StoreMessage \/ LoadSize \/ StoreSize
    /\ UNCHANGED <<callVars, connected, failed, callbackVars, ignoreVars,
                   streamVars>>

-----------------------------------------------------------------------------
(* Properties. *)

\* The types of the variables.
InTypeOK ==
    /\ using \in BOOLEAN /\ function \in BOOLEAN
    /\ ignore \subseteq Flags
    /\ todo \in Seq(Flags)
    /\ ring \in [Slots -> Message]
    /\ front \in Nat /\ back \in Nat
    /\ size \in 0 .. RingSize
    /\ tail \in {"none", "test", "call", "room", "slot", "load", "store"}
    /\ handing \in Message
    /\ mine \in Nat /\ yours \in Nat
    /\ emitted \in Seq(Chunk) /\ consumed \in Seq(Chunk)
    /\ handed \in Seq(Message) /\ called \in Seq(Message)
    /\ pushed \in Seq(Message) /\ got \in Seq(Message)
    /\ raced \in BOOLEAN /\ retyped \in BOOLEAN

Getting == upc \in {"load", "store"}
Putting == tail \in {"load", "store"}

\* one when getMessage has copied a message it has yet to take off, and when the
\* handler has written one it has yet to count
Taken == IF Getting THEN 1 ELSE 0
Written == IF Putting THEN 1 ELSE 0

\* What the queue holds: the slots from the one after those getMessage has
\* copied, up to the one the handler has written.
Queued ==
    LET from == IF Getting THEN NextSlot(front) ELSE front
        n == size + Written - Taken
    IN  [i \in 1 .. n |-> ring[(from + i - 1) % RingSize]]

\* The queue is first in, first out and loses nothing between an update of
\* queue.size by the handler and one by getMessage, until the two overwrite each
\* other: getMessage has returned the messages that were put in, in their order,
\* and the others are in the ring.
QueueExact == ~raced => pushed = got \o Queued
=============================================================================
