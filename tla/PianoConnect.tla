---------------------------- MODULE PianoConnect ----------------------------
(***************************************************************************)
(* The application object of src/pianoconnect.cpp at two peers that share  *)
(* a UDP-like channel: the callback thread of every MIDI input device      *)
(* (onMessage), the receive thread (onPacket), the high-resolution timer   *)
(* thread (onTimer) and the logging half of the loop in main().            *)
(*                                                                         *)
(* One action is one step between two points where another thread can see  *)
(* or change what the step uses.  message_queue and log_messages are only  *)
(* touched under the mutex; the timer holds it over several steps (state   *)
(* "drain"), every other critical section is one action that waits for it. *)
(*                                                                         *)
(* Times are ticks of the clock precise_time() reads.  How delta and       *)
(* latency are computed is the subject of ClockSync; here the handler of a *)
(* ClockSyncAck leaves any value of DeltaEst and LatencyEst behind.        *)
(***************************************************************************)
EXTENDS Integers, Sequences

CONSTANTS
    Peer,           \* the two processes
    Input,          \* MIDI input devices, each with a callback thread
    PeerOf,         \* the process an input device is opened by
    Offset,         \* what a peer's clock shows beyond the true time
    AutoLatency,    \* config.auto_latency
    FixedLatency,   \* per peer, the "latency" line of its configuration
    LatencyEst,     \* values latency * 1.1 takes
    DeltaEst,       \* per peer, values the average of delta_rs takes
    EstErr,         \* how far those are from the true offset at most
    Duplication,    \* config.duplication
    Logging,        \* whether a log file is configured
    SerialMod,      \* current_serial is an unsigned int: 2^32
    SerialInit,     \* what the uninitialised current_serial may hold
    MaxNow,         \* bound: the last instant modelled
    MaxStrikeTime,  \* bound: no MIDI event after this instant
    MaxStrikes,     \* bound: MIDI events per input device
    MaxAcks         \* bound: clock exchanges a peer completes

ASSUME PeerAssumption ==
    /\ \E p, q \in Peer : p # q /\ Peer = {p, q}
    /\ PeerOf \in [Input -> Peer]
    /\ Offset \in [Peer -> Int]

ASSUME ConfigAssumption ==
    /\ AutoLatency \in BOOLEAN
    /\ FixedLatency \in [Peer -> Int]
    /\ LatencyEst \subseteq Int
    /\ DeltaEst \in [Peer -> SUBSET Int]
    /\ EstErr \in Nat
    /\ \A p, q \in Peer : p # q => \A d \in DeltaEst[p] :
           d - (Offset[q] - Offset[p]) \in -EstErr .. EstErr
    /\ Duplication \in Int
    /\ Logging \in BOOLEAN

ASSUME BoundAssumption ==
    /\ SerialMod \in Nat \ {0}
    /\ SerialInit \subseteq 0 .. SerialMod - 1
    /\ MaxNow \in Nat
    /\ MaxStrikeTime \in Nat
    /\ MaxStrikes \in Nat
    /\ MaxAcks \in Nat

VARIABLES
    now,        \* true time
    serial,     \* current_serial of each peer
    latency,    \* config.latency of each peer
    delta,      \* delta of each peer: my_time + delta = other_time
    acks,       \* how often delta_rs and latency_rs have been fed
    ipc,        \* where the callback thread of an input is in onMessage
    packet,     \* its local variable packet
    loaded,     \* current_serial as read by its "current_serial += 1"
    due,        \* message.timestamp of its local copy, once latency is added
    granted,    \* history: the latency that was added
    strikes,    \* number of MIDI events each input has reported
    struckAt,   \* history: the true time of each event
    net,        \* datagrams in flight
    received,   \* received_packets of each peer
    pushes,     \* number of pushes so far, tells equal queue entries apart
    queue,      \* message_queue of each peer, as a set of entries
    tpc,        \* where the timer thread of a peer is in onTimer
    tnow,       \* its local variable T
    played,     \* what a peer's output devices were sent, in order
    logq,       \* log_messages
    copied,     \* msgs, the local copy main() writes out
    logged      \* MIDI lines of the log file

inputVars == <<serial, ipc, packet, loaded, due, granted, strikes, struckAt>>
syncVars  == <<latency, delta, acks>>
recvVars  == <<net, received>>
queueVars == <<pushes, queue>>
timerVars == <<tpc, tnow, played>>
logVars   == <<logq, copied, logged>>
vars == <<now, inputVars, syncVars, recvVars, queueVars, timerVars, logVars>>

-----------------------------------------------------------------------------
\* The k-th event of input i is the message <<i, k>>.
Message == Input \X (1 .. MaxStrikes)

\* UniqueIdentifier: the key of received_packets.
Identifier == [serial : 0 .. SerialMod - 1, timestamp : Int]

\* Packet_MIDIMessage: message.timestamp equals identifier.timestamp on the wire.
Packet == [msg : Message, ident : Identifier]

\* An element of message_queue.  n, lat and sync record how it came about: the
\* push that made it, the latency added, and whether the clock offset was known.
Entry == [n : Nat, msg : Message, due : Int, lat : Int, sync : BOOLEAN]

NoPacket == [msg |-> <<>>, ident |-> <<>>]

Clock(p) == now + Offset[p]

Sender(m) == PeerOf[m[1]]

MutexFree(p) == tpc[p] # "drain"

\* priority_queue::push, under the lock
Push(p, m, t, lat, sync) ==
    /\ MutexFree(p)
    /\ queue' = [queue EXCEPT ![p] = @ \cup
           {[n |-> pushes[p], msg |-> m, due |-> t, lat |-> lat, sync |-> sync]}]
    /\ pushes' = [pushes EXCEPT ![p] = @ + 1]

\* Seeded fault: the comparison of protocol.h is not reversed.
IsTopLatest(p, e) ==
    /\ e \in queue[p]
    /\ \A f \in queue[p] : e.due >= f.due

\* priority_queue::top: an element no other precedes.  Ties fall either way.
IsTop(p, e) ==
    /\ e \in queue[p]
    /\ \A f \in queue[p] : e.due <= f.due

-----------------------------------------------------------------------------
Init ==
    /\ now = 0
    /\ serial \in [Peer -> SerialInit]
    /\ latency = [p \in Peer |-> IF AutoLatency THEN 0 ELSE FixedLatency[p]]
    /\ delta = [p \in Peer |-> 0]
    /\ acks = [p \in Peer |-> 0]
    /\ ipc = [i \in Input |-> "idle"]
    /\ packet = [i \in Input |-> NoPacket]
    /\ loaded = [i \in Input |-> 0]
    /\ due = [i \in Input |-> 0]
    /\ granted = [i \in Input |-> 0]
    /\ strikes = [i \in Input |-> 0]
    /\ struckAt = [m \in Message |-> 0]
    /\ net = {}
    /\ received = [p \in Peer |-> {}]
    /\ pushes = [p \in Peer |-> 0]
    /\ queue = [p \in Peer |-> {}]
    /\ tpc = [p \in Peer |-> "sleep"]
    /\ tnow = [p \in Peer |-> 0]
    /\ played = [p \in Peer |-> <<>>]
    /\ logq = [p \in Peer |-> <<>>]
    /\ copied = [p \in Peer |-> <<>>]
    /\ logged = [p \in Peer |-> <<>>]

Tick ==
    /\ now < MaxNow
    /\ now' = now + 1
    /\ UNCHANGED <<inputVars, syncVars, recvVars, queueVars, timerVars, logVars>>

-----------------------------------------------------------------------------
(* onMessage, on the callback thread of input i.  An oversized message is  *)
(* reported and dropped before any state changes: it is a stuttering step. *)

\* precise_time() stamps the message
MidiStamp(i) ==
    /\ ipc[i] = "idle"
    /\ strikes[i] < MaxStrikes
    /\ now <= MaxStrikeTime
    /\ ipc' = [ipc EXCEPT ![i] = "stamped"]
    /\ strikes' = [strikes EXCEPT ![i] = @ + 1]
    /\ packet' = [packet EXCEPT ![i] =
           [msg |-> <<i, strikes[i] + 1>>,
            ident |-> [serial |-> 0, timestamp |-> Clock(PeerOf[i])]]]
    /\ struckAt' = [struckAt EXCEPT ![<<i, strikes[i] + 1>>] = now]
    /\ UNCHANGED <<now, serial, loaded, due, granted, syncVars, recvVars, queueVars,
                   timerVars, logVars>>

\* the unlocked read of current_serial
MidiSerial(i) ==
    /\ ipc[i] = "stamped"
    /\ ipc' = [ipc EXCEPT ![i] = "numbered"]
    /\ packet' = [packet EXCEPT ![i].ident.serial = serial[PeerOf[i]]]
    /\ UNCHANGED <<now, serial, loaded, due, granted, strikes, struckAt, syncVars, recvVars,
                   queueVars, timerVars, logVars>>

\* Duplication copies leave (none for a count below one), and the increment
\* loads the counter
MidiSend(i) ==
    /\ ipc[i] = "numbered"
    /\ ipc' = [ipc EXCEPT ![i] = "sent"]
    /\ net' = IF Duplication >= 1 THEN net \cup {packet[i]} ELSE net
    /\ loaded' = [loaded EXCEPT ![i] = serial[PeerOf[i]]]
    /\ UNCHANGED <<now, serial, packet, due, granted, strikes, struckAt, syncVars, received,
                   queueVars, timerVars, logVars>>

\* Seeded fault: the counter does not wrap.
MidiBumpUnwrapped(i) ==
    LET p == PeerOf[i]
    IN /\ ipc[i] = "sent"
       /\ ipc' = [ipc EXCEPT ![i] = "bumped"]
       /\ serial' = [serial EXCEPT ![p] = loaded[i] + 1]
       /\ due' = [due EXCEPT ![i] = packet[i].ident.timestamp + latency[p]]
       /\ granted' = [granted EXCEPT ![i] = latency[p]]
       /\ UNCHANGED <<now, packet, loaded, strikes, struckAt, syncVars, recvVars, queueVars,
                      timerVars, logVars>>

\* Seeded fault: the increment is missing.
MidiBumpMissing(i) ==
    /\ ipc[i] = "sent"
    /\ ipc' = [ipc EXCEPT ![i] = "bumped"]
    /\ due' = [due EXCEPT ![i] = packet[i].ident.timestamp + latency[PeerOf[i]]]
    /\ granted' = [granted EXCEPT ![i] = latency[PeerOf[i]]]
    /\ UNCHANGED <<now, serial, packet, loaded, strikes, struckAt, syncVars, recvVars,
                   queueVars, timerVars, logVars>>

\* the increment stores the counter, and config.latency, which the receive
\* thread changes without the lock, is read and added.  No thread touches both.
MidiBump(i) ==
    LET p == PeerOf[i]
    IN /\ ipc[i] = "sent"
       /\ ipc' = [ipc EXCEPT ![i] = "bumped"]
       /\ serial' = [serial EXCEPT ![p] = (loaded[i] + 1) % SerialMod]
       /\ due' = [due EXCEPT ![i] = packet[i].ident.timestamp + latency[p]]
       /\ granted' = [granted EXCEPT ![i] = latency[p]]
       /\ UNCHANGED <<now, packet, loaded, strikes, struckAt, syncVars, recvVars, queueVars,
                      timerVars, logVars>>

\* the message is scheduled at home
MidiPush(i) ==
    /\ ipc[i] = "bumped"
    /\ ipc' = [ipc EXCEPT ![i] = "idle"]
    /\ Push(PeerOf[i], packet[i].msg, due[i], granted[i], TRUE)
    /\ packet' = [packet EXCEPT ![i] = NoPacket]
    /\ loaded' = [loaded EXCEPT ![i] = 0]
    /\ due' = [due EXCEPT ![i] = 0]
    /\ granted' = [granted EXCEPT ![i] = 0]
    /\ UNCHANGED <<now, serial, strikes, struckAt, syncVars, recvVars, timerVars, logVars>>

-----------------------------------------------------------------------------
(* onPacket, on the receive thread of p.  The channel may deliver another  *)
(* copy later, so a step that takes a datagram keeps or removes it.        *)

Take(d) == net' \in {net, net \ {d}}

\* Seeded fault: the identifier is not remembered.
AcceptMidiForgetful(p, d) ==
    /\ d \in net
    /\ Sender(d.msg) # p
    /\ d.ident \notin received[p]
    /\ Push(p, d.msg, d.ident.timestamp - delta[p] + latency[p],
            latency[p], acks[p] > 0)
    /\ Take(d)
    /\ UNCHANGED <<now, received, inputVars, syncVars, timerVars, logVars>>

\* Seeded fault: delta is added, not subtracted.
AcceptMidiAway(p, d) ==
    /\ d \in net
    /\ Sender(d.msg) # p
    /\ d.ident \notin received[p]
    /\ received' = [received EXCEPT ![p] = @ \cup {d.ident}]
    /\ Push(p, d.msg, d.ident.timestamp + delta[p] + latency[p],
            latency[p], acks[p] > 0)
    /\ Take(d)
    /\ UNCHANGED <<now, inputVars, syncVars, timerVars, logVars>>

\* a MIDI message not seen before: moved to this peer's clock and scheduled
AcceptMidi(p, d) ==
    /\ d \in net
    /\ Sender(d.msg) # p
    /\ d.ident \notin received[p]
    /\ received' = [received EXCEPT ![p] = @ \cup {d.ident}]
    /\ Push(p, d.msg, d.ident.timestamp - delta[p] + latency[p],
            latency[p], acks[p] > 0)
    /\ Take(d)
    /\ UNCHANGED <<now, inputVars, syncVars, timerVars, logVars>>

\* a MIDI message whose identifier is in received_packets
DropMidi(p, d) ==
    /\ d \in net
    /\ Sender(d.msg) # p
    /\ d.ident \in received[p]
    /\ net' = net \ {d}
    /\ UNCHANGED <<now, received, inputVars, syncVars, queueVars, timerVars, logVars>>

\* the channel loses a datagram
Lose(d) ==
    /\ d \in net
    /\ net' = net \ {d}
    /\ UNCHANGED <<now, received, inputVars, syncVars, queueVars, timerVars, logVars>>

\* a ClockSyncAck arrives: new averages
Resync(p) ==
    /\ acks[p] < MaxAcks
    /\ delta' \in {[delta EXCEPT ![p] = d] : d \in DeltaEst[p]}
    /\ latency' \in IF AutoLatency
                    THEN {[latency EXCEPT ![p] = l] : l \in LatencyEst}
                    ELSE {latency}
    /\ acks' = [acks EXCEPT ![p] = @ + 1]
    /\ UNCHANGED <<now, inputVars, recvVars, queueVars, timerVars, logVars>>

-----------------------------------------------------------------------------
(* onTimer, on the timer thread of p.                                      *)

\* T is read before the lock is asked for
TimerWake(p) ==
    /\ tpc[p] = "sleep"
    /\ tpc' = [tpc EXCEPT ![p] = "awake"]
    /\ tnow' = [tnow EXCEPT ![p] = Clock(p)]
    /\ UNCHANGED <<now, played, inputVars, syncVars, recvVars, queueVars, logVars>>

TimerLock(p) ==
    /\ tpc[p] = "awake"
    /\ tpc' = [tpc EXCEPT ![p] = "drain"]
    /\ UNCHANGED <<now, tnow, played, inputVars, syncVars, recvVars, queueVars, logVars>>

\* Seeded fault: the latency is granted once more.
PlayTopEarly(p) ==
    /\ tpc[p] = "drain"
    /\ \E e \in queue[p] :
           /\ IsTop(p, e)
           /\ e.due <= tnow[p] + latency[p]
           /\ queue' = [queue EXCEPT ![p] = @ \ {e}]
           /\ played' = [played EXCEPT ![p] = Append(@, e)]
           /\ logq' = IF Logging THEN [logq EXCEPT ![p] = Append(@, e)] ELSE logq
    /\ UNCHANGED <<now, tpc, tnow, pushes, copied, logged, inputVars, syncVars, recvVars>>

\* Seeded fault: the entry is not popped.
PlayTopKept(p) ==
    /\ tpc[p] = "drain"
    /\ \E e \in queue[p] :
           /\ IsTop(p, e)
           /\ e.due <= tnow[p]
           /\ played' = [played EXCEPT ![p] = Append(@, e)]
           /\ logq' = IF Logging THEN [logq EXCEPT ![p] = Append(@, e)] ELSE logq
    /\ UNCHANGED <<now, tpc, tnow, queue, pushes, copied, logged, inputVars, syncVars,
                   recvVars>>

\* one round of the loop: the top entry is due
PlayTop(p) ==
    /\ tpc[p] = "drain"
    /\ \E e \in queue[p] :
           /\ IsTop(p, e)
           /\ e.due <= tnow[p]
           /\ queue' = [queue EXCEPT ![p] = @ \ {e}]
           /\ played' = [played EXCEPT ![p] = Append(@, e)]
           /\ logq' = IF Logging THEN [logq EXCEPT ![p] = Append(@, e)] ELSE logq
    /\ UNCHANGED <<now, tpc, tnow, pushes, copied, logged, inputVars, syncVars, recvVars>>

\* Seeded fault: T is read once, before the first round.
TimerUnlockStale(p) ==
    /\ tpc[p] = "drain"
    /\ \A e \in queue[p] : e.due > tnow[p]
    /\ tpc' = [tpc EXCEPT ![p] = "awake"]
    /\ UNCHANGED <<now, tnow, played, inputVars, syncVars, recvVars, queueVars, logVars>>

\* the loop ends and the lock is released
TimerUnlock(p) ==
    /\ tpc[p] = "drain"
    /\ \A e \in queue[p] : e.due > tnow[p]
    /\ tpc' = [tpc EXCEPT ![p] = "sleep"]
    /\ tnow' = [tnow EXCEPT ![p] = 0]
    /\ UNCHANGED <<now, played, inputVars, syncVars, recvVars, queueVars, logVars>>

-----------------------------------------------------------------------------
(* The logging half of the loop in main().                                 *)

\* Seeded fault: the pending messages are not cleared.
LogCopyKept(p) ==
    /\ Logging
    /\ MutexFree(p)
    /\ copied[p] = <<>>
    /\ logq[p] # <<>>
    /\ copied' = [copied EXCEPT ![p] = logq[p]]
    /\ UNCHANGED <<now, logq, logged, inputVars, syncVars, recvVars, queueVars, timerVars>>

\* Seeded fault: the pending messages are cleared before they are copied.
LogCopyCleared(p) ==
    /\ Logging
    /\ MutexFree(p)
    /\ copied[p] = <<>>
    /\ logq[p] # <<>>
    /\ logq' = [logq EXCEPT ![p] = <<>>]
    /\ UNCHANGED <<now, copied, logged, inputVars, syncVars, recvVars, queueVars, timerVars>>

\* safe copy: copy and clear in one critical section
LogCopy(p) ==
    /\ Logging
    /\ MutexFree(p)
    /\ copied[p] = <<>>
    /\ logq[p] # <<>>
    /\ copied' = [copied EXCEPT ![p] = logq[p]]
    /\ logq' = [logq EXCEPT ![p] = <<>>]
    /\ UNCHANGED <<now, logged, inputVars, syncVars, recvVars, queueVars, timerVars>>

\* one line, outside the lock
LogWrite(p) ==
    /\ copied[p] # <<>>
    /\ logged' = [logged EXCEPT ![p] = Append(@, Head(copied[p]))]
    /\ copied' = [copied EXCEPT ![p] = Tail(@)]
    /\ UNCHANGED <<now, logq, inputVars, syncVars, recvVars, queueVars, timerVars>>

-----------------------------------------------------------------------------
MidiStep(i) ==
    \/ MidiStamp(i) \/ MidiSerial(i) \/ MidiSend(i) \/ MidiBump(i) \/ MidiPush(i)

PacketStep(p) ==
    \/ \E d \in net : AcceptMidi(p, d) \/ DropMidi(p, d)
    \/ Resync(p)

TimerStep(p) ==
    \/ TimerWake(p) \/ TimerLock(p) \/ PlayTop(p) \/ TimerUnlock(p)

LogStep(p) == LogCopy(p) \/ LogWrite(p)

Next ==
    \/ Tick
    \/ \E i \in Input : MidiStep(i)
    \/ \E p \in Peer : PacketStep(p) \/ TimerStep(p) \/ LogStep(p)
    \/ \E d \in net : Lose(d)

Spec == Init /\ [][Next]_vars

(* The operating system schedules every thread again and again.  A push    *)
(* may find the mutex taken, but the timer sleeps without it in every      *)
(* round: strong fairness for the steps that need the lock.  Nothing is    *)
(* assumed of the channel, of the pianist or of clock synchronisation.     *)
Fairness ==
    /\ WF_vars(Tick)
    /\ \A i \in Input :
           /\ WF_vars(MidiSerial(i) \/ MidiSend(i) \/ MidiBump(i))
           /\ SF_vars(MidiPush(i))
    /\ \A p \in Peer :
           /\ WF_vars(TimerStep(p))
           /\ SF_vars(LogCopy(p))
           /\ WF_vars(LogWrite(p))

FairSpec == Spec /\ Fairness

-----------------------------------------------------------------------------
(* Type invariant. *)
TypeOK ==
    /\ now \in 0 .. MaxNow
    /\ serial \in [Peer -> 0 .. SerialMod - 1]
    /\ latency \in [Peer -> Int]
    /\ delta \in [Peer -> Int]
    /\ acks \in [Peer -> 0 .. MaxAcks]
    /\ ipc \in [Input -> {"idle", "stamped", "numbered", "sent", "bumped"}]
    /\ packet \in [Input -> Packet \cup {NoPacket}]
    /\ \A i \in Input : ipc[i] # "idle" => packet[i] \in Packet
    /\ loaded \in [Input -> 0 .. SerialMod - 1]
    /\ due \in [Input -> Int]
    /\ granted \in [Input -> Int]
    /\ strikes \in [Input -> 0 .. MaxStrikes]
    /\ struckAt \in [Message -> Int]
    /\ net \subseteq Packet
    /\ received \in [Peer -> SUBSET Identifier]
    /\ pushes \in [Peer -> Nat]
    /\ queue \in [Peer -> SUBSET Entry]
    /\ tpc \in [Peer -> {"sleep", "awake", "drain"}]
    /\ tnow \in [Peer -> Int]
    /\ played \in [Peer -> Seq(Entry)]
    /\ logq \in [Peer -> Seq(Entry)]
    /\ copied \in [Peer -> Seq(Entry)]
    /\ logged \in [Peer -> Seq(Entry)]

\* Everything a peer has scheduled: what waits and what was played.
Scheduled(p) == queue[p] \cup {played[p][j] : j \in DOMAIN played[p]}

\* No output device hears a message twice, however often its datagram arrives
\* (duplicated by config.duplication or by the channel) and whatever the
\* threads do: received_packets in onPacket.
AtMostOnce ==
    \A p \in Peer :
        /\ \A j, k \in DOMAIN played[p] :
               played[p][j].msg = played[p][k].msg => j = k
        /\ \A e \in queue[p] : \A j \in DOMAIN played[p] : played[p][j].msg # e.msg
        /\ \A e, f \in queue[p] : e.msg = f.msg => e = f

\* onMessage has stamped an event of device i and not yet sent it.
Unsent(i) == ipc[i] \in {"stamped", "numbered"}

\* Why AtMostOnce holds.  The callback works on the device's last event.
LastEvent ==
    \A i \in Input : ipc[i] # "idle" => packet[i].msg = <<i, strikes[i]>>

\* Only events already sent are in flight, each as one datagram.
InFlight ==
    /\ \A d \in net : /\ d.msg[2] <= strikes[d.msg[1]]
                      /\ Unsent(d.msg[1]) => d.msg[2] < strikes[d.msg[1]]
    /\ \A c, d \in net : c.msg = d.msg => c = d

\* Only events already sent are scheduled, at home when the callback returns.
SentBefore ==
    \A p \in Peer : \A e \in Scheduled(p) :
        LET i == e.msg[1]
        IN /\ e.msg[2] <= strikes[i]
           /\ Unsent(i) \/ (PeerOf[i] = p /\ ipc[i] # "idle") => e.msg[2] < strikes[i]

\* What is scheduled away from home is in received_packets, so every copy of
\* its datagram that is still in flight will be dropped.
Known ==
    \A p \in Peer : \A d \in net : \A e \in Scheduled(p) :
        Sender(d.msg) # p /\ e.msg = d.msg => d.ident \in received[p]

\* The inductive invariant that joins them.
Bookkeeping == LastEvent /\ InFlight /\ SentBefore /\ Known /\ AtMostOnce

\* A datagram onPacket takes for a duplicate carries a message this peer has
\* scheduled before: no message is lost to the test of received_packets.
DuplicatesOnly ==
    \A p \in Peer : \A d \in net :
        Sender(d.msg) # p /\ d.ident \in received[p]
            => \E e \in Scheduled(p) : e.msg = d.msg

\* Of two events of one input device, the later is heard first at home only if
\* it is due no later: config.latency has dropped between them, or the clock
\* did not tell their stamps apart.
LocalOrder ==
    \A p \in Peer : \A a, b \in DOMAIN played[p] :
        LET e == played[p][a]
            f == played[p][b]
        IN /\ a < b
           /\ e.msg[1] = f.msg[1]
           /\ Sender(e.msg) = p
           /\ e.msg[2] > f.msg[2]
           => e.due <= f.due

\* The log file, the copy being written and the pending messages together are
\* exactly what was played, in that order: nothing is lost, repeated or
\* swapped between onTimer and the loop of main().
LogExact ==
    Logging => \A p \in Peer : logged[p] \o copied[p] \o logq[p] = played[p]

\* Nothing is played before its time by the clock of its peer, although T is
\* read before the lock is taken.
NeverEarly ==
    [][\A p \in Peer : \A e \in queue[p] \ queue'[p] : e.due <= Clock(p)]_vars

\* How far ahead of its time the clocks may put an entry of p: not at home, where one
\* clock is read; by the error of the offset, where onPacket had measured it; and by
\* all that p's clock is ahead of the sender's where it had not, delta being 0.
Ahead(p, e) ==
    IF Sender(e.msg) = p THEN 0
    ELSE IF e.sync THEN EstErr ELSE Offset[p] - Offset[Sender(e.msg)]

\* Neither piano plays a stroke sooner after the key was struck, in true time, than
\* the latency its peer granted it, but for what Ahead says: through the time stamp,
\* the datagram, the change of clock in onPacket, a latency read without the lock and
\* onTimer's reading of the clock.  How much later it plays is up to the channel and
\* to the scheduling of the threads.
HeardAfterStroke ==
    [][\A p \in Peer : \A e \in queue[p] \ queue'[p] :
           now >= struckAt[e.msg] + e.lat - Ahead(p, e)]_vars

\* The abstract promise: Ensemble with the strokes the devices reported and
\* the messages of the entries played.
Struck == {m \in Message : m[2] <= strikes[m[1]]}
Heard == [p \in Peer |-> [j \in DOMAIN played[p] |-> played[p][j].msg]]
Promise == INSTANCE Ensemble WITH struck <- Struck, heard <- Heard

\* The threads, the lock, received_packets and the channel together implement
\* Ensemble: each stroke at most once at each piano, and no other.
ImplementsEnsemble == Promise!Spec

-----------------------------------------------------------------------------
\* Every event of a device is heard at home.
HeardAtHome ==
    \A i \in Input : \A k \in 1 .. MaxStrikes :
        (strikes[i] >= k)
            ~> \E e \in Scheduled(PeerOf[i]) \ queue[PeerOf[i]] : e.msg = <<i, k>>

\* Everything played reaches the log file.
PlayedIsLogged ==
    \A p \in Peer : \A n \in 1 .. MaxStrikes :
        (Len(played[p]) >= n) ~> (Len(logged[p]) >= n)
=============================================================================
