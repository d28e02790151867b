------------------------- MODULE PianoConnectProofs -------------------------
(***************************************************************************)
(* Proofs about PianoConnect for every number of input devices, every      *)
(* configuration and every bound.                                          *)
(***************************************************************************)
EXTENDS PianoConnect, SequenceTheorems, TLAPS

\* The typing part of the assumptions, without the quantified rest.
LEMMA ConstantTypes ==
    /\ PeerOf \in [Input -> Peer]
    /\ Offset \in [Peer -> Int]
    /\ FixedLatency \in [Peer -> Int]
    /\ LatencyEst \subseteq Int
    /\ DeltaEst \in [Peer -> SUBSET Int]
    /\ EstErr \in Nat
    /\ SerialMod \in Nat \ {0}
    /\ SerialInit \subseteq 0 .. SerialMod - 1
    /\ MaxNow \in Nat
    /\ MaxStrikes \in Nat
    /\ MaxAcks \in Nat
BY PeerAssumption, ConfigAssumption, BoundAssumption
DEF PeerAssumption, ConfigAssumption, BoundAssumption

\* What the only writer of the two variables leaves in them.
LEMMA PushTypes ==
    ASSUME TypeOK, NEW p \in Peer, NEW m \in Message, NEW t \in Int, NEW lat \in Int,
           NEW sync \in BOOLEAN, Push(p, m, t, lat, sync)
    PROVE  pushes' \in [Peer -> Nat] /\ queue' \in [Peer -> SUBSET Entry]
<1> DEFINE e == [n |-> pushes[p], msg |-> m, due |-> t, lat |-> lat, sync |-> sync]
<1>1. pushes[p] \in Nat /\ queue[p] \subseteq Entry
  BY DEF TypeOK
<1>2. e \in Entry
  BY <1>1 DEF Entry
<1> HIDE DEF e
<1>3. queue' = [queue EXCEPT ![p] = @ \cup {e}] /\ pushes' = [pushes EXCEPT ![p] = @ + 1]
  BY DEF Push, e
<1>4. QED
  BY <1>1, <1>2, <1>3 DEF TypeOK

\* Type correctness of the threads, the queue and the channel.
THEOREM TypeCorrect == Spec => []TypeOK
<1>1. Init => TypeOK
  <2> SUFFICES ASSUME Init PROVE TypeOK
    OBVIOUS
  <2>1. serial \in [Peer -> 0 .. SerialMod - 1]
    BY ConstantTypes DEF Init
  <2>2. latency \in [Peer -> Int]
    BY ConstantTypes DEF Init
  <2>3. QED BY <2>1, <2>2, ConstantTypes DEF Init, TypeOK
<1>2. TypeOK /\ [Next]_vars => TypeOK'
  <2> SUFFICES ASSUME TypeOK, [Next]_vars PROVE TypeOK'
    OBVIOUS
  <2>1. CASE Tick
    BY <2>1, BoundAssumption DEF BoundAssumption, TypeOK, Tick, inputVars, syncVars, recvVars, queueVars, timerVars, logVars
  <2>2. ASSUME NEW i \in Input, MidiStamp(i) PROVE TypeOK'
    <3> DEFINE new == [msg |-> <<i, strikes[i] + 1>>,
                       ident |-> [serial |-> 0, timestamp |-> Clock(PeerOf[i])]]
    <3>1. strikes[i] + 1 \in 1 .. MaxStrikes /\ Clock(PeerOf[i]) \in Int
      <4>1. strikes[i] \in 0 .. MaxStrikes /\ strikes[i] < MaxStrikes /\ now \in Int
        BY <2>2, ConstantTypes DEF MidiStamp, TypeOK
      <4>2. Offset[PeerOf[i]] \in Int
        BY ConstantTypes
      <4>3. QED BY <4>1, <4>2, ConstantTypes DEF Clock
    <3>2. new \in Packet
      <4>1. <<i, strikes[i] + 1>> \in Message
        BY <3>1 DEF Message
      <4>2. [serial |-> 0, timestamp |-> Clock(PeerOf[i])] \in Identifier
        BY <3>1, ConstantTypes DEF Identifier
      <4>3. QED BY <4>1, <4>2 DEF Packet
    <3>3. packet' = [packet EXCEPT ![i] = new] /\ strikes' = [strikes EXCEPT ![i] = @ + 1]
      BY <2>2 DEF MidiStamp
    <3> HIDE DEF new
    <3>4. packet' \in [Input -> Packet \cup {NoPacket}] /\ strikes' \in [Input -> 0 .. MaxStrikes]
      <4>1. packet' \in [Input -> Packet \cup {NoPacket}]
        BY <3>2, <3>3 DEF TypeOK
      <4>2. strikes[i] + 1 \in 0 .. MaxStrikes
        BY <3>1
      <4>3. strikes' \in [Input -> 0 .. MaxStrikes]
        BY <3>3, <4>2 DEF TypeOK
      <4>4. QED BY <4>1, <4>3
    <3>5. \A j \in Input : ipc'[j] # "idle" => packet'[j] \in Packet
      BY <2>2, <3>2, <3>3 DEF MidiStamp, TypeOK
    <3>6. struckAt' \in [Message -> Int]
      <4>1. now \in Int /\ struckAt \in [Message -> Int]
        BY ConstantTypes DEF TypeOK
      <4>2. QED BY <2>2, <4>1 DEF MidiStamp
    <3>7. QED
      BY <2>2, <3>4, <3>5, <3>6 DEF TypeOK, MidiStamp, syncVars, recvVars, queueVars, timerVars, logVars
  <2>3. ASSUME NEW i \in Input, MidiSerial(i) PROVE TypeOK'
    <3>1. packet'[i] \in Packet
      BY <2>3, ConstantTypes DEF TypeOK, MidiSerial, Packet, Identifier
    <3>2. QED
      BY <2>3, <3>1 DEF TypeOK, MidiSerial, syncVars, recvVars, queueVars, timerVars, logVars
  <2>4. ASSUME NEW i \in Input, MidiSend(i) PROVE TypeOK'
    <3>1. packet[i] \in Packet /\ net' \in {net, net \cup {packet[i]}}
      BY <2>4 DEF MidiSend, TypeOK
    <3>2. net' \subseteq Packet
      BY <3>1 DEF TypeOK
    <3>3. serial[PeerOf[i]] \in 0 .. SerialMod - 1
      BY ConstantTypes DEF TypeOK
    <3>4. loaded' \in [Input -> 0 .. SerialMod - 1]
      BY <2>4, <3>3 DEF MidiSend, TypeOK
    <3>5. QED
      BY <2>4, <3>2, <3>4 DEF TypeOK, MidiSend, syncVars, queueVars, timerVars, logVars
  <2>5. ASSUME NEW i \in Input, MidiBump(i) PROVE TypeOK'
    <3>1. loaded[i] + 1 \in Int /\ PeerOf[i] \in Peer /\ packet[i] \in Packet
      <4>1. packet[i] \in Packet
        BY <2>5 DEF MidiBump, TypeOK
      <4>2. loaded[i] \in 0 .. SerialMod - 1
        BY DEF TypeOK
      <4>3. QED BY <4>1, <4>2, ConstantTypes
    <3>2. (loaded[i] + 1) % SerialMod \in 0 .. SerialMod - 1
      BY <3>1, ConstantTypes
    <3>3. packet[i].ident.timestamp + latency[PeerOf[i]] \in Int
      BY <3>1 DEF TypeOK, Packet, Identifier
    <3>4. /\ serial' = [serial EXCEPT ![PeerOf[i]] = (loaded[i] + 1) % SerialMod]
          /\ due' = [due EXCEPT ![i] = packet[i].ident.timestamp + latency[PeerOf[i]]]
      BY <2>5 DEF MidiBump
    <3>5. /\ serial' \in [Peer -> 0 .. SerialMod - 1] /\ due' \in [Input -> Int]
          /\ granted' \in [Input -> Int]
      <4>1. latency[PeerOf[i]] \in Int
        BY <3>1 DEF TypeOK
      <4>2. granted' = [granted EXCEPT ![i] = latency[PeerOf[i]]]
        BY <2>5 DEF MidiBump
      <4>3. granted' \in [Input -> Int]
        BY <4>1, <4>2 DEF TypeOK
      <4>4. serial' \in [Peer -> 0 .. SerialMod - 1] /\ due' \in [Input -> Int]
        BY <3>2, <3>3, <3>4 DEF TypeOK
      <4>5. QED BY <4>3, <4>4
    <3>6. packet' = packet /\ ipc' = [ipc EXCEPT ![i] = "bumped"]
      BY <2>5 DEF MidiBump
    <3>7. \A j \in Input : ipc'[j] # "idle" => packet'[j] \in Packet
      BY <3>1, <3>6 DEF TypeOK
    <3>8. QED
      BY <2>5, <3>5, <3>7 DEF TypeOK, MidiBump, syncVars, recvVars, queueVars, timerVars, logVars
  <2>6. ASSUME NEW i \in Input, MidiPush(i) PROVE TypeOK'
    <3>1. packet[i] \in Packet /\ PeerOf[i] \in Peer /\ due[i] \in Int /\ granted[i] \in Int
      BY <2>6, ConstantTypes DEF MidiPush, TypeOK
    <3>2. packet[i].msg \in Message
      BY <3>1 DEF Packet
    <3>3. Push(PeerOf[i], packet[i].msg, due[i], granted[i], TRUE)
      BY <2>6 DEF MidiPush
    <3>4. pushes' \in [Peer -> Nat] /\ queue' \in [Peer -> SUBSET Entry]
      <4>1. TRUE \in BOOLEAN
        OBVIOUS
      <4>2. QED BY ONLY TypeOK, <3>1, <3>2, <3>3, <4>1, PushTypes
    <3>5. packet' = [packet EXCEPT ![i] = NoPacket] /\ ipc' = [ipc EXCEPT ![i] = "idle"]
      BY <2>6 DEF MidiPush
    <3>6. /\ packet' \in [Input -> Packet \cup {NoPacket}]
          /\ \A j \in Input : ipc'[j] # "idle" => packet'[j] \in Packet
      BY <3>5 DEF TypeOK
    <3>7. /\ loaded' \in [Input -> 0 .. SerialMod - 1] /\ due' \in [Input -> Int]
          /\ granted' \in [Input -> Int]
      BY <2>6, ConstantTypes DEF MidiPush, TypeOK
    <3>8. QED
      BY <2>6, <3>4, <3>6, <3>7 DEF TypeOK, MidiPush, syncVars, recvVars, timerVars, logVars
  <2>7. ASSUME NEW p \in Peer, NEW d \in net, AcceptMidi(p, d) PROVE TypeOK'
    <3> DEFINE stamp == d.ident.timestamp
    <3>1. d \in Packet /\ delta[p] \in Int /\ latency[p] \in Int /\ acks[p] \in Nat
      BY DEF TypeOK
    <3>2. d.msg \in Message /\ stamp \in Int /\ d.ident \in Identifier
      BY <3>1 DEF Packet, Identifier
    <3>3. Push(p, d.msg, stamp - delta[p] + latency[p], latency[p], acks[p] > 0)
      BY <2>7 DEF AcceptMidi
    <3> HIDE DEF stamp
    <3>4. pushes' \in [Peer -> Nat] /\ queue' \in [Peer -> SUBSET Entry]
      <4> DEFINE sync == acks[p] > 0
      <4>1. stamp - delta[p] + latency[p] \in Int /\ sync \in BOOLEAN
        BY <3>1, <3>2
      <4> HIDE DEF sync
      <4>2. Push(p, d.msg, stamp - delta[p] + latency[p], latency[p], sync)
        BY <3>3 DEF sync
      <4>3. QED BY ONLY TypeOK, <3>1, <3>2, <4>1, <4>2, PushTypes
    <3>5. received' \in [Peer -> SUBSET Identifier] /\ net' \subseteq Packet
      BY <2>7, <3>2 DEF TypeOK, AcceptMidi, Take
    <3>6. QED
      BY <2>7, <3>4, <3>5 DEF TypeOK, AcceptMidi, inputVars, syncVars, timerVars, logVars
  <2>8. ASSUME NEW p \in Peer, NEW d \in net, DropMidi(p, d) PROVE TypeOK'
    BY <2>8 DEF TypeOK, DropMidi, inputVars, syncVars, queueVars, timerVars, logVars
  <2>9. ASSUME NEW d \in net, Lose(d) PROVE TypeOK'
    BY <2>9 DEF TypeOK, Lose, inputVars, syncVars, queueVars, timerVars, logVars
  <2>10. ASSUME NEW p \in Peer, Resync(p) PROVE TypeOK'
    <3>1. delta' \in [Peer -> Int]
      <4>1. PICK x \in DeltaEst[p] : delta' = [delta EXCEPT ![p] = x]
        BY <2>10 DEF Resync
      <4>2. x \in Int
        BY ConstantTypes
      <4>3. QED
        BY <4>1, <4>2 DEF TypeOK
    <3>2. latency' \in [Peer -> Int]
      <4>1. CASE AutoLatency
        <5>1. PICK x \in LatencyEst : latency' = [latency EXCEPT ![p] = x]
          BY <2>10, <4>1 DEF Resync
        <5>2. x \in Int
          BY ConstantTypes
        <5>3. QED
          BY <5>1, <5>2 DEF TypeOK
      <4>2. CASE ~AutoLatency
        BY <2>10, <4>2 DEF Resync, TypeOK
      <4>3. QED
        BY <4>1, <4>2
    <3>3. acks' \in [Peer -> 0 .. MaxAcks]
      <4>1. acks[p] < MaxAcks /\ acks' = [acks EXCEPT ![p] = @ + 1]
        BY <2>10 DEF Resync
      <4>2. acks \in [Peer -> 0 .. MaxAcks] /\ MaxAcks \in Nat
        BY ConstantTypes DEF TypeOK
      <4>3. QED
        BY <4>1, <4>2
    <3>4. UNCHANGED <<now, serial, ipc, packet, loaded, due, granted, strikes, struckAt, net,
                      received, pushes, queue, tpc, tnow, played, logq, copied, logged>>
      BY <2>10 DEF Resync, inputVars, recvVars, queueVars, timerVars, logVars
    <3>5. QED
      BY <3>1, <3>2, <3>3, <3>4 DEF TypeOK
  <2>11. ASSUME NEW p \in Peer, TimerWake(p) PROVE TypeOK'
    <3>1. Clock(p) \in Int
      BY ConstantTypes DEF TypeOK, Clock
    <3>2. QED
      BY <2>11, <3>1 DEF TypeOK, TimerWake, inputVars, syncVars, recvVars, queueVars, logVars
  <2>12. ASSUME NEW p \in Peer, TimerLock(p) PROVE TypeOK'
    BY <2>12 DEF TypeOK, TimerLock, inputVars, syncVars, recvVars, queueVars, logVars
  <2>13. ASSUME NEW p \in Peer, PlayTop(p) PROVE TypeOK'
    <3>1. PICK e \in queue[p] :
              /\ queue' = [queue EXCEPT ![p] = @ \ {e}]
              /\ played' = [played EXCEPT ![p] = Append(@, e)]
              /\ logq' = IF Logging THEN [logq EXCEPT ![p] = Append(@, e)] ELSE logq
      BY <2>13 DEF PlayTop
    <3>2. e \in Entry /\ played[p] \in Seq(Entry) /\ logq[p] \in Seq(Entry)
      BY DEF TypeOK
    <3>3. Append(played[p], e) \in Seq(Entry) /\ Append(logq[p], e) \in Seq(Entry)
      BY <3>2
    <3>4. played' \in [Peer -> Seq(Entry)] /\ logq' \in [Peer -> Seq(Entry)]
      BY <3>1, <3>3 DEF TypeOK
    <3>5. queue' \in [Peer -> SUBSET Entry]
      BY <3>1 DEF TypeOK
    <3>6. QED
      BY <2>13, <3>4, <3>5 DEF TypeOK, PlayTop, inputVars, syncVars, recvVars
  <2>14. ASSUME NEW p \in Peer, TimerUnlock(p) PROVE TypeOK'
    BY <2>14 DEF TypeOK, TimerUnlock, inputVars, syncVars, recvVars, queueVars, logVars
  <2>15. ASSUME NEW p \in Peer, LogCopy(p) PROVE TypeOK'
    BY <2>15 DEF TypeOK, LogCopy, inputVars, syncVars, recvVars, queueVars, timerVars
  <2>16. ASSUME NEW p \in Peer, LogWrite(p) PROVE TypeOK'
    <3>1. copied[p] \in Seq(Entry) /\ copied[p] # <<>> /\ logged[p] \in Seq(Entry)
      BY <2>16 DEF LogWrite, TypeOK
    <3>2. Tail(copied[p]) \in Seq(Entry) /\ Append(logged[p], Head(copied[p])) \in Seq(Entry)
      BY <3>1
    <3>3. copied' \in [Peer -> Seq(Entry)] /\ logged' \in [Peer -> Seq(Entry)]
      BY <2>16, <3>2 DEF LogWrite, TypeOK
    <3>4. QED
      BY <2>16, <3>3 DEF TypeOK, LogWrite, inputVars, syncVars, recvVars, queueVars, timerVars
  <2>17. CASE UNCHANGED vars
    BY <2>17 DEF TypeOK, vars, inputVars, syncVars, recvVars, queueVars, timerVars, logVars
  <2>18. QED
    BY <2>1, <2>2, <2>3, <2>4, <2>5, <2>6, <2>7, <2>8, <2>9, <2>10, <2>11, <2>12,
       <2>13, <2>14, <2>15, <2>16, <2>17
    DEF Next, MidiStep, PacketStep, TimerStep, LogStep
<1>3. QED BY <1>1, <1>2, PTL DEF Spec

-----------------------------------------------------------------------------
(* AtMostOnce, by the inductive invariant Bookkeeping.                      *)

\* The variables Bookkeeping speaks of.
bookVars == <<ipc, packet, strikes, net, received, queue, played>>

\* What is scheduled are entries.
LEMMA ScheduledTypes ==
    ASSUME TypeOK
    PROVE  \A p \in Peer : \A e \in Scheduled(p) : e \in Entry /\ e.msg \in Message
<1> SUFFICES ASSUME NEW p \in Peer, NEW e \in Scheduled(p)
             PROVE  e \in Entry /\ e.msg \in Message
  OBVIOUS
<1>1. played[p] \in Seq(Entry) /\ queue[p] \subseteq Entry
  BY DEF TypeOK
<1>2. e \in Entry
  BY <1>1 DEF Scheduled
<1>3. QED
  BY <1>2 DEF Entry

\* A push adds an entry that carries its message and its times.
LEMMA PushSchedules ==
    ASSUME TypeOK, NEW p \in Peer, NEW m, NEW t, NEW lat, NEW sync,
           Push(p, m, t, lat, sync), played' = played
    PROVE  \E e : /\ e.msg = m
                 /\ e.due = t /\ e.lat = lat /\ e.sync = sync
                 /\ queue' = [queue EXCEPT ![p] = @ \cup {e}]
                 /\ Scheduled(p)' = Scheduled(p) \cup {e}
                 /\ \A q \in Peer \ {p} : Scheduled(q)' = Scheduled(q)
<1> DEFINE e == [n |-> pushes[p], msg |-> m, due |-> t, lat |-> lat, sync |-> sync]
<1>1. e.msg = m /\ e.due = t /\ e.lat = lat /\ e.sync = sync
  OBVIOUS
<1>2. queue' = [queue EXCEPT ![p] = @ \cup {e}]
  BY DEF Push
<1> HIDE DEF e
<1>3. queue'[p] = queue[p] \cup {e} /\ \A q \in Peer \ {p} : queue'[q] = queue[q]
  BY <1>2 DEF TypeOK
<1>4. Scheduled(p)' = Scheduled(p) \cup {e}
  BY <1>3 DEF Scheduled
<1>5. \A q \in Peer \ {p} : Scheduled(q)' = Scheduled(q)
  BY <1>3 DEF Scheduled
<1>6. QED
  BY <1>1, <1>2, <1>4, <1>5

\* Playing moves an entry; it stays scheduled.
LEMMA PlaySchedules ==
    ASSUME TypeOK, NEW p \in Peer, NEW e \in queue[p],
           queue' = [queue EXCEPT ![p] = @ \ {e}],
           played' = [played EXCEPT ![p] = Append(@, e)]
    PROVE  \A q \in Peer : Scheduled(q)' = Scheduled(q)
<1>1. played[p] \in Seq(Entry) /\ e \in Entry
  BY DEF TypeOK
<1>2. /\ DOMAIN Append(played[p], e) = 1 .. Len(played[p]) + 1
      /\ DOMAIN played[p] = 1 .. Len(played[p])
      /\ Len(played[p]) \in Nat
      /\ \A j \in DOMAIN played[p] : Append(played[p], e)[j] = played[p][j]
      /\ Append(played[p], e)[Len(played[p]) + 1] = e
  BY <1>1
<1>3. {Append(played[p], e)[j] : j \in DOMAIN Append(played[p], e)}
          = {played[p][j] : j \in DOMAIN played[p]} \cup {e}
  BY <1>2
<1>4. queue'[p] = queue[p] \ {e} /\ played'[p] = Append(played[p], e)
  BY DEF TypeOK
<1>5. Scheduled(p)' = Scheduled(p)
  BY <1>3, <1>4 DEF Scheduled
<1>6. ASSUME NEW q \in Peer, q # p PROVE Scheduled(q)' = Scheduled(q)
  <2>1. queue'[q] = queue[q] /\ played'[q] = played[q]
    BY <1>6 DEF TypeOK
  <2>2. QED BY <2>1 DEF Scheduled
<1>7. QED
  BY <1>5, <1>6

\* A new entry for a message scheduled nowhere at p keeps AtMostOnce.
LEMMA PushKeepsAtMostOnce ==
    ASSUME TypeOK, AtMostOnce, NEW p \in Peer, NEW e,
           queue' = [queue EXCEPT ![p] = @ \cup {e}], played' = played,
           \A f \in Scheduled(p) : f.msg # e.msg
    PROVE  AtMostOnce'
<1>1. queue'[p] = queue[p] \cup {e} /\ \A q \in Peer \ {p} : queue'[q] = queue[q]
  BY DEF TypeOK
<1>2. /\ \A f \in queue[p] : f.msg # e.msg
      /\ \A j \in DOMAIN played[p] : played[p][j].msg # e.msg
  BY DEF Scheduled
<1>3. QED
  BY <1>1, <1>2 DEF AtMostOnce

\* Playing an entry keeps AtMostOnce.
LEMMA PlayKeepsAtMostOnce ==
    ASSUME TypeOK, AtMostOnce, NEW p \in Peer, NEW e \in queue[p],
           queue' = [queue EXCEPT ![p] = @ \ {e}],
           played' = [played EXCEPT ![p] = Append(@, e)]
    PROVE  AtMostOnce'
<1>1. played[p] \in Seq(Entry) /\ e \in Entry
  BY DEF TypeOK
<1>2. /\ DOMAIN Append(played[p], e) = 1 .. Len(played[p]) + 1
      /\ DOMAIN played[p] = 1 .. Len(played[p])
      /\ Len(played[p]) \in Nat
      /\ \A j \in DOMAIN played[p] : Append(played[p], e)[j] = played[p][j]
      /\ Append(played[p], e)[Len(played[p]) + 1] = e
  BY <1>1
<1>3. queue'[p] = queue[p] \ {e} /\ played'[p] = Append(played[p], e)
  BY DEF TypeOK
<1>4. \A q \in Peer \ {p} : queue'[q] = queue[q] /\ played'[q] = played[q]
  BY DEF TypeOK
<1>5. \A j \in DOMAIN played[p] : played[p][j].msg # e.msg
  BY DEF AtMostOnce
<1>6. ASSUME NEW j \in DOMAIN played'[p], NEW k \in DOMAIN played'[p],
             played'[p][j].msg = played'[p][k].msg
      PROVE  j = k
  <2>1. j \in DOMAIN played[p] \/ j = Len(played[p]) + 1
    BY <1>2, <1>3
  <2>2. k \in DOMAIN played[p] \/ k = Len(played[p]) + 1
    BY <1>2, <1>3
  <2>3. QED
    BY <1>2, <1>3, <1>5, <1>6, <2>1, <2>2 DEF AtMostOnce
<1>7. ASSUME NEW f \in queue'[p], NEW j \in DOMAIN played'[p]
      PROVE  played'[p][j].msg # f.msg
  <2>1. f \in queue[p] /\ f # e
    BY <1>3
  <2>2. f.msg # e.msg
    BY <2>1 DEF AtMostOnce
  <2>3. j \in DOMAIN played[p] \/ j = Len(played[p]) + 1
    BY <1>2, <1>3
  <2>4. QED
    BY <1>2, <1>3, <2>1, <2>2, <2>3 DEF AtMostOnce
<1>8. \A f, g \in queue'[p] : f.msg = g.msg => f = g
  BY <1>3 DEF AtMostOnce
<1>9. QED
  BY <1>4, <1>6, <1>7, <1>8 DEF AtMostOnce

\* Initially nothing is in flight, scheduled or handled.
LEMMA BookkeepingInit == Init => Bookkeeping
<1> SUFFICES ASSUME Init PROVE Bookkeeping
  OBVIOUS
<1>1. LastEvent
  BY DEF Init, LastEvent
<1>2. InFlight
  BY DEF Init, InFlight
<1>3. \A p \in Peer : Scheduled(p) = {} /\ queue[p] = {} /\ DOMAIN played[p] = {}
  <2>1. \A p \in Peer : queue[p] = {} /\ played[p] = <<>>
    BY DEF Init
  <2>2. DOMAIN << >> = {}
    <3>1. << >> \in Seq({}) /\ Len(<< >>) = 0
      OBVIOUS
    <3>2. DOMAIN << >> = 1 .. Len(<< >>)
      BY <3>1
    <3>3. QED
      BY <3>1, <3>2
  <2>3. QED
    BY <2>1, <2>2 DEF Scheduled
<1>4. SentBefore /\ Known
  BY <1>3 DEF SentBefore, Known
<1>5. AtMostOnce
  BY <1>3 DEF AtMostOnce
<1>6. QED
  BY <1>1, <1>2, <1>4, <1>5 DEF Bookkeeping

\* Steps that leave the variables of Bookkeeping alone.
LEMMA BookkeepingFrame ==
    ASSUME Bookkeeping, UNCHANGED bookVars PROVE Bookkeeping'
<1>1. /\ ipc' = ipc /\ packet' = packet /\ strikes' = strikes /\ net' = net
      /\ received' = received /\ queue' = queue /\ played' = played
  BY DEF bookVars
<1>2. \A p \in Peer : Scheduled(p)' = Scheduled(p)
  BY <1>1 DEF Scheduled
<1>3. \A i : Unsent(i)' = Unsent(i)
  BY <1>1 DEF Unsent
<1>4. LastEvent' /\ InFlight'
  BY <1>1, <1>3 DEF Bookkeeping, LastEvent, InFlight
<1>5. SentBefore' /\ Known'
  BY <1>1, <1>2, <1>3 DEF Bookkeeping, SentBefore, Known, Sender
<1>6. AtMostOnce'
  BY <1>1 DEF Bookkeeping, AtMostOnce
<1>7. QED
  BY <1>4, <1>5, <1>6 DEF Bookkeeping

\* onMessage reads the time,
LEMMA BookkeepingStamp ==
    ASSUME TypeOK, Bookkeeping, NEW i \in Input, MidiStamp(i) PROVE Bookkeeping'
<1>1. /\ ipc[i] = "idle"
      /\ ipc' = [ipc EXCEPT ![i] = "stamped"]
      /\ strikes' = [strikes EXCEPT ![i] = @ + 1]
      /\ net' = net /\ received' = received /\ queue' = queue /\ played' = played
  BY DEF MidiStamp, recvVars, queueVars, timerVars
<1>2. packet'[i].msg = <<i, strikes[i] + 1>> /\ \A j \in Input \ {i} : packet'[j] = packet[j]
  BY DEF MidiStamp, TypeOK
<1>3. /\ strikes[i] \in Nat
      /\ strikes'[i] = strikes[i] + 1
      /\ \A j \in Input \ {i} : strikes'[j] = strikes[j] /\ ipc'[j] = ipc[j]
  BY <1>1, ConstantTypes DEF TypeOK
<1>4. \A p \in Peer : Scheduled(p)' = Scheduled(p)
  BY <1>1 DEF Scheduled
<1>5. \A d \in net : d.msg[1] \in Input /\ d.msg[2] \in Nat
  BY DEF TypeOK, Packet, Message
<1>6. \A p \in Peer : \A e \in Scheduled(p) : e.msg[1] \in Input /\ e.msg[2] \in Nat
  BY ScheduledTypes DEF Message
<1>7. LastEvent'
  BY <1>1, <1>2, <1>3 DEF TypeOK, Bookkeeping, LastEvent
<1>8. InFlight'
  BY <1>1, <1>3, <1>5 DEF Bookkeeping, InFlight, Unsent
<1>9. SentBefore'
  BY <1>1, <1>3, <1>4, <1>6 DEF Bookkeeping, SentBefore, Unsent
<1>10. Known' /\ AtMostOnce'
  BY <1>1, <1>4 DEF Bookkeeping, Known, AtMostOnce, Sender
<1>11. QED
  BY <1>7, <1>8, <1>9, <1>10 DEF Bookkeeping

\* and the serial,
LEMMA BookkeepingSerial ==
    ASSUME TypeOK, Bookkeeping, NEW i \in Input, MidiSerial(i) PROVE Bookkeeping'
<1>1. /\ ipc[i] = "stamped"
      /\ ipc' = [ipc EXCEPT ![i] = "numbered"]
      /\ strikes' = strikes
      /\ net' = net /\ received' = received /\ queue' = queue /\ played' = played
  BY DEF MidiSerial, recvVars, queueVars, timerVars
<1>2. \A j \in Input : ipc'[j] # "idle" => ipc[j] # "idle" /\ packet'[j].msg = packet[j].msg
  <2>1. packet[i] \in Packet
    BY <1>1 DEF TypeOK
  <2>2. packet'[i].msg = packet[i].msg
    BY <2>1 DEF MidiSerial, TypeOK, Packet
  <2>3. \A j \in Input \ {i} : packet'[j] = packet[j]
    BY DEF MidiSerial, TypeOK
  <2>4. QED
    BY <1>1, <2>2, <2>3 DEF TypeOK
<1>3. \A j \in Input : (Unsent(j)' <=> Unsent(j)) /\ (ipc'[j] = "idle" <=> ipc[j] = "idle")
  BY <1>1 DEF TypeOK, Unsent
<1>4. \A p \in Peer : Scheduled(p)' = Scheduled(p)
  BY <1>1 DEF Scheduled
<1>5. \A d \in net : d.msg[1] \in Input
  BY DEF TypeOK, Packet, Message
<1>6. \A p \in Peer : \A e \in Scheduled(p) : e.msg[1] \in Input
  BY ScheduledTypes DEF Message
<1>7. LastEvent' /\ InFlight'
  BY <1>1, <1>2, <1>3, <1>5 DEF Bookkeeping, LastEvent, InFlight
<1>8. SentBefore'
  BY <1>1, <1>3, <1>4, <1>6 DEF Bookkeeping, SentBefore
<1>9. Known' /\ AtMostOnce'
  BY <1>1, <1>4 DEF Bookkeeping, Known, AtMostOnce, Sender
<1>10. QED
  BY <1>7, <1>8, <1>9 DEF Bookkeeping

\* The step at which a message becomes one that can be in flight.
LEMMA BookkeepingSend ==
    ASSUME TypeOK, Bookkeeping, NEW i \in Input, MidiSend(i) PROVE Bookkeeping'
<1>1. /\ ipc[i] = "numbered"
      /\ ipc' = [ipc EXCEPT ![i] = "sent"]
      /\ strikes' = strikes /\ packet' = packet
      /\ net' \in {net, net \cup {packet[i]}}
      /\ received' = received /\ queue' = queue /\ played' = played
  BY DEF MidiSend, queueVars, timerVars
<1>2. packet[i].msg = <<i, strikes[i]>> /\ strikes[i] \in Nat
  BY <1>1, ConstantTypes DEF Bookkeeping, LastEvent, TypeOK
<1>3. /\ Unsent(i) /\ ~Unsent(i)' /\ ipc'[i] # "idle"
      /\ \A j \in Input \ {i} : ipc'[j] = ipc[j] /\ Unsent(j)' = Unsent(j)
  BY <1>1 DEF TypeOK, Unsent
<1>4. \A p \in Peer : Scheduled(p)' = Scheduled(p)
  BY <1>1 DEF Scheduled
<1>5. \A d \in net : d.msg[1] \in Input /\ d.msg[2] \in Nat
  BY DEF TypeOK, Packet, Message
<1>6. \A p \in Peer : \A e \in Scheduled(p) : e.msg[1] \in Input /\ e.msg[2] \in Nat
  BY ScheduledTypes DEF Message
<1>7. \A d \in net : d.msg # packet[i].msg
  BY <1>2, <1>3, <1>5 DEF Bookkeeping, InFlight
<1>8. \A p \in Peer : \A e \in Scheduled(p) : e.msg # packet[i].msg
  BY <1>2, <1>3, <1>6 DEF Bookkeeping, SentBefore
<1>9. LastEvent'
  BY <1>1, <1>3 DEF Bookkeeping, LastEvent
<1>10. InFlight'
  BY <1>1, <1>2, <1>3, <1>5, <1>7 DEF Bookkeeping, InFlight
<1>11. SentBefore'
  BY <1>1, <1>3, <1>4, <1>6 DEF Bookkeeping, SentBefore
<1>12. Known'
  BY <1>1, <1>4, <1>8 DEF Bookkeeping, Known, Sender
<1>13. AtMostOnce'
  BY <1>1 DEF Bookkeeping, AtMostOnce
<1>14. QED
  BY <1>9, <1>10, <1>11, <1>12, <1>13 DEF Bookkeeping

\* and raises it.
LEMMA BookkeepingBump ==
    ASSUME TypeOK, Bookkeeping, NEW i \in Input, MidiBump(i) PROVE Bookkeeping'
<1>1. /\ ipc[i] = "sent"
      /\ ipc' = [ipc EXCEPT ![i] = "bumped"]
      /\ strikes' = strikes /\ packet' = packet
      /\ net' = net /\ received' = received /\ queue' = queue /\ played' = played
  BY DEF MidiBump, recvVars, queueVars, timerVars
<1>2. \A j \in Input : (Unsent(j)' <=> Unsent(j)) /\ (ipc'[j] = "idle" <=> ipc[j] = "idle")
  BY <1>1 DEF TypeOK, Unsent
<1>3. \A p \in Peer : Scheduled(p)' = Scheduled(p)
  BY <1>1 DEF Scheduled
<1>4. \A d \in net : d.msg[1] \in Input
  BY DEF TypeOK, Packet, Message
<1>5. \A p \in Peer : \A e \in Scheduled(p) : e.msg[1] \in Input
  BY ScheduledTypes DEF Message
<1>6. LastEvent' /\ InFlight'
  BY <1>1, <1>2, <1>4 DEF Bookkeeping, LastEvent, InFlight
<1>7. SentBefore'
  BY <1>1, <1>2, <1>3, <1>5 DEF Bookkeeping, SentBefore
<1>8. Known' /\ AtMostOnce'
  BY <1>1, <1>3 DEF Bookkeeping, Known, AtMostOnce, Sender
<1>9. QED
  BY <1>6, <1>7, <1>8 DEF Bookkeeping

\* The step at which a message is scheduled at home.
LEMMA BookkeepingPush ==
    ASSUME TypeOK, Bookkeeping, NEW i \in Input, MidiPush(i) PROVE Bookkeeping'
<1> DEFINE p == PeerOf[i]
           m == packet[i].msg
<1>1. /\ ipc[i] = "bumped"
      /\ ipc' = [ipc EXCEPT ![i] = "idle"]
      /\ packet' = [packet EXCEPT ![i] = NoPacket]
      /\ strikes' = strikes /\ net' = net /\ received' = received /\ played' = played
  BY DEF MidiPush, recvVars, timerVars
<1>2. p \in Peer
  BY ConstantTypes
<1>3. m = <<i, strikes[i]>> /\ strikes[i] \in Nat
  BY <1>1, ConstantTypes DEF Bookkeeping, LastEvent, TypeOK
<1>4. PICK e : /\ e.msg = m
               /\ queue' = [queue EXCEPT ![p] = @ \cup {e}]
               /\ Scheduled(p)' = Scheduled(p) \cup {e}
               /\ \A q \in Peer \ {p} : Scheduled(q)' = Scheduled(q)
  <2>1. \E t, lat, sync : Push(p, m, t, lat, sync)
    BY DEF MidiPush
  <2>2. QED
    BY <1>1, <1>2, <2>1, PushSchedules
<1> HIDE DEF m
<1>5. \A f \in Scheduled(p) : f.msg # m
  BY <1>1, <1>2, <1>3 DEF Bookkeeping, SentBefore
<1>6. /\ \A j \in Input : Unsent(j)' <=> Unsent(j)
      /\ \A j \in Input : ipc'[j] # "idle" => ipc[j] # "idle"
      /\ ~Unsent(i)' /\ ipc'[i] = "idle"
  BY <1>1 DEF TypeOK, Unsent
<1>7. \A d \in net : d.msg[1] \in Input
  BY DEF TypeOK, Packet, Message
<1>8. \A q \in Peer : \A f \in Scheduled(q) : f.msg[1] \in Input
  BY ScheduledTypes DEF Message
<1>9. LastEvent'
  BY <1>1 DEF Bookkeeping, LastEvent, TypeOK
<1>10. InFlight'
  BY <1>1, <1>6, <1>7 DEF Bookkeeping, InFlight
<1>11. SentBefore'
  <2> SUFFICES ASSUME NEW q \in Peer, NEW f \in Scheduled(q)'
               PROVE  LET j == f.msg[1]
                      IN /\ f.msg[2] <= strikes'[j]
                         /\ Unsent(j)' \/ (PeerOf[j] = q /\ ipc'[j] # "idle")
                                => f.msg[2] < strikes'[j]
    BY DEF SentBefore
  <2>1. CASE f \in Scheduled(q)
    BY <1>1, <1>6, <1>8, <2>1 DEF Bookkeeping, SentBefore
  <2>2. CASE f \notin Scheduled(q)
    <3>1. f = e
      BY <1>4, <2>2
    <3>2. f.msg[1] = i /\ f.msg[2] = strikes[i]
      BY <1>3, <1>4, <3>1
    <3>3. QED
      BY <1>1, <1>3, <1>6, <3>2
  <2>3. QED
    BY <2>1, <2>2
<1>12. Known'
  <2> SUFFICES ASSUME NEW q \in Peer, NEW d \in net, NEW f \in Scheduled(q)',
                      Sender(d.msg) # q, f.msg = d.msg
               PROVE  d.ident \in received[q]
    BY <1>1 DEF Known, Sender
  <2>1. f \in Scheduled(q)
    <3>1. CASE q = p
      <4>1. Sender(m) = p
        BY <1>3 DEF Sender
      <4>2. f # e
        BY <1>4, <3>1, <4>1
      <4>3. QED
        BY <1>4, <3>1, <4>2
    <3>2. QED
      BY <1>4, <3>1
  <2>2. QED
    BY <2>1 DEF Bookkeeping, Known
<1>13. AtMostOnce'
  BY <1>1, <1>2, <1>4, <1>5, PushKeepsAtMostOnce DEF Bookkeeping
<1>14. QED
  BY <1>9, <1>10, <1>11, <1>12, <1>13 DEF Bookkeeping

\* The step at which a message of the other peer is scheduled.
LEMMA BookkeepingAccept ==
    ASSUME TypeOK, Bookkeeping, NEW p \in Peer, NEW d \in net, AcceptMidi(p, d)
    PROVE  Bookkeeping'
<1>1. /\ Sender(d.msg) # p /\ d.ident \notin received[p]
      /\ received' = [received EXCEPT ![p] = @ \cup {d.ident}]
      /\ net' \subseteq net
      /\ ipc' = ipc /\ packet' = packet /\ strikes' = strikes /\ played' = played
  BY DEF AcceptMidi, Take, inputVars, timerVars
<1>2. PICK e : /\ e.msg = d.msg
               /\ queue' = [queue EXCEPT ![p] = @ \cup {e}]
               /\ Scheduled(p)' = Scheduled(p) \cup {e}
               /\ \A q \in Peer \ {p} : Scheduled(q)' = Scheduled(q)
  BY <1>1, PushSchedules DEF AcceptMidi
<1>3. \A f \in Scheduled(p) : f.msg # d.msg
  BY <1>1 DEF Bookkeeping, Known
<1>4. \A j : Unsent(j)' = Unsent(j)
  BY <1>1 DEF Unsent
<1>5. /\ d.ident \in received'[p]
      /\ \A q \in Peer : received[q] \subseteq received'[q]
  BY <1>1 DEF TypeOK
<1>6. LastEvent' /\ InFlight'
  BY <1>1, <1>4 DEF Bookkeeping, LastEvent, InFlight
<1>7. SentBefore'
  <2> SUFFICES ASSUME NEW q \in Peer, NEW f \in Scheduled(q)'
               PROVE  LET j == f.msg[1]
                      IN /\ f.msg[2] <= strikes[j]
                         /\ Unsent(j) \/ (PeerOf[j] = q /\ ipc[j] # "idle")
                                => f.msg[2] < strikes[j]
    BY <1>1, <1>4 DEF SentBefore
  <2>1. CASE f \in Scheduled(q)
    BY <2>1 DEF Bookkeeping, SentBefore
  <2>2. CASE f \notin Scheduled(q)
    <3>1. f.msg = d.msg /\ q = p
      BY <1>2, <2>2
    <3>2. PeerOf[d.msg[1]] # q
      BY <1>1, <3>1 DEF Sender
    <3>3. QED
      BY <3>1, <3>2 DEF Bookkeeping, InFlight
  <2>3. QED
    BY <2>1, <2>2
<1>8. Known'
  <2> SUFFICES ASSUME NEW q \in Peer, NEW c \in net, NEW f \in Scheduled(q)',
                      Sender(c.msg) # q, f.msg = c.msg
               PROVE  c.ident \in received'[q]
    BY <1>1 DEF Known, Sender
  <2>1. CASE f \in Scheduled(q)
    BY <1>5, <2>1 DEF Bookkeeping, Known
  <2>2. CASE f \notin Scheduled(q)
    <3>1. f.msg = d.msg /\ q = p
      BY <1>2, <2>2
    <3>2. c = d
      BY <3>1 DEF Bookkeeping, InFlight
    <3>3. QED
      BY <1>5, <3>1, <3>2
  <2>3. QED
    BY <2>1, <2>2
<1>9. AtMostOnce'
  BY <1>1, <1>2, <1>3, PushKeepsAtMostOnce DEF Bookkeeping
<1>10. QED
  BY <1>6, <1>7, <1>8, <1>9 DEF Bookkeeping

\* A datagram dropped or lost.
LEMMA BookkeepingLess ==
    ASSUME Bookkeeping, net' \subseteq net,
           UNCHANGED <<ipc, packet, strikes, received, queue, played>>
    PROVE  Bookkeeping'
<1>1. /\ ipc' = ipc /\ packet' = packet /\ strikes' = strikes
      /\ received' = received /\ queue' = queue /\ played' = played
  OBVIOUS
<1>2. \A p \in Peer : Scheduled(p)' = Scheduled(p)
  BY <1>1 DEF Scheduled
<1>3. \A i : Unsent(i)' = Unsent(i)
  BY <1>1 DEF Unsent
<1>4. LastEvent' /\ InFlight'
  BY <1>1, <1>3 DEF Bookkeeping, LastEvent, InFlight
<1>5. SentBefore' /\ Known'
  BY <1>1, <1>2, <1>3 DEF Bookkeeping, SentBefore, Known, Sender
<1>6. AtMostOnce'
  BY <1>1 DEF Bookkeeping, AtMostOnce
<1>7. QED
  BY <1>4, <1>5, <1>6 DEF Bookkeeping

\* onTimer plays the top of the queue.
LEMMA BookkeepingPlay ==
    ASSUME TypeOK, Bookkeeping, NEW p \in Peer, PlayTop(p) PROVE Bookkeeping'
<1>1. /\ ipc' = ipc /\ packet' = packet /\ strikes' = strikes
      /\ net' = net /\ received' = received
  BY DEF PlayTop, inputVars, recvVars
<1>2. PICK e \in queue[p] :
          /\ queue' = [queue EXCEPT ![p] = @ \ {e}]
          /\ played' = [played EXCEPT ![p] = Append(@, e)]
  BY DEF PlayTop
<1>3. \A q \in Peer : Scheduled(q)' = Scheduled(q)
  BY <1>2, PlaySchedules
<1>4. \A i : Unsent(i)' = Unsent(i)
  BY <1>1 DEF Unsent
<1>5. LastEvent' /\ InFlight'
  BY <1>1, <1>4 DEF Bookkeeping, LastEvent, InFlight
<1>6. SentBefore' /\ Known'
  BY <1>1, <1>3, <1>4 DEF Bookkeeping, SentBefore, Known, Sender
<1>7. AtMostOnce'
  BY <1>2, PlayKeepsAtMostOnce DEF Bookkeeping
<1>8. QED
  BY <1>5, <1>6, <1>7 DEF Bookkeeping

\* Every step keeps the inductive invariant.
LEMMA BookkeepingStep == TypeOK /\ Bookkeeping /\ [Next]_vars => Bookkeeping'
<1> SUFFICES ASSUME TypeOK, Bookkeeping, [Next]_vars PROVE Bookkeeping'
  OBVIOUS
<1> USE DEF bookVars, inputVars, recvVars, queueVars, timerVars
<1>1. CASE Tick
  BY <1>1, BookkeepingFrame DEF Tick
<1>2. ASSUME NEW i \in Input, MidiStep(i) PROVE Bookkeeping'
  BY <1>2, BookkeepingStamp, BookkeepingSerial, BookkeepingSend, BookkeepingBump,
     BookkeepingPush DEF MidiStep
<1>3. ASSUME NEW p \in Peer, NEW d \in net, AcceptMidi(p, d) PROVE Bookkeeping'
  BY <1>3, BookkeepingAccept
<1>4. ASSUME NEW p \in Peer, NEW d \in net, DropMidi(p, d) PROVE Bookkeeping'
  BY <1>4, BookkeepingLess DEF DropMidi
<1>5. ASSUME NEW d \in net, Lose(d) PROVE Bookkeeping'
  BY <1>5, BookkeepingLess DEF Lose
<1>6. ASSUME NEW p \in Peer, Resync(p) PROVE Bookkeeping'
  BY <1>6, BookkeepingFrame DEF Resync
<1>7. ASSUME NEW p \in Peer, PlayTop(p) PROVE Bookkeeping'
  BY <1>7, BookkeepingPlay
<1>8. ASSUME NEW p \in Peer, TimerWake(p) \/ TimerLock(p) \/ TimerUnlock(p)
      PROVE  Bookkeeping'
  BY <1>8, BookkeepingFrame DEF TimerWake, TimerLock, TimerUnlock
<1>9. ASSUME NEW p \in Peer, LogStep(p) PROVE Bookkeeping'
  BY <1>9, BookkeepingFrame DEF LogStep, LogCopy, LogWrite
<1>10. CASE UNCHANGED vars
  BY <1>10, BookkeepingFrame DEF vars
<1>11. QED
  BY <1>1, <1>2, <1>3, <1>4, <1>5, <1>6, <1>7, <1>8, <1>9, <1>10
  DEF Next, PacketStep, TimerStep

\* Bookkeeping, the invariant of the threads and the channel, holds.
THEOREM BookkeepingHolds == Spec => []Bookkeeping
BY TypeCorrect, BookkeepingInit, BookkeepingStep, PTL DEF Spec

\* onPacket's test of received_packets, the order of onMessage and the lock
\* keep every output device from hearing a message twice, for any number of
\* input devices and copies, whatever the channel loses, repeats or reorders.
THEOREM NothingTwice == Spec => []AtMostOnce
<1>1. Bookkeeping => AtMostOnce
  BY DEF Bookkeeping
<1>2. QED
  BY <1>1, BookkeepingHolds, PTL

-----------------------------------------------------------------------------
(* NeverEarly: what the timer thread took for the time has passed.         *)

\* What onTimer compares with is a time the clock has reached.
TimePassed == \A p \in Peer : tpc[p] # "sleep" => tnow[p] <= Clock(p)

\* At the start the timer sleeps.
LEMMA TimePassedInit == Init => TimePassed
BY DEF Init, TimePassed

\* The clock is never behind a time that was read.
LEMMA TimePassedStep == TypeOK /\ TimePassed /\ [Next]_vars => TimePassed'
<1> SUFFICES ASSUME TypeOK, TimePassed, [Next]_vars PROVE TimePassed'
  OBVIOUS
<1>1. now \in Int /\ \A p \in Peer : tnow[p] \in Int /\ Offset[p] \in Int
  BY ConstantTypes DEF TypeOK
<1>2. CASE Tick
  <2>1. now' = now + 1 /\ tpc' = tpc /\ tnow' = tnow
    BY <1>2 DEF Tick, timerVars
  <2>2. QED
    BY <1>1, <2>1 DEF TimePassed, Clock
<1>3. ASSUME NEW p \in Peer, TimerWake(p) PROVE TimePassed'
  <2>1. now' = now /\ tnow' = [tnow EXCEPT ![p] = Clock(p)] /\ tpc' = [tpc EXCEPT ![p] = "awake"]
    BY <1>3 DEF TimerWake
  <2>2. Clock(p) \in Int /\ \A q \in Peer : Clock(q)' = Clock(q)
    BY <1>1, <2>1 DEF Clock
  <2>3. tnow'[p] = Clock(p)
    BY <2>1 DEF TypeOK
  <2>4. \A q \in Peer \ {p} : tnow'[q] = tnow[q] /\ tpc'[q] = tpc[q]
    BY <2>1 DEF TypeOK
  <2>5. ASSUME NEW q \in Peer, tpc'[q] # "sleep" PROVE tnow'[q] <= Clock(q)'
    <3>1. CASE q = p
      BY <2>2, <2>3, <3>1
    <3>2. CASE q # p
      BY <2>2, <2>4, <2>5, <3>2 DEF TimePassed
    <3>3. QED
      BY <3>1, <3>2
  <2>6. QED
    BY <2>5 DEF TimePassed
<1>4. ASSUME NEW p \in Peer, TimerLock(p) \/ TimerUnlock(p) PROVE TimePassed'
  <2>1. /\ now' = now
        /\ \A q \in Peer : tpc'[q] # "sleep" => tpc[q] # "sleep" /\ tnow'[q] = tnow[q]
    BY <1>4 DEF TimerLock, TimerUnlock, TypeOK
  <2>2. QED
    BY <2>1 DEF TimePassed, Clock
<1>5. CASE UNCHANGED <<now, tpc, tnow>>
  BY <1>5 DEF TimePassed, Clock
<1>6. ASSUME NEW i \in Input, MidiStep(i) PROVE UNCHANGED <<now, tpc, tnow>>
  BY <1>6 DEF MidiStep, MidiStamp, MidiSerial, MidiSend, MidiBump, MidiPush, timerVars
<1>7. ASSUME NEW p \in Peer, PacketStep(p) \/ PlayTop(p) \/ LogStep(p)
      PROVE  UNCHANGED <<now, tpc, tnow>>
  BY <1>7 DEF PacketStep, AcceptMidi, DropMidi, Resync, PlayTop, LogStep, LogCopy, LogWrite,
              timerVars
<1>8. ASSUME NEW d \in net, Lose(d) PROVE UNCHANGED <<now, tpc, tnow>>
  BY <1>8 DEF Lose, timerVars
<1>9. CASE UNCHANGED vars
  BY <1>5, <1>9 DEF vars, timerVars
<1>10. QED
  BY <1>2, <1>3, <1>4, <1>5, <1>6, <1>7, <1>8, <1>9 DEF Next, TimerStep

\* The only step that takes an entry out of a queue.
LEMMA OnlyPlayTakes ==
    ASSUME TypeOK, [Next]_vars, NEW p \in Peer, NEW e \in queue[p], e \notin queue'[p]
    PROVE  tpc[p] = "drain" /\ e.due <= tnow[p]
<1>1. CASE UNCHANGED queue
  BY <1>1
<1>2. ASSUME NEW q \in Peer, NEW m, NEW t, NEW lat, NEW sync,
             Push(q, m, t, lat, sync)
      PROVE  FALSE
  BY <1>2 DEF Push, TypeOK
<1>3. ASSUME NEW i \in Input, MidiPush(i) PROVE FALSE
  <2>1. PeerOf[i] \in Peer
    BY ConstantTypes
  <2>2. QED
    BY <1>2, <1>3, <2>1 DEF MidiPush
<1>4. ASSUME NEW q \in Peer, NEW d \in net, AcceptMidi(q, d) PROVE FALSE
  BY <1>2, <1>4 DEF AcceptMidi
<1>5. ASSUME NEW q \in Peer, PlayTop(q) PROVE tpc[p] = "drain" /\ e.due <= tnow[p]
  <2>1. PICK f \in queue[q] : f.due <= tnow[q] /\ queue' = [queue EXCEPT ![q] = @ \ {f}]
    BY <1>5 DEF PlayTop
  <2>2. q = p /\ f = e
    BY <2>1 DEF TypeOK
  <2>3. QED
    BY <1>5, <2>1, <2>2 DEF PlayTop
<1>6. ASSUME NEW i \in Input, MidiStep(i), ~MidiPush(i) PROVE UNCHANGED queue
  BY <1>6 DEF MidiStep, MidiStamp, MidiSerial, MidiSend, MidiBump, queueVars
<1>7. ASSUME NEW q \in Peer, NEW d \in net, DropMidi(q, d) \/ Lose(d) PROVE UNCHANGED queue
  BY <1>7 DEF DropMidi, Lose, queueVars
<1>8. ASSUME NEW q \in Peer,
             Resync(q) \/ TimerWake(q) \/ TimerLock(q) \/ TimerUnlock(q) \/ LogStep(q)
      PROVE  UNCHANGED queue
  BY <1>8 DEF Resync, TimerWake, TimerLock, TimerUnlock, LogStep, LogCopy, LogWrite, queueVars
<1>9. CASE Tick \/ UNCHANGED vars
  BY <1>9 DEF Tick, vars, queueVars
<1>10. QED
  BY <1>1, <1>3, <1>4, <1>5, <1>6, <1>7, <1>8, <1>9 DEF Next, PacketStep, TimerStep

\* What is taken from a queue is due.
LEMMA TakenOnTime ==
    ASSUME TypeOK, TimePassed, [Next]_vars, NEW p \in Peer, NEW e \in queue[p],
           e \notin queue'[p]
    PROVE  e.due <= Clock(p)
<1>1. tpc[p] = "drain" /\ e.due <= tnow[p]
  BY OnlyPlayTakes
<1>2. tnow[p] <= Clock(p)
  BY <1>1 DEF TimePassed
<1>3. e.due \in Int
  <2>1. e \in Entry
    BY DEF TypeOK
  <2>2. QED
    BY <2>1 DEF Entry
<1>4. tnow[p] \in Int
  BY DEF TypeOK
<1>5. Clock(p) \in Int
  <2>1. now \in 0 .. MaxNow /\ MaxNow \in Nat /\ Offset[p] \in Int
    BY ConstantTypes DEF TypeOK
  <2>2. QED
    BY <2>1 DEF Clock
<1>6. QED
  BY <1>1, <1>2, <1>3, <1>4, <1>5

\* No entry is taken from the queue before its time by the clock of its peer,
\* although onTimer reads the clock before it asks for the lock.
THEOREM NothingEarly == Spec => NeverEarly
<1>1. TypeOK /\ TimePassed /\ [Next]_vars =>
          \A p \in Peer : \A e \in queue[p] \ queue'[p] : e.due <= Clock(p)
  BY TakenOnTime
<1>2. QED
  BY <1>1, TypeCorrect, TimePassedInit, TimePassedStep, PTL DEF Spec, NeverEarly

-----------------------------------------------------------------------------
(* PianoConnect implements Ensemble.                                       *)

\* Steps that neither report a stroke nor play one are invisible in Ensemble.
LEMMA Invisible ==
    ASSUME UNCHANGED <<strikes, played>> PROVE UNCHANGED Promise!vars
BY DEF Promise!vars, Struck, Heard

\* MidiStamp is Strike.
LEMMA StampStrikes ==
    ASSUME TypeOK, NEW i \in Input, MidiStamp(i) PROVE Promise!Next
<1> DEFINE m == <<i, strikes[i] + 1>>
<1>1. /\ strikes[i] \in Nat /\ strikes[i] < MaxStrikes
      /\ strikes' = [strikes EXCEPT ![i] = @ + 1] /\ played' = played
  BY ConstantTypes DEF MidiStamp, TypeOK, timerVars
<1>2. m \in Message
  BY <1>1, ConstantTypes DEF Message
<1>3. m \notin Struck
  BY <1>1 DEF Struck
<1>4. Struck' = Struck \cup {m}
  <2>1. \A n \in Message : n[1] \in Input /\ n[2] \in Nat /\ n = <<n[1], n[2]>>
    BY DEF Message
  <2>2. strikes'[i] = strikes[i] + 1 /\ \A j \in Input \ {i} : strikes'[j] = strikes[j]
    BY <1>1 DEF TypeOK
  <2>3. \A n \in Message : n[2] <= strikes'[n[1]] <=> n[2] <= strikes[n[1]] \/ n = m
    BY <1>1, <2>1, <2>2
  <2>4. m[2] <= strikes'[m[1]]
    BY <1>1, <2>2
  <2> HIDE DEF m
  <2>5. QED
    BY <1>2, <2>3, <2>4 DEF Struck
<1>5. Heard' = Heard
  BY <1>1 DEF Heard
<1>6. Promise!Strike(m)
  BY <1>3, <1>4, <1>5 DEF Promise!Strike
<1>7. QED
  BY <1>2, <1>6 DEF Promise!Next

\* PlayTop is Hear.
LEMMA PlayHears ==
    ASSUME TypeOK, Bookkeeping, NEW p \in Peer, PlayTop(p) PROVE Promise!Next
<1>1. PICK e \in queue[p] :
          /\ queue' = [queue EXCEPT ![p] = @ \ {e}]
          /\ played' = [played EXCEPT ![p] = Append(@, e)]
  BY DEF PlayTop
<1>2. strikes' = strikes
  BY DEF PlayTop, inputVars
<1>3. e \in Entry /\ e.msg \in Message /\ played[p] \in Seq(Entry)
  <2>1. queue[p] \subseteq Entry /\ played[p] \in Seq(Entry)
    BY DEF TypeOK
  <2>2. e \in Entry
    BY <2>1
  <2>3. QED
    BY <2>1, <2>2 DEF Entry
<1>4. e.msg \in Struck
  <2>1. e \in Scheduled(p)
    BY DEF Scheduled
  <2>2. QED
    BY <1>3, <2>1 DEF Bookkeeping, SentBefore, Struck
<1>5. \A j \in DOMAIN Heard[p] : Heard[p][j] # e.msg
  BY DEF Heard, Bookkeeping, AtMostOnce
<1>6. Heard' = [Heard EXCEPT ![p] = Append(@, e.msg)]
  <2>1. /\ DOMAIN Append(played[p], e) = 1 .. Len(played[p]) + 1
        /\ DOMAIN played[p] = 1 .. Len(played[p])
        /\ Len(played[p]) \in Nat
        /\ \A j \in DOMAIN played[p] : Append(played[p], e)[j] = played[p][j]
        /\ Append(played[p], e)[Len(played[p]) + 1] = e
    BY <1>3
  <2>2. played'[p] = Append(played[p], e) /\ \A q \in Peer \ {p} : played'[q] = played[q]
    BY <1>1 DEF TypeOK
  <2>3. Heard[p] \in Seq(Message) /\ Len(Heard[p]) = Len(played[p])
    <3>1. Heard[p] = [j \in 1 .. Len(played[p]) |-> played[p][j].msg]
      BY <2>1 DEF Heard
    <3>2. \A j \in 1 .. Len(played[p]) : played[p][j].msg \in Message
      <4>1. \A j \in 1 .. Len(played[p]) : played[p][j] \in Entry
        BY <1>3
      <4>2. QED
        BY <4>1 DEF Entry
    <3>3. QED
      BY <2>1, <3>1, <3>2
  <2>4. Heard'[p] = Append(Heard[p], e.msg)
    <3>1. Heard'[p] = [j \in 1 .. Len(played[p]) + 1 |-> Append(played[p], e)[j].msg]
      BY <2>1, <2>2 DEF Heard
    <3>2. Append(Heard[p], e.msg) = [j \in 1 .. Len(played[p]) + 1 |->
              IF j = Len(played[p]) + 1 THEN e.msg ELSE Heard[p][j]]
      BY <1>3, <2>3
    <3>3. \A j \in 1 .. Len(played[p]) : Heard[p][j] = played[p][j].msg
      BY <2>1 DEF Heard
    <3>4. \A j \in 1 .. Len(played[p]) + 1 : Append(played[p], e)[j].msg =
              IF j = Len(played[p]) + 1 THEN e.msg ELSE Heard[p][j]
      BY <2>1, <3>3
    <3>5. QED
      BY <3>1, <3>2, <3>4
  <2>5. \A q \in Peer \ {p} : Heard'[q] = Heard[q]
    BY <2>2 DEF Heard
  <2>6. QED
    BY <2>4, <2>5 DEF Heard
<1>7. Struck' = Struck
  BY <1>2 DEF Struck
<1>8. Promise!Hear(p, e.msg)
  BY <1>4, <1>5, <1>6, <1>7 DEF Promise!Hear
<1>9. QED
  BY <1>3, <1>8 DEF Promise!Next

\* A step is a step of Ensemble, or none.
LEMMA StepsImplement ==
    TypeOK /\ Bookkeeping /\ [Next]_vars => [Promise!Next]_(Promise!vars)
<1> SUFFICES ASSUME TypeOK, Bookkeeping, [Next]_vars
             PROVE  Promise!Next \/ UNCHANGED Promise!vars
  OBVIOUS
<1>1. ASSUME NEW i \in Input, MidiStamp(i) PROVE Promise!Next
  BY <1>1, StampStrikes
<1>2. ASSUME NEW p \in Peer, PlayTop(p) PROVE Promise!Next
  BY <1>2, PlayHears
<1>3. ASSUME NEW i \in Input, MidiStep(i), ~MidiStamp(i) PROVE UNCHANGED <<strikes, played>>
  BY <1>3 DEF MidiStep, MidiSerial, MidiSend, MidiBump, MidiPush, timerVars
<1>4. ASSUME NEW p \in Peer, PacketStep(p) \/ LogStep(p) PROVE UNCHANGED <<strikes, played>>
  BY <1>4 DEF PacketStep, AcceptMidi, DropMidi, Resync, LogStep, LogCopy, LogWrite,
              inputVars, timerVars
<1>5. ASSUME NEW p \in Peer, TimerWake(p) \/ TimerLock(p) \/ TimerUnlock(p)
      PROVE  UNCHANGED <<strikes, played>>
  BY <1>5 DEF TimerWake, TimerLock, TimerUnlock, inputVars
<1>6. ASSUME NEW d \in net, Lose(d) PROVE UNCHANGED <<strikes, played>>
  BY <1>6 DEF Lose, inputVars, timerVars
<1>7. CASE Tick \/ UNCHANGED vars
  BY <1>7, Invisible DEF Tick, vars, inputVars, timerVars
<1>8. QED
  BY <1>1, <1>2, <1>3, <1>4, <1>5, <1>6, <1>7, Invisible DEF Next, TimerStep

\* The start is Ensemble's start.
LEMMA InitImplements == Init => Promise!Init
<1> SUFFICES ASSUME Init PROVE Promise!Init
  OBVIOUS
<1>1. Struck = {}
  BY DEF Init, Struck, Message
<1>2. Heard = [p \in Peer |-> <<>>]
  <2>1. \A p \in Peer : played[p] = <<>>
    BY DEF Init
  <2>2. DOMAIN << >> = {}
    <3>1. << >> \in Seq({}) /\ Len(<< >>) = 0
      OBVIOUS
    <3>2. DOMAIN << >> = 1 .. Len(<< >>)
      BY <3>1
    <3>3. QED
      BY <3>1, <3>2
  <2>3. \A p \in Peer : Heard[p] = [j \in {} |-> played[p][j].msg]
    BY <2>1, <2>2 DEF Heard
  <2>4. \A p \in Peer : Heard[p] = << >>
    <3>1. << >> = [j \in {} |-> 0]
      BY <2>2
    <3>2. \A p \in Peer : [j \in {} |-> played[p][j].msg] = [j \in {} |-> 0]
      OBVIOUS
    <3>3. QED
      BY <2>3, <3>1, <3>2
  <2>5. QED
    BY <2>4 DEF Heard
<1>3. QED
  BY <1>1, <1>2 DEF Promise!Init

\* Threads, lock, received_packets and channel together keep the promise of
\* Ensemble: each piano renders each stroke at most once, and no other stroke,
\* for any number of devices, any configuration and any loss, repetition and
\* reordering of datagrams.
THEOREM Refinement == Spec => ImplementsEnsemble
BY TypeCorrect, BookkeepingHolds, InitImplements, StepsImplement, PTL
DEF Spec, ImplementsEnsemble, Promise!Spec

-----------------------------------------------------------------------------
(* The log.                                                                *)

\* What is appended to the second part is appended to the whole.
LEMMA AppendAtEnd ==
    ASSUME NEW S, NEW s \in Seq(S), NEW t \in Seq(S), NEW e \in S
    PROVE  s \o Append(t, e) = Append(s \o t, e)
OBVIOUS

\* The head of the second part may go to the end of the first.
LEMMA MoveHead ==
    ASSUME NEW S, NEW s \in Seq(S), NEW t \in Seq(S), t # <<>>
    PROVE  Append(s, Head(t)) \o Tail(t) = s \o t
OBVIOUS

\* At the start nothing was played or logged.
LEMMA LogInit == Init => LogExact
<1> SUFFICES ASSUME Init, NEW p \in Peer PROVE logged[p] \o copied[p] \o logq[p] = played[p]
  BY DEF LogExact
<1>1. logged[p] = <<>> /\ copied[p] = <<>> /\ logq[p] = <<>> /\ played[p] = <<>>
  BY DEF Init
<1>2. <<>> \in Seq(Entry)
  OBVIOUS
<1>3. QED
  BY <1>1, <1>2, ConcatEmptySeq

\* Steps that do not play or log keep the log exact,
LEMMA LogFrame ==
    ASSUME LogExact, UNCHANGED <<played, logVars>> PROVE LogExact'
BY DEF LogExact, logVars

\* and so do those that do.
LEMMA LogStepKeeps == TypeOK /\ LogExact /\ [Next]_vars => LogExact'
<1> SUFFICES ASSUME TypeOK, LogExact, [Next]_vars PROVE LogExact'
  OBVIOUS
<1>1. \A p \in Peer : /\ logged[p] \in Seq(Entry) /\ copied[p] \in Seq(Entry)
                      /\ logq[p] \in Seq(Entry) /\ played[p] \in Seq(Entry)
  BY DEF TypeOK
<1>2. ASSUME NEW p \in Peer, PlayTop(p) PROVE LogExact'
  <2> SUFFICES ASSUME Logging, NEW q \in Peer
               PROVE  logged'[q] \o copied'[q] \o logq'[q] = played'[q]
    BY DEF LogExact
  <2>1. PICK e \in queue[p] :
            /\ played' = [played EXCEPT ![p] = Append(@, e)]
            /\ logq' = [logq EXCEPT ![p] = Append(@, e)]
    BY <1>2 DEF PlayTop
  <2>2. logged' = logged /\ copied' = copied
    BY <1>2 DEF PlayTop
  <2>3. CASE q = p
    <3>1. e \in Entry
      BY DEF TypeOK
    <3>2. logged[p] \o copied[p] \in Seq(Entry)
      BY <1>1, ConcatProperties
    <3>3. played'[p] = Append(played[p], e) /\ logq'[p] = Append(logq[p], e)
      BY <2>1 DEF TypeOK
    <3>4. (logged[p] \o copied[p]) \o Append(logq[p], e)
              = Append((logged[p] \o copied[p]) \o logq[p], e)
      <4> DEFINE before == logged[p] \o copied[p]
      <4>1. before \in Seq(Entry) /\ logq[p] \in Seq(Entry) /\ e \in Entry
        BY <1>1, <3>1, <3>2
      <4> HIDE DEF before
      <4>2. before \o Append(logq[p], e) = Append(before \o logq[p], e)
        BY ONLY <4>1, AppendAtEnd
      <4>3. QED
        BY <4>2 DEF before
    <3>5. (logged[p] \o copied[p]) \o logq[p] = played[p]
      BY DEF LogExact
    <3>6. QED
      BY <2>2, <2>3, <3>3, <3>4, <3>5
  <2>4. CASE q # p
    BY <2>1, <2>2, <2>4 DEF LogExact, TypeOK
  <2>5. QED
    BY <2>3, <2>4
<1>3. ASSUME NEW p \in Peer, LogCopy(p) PROVE LogExact'
  <2> SUFFICES ASSUME Logging, NEW q \in Peer
               PROVE  logged'[q] \o copied'[q] \o logq'[q] = played'[q]
    BY DEF LogExact
  <2>1. /\ copied[p] = <<>> /\ logged' = logged /\ played' = played
        /\ copied' = [copied EXCEPT ![p] = logq[p]]
        /\ logq' = [logq EXCEPT ![p] = <<>>]
    BY <1>3 DEF LogCopy, timerVars
  <2>2. CASE q = p
    <3>1. copied'[p] = logq[p] /\ logq'[p] = <<>>
      BY <2>1 DEF TypeOK
    <3>2. logged[p] \o copied[p] = logged[p]
      BY <1>1, <2>1, ConcatEmptySeq
    <3>3. logged[p] \o logq[p] \in Seq(Entry)
      BY <1>1, ConcatProperties
    <3>4. (logged[p] \o logq[p]) \o <<>> = logged[p] \o logq[p]
      BY <3>3, ConcatEmptySeq
    <3>5. (logged[p] \o copied[p]) \o logq[p] = played[p]
      BY DEF LogExact
    <3>6. QED
      BY <2>1, <2>2, <3>1, <3>2, <3>4, <3>5
  <2>3. CASE q # p
    BY <2>1, <2>3 DEF LogExact, TypeOK
  <2>4. QED
    BY <2>2, <2>3
<1>4. ASSUME NEW p \in Peer, LogWrite(p) PROVE LogExact'
  <2> SUFFICES ASSUME Logging, NEW q \in Peer
               PROVE  logged'[q] \o copied'[q] \o logq'[q] = played'[q]
    BY DEF LogExact
  <2>1. /\ copied[p] # <<>> /\ logq' = logq /\ played' = played
        /\ logged' = [logged EXCEPT ![p] = Append(@, Head(copied[p]))]
        /\ copied' = [copied EXCEPT ![p] = Tail(@)]
    BY <1>4 DEF LogWrite, timerVars
  <2>2. CASE q = p
    <3>1. logged'[p] = Append(logged[p], Head(copied[p])) /\ copied'[p] = Tail(copied[p])
      BY <2>1 DEF TypeOK
    <3>2. Append(logged[p], Head(copied[p])) \o Tail(copied[p]) = logged[p] \o copied[p]
      BY <1>1, <2>1, MoveHead
    <3>3. (logged[p] \o copied[p]) \o logq[p] = played[p]
      BY DEF LogExact
    <3>4. QED
      BY <2>1, <2>2, <3>1, <3>2, <3>3
  <2>3. CASE q # p
    BY <2>1, <2>3 DEF LogExact, TypeOK
  <2>4. QED
    BY <2>2, <2>3
<1>5. ASSUME NEW i \in Input, MidiStep(i) PROVE UNCHANGED <<played, logVars>>
  BY <1>5 DEF MidiStep, MidiStamp, MidiSerial, MidiSend, MidiBump, MidiPush, timerVars, logVars
<1>6. ASSUME NEW p \in Peer, PacketStep(p) PROVE UNCHANGED <<played, logVars>>
  BY <1>6 DEF PacketStep, AcceptMidi, DropMidi, Resync, timerVars, logVars
<1>7. ASSUME NEW p \in Peer, TimerWake(p) \/ TimerLock(p) \/ TimerUnlock(p)
      PROVE  UNCHANGED <<played, logVars>>
  BY <1>7 DEF TimerWake, TimerLock, TimerUnlock, logVars
<1>8. ASSUME NEW d \in net, Lose(d) PROVE UNCHANGED <<played, logVars>>
  BY <1>8 DEF Lose, timerVars, logVars
<1>9. CASE Tick \/ UNCHANGED vars
  BY <1>9, LogFrame DEF Tick, vars, timerVars, logVars
<1>10. QED
  BY <1>2, <1>3, <1>4, <1>5, <1>6, <1>7, <1>8, <1>9, LogFrame DEF Next, TimerStep, LogStep

\* What onTimer plays and main() writes agree: no line of the log is lost,
\* repeated or out of place, however the two threads interleave.
THEOREM LogComplete == Spec => []LogExact
BY TypeCorrect, LogInit, LogStepKeeps, PTL DEF Spec

-----------------------------------------------------------------------------
(* The order of one device's strokes at home.                              *)

\* LocalOrder is not inductive: it needs that of two strokes in the wrong order
\* the one that waits is due no earlier.
Overtaken ==
    \A p \in Peer : \A f \in queue[p] : \A a \in DOMAIN played[p] :
        LET e == played[p][a]
        IN /\ e.msg[1] = f.msg[1]
           /\ Sender(e.msg) = p
           /\ e.msg[2] > f.msg[2]
           => e.due <= f.due

\* At the start nothing was played.
LEMMA OrderInit == Init => Overtaken /\ LocalOrder
<1> SUFFICES ASSUME Init PROVE Overtaken /\ LocalOrder
  OBVIOUS
<1>1. \A p \in Peer : queue[p] = {} /\ played[p] = <<>>
  BY DEF Init
<1>2. DOMAIN << >> = {}
  <2>1. << >> \in Seq({}) /\ Len(<< >>) = 0
    OBVIOUS
  <2>2. DOMAIN << >> = 1 .. Len(<< >>)
    BY <2>1
  <2>3. QED
    BY <2>1, <2>2
<1>3. QED
  BY <1>1, <1>2 DEF Overtaken, LocalOrder

\* What a push adds that is of the other peer, or of a device none of whose later
\* strokes was played, overtakes nothing.
LEMMA OrderPush ==
    ASSUME TypeOK, Overtaken, LocalOrder, NEW p \in Peer, NEW f,
           queue' = [queue EXCEPT ![p] = @ \cup {f}], played' = played,
           \/ Sender(f.msg) # p
           \/ \A a \in DOMAIN played[p] : played[p][a].msg[1] = f.msg[1]
                                             => ~(played[p][a].msg[2] > f.msg[2])
    PROVE  (Overtaken /\ LocalOrder)'
<1>1. queue'[p] = queue[p] \cup {f} /\ \A q \in Peer \ {p} : queue'[q] = queue[q]
  BY DEF TypeOK
<1>2. \A a \in DOMAIN played[p] :
          played[p][a].msg[1] = f.msg[1] /\ Sender(played[p][a].msg) = p
              => ~(played[p][a].msg[2] > f.msg[2])
  BY DEF Sender
<1>3. Overtaken'
  BY <1>1, <1>2 DEF Overtaken, Sender
<1>4. LocalOrder'
  BY DEF LocalOrder, Sender
<1>5. QED
  BY <1>3, <1>4

\* The top entry is due before everything that waits, and after what overtook it.
LEMMA OrderPlay ==
    ASSUME TypeOK, Overtaken, LocalOrder, NEW p \in Peer, PlayTop(p)
    PROVE  (Overtaken /\ LocalOrder)'
<1>1. PICK e \in queue[p] :
          /\ IsTop(p, e)
          /\ queue' = [queue EXCEPT ![p] = @ \ {e}]
          /\ played' = [played EXCEPT ![p] = Append(@, e)]
  BY DEF PlayTop
<1>2. played[p] \in Seq(Entry) /\ e \in Entry
  BY DEF TypeOK
<1>3. /\ DOMAIN Append(played[p], e) = 1 .. Len(played[p]) + 1
      /\ DOMAIN played[p] = 1 .. Len(played[p])
      /\ Len(played[p]) \in Nat
      /\ \A j \in DOMAIN played[p] : Append(played[p], e)[j] = played[p][j]
      /\ Append(played[p], e)[Len(played[p]) + 1] = e
  BY <1>2
<1>4. queue'[p] = queue[p] \ {e} /\ played'[p] = Append(played[p], e)
  BY <1>1 DEF TypeOK
<1>5. \A q \in Peer \ {p} : queue'[q] = queue[q] /\ played'[q] = played[q]
  BY <1>1 DEF TypeOK
<1>6. \A f \in queue[p] : e.due <= f.due
  BY <1>1 DEF IsTop
<1>7. ASSUME NEW f \in queue'[p], NEW a \in DOMAIN played'[p],
             played'[p][a].msg[1] = f.msg[1], Sender(played'[p][a].msg) = p,
             played'[p][a].msg[2] > f.msg[2]
      PROVE  played'[p][a].due <= f.due
  <2>1. f \in queue[p]
    BY <1>4
  <2>2. CASE a \in DOMAIN played[p]
    BY <1>3, <1>4, <1>7, <2>1, <2>2 DEF Overtaken
  <2>3. CASE a \notin DOMAIN played[p]
    BY <1>3, <1>4, <1>6, <2>1, <2>3
  <2>4. QED
    BY <2>2, <2>3
<1>8. ASSUME NEW a \in DOMAIN played'[p], NEW b \in DOMAIN played'[p], a < b,
             played'[p][a].msg[1] = played'[p][b].msg[1], Sender(played'[p][a].msg) = p,
             played'[p][a].msg[2] > played'[p][b].msg[2]
      PROVE  played'[p][a].due <= played'[p][b].due
  <2>1. a \in DOMAIN played[p]
    BY <1>3, <1>4, <1>8
  <2>2. CASE b \in DOMAIN played[p]
    BY <1>3, <1>4, <1>8, <2>1, <2>2 DEF LocalOrder
  <2>3. CASE b \notin DOMAIN played[p]
    <3>1. played'[p][b] = e /\ played'[p][a] = played[p][a]
      BY <1>3, <1>4, <2>1, <2>3
    <3>2. QED
      BY <1>8, <2>1, <3>1 DEF Overtaken
  <2>4. QED
    BY <2>2, <2>3
<1>9. Overtaken'
  BY <1>5, <1>7 DEF Overtaken, Sender
<1>10. LocalOrder'
  BY <1>5, <1>8 DEF LocalOrder, Sender
<1>11. QED
  BY <1>9, <1>10

\* Every step keeps the order at home.
LEMMA OrderStep ==
    TypeOK /\ Bookkeeping /\ Overtaken /\ LocalOrder /\ [Next]_vars
        => (Overtaken /\ LocalOrder)'
<1> SUFFICES ASSUME TypeOK, Bookkeeping, Overtaken, LocalOrder, [Next]_vars
             PROVE  (Overtaken /\ LocalOrder)'
  OBVIOUS
<1>1. ASSUME UNCHANGED <<queue, played>> PROVE (Overtaken /\ LocalOrder)'
  BY <1>1 DEF Overtaken, LocalOrder, Sender
<1>2. ASSUME NEW p \in Peer, PlayTop(p) PROVE (Overtaken /\ LocalOrder)'
  BY <1>2, OrderPlay
<1>3. ASSUME NEW i \in Input, MidiPush(i) PROVE (Overtaken /\ LocalOrder)'
  <2> DEFINE p == PeerOf[i]
             m == packet[i].msg
  <2>1. p \in Peer /\ ipc[i] = "bumped" /\ played' = played
    BY <1>3, ConstantTypes DEF MidiPush, timerVars
  <2>2. m = <<i, strikes[i]>> /\ strikes[i] \in Nat
    BY <2>1, ConstantTypes DEF Bookkeeping, LastEvent, TypeOK
  <2>3. PICK e : e.msg = m /\ queue' = [queue EXCEPT ![p] = @ \cup {e}]
    <3>1. \E t, lat, sync : Push(p, m, t, lat, sync)
      BY <1>3 DEF MidiPush
    <3>2. QED
      BY <2>1, <3>1, PushSchedules
  <2>4. ASSUME NEW a \in DOMAIN played[p], played[p][a].msg[1] = i
        PROVE  ~(played[p][a].msg[2] > strikes[i])
    <3>1. played[p][a] \in Scheduled(p)
      BY DEF Scheduled
    <3>2. played[p][a].msg[2] <= strikes[i]
      BY <2>1, <2>4, <3>1 DEF Bookkeeping, SentBefore
    <3>3. played[p][a].msg[2] \in Nat
      BY <2>1, <3>1, ScheduledTypes, ConstantTypes DEF Message
    <3>4. QED
      BY <2>2, <3>2, <3>3
  <2>5. e.msg[1] = i /\ e.msg[2] = strikes[i]
    BY <2>2, <2>3
  <2> HIDE DEF m, p
  <2>6. QED
    BY <2>1, <2>3, <2>4, <2>5, OrderPush
<1>4. ASSUME NEW p \in Peer, NEW d \in net, AcceptMidi(p, d)
      PROVE  (Overtaken /\ LocalOrder)'
  <2>1. Sender(d.msg) # p /\ played' = played
    BY <1>4 DEF AcceptMidi, timerVars
  <2>2. PICK e : e.msg = d.msg /\ queue' = [queue EXCEPT ![p] = @ \cup {e}]
    BY <1>4, <2>1, PushSchedules DEF AcceptMidi
  <2>3. QED
    BY <2>1, <2>2, OrderPush
<1>5. ASSUME NEW i \in Input, MidiStep(i), ~MidiPush(i) PROVE UNCHANGED <<queue, played>>
  BY <1>5 DEF MidiStep, MidiStamp, MidiSerial, MidiSend, MidiBump, queueVars, timerVars
<1>6. ASSUME NEW p \in Peer, NEW d \in net, DropMidi(p, d) \/ Lose(d)
      PROVE  UNCHANGED <<queue, played>>
  BY <1>6 DEF DropMidi, Lose, queueVars, timerVars
<1>7. ASSUME NEW p \in Peer,
             Resync(p) \/ TimerWake(p) \/ TimerLock(p) \/ TimerUnlock(p) \/ LogStep(p)
      PROVE  UNCHANGED <<queue, played>>
  BY <1>7 DEF Resync, TimerWake, TimerLock, TimerUnlock, LogStep, LogCopy, LogWrite,
              queueVars, timerVars
<1>8. CASE Tick \/ UNCHANGED vars
  BY <1>1, <1>8 DEF Tick, vars, queueVars, timerVars
<1>9. QED
  BY <1>1, <1>2, <1>3, <1>4, <1>5, <1>6, <1>7, <1>8, PeerAssumption
  DEF Next, PacketStep, TimerStep

\* At home the strokes of one device are heard in their order, or the later is due
\* no later: for any number of devices and whatever the latency does.
THEOREM OrderKept == Spec => []LocalOrder
BY TypeCorrect, BookkeepingHolds, OrderInit, OrderStep, PTL DEF Spec

-----------------------------------------------------------------------------
(* HeardAfterStroke: the latency granted is kept on the way to the piano.  *)

\* The time a message was struck, by the clock of its peer.
StampOf(m) == struckAt[m] + Offset[Sender(m)]

\* The callback works with that time, and every datagram carries it.
Stamped ==
    /\ \A i \in Input : ipc[i] # "idle" =>
           packet[i].ident.timestamp = StampOf(packet[i].msg)
    /\ \A i \in Input : ipc[i] = "bumped" =>
           due[i] = packet[i].ident.timestamp + granted[i]
    /\ \A d \in net : d.ident.timestamp = StampOf(d.msg)

\* A peer has measured the other's clock or takes it for its own.
Measured ==
    \A p \in Peer : IF acks[p] > 0 THEN delta[p] \in DeltaEst[p] ELSE delta[p] = 0

\* An entry is due after its stroke by the latency, less the offset its peer went by.
MovedRight(p, e) ==
    IF Sender(e.msg) # p /\ e.sync
    THEN (StampOf(e.msg) + e.lat) - e.due \in DeltaEst[p]
    ELSE e.due = StampOf(e.msg) + e.lat

Moved == \A p \in Peer : \A e \in Scheduled(p) : MovedRight(p, e)

Timing == Stamped /\ Measured /\ Moved

\* At the start nothing was struck.
LEMMA TimingInit == Init => Timing
<1> SUFFICES ASSUME Init PROVE Timing
  OBVIOUS
<1>1. DOMAIN << >> = {}
  <2>1. << >> \in Seq({}) /\ Len(<< >>) = 0
    OBVIOUS
  <2>2. DOMAIN << >> = 1 .. Len(<< >>)
    BY <2>1
  <2>3. QED
    BY <2>1, <2>2
<1>2. \A p \in Peer : Scheduled(p) = {}
  <2>1. \A p \in Peer : queue[p] = {} /\ played[p] = <<>>
    BY DEF Init
  <2>2. QED
    BY <1>1, <2>1 DEF Scheduled
<1>3. Stamped /\ Measured
  BY DEF Init, Stamped, Measured
<1>4. QED
  BY <1>2, <1>3 DEF Timing, Moved

\* A step that stamps, measures and schedules nothing new.
LEMMA TimingFrame ==
    ASSUME Timing, UNCHANGED <<ipc, packet, due, granted, struckAt, acks, delta>>,
           net' \subseteq net, \A p \in Peer : Scheduled(p)' = Scheduled(p)
    PROVE  Timing'
<1>1. \A m : StampOf(m)' = StampOf(m)
  BY DEF StampOf, Sender
<1>2. Stamped'
  BY <1>1 DEF Timing, Stamped
<1>3. Measured'
  BY DEF Timing, Measured
<1>4. Moved'
  BY <1>1 DEF Timing, Moved, MovedRight, Sender
<1>5. QED
  BY <1>2, <1>3, <1>4 DEF Timing

\* A push of an entry that is moved right.
LEMMA TimingPush ==
    ASSUME Timing, UNCHANGED <<struckAt, acks, delta>>, Stamped', NEW p \in Peer, NEW e,
           Scheduled(p)' = Scheduled(p) \cup {e},
           \A q \in Peer \ {p} : Scheduled(q)' = Scheduled(q),
           MovedRight(p, e)
    PROVE  Timing'
<1>1. \A q \in Peer : \A f : MovedRight(q, f)' <=> MovedRight(q, f)
  BY DEF MovedRight, StampOf, Sender
<1>2. Moved'
  BY <1>1 DEF Timing, Moved
<1>3. Measured'
  BY DEF Timing, Measured
<1>4. QED
  BY <1>2, <1>3 DEF Timing

\* The device's new event is not yet anywhere: it may have its own time.
LEMMA TimingStamp ==
    ASSUME TypeOK, Bookkeeping, Timing, NEW i \in Input, MidiStamp(i)
    PROVE  Timing'
<1> PICK m : m = <<i, strikes[i] + 1>>
  OBVIOUS
<1>1. /\ net' = net /\ queue' = queue /\ played' = played /\ UNCHANGED <<acks, delta>>
      /\ due' = due /\ granted' = granted
      /\ ipc[i] = "idle"
      /\ ipc' = [ipc EXCEPT ![i] = "stamped"]
      /\ struckAt' = [struckAt EXCEPT ![m] = now]
  BY DEF MidiStamp, recvVars, queueVars, timerVars, syncVars
<1>2. strikes[i] \in Nat /\ m \in Message
  <2>1. strikes[i] \in 0 .. MaxStrikes /\ strikes[i] < MaxStrikes
    BY ConstantTypes DEF MidiStamp, TypeOK
  <2>2. QED
    BY <2>1, ConstantTypes DEF Message
<1>3. /\ packet'[i].msg = m /\ packet'[i].ident.timestamp = Clock(PeerOf[i])
      /\ ipc'[i] = "stamped"
      /\ \A j \in Input \ {i} : packet'[j] = packet[j] /\ ipc'[j] = ipc[j]
  BY <1>1 DEF MidiStamp, TypeOK
<1>4. struckAt'[m] = now /\ \A x \in Message : x # m => struckAt'[x] = struckAt[x]
  BY <1>1, <1>2 DEF TypeOK
<1>5. StampOf(m)' = Clock(PeerOf[i])
  BY <1>4 DEF StampOf, Clock, Sender
<1>6. \A x \in Message : x # m => StampOf(x)' = StampOf(x)
  BY <1>4 DEF StampOf, Sender
<1>7. ASSUME NEW j \in Input, ipc[j] # "idle"
      PROVE  packet[j].msg \in Message /\ packet[j].msg # m
  <2>1. packet[j].msg = <<j, strikes[j]>> /\ packet[j] \in Packet
    BY <1>7 DEF Bookkeeping, LastEvent, TypeOK
  <2>2. j # i
    BY <1>1, <1>7
  <2>3. QED
    BY <2>1, <2>2 DEF Packet
<1>8. ASSUME NEW d \in net PROVE d.msg \in Message /\ d.msg # m
  <2>1. d.msg[2] <= strikes[d.msg[1]] /\ d \in Packet
    BY DEF Bookkeeping, InFlight, TypeOK
  <2>2. QED
    BY <1>2, <2>1 DEF Packet
<1>9. ASSUME NEW p \in Peer, NEW e \in Scheduled(p) PROVE e.msg \in Message /\ e.msg # m
  <2>1. e.msg[2] <= strikes[e.msg[1]]
    BY DEF Bookkeeping, SentBefore
  <2>2. QED
    BY <1>2, <2>1, ScheduledTypes
<1>10. \A p \in Peer : Scheduled(p)' = Scheduled(p)
  BY <1>1 DEF Scheduled
<1>11. ASSUME NEW j \in Input, ipc'[j] # "idle"
       PROVE  (packet[j].ident.timestamp = StampOf(packet[j].msg))'
  <2>1. PICK x : x = packet'[j].msg
    OBVIOUS
  <2>2. packet'[j].ident.timestamp = StampOf(x)'
    <3>1. CASE j = i
      BY <1>3, <1>5, <2>1, <3>1
    <3>2. CASE j # i
      <4>1. packet'[j] = packet[j] /\ ipc[j] # "idle"
        BY <1>3, <1>11, <3>2
      <4>2. packet[j].ident.timestamp = StampOf(x)
        BY <2>1, <4>1 DEF Timing, Stamped
      <4>3. QED
        BY <1>6, <1>7, <2>1, <4>1, <4>2
    <3>3. QED
      BY <3>1, <3>2
  <2>3. QED
    BY <2>1, <2>2 DEF StampOf, Sender
<1>12. \A j \in Input : ipc'[j] = "bumped" =>
           due'[j] = packet'[j].ident.timestamp + granted'[j]
  BY <1>1, <1>3 DEF Timing, Stamped
<1>13. \A d \in net' : d.ident.timestamp = StampOf(d.msg)'
  BY <1>1, <1>6, <1>8 DEF Timing, Stamped
<1>14. Stamped'
  BY <1>11, <1>12, <1>13 DEF Stamped, StampOf, Sender
<1>15. Moved'
  <2> SUFFICES ASSUME NEW p \in Peer, NEW e \in Scheduled(p) PROVE MovedRight(p, e)'
    BY <1>10 DEF Moved, MovedRight, StampOf, Sender
  <2>1. StampOf(e.msg)' = StampOf(e.msg)
    BY <1>6, <1>9
  <2>2. MovedRight(p, e)
    BY DEF Timing, Moved
  <2>3. QED
    BY <2>1, <2>2 DEF MovedRight, Sender
<1>16. Measured'
  BY <1>1 DEF Timing, Measured
<1>17. QED
  BY <1>14, <1>15, <1>16 DEF Timing

\* The rest of the callback keeps the stamp, and adds the latency to it.
LEMMA TimingMidi ==
    ASSUME TypeOK, Bookkeeping, Timing, NEW i \in Input, MidiStep(i)
    PROVE  Timing'
<1>1. CASE MidiSerial(i) \/ MidiSend(i) \/ MidiBump(i)
  <2>1. /\ queue' = queue /\ played' = played /\ UNCHANGED <<acks, delta, struckAt>>
    BY <1>1 DEF MidiSerial, MidiSend, MidiBump, queueVars, timerVars, syncVars
  <2>2. \A p \in Peer : Scheduled(p)' = Scheduled(p)
    BY <2>1 DEF Scheduled
  <2>3. ipc[i] \notin {"idle", "bumped"} /\ packet[i] \in Packet
    BY <1>1 DEF MidiSerial, MidiSend, MidiBump, TypeOK
  <2>4. /\ \A j \in Input \ {i} : /\ packet'[j] = packet[j] /\ ipc'[j] = ipc[j]
                                  /\ due'[j] = due[j] /\ granted'[j] = granted[j]
        /\ packet'[i].msg = packet[i].msg
        /\ packet'[i].ident.timestamp = packet[i].ident.timestamp
        /\ ipc'[i] = "bumped" => due'[i] = packet[i].ident.timestamp + granted'[i]
    <3>1. CASE MidiSerial(i)
      BY <3>1, <2>3 DEF MidiSerial, TypeOK, Packet, Identifier
    <3>2. CASE MidiSend(i)
      BY <3>2 DEF MidiSend, TypeOK
    <3>3. CASE MidiBump(i)
      <4>1. /\ packet' = packet
            /\ ipc' = [ipc EXCEPT ![i] = "bumped"]
            /\ due' = [due EXCEPT ![i] = packet[i].ident.timestamp + latency[PeerOf[i]]]
            /\ granted' = [granted EXCEPT ![i] = latency[PeerOf[i]]]
        BY <3>3 DEF MidiBump
      <4>2. DOMAIN ipc = Input /\ due \in [Input -> Int] /\ granted \in [Input -> Int]
        BY DEF TypeOK
      <4>3. QED
        BY <4>1, <4>2
    <3>4. QED
      BY <1>1, <3>1, <3>2, <3>3
  <2>5. net' \subseteq net \cup {packet[i]}
    BY <1>1 DEF MidiSerial, MidiSend, MidiBump, recvVars
  <2>6. \A m : StampOf(m)' = StampOf(m)
    BY <2>1 DEF StampOf, Sender
  <2>7. Stamped'
    BY <2>3, <2>4, <2>5, <2>6 DEF Timing, Stamped
  <2>8. Measured' /\ Moved'
    BY <2>1, <2>2, <2>6 DEF Timing, Measured, Moved, MovedRight, Sender
  <2>9. QED
    BY <2>7, <2>8 DEF Timing
<1>2. CASE MidiPush(i)
  <2> DEFINE p == PeerOf[i]
             m == packet[i].msg
  <2>1. /\ p \in Peer /\ ipc[i] = "bumped" /\ played' = played /\ net' = net
        /\ UNCHANGED <<acks, delta, struckAt>>
    BY <1>2, ConstantTypes DEF MidiPush, timerVars, recvVars, syncVars
  <2>2. PICK e : /\ e.msg = m
                 /\ e.due = due[i] /\ e.lat = granted[i]
                 /\ Scheduled(p)' = Scheduled(p) \cup {e}
                 /\ \A q \in Peer \ {p} : Scheduled(q)' = Scheduled(q)
    <3>1. PICK sync \in BOOLEAN : Push(p, m, due[i], granted[i], sync)
      BY <1>2 DEF MidiPush
    <3> HIDE DEF p, m
    <3>2. QED
      BY <2>1, <3>1, PushSchedules
  <2>3. Sender(e.msg) = p
    BY <2>1, <2>2 DEF Bookkeeping, LastEvent, Sender
  <2>4. e.due = StampOf(e.msg) + e.lat
    BY <2>1, <2>2 DEF Timing, Stamped
  <2>5. MovedRight(p, e)
    BY <2>3, <2>4 DEF MovedRight
  <2>6. Stamped'
    <3>1. /\ ipc' = [ipc EXCEPT ![i] = "idle"]
          /\ packet' = [packet EXCEPT ![i] = NoPacket]
          /\ due' = [due EXCEPT ![i] = 0]
          /\ granted' = [granted EXCEPT ![i] = 0]
      BY <1>2 DEF MidiPush
    <3>2. \A j \in Input : ipc'[j] # "idle" =>
              /\ ipc'[j] = ipc[j] /\ packet'[j] = packet[j]
              /\ due'[j] = due[j] /\ granted'[j] = granted[j]
      BY <3>1 DEF TypeOK
    <3>3. \A x : StampOf(x)' = StampOf(x)
      BY <2>1 DEF StampOf, Sender
    <3>4. QED
      BY <2>1, <3>2, <3>3 DEF Timing, Stamped
  <2> HIDE DEF p, m
  <2>7. QED
    BY <2>1, <2>2, <2>5, <2>6, TimingPush
<1>3. QED
  BY <1>1, <1>2, TimingStamp DEF MidiStep

\* A message of the other peer is scheduled by the time it carries.
LEMMA TimingAccept ==
    ASSUME TypeOK, Timing, NEW p \in Peer, NEW d \in net, AcceptMidi(p, d)
    PROVE  Timing'
<1> DEFINE stamp == d.ident.timestamp
           sync == acks[p] > 0
<1>1. /\ Sender(d.msg) # p /\ net' \subseteq net /\ played' = played
      /\ UNCHANGED <<ipc, packet, due, granted, struckAt, acks, delta>>
  BY DEF AcceptMidi, Take, inputVars, timerVars, syncVars
<1>2. stamp \in Int /\ delta[p] \in Int /\ latency[p] \in Int
  BY DEF TypeOK, Packet, Identifier
<1>3. PICK e : /\ e.msg = d.msg
               /\ e.due = stamp - delta[p] + latency[p]
               /\ e.lat = latency[p] /\ e.sync = sync
               /\ Scheduled(p)' = Scheduled(p) \cup {e}
               /\ \A q \in Peer \ {p} : Scheduled(q)' = Scheduled(q)
  <2>1. Push(p, d.msg, stamp - delta[p] + latency[p], latency[p], sync)
    BY DEF AcceptMidi
  <2> HIDE DEF stamp, sync
  <2>2. QED
    BY <1>1, <2>1, PushSchedules
<1>4. stamp = StampOf(e.msg) /\ Sender(e.msg) # p
  BY <1>1, <1>3 DEF Timing, Stamped
<1>5. (StampOf(e.msg) + e.lat) - e.due = delta[p]
  BY <1>2, <1>3, <1>4
<1>6. IF e.sync THEN delta[p] \in DeltaEst[p] ELSE delta[p] = 0
  BY <1>3 DEF Timing, Measured
<1>7. MovedRight(p, e)
  <2>1. ~e.sync => e.due = StampOf(e.msg) + e.lat
    BY <1>2, <1>3, <1>4, <1>6
  <2>2. QED
    BY <1>4, <1>5, <1>6, <2>1 DEF MovedRight
<1>8. Stamped'
  <2>1. \A x : StampOf(x)' = StampOf(x)
    BY <1>1 DEF StampOf, Sender
  <2>2. QED
    BY <1>1, <2>1 DEF Timing, Stamped
<1> HIDE DEF stamp, sync
<1>9. QED
  BY <1>1, <1>3, <1>7, <1>8, TimingPush

\* Every step keeps the times.
LEMMA TimingStep == TypeOK /\ Bookkeeping /\ Timing /\ [Next]_vars => Timing'
<1> SUFFICES ASSUME TypeOK, Bookkeeping, Timing, [Next]_vars PROVE Timing'
  OBVIOUS
<1>1. ASSUME UNCHANGED <<queue, played>> PROVE \A p \in Peer : Scheduled(p)' = Scheduled(p)
  BY <1>1 DEF Scheduled
<1>2. ASSUME NEW i \in Input, MidiStep(i) PROVE Timing'
  BY <1>2, TimingMidi
<1>3. ASSUME NEW p \in Peer, NEW d \in net, AcceptMidi(p, d) PROVE Timing'
  BY <1>3, TimingAccept
<1>4. ASSUME NEW d \in net, NEW p \in Peer, DropMidi(p, d) \/ Lose(d) PROVE Timing'
  BY <1>1, <1>4, TimingFrame
  DEF DropMidi, Lose, inputVars, syncVars, queueVars, timerVars
<1>5. ASSUME NEW p \in Peer, Resync(p) PROVE Timing'
  <2>1. /\ UNCHANGED <<ipc, packet, due, granted, struckAt, net, queue, played>>
        /\ acks' = [acks EXCEPT ![p] = @ + 1]
    BY <1>5 DEF Resync, inputVars, recvVars, queueVars, timerVars
  <2>2. PICK d \in DeltaEst[p] : delta' = [delta EXCEPT ![p] = d]
    BY <1>5 DEF Resync
  <2>3. Measured'
    <3>1. acks \in [Peer -> 0 .. MaxAcks] /\ delta \in [Peer -> Int]
      BY DEF TypeOK
    <3>2. acks'[p] > 0
      BY <2>1, <3>1, ConstantTypes
    <3>3. delta'[p] \in DeltaEst[p]
      BY <2>2, <3>1
    <3>4. \A q \in Peer \ {p} : acks'[q] = acks[q] /\ delta'[q] = delta[q]
      BY <2>1, <2>2, <3>1
    <3>5. QED
      BY <3>2, <3>3, <3>4 DEF Timing, Measured
  <2>4. \A x : StampOf(x)' = StampOf(x)
    BY <2>1 DEF StampOf, Sender
  <2>5. Stamped'
    BY <2>1, <2>4 DEF Timing, Stamped
  <2>6. Moved'
    BY <1>1, <2>1, <2>4 DEF Timing, Moved, MovedRight, Sender
  <2>7. QED
    BY <2>3, <2>5, <2>6 DEF Timing
<1>6. ASSUME NEW p \in Peer, PlayTop(p) PROVE Timing'
  <2>1. \A q \in Peer : Scheduled(q)' = Scheduled(q)
    BY <1>6, PlaySchedules DEF PlayTop
  <2>2. QED
    BY <1>6, <2>1, TimingFrame DEF PlayTop, inputVars, syncVars, recvVars
<1>7. ASSUME NEW p \in Peer, TimerWake(p) \/ TimerLock(p) \/ TimerUnlock(p) \/ LogStep(p)
      PROVE  Timing'
  BY <1>1, <1>7, TimingFrame
  DEF TimerWake, TimerLock, TimerUnlock, LogStep, LogCopy, LogWrite, inputVars, syncVars,
      recvVars, queueVars, timerVars
<1>8. CASE Tick \/ UNCHANGED vars
  BY <1>1, <1>8, TimingFrame
  DEF Tick, vars, inputVars, syncVars, recvVars, queueVars, timerVars
<1>9. QED
  BY <1>2, <1>3, <1>4, <1>5, <1>6, <1>7, <1>8, PeerAssumption
  DEF Next, PacketStep, TimerStep

\* What is due was struck at least the latency ago, but for the clocks.
LEMMA DueAfterStroke ==
    ASSUME TypeOK, Timing, NEW p \in Peer, NEW e \in Scheduled(p), e.due <= Clock(p)
    PROVE  now >= struckAt[e.msg] + e.lat - Ahead(p, e)
<1> DEFINE s == Sender(e.msg)
<1>1. e \in Entry /\ e.msg \in Message /\ s \in Peer
  BY ScheduledTypes, ConstantTypes DEF Message, Sender
<1>2. /\ now \in Int /\ struckAt[e.msg] \in Int /\ e.lat \in Int /\ e.due \in Int
      /\ Offset[p] \in Int /\ Offset[s] \in Int /\ EstErr \in Nat
  <2>1. now \in 0 .. MaxNow /\ struckAt \in [Message -> Int]
    BY DEF TypeOK
  <2>2. QED
    BY <1>1, <2>1, ConstantTypes DEF Entry
<1>3. e.due <= now + Offset[p]
  BY DEF Clock
<1>4. StampOf(e.msg) = struckAt[e.msg] + Offset[s]
  BY DEF StampOf
<1>5. MovedRight(p, e)
  BY DEF Timing, Moved
<1> HIDE DEF s
<1>6. CASE s = p
  BY <1>2, <1>3, <1>4, <1>5, <1>6 DEF MovedRight, Ahead, s
<1>7. CASE s # p /\ ~e.sync
  BY <1>2, <1>3, <1>4, <1>5, <1>7 DEF MovedRight, Ahead, s
<1>8. CASE s # p /\ e.sync
  <2>1. (StampOf(e.msg) + e.lat) - e.due \in DeltaEst[p]
    BY <1>5, <1>8 DEF MovedRight, s
  <2>2. ((StampOf(e.msg) + e.lat) - e.due) - (Offset[s] - Offset[p]) \in -EstErr .. EstErr
    BY <1>1, <1>8, <2>1, ConfigAssumption DEF ConfigAssumption
  <2>3. Ahead(p, e) = EstErr
    BY <1>8 DEF Ahead, s
  <2>4. QED
    BY <1>2, <1>3, <1>4, <2>2, <2>3
<1>9. QED
  BY <1>6, <1>7, <1>8

\* Neither piano plays a stroke sooner than the latency its peer granted it, but for
\* the clocks: for any offsets, any estimates of them and of the latency, and any
\* change of either while messages are under way or an event is in the callback.
THEOREM NeverBeforeStroke == Spec => HeardAfterStroke
<1>1. TypeOK /\ TimePassed /\ Timing /\ [Next]_vars =>
          \A p \in Peer : \A e \in queue[p] \ queue'[p] :
              now >= struckAt[e.msg] + e.lat - Ahead(p, e)
  <2> SUFFICES ASSUME TypeOK, TimePassed, Timing, [Next]_vars,
                      NEW p \in Peer, NEW e \in queue[p], e \notin queue'[p]
               PROVE  now >= struckAt[e.msg] + e.lat - Ahead(p, e)
    OBVIOUS
  <2>1. e.due <= Clock(p)
    BY TakenOnTime
  <2>2. e \in Scheduled(p)
    BY DEF Scheduled
  <2>3. QED
    BY <2>1, <2>2, DueAfterStroke
<1>2. QED
  BY <1>1, TypeCorrect, BookkeepingHolds, TimePassedInit, TimePassedStep, TimingInit,
     TimingStep, PTL DEF Spec, HeardAfterStroke

-----------------------------------------------------------------------------
(* DuplicatesOnly, where it holds: with one device at each peer the counter *)
(* tells the strokes apart.                                                 *)

\* One callback thread per process, and no more strokes than serials.
OneEach ==
    /\ \A i, j \in Input : PeerOf[i] = PeerOf[j] => i = j
    /\ MaxStrikes <= SerialMod

\* the serial n strokes after b
After(b, n) == IF b + n < SerialMod THEN b + n ELSE b + n - SerialMod

\* the strokes of device i its peer has counted
Counted(i) == IF ipc[i] \in {"idle", "bumped"} THEN strikes[i] ELSE strikes[i] - 1

\* From the serial a peer happened to begin with every stroke has the next one.
SerialOf(base, m) == After(base[Sender(m)], m[2] - 1)

\* So the counter, and the callback's copies of it,
AtDevices(base) ==
    \A i \in Input :
        /\ serial[PeerOf[i]] = After(base[PeerOf[i]], Counted(i))
        /\ ipc[i] \in {"numbered", "sent"} =>
               packet[i].ident.serial = After(base[PeerOf[i]], strikes[i] - 1)
        /\ ipc[i] = "sent" => loaded[i] = serial[PeerOf[i]]

\* the datagrams,
InNet(base) == \A d \in net : d.ident.serial = SerialOf(base, d.msg)

\* and received_packets, each of whose identifiers stands for a stroke of the
\* other peer that was scheduled.
InMemory(base) ==
    \A p \in Peer : \A x \in received[p] : \E e \in Scheduled(p) :
        Sender(e.msg) # p /\ x.serial = SerialOf(base, e.msg)

Numbering(base) == AtDevices(base) /\ InNet(base) /\ InMemory(base)

Numbered == \E base \in [Peer -> 0 .. SerialMod - 1] : Numbering(base)

\* One more, by the arithmetic of an unsigned int.
LEMMA OneMore ==
    ASSUME NEW b \in 0 .. SerialMod - 1, NEW n \in Nat, n < SerialMod
    PROVE  (After(b, n) + 1) % SerialMod = After(b, n + 1)
<1>1. SerialMod \in Nat \ {0}
  BY ConstantTypes
<1>2. After(b, n) \in 0 .. SerialMod - 1
  BY <1>1 DEF After
<1>3. \A x \in 0 .. SerialMod - 1 :
          (x + 1) % SerialMod = IF x + 1 = SerialMod THEN 0 ELSE x + 1
  BY <1>1
<1>4. QED
  BY <1>1, <1>2, <1>3 DEF After

\* Fewer strokes than serials have different ones.
LEMMA OwnSerial ==
    ASSUME NEW b \in 0 .. SerialMod - 1, NEW m \in Nat, NEW n \in Nat,
           m < SerialMod, n < SerialMod, After(b, m) = After(b, n)
    PROVE  m = n
BY ConstantTypes DEF After

\* Each counter starts at the value it happened to have.
LEMMA NumberedInit == Init => Numbered
<1> SUFFICES ASSUME Init PROVE Numbered
  OBVIOUS
<1>1. serial \in [Peer -> 0 .. SerialMod - 1]
  BY ConstantTypes DEF Init
<1>2. AtDevices(serial)
  <2>1. ASSUME NEW i \in Input PROVE serial[PeerOf[i]] = After(serial[PeerOf[i]], Counted(i))
    <3>1. Counted(i) = 0
      BY DEF Init, Counted
    <3>2. serial[PeerOf[i]] \in 0 .. SerialMod - 1
      BY <1>1, ConstantTypes
    <3>3. QED
      BY <3>1, <3>2, ConstantTypes DEF After
  <2>2. \A i \in Input : ipc[i] = "idle"
    BY DEF Init
  <2>3. QED
    BY <2>1, <2>2 DEF AtDevices
<1>3. InNet(serial) /\ InMemory(serial)
  BY DEF Init, InNet, InMemory
<1>4. QED
  BY <1>1, <1>2, <1>3 DEF Numbered, Numbering

\* A callback under way works on a stroke that was counted.
LEMMA AtWork ==
    ASSUME TypeOK, Bookkeeping, NEW i \in Input, ipc[i] # "idle"
    PROVE  /\ packet[i] \in Packet /\ packet[i].msg = <<i, strikes[i]>>
           /\ strikes[i] \in Nat /\ strikes[i] - 1 \in Nat /\ strikes[i] <= MaxStrikes
<1>1. packet[i] \in Packet /\ strikes[i] \in 0 .. MaxStrikes
  BY DEF TypeOK
<1>2. packet[i].msg = <<i, strikes[i]>>
  BY DEF Bookkeeping, LastEvent
<1>3. packet[i].msg \in Message
  BY <1>1 DEF Packet
<1>4. strikes[i] \in 1 .. MaxStrikes
  BY <1>2, <1>3 DEF Message
<1>5. QED
  BY <1>1, <1>2, <1>4, ConstantTypes

\* What is scheduled stays scheduled, so what is remembered stays accounted for.
LEMMA MemoryFrame ==
    ASSUME NEW base, InMemory(base), received' = received,
           \A p \in Peer : Scheduled(p) \subseteq Scheduled(p)'
    PROVE  InMemory(base)'
<1> SUFFICES ASSUME NEW p \in Peer, NEW x \in received'[p]
             PROVE  \E e \in Scheduled(p)' : Sender(e.msg) # p /\ x.serial = SerialOf(base, e.msg)
  BY DEF InMemory, SerialOf, Sender
<1>1. PICK e \in Scheduled(p) : Sender(e.msg) # p /\ x.serial = SerialOf(base, e.msg)
  BY DEF InMemory
<1>2. QED
  BY <1>1

\* A step that leaves the callbacks alone and sends nothing.
LEMMA NumberingFrame ==
    ASSUME NEW base, Numbering(base), UNCHANGED <<serial, ipc, packet, loaded, strikes>>,
           net' \subseteq net, received' = received,
           \A p \in Peer : Scheduled(p) \subseteq Scheduled(p)'
    PROVE  Numbering(base)'
<1>1. AtDevices(base)'
  BY DEF Numbering, AtDevices, Counted
<1>2. InNet(base)'
  BY DEF Numbering, InNet, SerialOf, Sender
<1>3. QED
  BY <1>1, <1>2, MemoryFrame DEF Numbering

\* The callback of a device: nobody else touches the counter meanwhile.
LEMMA NumberingMidi ==
    ASSUME OneEach, TypeOK, Bookkeeping, NEW base \in [Peer -> 0 .. SerialMod - 1],
           Numbering(base), NEW i \in Input, MidiStep(i)
    PROVE  Numbering(base)'
<1> DEFINE AtDevice(j) ==
        /\ serial[PeerOf[j]] = After(base[PeerOf[j]], Counted(j))
        /\ ipc[j] \in {"numbered", "sent"} =>
               packet[j].ident.serial = After(base[PeerOf[j]], strikes[j] - 1)
        /\ ipc[j] = "sent" => loaded[j] = serial[PeerOf[j]]
<1>1. PeerOf[i] \in Peer /\ \A j \in Input \ {i} : PeerOf[j] \in Peer \ {PeerOf[i]}
  BY ConstantTypes DEF OneEach
<1>2. AtDevice(i)
  BY DEF Numbering, AtDevices
<1>3. ASSUME \A j \in Input \ {i} :
                 /\ serial'[PeerOf[j]] = serial[PeerOf[j]]
                 /\ ipc'[j] = ipc[j] /\ packet'[j] = packet[j]
                 /\ loaded'[j] = loaded[j] /\ strikes'[j] = strikes[j],
             AtDevice(i)'
      PROVE  AtDevices(base)'
  <2>1. \A j \in Input \ {i} : AtDevice(j)
    BY DEF Numbering, AtDevices
  <2>2. \A j \in Input \ {i} : AtDevice(j)'
    BY <1>3, <2>1 DEF Counted
  <2>3. QED
    BY <1>3, <2>2 DEF AtDevices
<1>4. ASSUME UNCHANGED <<received, queue, played>> PROVE InMemory(base)'
  <2>1. \A p \in Peer : Scheduled(p)' = Scheduled(p)
    BY <1>4 DEF Scheduled
  <2>2. QED
    BY <1>4, <2>1, MemoryFrame DEF Numbering
<1>5. ASSUME net' = net PROVE InNet(base)'
  BY <1>5 DEF Numbering, InNet, SerialOf, Sender
<1>6. strikes[i] \in 0 .. MaxStrikes /\ serial[PeerOf[i]] \in 0 .. SerialMod - 1
  BY <1>1 DEF TypeOK
<1> HIDE DEF AtDevice
<1>7. CASE MidiStamp(i)
  <2>1. /\ ipc[i] = "idle" /\ ipc' = [ipc EXCEPT ![i] = "stamped"]
        /\ strikes' = [strikes EXCEPT ![i] = @ + 1]
        /\ UNCHANGED <<serial, loaded, net, received, queue, played>>
        /\ \A j \in Input \ {i} : packet'[j] = packet[j]
    BY <1>7 DEF MidiStamp, recvVars, queueVars, timerVars, TypeOK
  <2>2. ipc'[i] = "stamped" /\ strikes'[i] = strikes[i] + 1
    BY <2>1 DEF TypeOK
  <2>3. Counted(i)' = Counted(i)
    BY <1>6, <2>1, <2>2, ConstantTypes DEF Counted
  <2>4. AtDevice(i)'
    BY <1>2, <2>1, <2>2, <2>3 DEF AtDevice
  <2>5. AtDevices(base)'
    BY <1>3, <2>1, <2>4 DEF TypeOK
  <2>6. QED
    BY <1>4, <1>5, <2>1, <2>5 DEF Numbering
<1>8. CASE MidiSerial(i)
  <2>1. /\ ipc[i] = "stamped" /\ ipc' = [ipc EXCEPT ![i] = "numbered"]
        /\ packet' = [packet EXCEPT ![i].ident.serial = serial[PeerOf[i]]]
        /\ UNCHANGED <<serial, loaded, strikes, net, received, queue, played>>
    BY <1>8 DEF MidiSerial, recvVars, queueVars, timerVars
  <2>2. ipc'[i] = "numbered"
    BY <2>1 DEF TypeOK
  <2>3. packet'[i].ident.serial = serial[PeerOf[i]]
    <3>1. packet[i] \in Packet
      BY <2>1 DEF TypeOK
    <3>2. QED
      BY <2>1, <3>1 DEF TypeOK, Packet, Identifier
  <2>4. Counted(i)' = strikes[i] - 1 /\ Counted(i) = strikes[i] - 1
    BY <2>1, <2>2 DEF Counted
  <2>5. AtDevice(i)'
    BY <1>2, <2>1, <2>2, <2>3, <2>4 DEF AtDevice
  <2>6. AtDevices(base)'
    BY <1>3, <2>1, <2>5 DEF TypeOK
  <2>7. QED
    BY <1>4, <1>5, <2>1, <2>6 DEF Numbering
<1>9. CASE MidiSend(i)
  <2>1. /\ ipc[i] = "numbered" /\ ipc' = [ipc EXCEPT ![i] = "sent"]
        /\ net' \subseteq net \cup {packet[i]}
        /\ loaded' = [loaded EXCEPT ![i] = serial[PeerOf[i]]]
        /\ UNCHANGED <<serial, packet, strikes, received, queue, played>>
    BY <1>9 DEF MidiSend, queueVars, timerVars
  <2>2. ipc'[i] = "sent" /\ loaded'[i] = serial[PeerOf[i]]
    BY <2>1 DEF TypeOK
  <2>3. Counted(i)' = Counted(i)
    BY <2>1, <2>2 DEF Counted
  <2>4. AtDevice(i)'
    BY <1>2, <2>1, <2>2, <2>3 DEF AtDevice
  <2>5. AtDevices(base)'
    BY <1>3, <2>1, <2>4 DEF TypeOK
  <2>6. packet[i].ident.serial = SerialOf(base, packet[i].msg)
    BY <1>2, <2>1, AtWork DEF AtDevice, SerialOf, Sender
  <2>7. InNet(base)'
    BY <2>1, <2>6 DEF Numbering, InNet, SerialOf, Sender
  <2>8. QED
    BY <1>4, <2>1, <2>5, <2>7 DEF Numbering
<1>10. CASE MidiBump(i)
  <2>1. /\ ipc[i] = "sent" /\ ipc' = [ipc EXCEPT ![i] = "bumped"]
        /\ serial' = [serial EXCEPT ![PeerOf[i]] = (loaded[i] + 1) % SerialMod]
        /\ UNCHANGED <<packet, loaded, strikes, net, received, queue, played>>
    BY <1>10 DEF MidiBump, recvVars, queueVars, timerVars
  <2>2. ipc'[i] = "bumped" /\ serial'[PeerOf[i]] = (loaded[i] + 1) % SerialMod
    BY <1>1, <2>1 DEF TypeOK
  <2>3. strikes[i] - 1 \in Nat /\ strikes[i] - 1 < SerialMod /\ strikes[i] - 1 + 1 = strikes[i]
    BY <2>1, AtWork, ConstantTypes DEF OneEach
  <2>4. loaded[i] = After(base[PeerOf[i]], strikes[i] - 1)
    BY <1>2, <2>1 DEF AtDevice, Counted
  <2>5. base[PeerOf[i]] \in 0 .. SerialMod - 1
    BY <1>1
  <2>6. serial'[PeerOf[i]] = After(base[PeerOf[i]], strikes[i])
    <3>1. (After(base[PeerOf[i]], strikes[i] - 1) + 1) % SerialMod
              = After(base[PeerOf[i]], strikes[i] - 1 + 1)
      BY ONLY <2>3, <2>5, OneMore
    <3>2. QED
      BY <2>2, <2>3, <2>4, <3>1
  <2>7. Counted(i)' = strikes[i]
    BY <2>1, <2>2 DEF Counted
  <2>8. AtDevice(i)'
    BY <2>2, <2>6, <2>7 DEF AtDevice
  <2>9. \A j \in Input \ {i} : serial'[PeerOf[j]] = serial[PeerOf[j]] /\ ipc'[j] = ipc[j]
    BY <1>1, <2>1 DEF TypeOK
  <2>10. AtDevices(base)'
    BY <1>3, <2>1, <2>8, <2>9
  <2>11. QED
    BY <1>4, <1>5, <2>1, <2>10 DEF Numbering
<1>11. CASE MidiPush(i)
  <2> DEFINE p == PeerOf[i]
             m == packet[i].msg
  <2>1. /\ ipc[i] = "bumped" /\ ipc' = [ipc EXCEPT ![i] = "idle"]
        /\ packet' = [packet EXCEPT ![i] = NoPacket]
        /\ loaded' = [loaded EXCEPT ![i] = 0]
        /\ UNCHANGED <<serial, strikes, net, received, played>>
    BY <1>11 DEF MidiPush, recvVars, timerVars
  <2>2. ipc'[i] = "idle"
    BY <2>1 DEF TypeOK
  <2>3. Counted(i)' = Counted(i)
    BY <2>1, <2>2 DEF Counted
  <2>4. AtDevice(i)'
    BY <1>2, <2>1, <2>2, <2>3 DEF AtDevice
  <2>5. AtDevices(base)'
    BY <1>3, <2>1, <2>4 DEF TypeOK
  <2>6. \A q \in Peer : Scheduled(q) \subseteq Scheduled(q)'
    <3>1. PICK sync \in BOOLEAN : Push(p, m, due[i], granted[i], sync)
      BY <1>11 DEF MidiPush
    <3> HIDE DEF p, m
    <3>2. p \in Peer
      BY <1>1 DEF p
    <3>3. PICK e : /\ e.msg = m
                   /\ Scheduled(p)' = Scheduled(p) \cup {e}
                   /\ \A q \in Peer \ {p} : Scheduled(q)' = Scheduled(q)
      BY <2>1, <3>1, <3>2, PushSchedules
    <3>4. QED
      BY <3>3
  <2>7. InMemory(base)'
    BY <2>1, <2>6, MemoryFrame DEF Numbering
  <2>8. QED
    BY <1>5, <2>1, <2>5, <2>7 DEF Numbering
<1>12. QED
  BY <1>7, <1>8, <1>9, <1>10, <1>11 DEF MidiStep

\* A datagram taken is remembered, and its message is scheduled.
LEMMA NumberingAccept ==
    ASSUME TypeOK, NEW base, Numbering(base), NEW p \in Peer, NEW d \in net,
           AcceptMidi(p, d)
    PROVE  Numbering(base)'
<1> DEFINE stamp == d.ident.timestamp
           sync == acks[p] > 0
<1>1. /\ Sender(d.msg) # p /\ net' \subseteq net /\ played' = played
      /\ received' = [received EXCEPT ![p] = @ \cup {d.ident}]
      /\ UNCHANGED <<serial, ipc, packet, loaded, strikes>>
  BY DEF AcceptMidi, Take, inputVars, timerVars
<1>2. PICK e : /\ e.msg = d.msg
               /\ Scheduled(p)' = Scheduled(p) \cup {e}
               /\ \A q \in Peer \ {p} : Scheduled(q)' = Scheduled(q)
  <2>1. Push(p, d.msg, stamp - delta[p] + latency[p], latency[p], sync)
    BY DEF AcceptMidi
  <2> HIDE DEF stamp, sync
  <2>2. QED
    BY <1>1, <2>1, PushSchedules
<1>3. AtDevices(base)'
  BY <1>1 DEF Numbering, AtDevices, Counted
<1>4. InNet(base)'
  BY <1>1 DEF Numbering, InNet, SerialOf, Sender
<1>5. InMemory(base)'
  <2> SUFFICES ASSUME NEW q \in Peer, NEW x \in received'[q]
               PROVE  \E f \in Scheduled(q)' :
                          Sender(f.msg) # q /\ x.serial = SerialOf(base, f.msg)
    BY DEF InMemory, SerialOf, Sender
  <2>1. CASE x \in received[q]
    <3>1. PICK f \in Scheduled(q) : Sender(f.msg) # q /\ x.serial = SerialOf(base, f.msg)
      BY <2>1 DEF Numbering, InMemory
    <3>2. QED
      BY <1>2, <3>1
  <2>2. CASE x \notin received[q]
    <3>1. q = p /\ x = d.ident
      BY <1>1, <2>2 DEF TypeOK
    <3>2. x.serial = SerialOf(base, e.msg)
      BY <1>2, <3>1 DEF Numbering, InNet
    <3>3. QED
      BY <1>1, <1>2, <3>1, <3>2
  <2>3. QED
    BY <2>1, <2>2
<1>6. QED
  BY <1>3, <1>4, <1>5 DEF Numbering

\* Every step keeps the numbering.
LEMMA NumberedStep ==
    OneEach /\ TypeOK /\ Bookkeeping /\ Numbered /\ [Next]_vars => Numbered'
<1> SUFFICES ASSUME OneEach, TypeOK, Bookkeeping, [Next]_vars,
                    NEW base \in [Peer -> 0 .. SerialMod - 1], Numbering(base)
             PROVE  Numbering(base)'
  BY DEF Numbered
<1>1. ASSUME NEW i \in Input, MidiStep(i) PROVE Numbering(base)'
  BY <1>1, NumberingMidi
<1>2. ASSUME NEW p \in Peer, NEW d \in net, AcceptMidi(p, d) PROVE Numbering(base)'
  BY <1>2, NumberingAccept
<1>3. ASSUME UNCHANGED <<queue, played>>
      PROVE  \A p \in Peer : Scheduled(p) \subseteq Scheduled(p)'
  BY <1>3 DEF Scheduled
<1>4. ASSUME NEW p \in Peer, NEW d \in net, DropMidi(p, d) \/ Lose(d)
      PROVE  Numbering(base)'
  BY <1>3, <1>4, NumberingFrame DEF DropMidi, Lose, inputVars, queueVars, timerVars
<1>5. ASSUME NEW p \in Peer, PlayTop(p) PROVE Numbering(base)'
  <2>1. \A q \in Peer : Scheduled(q)' = Scheduled(q)
    BY <1>5, PlaySchedules DEF PlayTop
  <2>2. QED
    BY <1>5, <2>1, NumberingFrame DEF PlayTop, inputVars, recvVars
<1>6. ASSUME NEW p \in Peer,
             Resync(p) \/ TimerWake(p) \/ TimerLock(p) \/ TimerUnlock(p) \/ LogStep(p)
      PROVE  Numbering(base)'
  BY <1>3, <1>6, NumberingFrame
  DEF Resync, TimerWake, TimerLock, TimerUnlock, LogStep, LogCopy, LogWrite, inputVars,
      recvVars, queueVars, timerVars
<1>7. CASE Tick \/ UNCHANGED vars
  BY <1>3, <1>7, NumberingFrame DEF Tick, vars, inputVars, recvVars, queueVars, timerVars
<1>8. QED
  BY <1>1, <1>2, <1>4, <1>5, <1>6, <1>7, PeerAssumption DEF Next, PacketStep, TimerStep

\* With one device at each peer and fewer strokes than the counter has values,
\* received_packets drops only what was scheduled before, for any first value of
\* the uninitialised counter: the serial alone tells the strokes apart, so it
\* does not matter that the clock may not.
THEOREM NothingNewDropped == OneEach /\ Spec => []DuplicatesOnly
<1>1. OneEach /\ TypeOK /\ Bookkeeping /\ Numbered => DuplicatesOnly
  <2> SUFFICES ASSUME OneEach, TypeOK, Bookkeeping,
                      NEW base \in [Peer -> 0 .. SerialMod - 1], Numbering(base),
                      NEW p \in Peer, NEW d \in net,
                      Sender(d.msg) # p, d.ident \in received[p]
               PROVE  \E e \in Scheduled(p) : e.msg = d.msg
    BY DEF DuplicatesOnly, Numbered
  <2>1. PICK e \in Scheduled(p) :
            Sender(e.msg) # p /\ d.ident.serial = SerialOf(base, e.msg)
    BY DEF Numbering, InMemory
  <2>2. d.msg \in Message /\ e.msg \in Message
    BY ScheduledTypes DEF TypeOK, Packet
  <2>3. /\ d.msg[1] \in Input /\ d.msg[2] \in 1 .. MaxStrikes
        /\ e.msg[1] \in Input /\ e.msg[2] \in 1 .. MaxStrikes
        /\ d.msg = <<d.msg[1], d.msg[2]>> /\ e.msg = <<e.msg[1], e.msg[2]>>
    BY <2>2 DEF Message
  <2>4. Sender(d.msg) = Sender(e.msg) /\ Sender(d.msg) \in Peer
    BY <2>1, <2>3, ConstantTypes, PeerAssumption DEF Sender, PeerAssumption
  <2>5. d.msg[1] = e.msg[1]
    BY <2>3, <2>4 DEF Sender, OneEach
  <2>6. After(base[Sender(d.msg)], d.msg[2] - 1) = After(base[Sender(d.msg)], e.msg[2] - 1)
    BY <2>1, <2>4 DEF Numbering, InNet, SerialOf
  <2>7. d.msg[2] - 1 = e.msg[2] - 1
    <3>1. /\ d.msg[2] - 1 \in Nat /\ d.msg[2] - 1 < SerialMod
          /\ e.msg[2] - 1 \in Nat /\ e.msg[2] - 1 < SerialMod
      BY <2>3, ConstantTypes DEF OneEach
    <3>2. base[Sender(d.msg)] \in 0 .. SerialMod - 1
      BY <2>4
    <3>3. QED
      BY ONLY <2>6, <3>1, <3>2, OwnSerial
  <2>8. d.msg = e.msg
    BY <2>3, <2>5, <2>7
  <2>9. QED
    BY <2>8
<1>2. OneEach => OneEach'
  BY DEF OneEach
<1>3. QED
  BY <1>1, <1>2, TypeCorrect, BookkeepingHolds, NumberedInit, NumberedStep, PTL DEF Spec
=============================================================================
