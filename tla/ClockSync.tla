----------------------------- MODULE ClockSync ------------------------------
(***************************************************************************)
(* How one peer measures the clock of the other: the ClockSync packet that *)
(* main() sends, the ClockSyncAck the other peer answers with, and the     *)
(* handler of the ack in onPacket with its two RunningStatistics.          *)
(*                                                                         *)
(* Both clocks run at the rate of true time but are precise_time(), that   *)
(* is local_time(): either may be set while the program runs.  The channel *)
(* delays, loses, repeats and reorders: a packet once sent stays in asked  *)
(* or answered and may arrive at any later time, more than once or never.  *)
(*                                                                         *)
(* Samples are kept doubled, so that halves stay integers, and averages as *)
(* fractions [num, den].                                                   *)
(***************************************************************************)
EXTENDS Integers, Sequences

CONSTANTS
    WindowSize,     \* RunningStatistics.window_size
    AutoLatency,    \* config.auto_latency
    FixedLatency,   \* the "latency" line of the configuration
    Offset,         \* how far the other clock may be ahead at the start
    Jump,           \* by how much a clock may be set
    MaxNow,         \* bound: the last instant modelled
    MaxRequests,    \* bound: ClockSync packets sent
    MaxAcks,        \* bound: acks handled
    MaxJumps        \* bound: how often a clock is set

ASSUME ClockSyncAssumption ==
    /\ WindowSize \in Nat \ {0}
    /\ AutoLatency \in BOOLEAN
    /\ FixedLatency \in Int
    /\ Offset \subseteq Int
    /\ Jump \subseteq Int
    /\ MaxNow \in Nat
    /\ MaxRequests \in Nat
    /\ MaxAcks \in Nat
    /\ MaxJumps \in Nat

VARIABLES
    now,            \* true time
    mine,           \* what this peer's clock shows beyond it
    theirs,         \* what the other peer's clock shows beyond it
    jumps,          \* how often a clock has been set
    requests,       \* number of ClockSync packets sent
    asked,          \* ClockSync packets sent
    answered,       \* ClockSyncAck packets sent
    delta_rs,       \* window and sum of the offsets measured
    latency_rs,     \* window and sum of the latencies measured
    delta,          \* my_time + delta = other_time
    latency,        \* the latency measured
    config_latency, \* config.latency
    samples         \* history: the way there, the way back and the value of
                    \* jumps at both ends of each exchange completed

channel  == <<requests, asked, answered>>
clocks   == <<mine, theirs, jumps>>
estimate == <<delta_rs, latency_rs, delta, latency, config_latency, samples>>
syncVars == <<now, clocks, channel, estimate>>

-----------------------------------------------------------------------------
\* Packet_ClockSync on its way there and back.  at, turned and era are ghosts:
\* the true times it was sent and answered at, and jumps when it was sent.
Request == [sent : Int, at : 0 .. MaxNow, era : 0 .. MaxJumps]
Ack == [sent : Int, ack : Int, at : 0 .. MaxNow, turned : 0 .. MaxNow, era : 0 .. MaxJumps]

Fraction == [num : Int, den : Int]
Statistics == {rs \in [window : Seq(Int), sum : Int] : Len(rs.window) <= WindowSize}
Sample == [out : Int, back : Int, era : 0 .. MaxJumps, seen : 0 .. MaxJumps]

\* RunningStatistics(): an empty window
NoStatistics == [window |-> <<>>, sum |-> 0]

\* Seeded fault: the window holds one value more.
FeedLong(rs, v) ==
    LET w == Append(rs.window, v)
        s == rs.sum + v
    IN IF Len(w) > WindowSize + 1 THEN [window |-> Tail(w), sum |-> s - Head(w)]
                                  ELSE [window |-> w, sum |-> s]

\* Seeded fault: the value that leaves the window stays in the sum.
FeedKept(rs, v) ==
    LET w == Append(rs.window, v)
    IN [window |-> IF Len(w) > WindowSize THEN Tail(w) ELSE w, sum |-> rs.sum + v]

\* RunningStatistics::feed
Feed(rs, v) ==
    LET w == Append(rs.window, v)
        s == rs.sum + v
    IN IF Len(w) > WindowSize THEN [window |-> Tail(w), sum |-> s - Head(w)]
                              ELSE [window |-> w, sum |-> s]

\* RunningStatistics::average, of doubled values
Average(rs) == [num |-> rs.sum, den |-> 2 * Len(rs.window)]

MyTime == now + mine
TheirTime == now + theirs

-----------------------------------------------------------------------------
SyncInit ==
    /\ now = 0
    /\ mine = 0
    /\ theirs \in Offset
    /\ jumps = 0
    /\ requests = 0
    /\ asked = {}
    /\ answered = {}
    /\ delta_rs = NoStatistics
    /\ latency_rs = NoStatistics
    /\ delta = [num |-> 0, den |-> 1]
    /\ latency = [num |-> 0, den |-> 1]
    /\ config_latency = [num |-> IF AutoLatency THEN 0 ELSE FixedLatency, den |-> 1]
    /\ samples = <<>>

Tick ==
    /\ now < MaxNow
    /\ now' = now + 1
    /\ UNCHANGED <<clocks, channel, estimate>>

\* A clock is set: ntpd, the user, the start or the end of summer time.
SetClock ==
    /\ jumps < MaxJumps
    /\ jumps' = jumps + 1
    /\ \E j \in Jump : \/ mine' = mine + j /\ UNCHANGED theirs
                       \/ theirs' = theirs + j /\ UNCHANGED mine
    /\ UNCHANGED <<now, channel, estimate>>

\* main(), every 0.2 s
SendClockSync ==
    /\ requests < MaxRequests
    /\ requests' = requests + 1
    /\ asked' = asked \cup {[sent |-> MyTime, at |-> now, era |-> jumps]}
    /\ UNCHANGED <<now, clocks, answered, estimate>>

\* Seeded fault: the answer echoes the time of the request.
AnswerClockSyncEcho(r) ==
    /\ r \in asked
    /\ answered' = answered \cup
           {[sent |-> r.sent, ack |-> r.sent, at |-> r.at, turned |-> now, era |-> r.era]}
    /\ UNCHANGED <<now, clocks, requests, asked, estimate>>

\* onPacket of the other peer, PACKET_ClockSync
AnswerClockSync(r) ==
    /\ r \in asked
    /\ answered' = answered \cup
           {[sent |-> r.sent, ack |-> TheirTime, at |-> r.at, turned |-> now, era |-> r.era]}
    /\ UNCHANGED <<now, clocks, requests, asked, estimate>>

\* Seeded fault: the time of the answer is taken for the middle of the exchange
\* without halving the way there and back.
HandleAckUnhalved(a) ==
    LET final == MyTime
    IN /\ a \in answered
       /\ Len(samples) < MaxAcks
       /\ delta_rs' = Feed(delta_rs, 2 * (a.ack - final))
       /\ latency_rs' = Feed(latency_rs, final - a.sent)
       /\ delta' = Average(delta_rs')
       /\ latency' = Average(latency_rs')
       /\ config_latency' = IF AutoLatency
                            THEN [num |-> 11 * latency'.num, den |-> 10 * latency'.den]
                            ELSE config_latency
       /\ samples' = Append(samples, [out |-> a.turned - a.at, back |-> now - a.turned,
                                      era |-> a.era, seen |-> jumps])
       /\ UNCHANGED <<now, clocks, channel>>

\* onPacket, PACKET_ClockSyncAck
HandleAck(a) ==
    LET final == MyTime
    IN /\ a \in answered
       /\ Len(samples) < MaxAcks
       /\ delta_rs' = Feed(delta_rs, 2 * a.ack - (a.sent + final))
       /\ latency_rs' = Feed(latency_rs, final - a.sent)
       /\ delta' = Average(delta_rs')
       /\ latency' = Average(latency_rs')
       /\ config_latency' = IF AutoLatency
                            THEN [num |-> 11 * latency'.num, den |-> 10 * latency'.den]
                            ELSE config_latency
       /\ samples' = Append(samples, [out |-> a.turned - a.at, back |-> now - a.turned,
                                      era |-> a.era, seen |-> jumps])
       /\ UNCHANGED <<now, clocks, channel>>

SyncNext ==
    \/ Tick
    \/ SetClock
    \/ SendClockSync
    \/ \E r \in asked : AnswerClockSync(r)
    \/ \E a \in answered : HandleAck(a)

SyncSpec == SyncInit /\ [][SyncNext]_syncVars

-----------------------------------------------------------------------------
(* Type invariant. *)
SyncTypeOK ==
    /\ now \in 0 .. MaxNow
    /\ mine \in Int /\ theirs \in Int
    /\ jumps \in 0 .. MaxJumps
    /\ requests \in 0 .. MaxRequests
    /\ asked \subseteq Request
    /\ answered \subseteq Ack
    /\ delta_rs \in Statistics /\ latency_rs \in Statistics
    /\ delta \in Fraction /\ latency \in Fraction /\ config_latency \in Fraction
    /\ samples \in Seq(Sample)

\* The samples an average should be made of: the last WindowSize.
Recent == {j \in DOMAIN samples : j > Len(samples) - WindowSize}

\* No clock has been set since the requests of the last WindowSize exchanges
\* were sent; exchanges before them do not matter.
Steady ==
    /\ samples # <<>>
    /\ \A j \in Recent : samples[j].era = jumps

\* The offset is known to within the latency measured, however unlike the way
\* there and the way back are, and whatever was lost, repeated or reordered: no
\* symmetry is needed.  WindowSize exchanges after a clock was set the error it
\* caused is gone.
OffsetWithinLatency ==
    Steady =>
        LET error == delta.num - (theirs - mine) * delta.den
        IN /\ delta.den = latency.den
           /\ error <= latency.num /\ -error <= latency.num

\* README.md, Protocol: "Assumption: latency is symmetric".  Under it, the
\* offset is exact.
SymmetricIsExact ==
    Steady /\ (\A j \in Recent : samples[j].out = samples[j].back)
        => delta.num = (theirs - mine) * delta.den

\* Why the offset is known to within the latency: whenever the answer to a
\* request sent since a clock was last set comes in, be it late, out of order or
\* once more, the sample it gives is off by no more than the latency it gives.
SampleWithinLatency ==
    \A a \in answered : a.era = jumps =>
        LET error == (2 * a.ack - (a.sent + MyTime)) - 2 * (theirs - mine)
        IN error <= MyTime - a.sent /\ -error <= MyTime - a.sent
=============================================================================
