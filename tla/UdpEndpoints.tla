---------------------------- MODULE UdpEndpoints ----------------------------
(***************************************************************************)
(* The three UDP connections of src/networking.cpp between two processes:  *)
(* "udp" knows where to send from its configuration and is bound to a      *)
(* port; "server" is bound and sends to whoever was heard last; "client"   *)
(* knows the server and gets a port of its own with its first datagram.    *)
(*                                                                         *)
(* Modelled are what an exception of the socket does to each thread, a     *)
(* process that ends and is started again, and a network that is           *)
(* unreachable for a while.  A datagram is one whatever it carries, except *)
(* that a clock request makes the receiver's listen thread send.           *)
(***************************************************************************)
EXTENDS Naturals

CONSTANTS
    Node,           \* the two processes
    Kind,           \* the connection_type of each
    UnboundFails,   \* whether receive_from fails on a socket without a port
    ResetFails,     \* whether it fails when nobody has the port a datagram of
                    \* the socket went to (WinSock: connection reset)
    MaxRuns,        \* bound: times a process is started
    MaxOutages      \* bound: times the network is unreachable

ASSUME NodeAssumption ==
    /\ \E m, n \in Node :
           /\ m # n /\ Node = {m, n}
           /\ \/ Kind = [k \in Node |-> "udp"]
              \/ Kind = [k \in Node |-> IF k = m THEN "server" ELSE "client"]
    /\ UnboundFails \in BOOLEAN /\ ResetFails \in BOOLEAN
    /\ MaxRuns \in Nat \ {0}
    /\ MaxOutages \in Nat

VARIABLES
    run,        \* how often a process has been started
    alive,      \* whether it runs
    ear,        \* its listen thread
    port,       \* the port its socket is bound to
    dest,       \* where its datagrams go: endpoint_client and whether it is
                \* available, or the endpoint configured
    net,        \* datagrams in flight
    down,       \* whether send_to fails
    outages     \* how often it has begun to

process == <<run, alive, ear, port, dest>>
network == <<net, down, outages>>
vars == <<process, network>>

-----------------------------------------------------------------------------
\* The port a process has in its k-th run: configured, or chosen by the system.
PortOf(n, k) == IF Kind[n] = "client" THEN <<n, k>> ELSE <<n, 0>>

Port == Node \X (0 .. MaxRuns)
NoPort == <<>>

Other(n) == CHOOSE m \in Node : m # n

Datagram == [from : Port, to : Port, kind : {"request", "other"}]

\* Seeded fault: no constructor calls bind().
FirstPortUnbound(n, k) == NoPort

\* what the constructors leave in the endpoint fields
FirstPort(n, k) == IF Kind[n] = "client" THEN NoPort ELSE PortOf(n, k)

FirstDest(n) == IF Kind[n] = "server" THEN NoPort ELSE <<Other(n), 0>>

Init ==
    /\ run = [n \in Node |-> 1]
    /\ alive = [n \in Node |-> TRUE]
    /\ ear = [n \in Node |-> "listening"]
    /\ port = [n \in Node |-> FirstPort(n, 1)]
    /\ dest = [n \in Node |-> FirstDest(n)]
    /\ net = {}
    /\ down = FALSE
    /\ outages = 0

-----------------------------------------------------------------------------
\* Seeded fault: a server sends before its client is known.
SendUntracked(n, kind) ==
    /\ alive[n]
    /\ ~down
    /\ port' = [port EXCEPT ![n] = PortOf(n, run[n])]
    /\ net' = net \cup {[from |-> PortOf(n, run[n]),
                         to |-> IF dest[n] = NoPort THEN <<Other(n), 0>> ELSE dest[n],
                         kind |-> kind]}
    /\ UNCHANGED <<run, alive, ear, dest, down, outages>>

\* send() from main() or from a MIDI callback.  A socket without a port gets one.
Send(n, kind) ==
    /\ alive[n]
    /\ dest[n] # NoPort
    /\ ~down
    /\ port' = [port EXCEPT ![n] = PortOf(n, run[n])]
    /\ net' = net \cup {[from |-> PortOf(n, run[n]), to |-> dest[n], kind |-> kind]}
    /\ UNCHANGED <<run, alive, ear, dest, down, outages>>

\* send_to throws: main() ends with a message, a callback thread takes the
\* process with it
SendThrows(n) ==
    /\ alive[n]
    /\ dest[n] # NoPort
    /\ down
    /\ alive' = [alive EXCEPT ![n] = FALSE]
    /\ UNCHANGED <<run, ear, port, dest, network>>

\* Seeded fault: the first client stays the client.
HeardFirst(n, from) == IF Kind[n] = "server" /\ dest[n] = NoPort THEN from ELSE dest[n]

\* a server answers to where the last datagram came from
Heard(n, from) == IF Kind[n] = "server" THEN from ELSE dest[n]

\* The listen thread takes a datagram.  It answers a clock request, and an
\* exception on the way ends it.  The channel may deliver another copy later.
Receive(n, d) ==
    LET left == {net, net \ {d}}
        answer == [from |-> port[n], to |-> Heard(n, d.from), kind |-> "other"]
    IN /\ d \in net
       /\ d.to = port[n]
       /\ alive[n] /\ ear[n] = "listening"
       /\ dest' = [dest EXCEPT ![n] = Heard(n, d.from)]
       /\ \/ /\ d.kind = "request" /\ ~down
             /\ net' \in {s \cup {answer} : s \in left}
             /\ UNCHANGED ear
          \/ /\ d.kind = "request" /\ down
             /\ net' \in left
             /\ ear' = [ear EXCEPT ![n] = "ended"]
          \/ /\ d.kind # "request"
             /\ net' \in left
             /\ UNCHANGED ear
       /\ UNCHANGED <<run, alive, port, down, outages>>

\* receive_from throws: the socket has no port yet, or the network is gone
ReceiveThrows(n) ==
    /\ alive[n] /\ ear[n] = "listening"
    /\ (UnboundFails /\ port[n] = NoPort) \/ down
    /\ ear' = [ear EXCEPT ![n] = "ended"]
    /\ UNCHANGED <<run, alive, port, dest, network>>

\* or because a datagram that was sent from it came to a port nobody has:
\* catch(...) takes this for the end too
Refused(n, d) ==
    /\ ResetFails
    /\ d \in net
    /\ d.from = port[n]
    /\ \A m \in Node : alive[m] => port[m] # d.to
    /\ alive[n] /\ ear[n] = "listening"
    /\ ear' = [ear EXCEPT ![n] = "ended"]
    /\ net' \in {net, net \ {d}}
    /\ UNCHANGED <<run, alive, port, dest, down, outages>>

\* the user ends a process
Quit(n) ==
    /\ alive[n]
    /\ run[n] < MaxRuns
    /\ alive' = [alive EXCEPT ![n] = FALSE]
    /\ UNCHANGED <<run, ear, port, dest, network>>

\* Seeded fault: a process started again finds its socket as it was.
StartKept(n) ==
    /\ ~alive[n]
    /\ run[n] < MaxRuns
    /\ run' = [run EXCEPT ![n] = @ + 1]
    /\ alive' = [alive EXCEPT ![n] = TRUE]
    /\ ear' = [ear EXCEPT ![n] = "listening"]
    /\ dest' = [dest EXCEPT ![n] = FirstDest(n)]
    /\ UNCHANGED <<port, network>>

\* and starts it again
Start(n) ==
    /\ ~alive[n]
    /\ run[n] < MaxRuns
    /\ run' = [run EXCEPT ![n] = @ + 1]
    /\ alive' = [alive EXCEPT ![n] = TRUE]
    /\ ear' = [ear EXCEPT ![n] = "listening"]
    /\ port' = [port EXCEPT ![n] = FirstPort(n, run[n] + 1)]
    /\ dest' = [dest EXCEPT ![n] = FirstDest(n)]
    /\ UNCHANGED network

Lose(d) ==
    /\ d \in net
    /\ net' = net \ {d}
    /\ UNCHANGED <<process, down, outages>>

Outage ==
    /\ ~down
    /\ outages < MaxOutages
    /\ down' = TRUE
    /\ outages' = outages + 1
    /\ UNCHANGED <<process, net>>

Repair ==
    /\ down
    /\ down' = FALSE
    /\ UNCHANGED <<process, net, outages>>

Next ==
    \/ \E n \in Node, kind \in {"request", "other"} : Send(n, kind)
    \/ \E n \in Node : SendThrows(n) \/ ReceiveThrows(n) \/ Quit(n) \/ Start(n)
    \/ \E n \in Node, d \in net : Receive(n, d) \/ Refused(n, d)
    \/ \E d \in net : Lose(d)
    \/ Outage
    \/ Repair

Spec == Init /\ [][Next]_vars

\* n takes a request the other process has sent in its present run.
ReceiveFresh(n) ==
    \E d \in net : d.kind = "request" /\ d.from = port[Other(n)] /\ Receive(n, d)

(* main() sends a request every 0.2 s, and of requests sent again and again *)
(* one arrives.                                                            *)
Fairness ==
    \A n \in Node : WF_vars(Send(n, "request")) /\ SF_vars(ReceiveFresh(n))

FairSpec == Spec /\ Fairness

-----------------------------------------------------------------------------
(* Type invariant. *)
TypeOK ==
    /\ run \in [Node -> 1 .. MaxRuns]
    /\ alive \in [Node -> BOOLEAN]
    /\ ear \in [Node -> {"listening", "ended"}]
    /\ port \in [Node -> Port \cup {NoPort}]
    /\ \A n \in Node : port[n] \in {NoPort, PortOf(n, run[n])}
    /\ dest \in [Node -> Port \cup {NoPort}]
    /\ \A n \in Node : dest[n] = NoPort => Kind[n] = "server"
    /\ net \subseteq Datagram
    /\ down \in BOOLEAN
    /\ outages \in 0 .. MaxOutages

\* A port the process n has, or had in an earlier run.
Had(n, p) == \E k \in 1 .. run[n] : p = PortOf(n, k)

\* Whatever was restarted, moved, lost, repeated or reordered, a datagram goes
\* to a port its sender's counterpart has or had, and a server that has an
\* endpoint has one its client sent from: it never sends to nobody, nor to
\* itself.
Addressed ==
    /\ \A d \in net : \E n \in Node : Had(n, d.from) /\ Had(Other(n), d.to)
    /\ \A n \in Node : dest[n] # NoPort => Had(Other(n), dest[n])

\* Both processes run, hear and can send.
Ready ==
    /\ ~down
    /\ \A n \in Node : alive[n] /\ ear[n] = "listening"

\* A server finds its client, and finds it again at another port after a
\* restart of either, whatever late datagrams of an earlier run say.
Found ==
    \A n \in {m \in Node : Kind[m] = "server"} :
        []<>(Ready => port[Other(n)] # NoPort /\ dest[n] = port[Other(n)])

\* m does not run, or has been started again.
Away(m) == ~alive[m] \/ run[m] > 1

\* A listen thread that has ended will not come back in this run.  It takes one
\* of three things: an outage, in which receive_from or an answer throws; a client whose thread
\* runs before its socket has a port, where that fails; or another process that
\* was not there, where a datagram it missed comes back as a failure.  A process
\* bound to its port, in a network that stays up, hears a peer that stays up.
DeafHasCause ==
    \A n \in Node : ear[n] = "ended" =>
        \/ outages > 0
        \/ UnboundFails /\ Kind[n] = "client"
        \/ ResetFails /\ Away(Other(n))
=============================================================================
