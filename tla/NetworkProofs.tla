---------------------------- MODULE NetworkProofs ---------------------------
(***************************************************************************)
(* Proofs about the connections of networking.cpp: UdpEndpoints for every  *)
(* pair of processes and any number of restarts and outages, TcpFraming    *)
(* for packets and headers of any size, and what is measured over them,    *)
(* ClockSync for every window size and every set of clock jumps.           *)
(***************************************************************************)
EXTENDS UdpEndpoints, TcpFraming, ClockSync, SequenceTheorems, WellFoundedInduction, TLAPS


\* There are two processes, each the other's other.
LEMMA OtherNode ==
    \A n \in Node : /\ Other(n) \in Node /\ Other(n) # n /\ Other(Other(n)) = n
                    /\ \A m \in Node : m = n \/ m = Other(n)
<1>1. PICK a, b \in Node : a # b /\ Node = {a, b}
  BY NodeAssumption DEF NodeAssumption
<1>2. Other(a) = b
  BY <1>1 DEF Other
<1>3. Other(b) = a
  BY <1>1 DEF Other
<1>4. QED
  BY <1>1, <1>2, <1>3

\* A port is configured or new in every run, and tells whose it is.
LEMMA Ports ==
    ASSUME NEW n \in Node, NEW k \in 0 .. MaxRuns
    PROVE  PortOf(n, k) \in Port /\ PortOf(n, k)[1] = n /\ PortOf(n, k) # NoPort
<1>1. MaxRuns \in Nat /\ 0 \in 0 .. MaxRuns
  BY NodeAssumption DEF NodeAssumption
<1>2. PortOf(n, k) = <<n, k>> \/ PortOf(n, k) = <<n, 0>>
  BY DEF PortOf
<1>3. QED
  BY <1>1, <1>2 DEF Port, NoPort

\* NoPort is not a port.
LEMMA SomePort == ASSUME NEW p \in Port PROVE p # NoPort
<1>1. PICK n \in Node, k \in 0 .. MaxRuns : p = <<n, k>>
  BY DEF Port
<1>2. QED
  BY <1>1 DEF NoPort

\* A process configured with the other's endpoint knows a port the other has.
LEMMA Configured ==
    ASSUME NEW n \in Node, NEW k \in 1 .. MaxRuns, Kind[n] # "server"
    PROVE  FirstDest(n) = PortOf(Other(n), k)
<1>1. PICK a, b \in Node :
          /\ a # b /\ Node = {a, b}
          /\ \/ Kind = [c \in Node |-> "udp"]
             \/ Kind = [c \in Node |-> IF c = a THEN "server" ELSE "client"]
  BY NodeAssumption DEF NodeAssumption
<1>2. Other(n) \in Node /\ Other(n) # n
  BY OtherNode
<1>3. Kind[Other(n)] # "client"
  BY <1>1, <1>2
<1>4. QED
  BY <1>3 DEF FirstDest, PortOf

\* What a constructor gives a process: a port or none, the other's port or none.
LEMMA FirstTypes ==
    ASSUME NEW n \in Node, NEW k \in 1 .. MaxRuns
    PROVE  /\ FirstPort(n, k) \in {NoPort, PortOf(n, k)}
           /\ FirstPort(n, k) \in Port \cup {NoPort}
           /\ FirstDest(n) \in Port \cup {NoPort}
           /\ FirstDest(n) = NoPort => Kind[n] = "server"
           /\ FirstDest(n) # NoPort => FirstDest(n) = PortOf(Other(n), k)
<1>1. k \in 0 .. MaxRuns
  BY NodeAssumption DEF NodeAssumption
<1>2. PortOf(n, k) \in Port /\ PortOf(Other(n), k) \in Port /\ PortOf(Other(n), k) # NoPort
  BY <1>1, Ports, OtherNode
<1>3. FirstDest(n) # NoPort => FirstDest(n) = PortOf(Other(n), k)
  BY Configured DEF FirstDest
<1>4. FirstDest(n) = NoPort => Kind[n] = "server"
  BY <1>2, Configured
<1>5. FirstDest(n) \in Port \cup {NoPort}
  BY <1>2, <1>3
<1>6. QED
  BY <1>2, <1>3, <1>4, <1>5 DEF FirstPort

\* Type correctness: a process never has a port of another run.
THEOREM UdpTypeCorrect == Spec => []TypeOK
<1>1. Init => TypeOK
  <2> SUFFICES ASSUME Init PROVE TypeOK
    OBVIOUS
  <2>1. 1 \in 1 .. MaxRuns /\ 0 \in 0 .. MaxOutages
    BY NodeAssumption DEF NodeAssumption
  <2>2. \A n \in Node : /\ FirstPort(n, 1) \in {NoPort, PortOf(n, 1)}
                        /\ FirstPort(n, 1) \in Port \cup {NoPort}
                        /\ FirstDest(n) \in Port \cup {NoPort}
                        /\ FirstDest(n) = NoPort => Kind[n] = "server"
    BY <2>1, FirstTypes
  <2>3. QED
    BY <2>1, <2>2 DEF Init, TypeOK
<1>2. TypeOK /\ [Next]_vars => TypeOK'
  <2> SUFFICES ASSUME TypeOK, [Next]_vars PROVE TypeOK'
    OBVIOUS
  <2>1. \A n \in Node : run[n] \in 1 .. MaxRuns /\ run[n] \in 0 .. MaxRuns
    BY NodeAssumption DEF TypeOK, NodeAssumption
  <2>2. \A n \in Node : PortOf(n, run[n]) \in Port
    BY <2>1, Ports
  <2>3. ASSUME NEW n \in Node, NEW kind \in {"request", "other"}, Send(n, kind) PROVE TypeOK'
    <3>1. [from |-> PortOf(n, run[n]), to |-> dest[n], kind |-> kind] \in Datagram
      BY <2>2, <2>3 DEF Send, TypeOK, Datagram
    <3>2. net' \subseteq Datagram
      BY <2>3, <3>1 DEF Send, TypeOK
    <3>3. port' \in [Node -> Port \cup {NoPort}]
      BY <2>2, <2>3 DEF Send, TypeOK
    <3>4. \A m \in Node : port'[m] \in {NoPort, PortOf(m, run[m])}
      BY <2>3 DEF Send, TypeOK
    <3>5. QED
      BY <2>3, <3>2, <3>3, <3>4 DEF Send, TypeOK
  <2>4. ASSUME NEW n \in Node, SendThrows(n) PROVE TypeOK'
    BY <2>4 DEF SendThrows, TypeOK, network
  <2>5. ASSUME NEW n \in Node, ReceiveThrows(n) PROVE TypeOK'
    BY <2>5 DEF ReceiveThrows, TypeOK, network
  <2>6. ASSUME NEW n \in Node, Quit(n) PROVE TypeOK'
    BY <2>6 DEF Quit, TypeOK, network
  <2>7. ASSUME NEW n \in Node, Start(n) PROVE TypeOK'
    <3>1. run[n] + 1 \in 1 .. MaxRuns
      BY <2>1, <2>7, NodeAssumption DEF Start, NodeAssumption
    <3>2. /\ FirstPort(n, run[n] + 1) \in {NoPort, PortOf(n, run[n] + 1)}
          /\ FirstPort(n, run[n] + 1) \in Port \cup {NoPort}
          /\ FirstDest(n) \in Port \cup {NoPort}
          /\ FirstDest(n) = NoPort => Kind[n] = "server"
      BY <3>1, FirstTypes
    <3>3. \A m \in Node : port'[m] \in {NoPort, PortOf(m, run'[m])}
      BY <2>7, <3>2 DEF Start, TypeOK
    <3>4. \A m \in Node : dest'[m] = NoPort => Kind[m] = "server"
      BY <2>7, <3>2 DEF Start, TypeOK
    <3>5. QED
      BY <2>7, <3>1, <3>2, <3>3, <3>4 DEF Start, TypeOK, network
  <2>8. ASSUME NEW n \in Node, NEW d \in net, Receive(n, d) PROVE TypeOK'
    <3>1. d \in Datagram /\ d.from \in Port /\ d.to \in Port
      BY DEF TypeOK, Datagram
    <3>2. Heard(n, d.from) \in Port \cup {NoPort}
      BY <3>1 DEF Heard, TypeOK
    <3>3. /\ dest' \in [Node -> Port \cup {NoPort}]
          /\ \A m \in Node : dest'[m] = NoPort => Kind[m] = "server"
      BY <2>8, <3>2 DEF Receive, TypeOK, Heard
    <3>4. net' \subseteq Datagram
      <4>1. Heard(n, d.from) \in Port
        <5>1. CASE Kind[n] = "server"
          BY <3>1, <5>1 DEF Heard
        <5>2. CASE Kind[n] # "server"
          BY <5>2 DEF Heard, TypeOK
        <5>3. QED
          BY <5>1, <5>2
      <4>2. QED
        BY <2>8, <3>1, <4>1 DEF Receive, TypeOK, Datagram
    <3>5. ear' \in [Node -> {"listening", "ended"}]
      BY <2>8 DEF Receive, TypeOK
    <3>6. QED
      BY <2>8, <3>3, <3>4, <3>5 DEF Receive, TypeOK
  <2>9. ASSUME NEW n \in Node, NEW d \in net, Refused(n, d) PROVE TypeOK'
    BY <2>9 DEF Refused, TypeOK
  <2>14. ASSUME NEW d \in net, Lose(d) PROVE TypeOK'
    BY <2>14 DEF Lose, TypeOK, process
  <2>10. CASE Outage
    BY <2>10, NodeAssumption DEF Outage, TypeOK, process, NodeAssumption
  <2>11. CASE Repair
    BY <2>11 DEF Repair, TypeOK, process
  <2>12. CASE UNCHANGED vars
    BY <2>12 DEF vars, process, network, TypeOK
  <2>13. QED
    BY <2>3, <2>4, <2>5, <2>6, <2>7, <2>8, <2>9, <2>10, <2>11, <2>12, <2>14 DEF Next
<1>3. QED
  BY <1>1, <1>2, PTL DEF Spec

-----------------------------------------------------------------------------
(* Addressed.                                                              *)

\* A port names one process.
LEMMA OwnPort ==
    ASSUME TypeOK, NEW m \in Node, NEW n \in Node, NEW p, Had(m, p), Had(n, p)
    PROVE  m = n
<1>1. PICK j \in 1 .. run[m], k \in 1 .. run[n] : p = PortOf(m, j) /\ p = PortOf(n, k)
  BY DEF Had
<1>2. j \in 0 .. MaxRuns /\ k \in 0 .. MaxRuns
  BY NodeAssumption DEF TypeOK, NodeAssumption
<1>3. QED
  BY <1>1, <1>2, Ports

\* What a process once had it has had ever since.
LEMMA HadStays ==
    ASSUME TypeOK, NEW n \in Node, NEW p, Had(n, p),
           run' = run \/ (\E m \in Node : run' = [run EXCEPT ![m] = @ + 1])
    PROVE  Had(n, p)'
<1>1. PICK k \in 1 .. run[n] : p = PortOf(n, k)
  BY DEF Had
<1>2. run[n] \in Nat /\ run'[n] \in Nat /\ run'[n] >= run[n]
  BY NodeAssumption DEF TypeOK, NodeAssumption
<1>3. k \in 1 .. run'[n]
  BY <1>2
<1>4. QED
  BY <1>1, <1>3 DEF Had, PortOf

\* What a process is bound to it has.
LEMMA HasPort ==
    ASSUME TypeOK, NEW n \in Node
    PROVE  Had(n, PortOf(n, run[n])) /\ (port[n] # NoPort => Had(n, port[n]))
<1>1. run[n] \in 1 .. run[n]
  BY NodeAssumption DEF TypeOK, NodeAssumption
<1>2. QED
  BY <1>1 DEF Had, TypeOK

\* Before a datagram is sent, destinations come from the configuration.
LEMMA AddressedInit == Init => Addressed
<1> SUFFICES ASSUME Init, NEW n \in Node, dest[n] # NoPort PROVE Had(Other(n), dest[n])
  BY DEF Init, Addressed
<1>1. 1 \in 1 .. MaxRuns /\ 1 \in 1 .. 1
  BY NodeAssumption DEF NodeAssumption
<1>2. dest[n] = PortOf(Other(n), 1)
  BY <1>1, FirstTypes DEF Init
<1>3. run[Other(n)] = 1
  BY OtherNode DEF Init
<1>4. QED
  BY <1>1, <1>2, <1>3 DEF Had

\* Every step keeps Addressed.
LEMMA AddressedStep == TypeOK /\ Addressed /\ [Next]_vars => Addressed'
<1> SUFFICES ASSUME TypeOK, Addressed, [Next]_vars PROVE Addressed'
  OBVIOUS
<1>1. ASSUME run' = run, dest' = dest,
             \A d \in net' : d \in net \/ \E n \in Node : Had(n, d.from) /\ Had(Other(n), d.to)
      PROVE  Addressed'
  BY <1>1 DEF Addressed, Had, PortOf
<1>2. ASSUME NEW n \in Node, NEW kind \in {"request", "other"}, Send(n, kind)
      PROVE  Addressed'
  <2>1. Had(n, PortOf(n, run[n])) /\ Had(Other(n), dest[n])
    BY <1>2, HasPort DEF Send, Addressed
  <2>2. QED
    BY <1>1, <1>2, <2>1 DEF Send
<1>3. ASSUME NEW n \in Node, Start(n) PROVE Addressed'
  <2>1. run' = [run EXCEPT ![n] = @ + 1]
    BY <1>3 DEF Start
  <2>2. \A m \in Node : \A p :
            (\E k \in 1 .. run[m] : p = PortOf(m, k)) => \E k \in 1 .. run'[m] : p = PortOf(m, k)
    BY <2>1, HadStays DEF Had, PortOf
  <2>3. ASSUME NEW d \in net'
        PROVE  \E m \in Node : /\ \E k \in 1 .. run'[m] : d.from = PortOf(m, k)
                              /\ \E k \in 1 .. run'[Other(m)] : d.to = PortOf(Other(m), k)
    <3>1. d \in net
      BY <1>3 DEF Start, network
    <3>2. PICK m \in Node : Had(m, d.from) /\ Had(Other(m), d.to)
      BY <3>1 DEF Addressed
    <3>3. QED
      BY <2>2, <3>2, OtherNode DEF Had
  <2>4. ASSUME NEW m \in Node, dest'[m] # NoPort
        PROVE  \E k \in 1 .. run'[Other(m)] : dest'[m] = PortOf(Other(m), k)
    <3>1. CASE m = n
      <4>1. dest'[m] = FirstDest(n)
        BY <1>3, <3>1 DEF Start, TypeOK
      <4>2. Other(n) \in Node /\ run[Other(n)] \in 1 .. MaxRuns
        BY OtherNode DEF TypeOK
      <4>3. FirstDest(n) = PortOf(Other(n), run[Other(n)])
        BY <2>4, <4>1, <4>2, FirstTypes
      <4>4. Had(Other(n), PortOf(Other(n), run[Other(n)]))
        BY <4>2, HasPort
      <4>5. QED
        BY <2>2, <3>1, <4>1, <4>2, <4>3, <4>4 DEF Had
    <3>2. CASE m # n
      <4>1. dest'[m] = dest[m]
        BY <1>3, <3>2 DEF Start, TypeOK
      <4>2. Had(Other(m), dest[m])
        BY <2>4, <4>1 DEF Addressed
      <4>3. QED
        BY <2>2, <4>1, <4>2, OtherNode DEF Had
    <3>3. QED
      BY <3>1, <3>2
  <2>5. QED
    BY <2>3, <2>4 DEF Addressed, Had, PortOf
<1>4. ASSUME NEW n \in Node, NEW d \in net, Receive(n, d) PROVE Addressed'
  <2>1. PICK m \in Node : Had(m, d.from) /\ Had(Other(m), d.to)
    BY DEF Addressed
  <2>2. d.to \in Port /\ d.to = port[n] /\ port[n] # NoPort
    <3>1. d.to \in Port
      BY DEF TypeOK, Datagram
    <3>2. QED
      BY <1>4, <3>1, SomePort DEF Receive
  <2>3. m = Other(n)
    BY <2>1, <2>2, HasPort, OwnPort, OtherNode
  <2>4. Heard(n, d.from) # NoPort => Had(Other(n), Heard(n, d.from))
    BY <2>1, <2>3 DEF Heard, Addressed
  <2>5. Heard(n, d.from) # NoPort
    <3>1. d.from \in Port
      BY DEF TypeOK, Datagram
    <3>2. d.from # NoPort
      BY <3>1, SomePort
    <3>3. dest[n] = NoPort => Kind[n] = "server"
      BY DEF TypeOK
    <3>4. QED
      BY <3>2, <3>3 DEF Heard
  <2>6. run' = run /\ dest' = [dest EXCEPT ![n] = Heard(n, d.from)]
    BY <1>4 DEF Receive
  <2>7. \A c \in net' : \/ c \in net
                        \/ c = [from |-> port[n], to |-> Heard(n, d.from), kind |-> "other"]
    BY <1>4 DEF Receive
  <2>8. ASSUME NEW c \in net'
        PROVE  \E k \in Node : Had(k, c.from) /\ Had(Other(k), c.to)
    BY <2>2, <2>4, <2>5, <2>7, HasPort DEF Addressed
  <2>9. ASSUME NEW k \in Node, dest'[k] # NoPort PROVE Had(Other(k), dest'[k])
    BY <2>4, <2>6, <2>9 DEF TypeOK, Addressed
  <2>10. \A k \in Node : \A p : Had(k, p)' <=> Had(k, p)
    BY <2>6 DEF Had, PortOf
  <2>11. QED
    BY <2>8, <2>9, <2>10, OtherNode DEF Addressed
<1>5. ASSUME NEW n \in Node, SendThrows(n) \/ ReceiveThrows(n) \/ Quit(n) PROVE Addressed'
  BY <1>1, <1>5 DEF SendThrows, ReceiveThrows, Quit, network
<1>6. ASSUME NEW d \in net, Lose(d) \/ \E n \in Node : Refused(n, d) PROVE Addressed'
  BY <1>1, <1>6 DEF Lose, Refused, process
<1>7. CASE Outage \/ Repair \/ UNCHANGED vars
  BY <1>1, <1>7 DEF Outage, Repair, vars, process, network
<1>8. QED
  BY <1>2, <1>3, <1>4, <1>5, <1>6, <1>7 DEF Next

\* However often the processes are restarted and whatever the channel does,
\* datagrams go from one process to the other.
THEOREM AlwaysAddressed == Spec => []Addressed
BY UdpTypeCorrect, AddressedInit, AddressedStep, PTL DEF Spec

-----------------------------------------------------------------------------
(* DeafHasCause. *)

\* Nobody has sent from p or been told to send to it.
Unheard(p) ==
    /\ \A d \in net : d.from # p /\ d.to # p
    /\ \A m \in Node : dest[m] # p

\* Why a bound process that hears a peer stays heard: only a client is without a
\* port, nobody knows the port it will get, and a network that is down has become so.
Bound ==
    /\ \A n \in Node : port[n] = NoPort =>
           Kind[n] = "client" /\ Unheard(PortOf(n, run[n]))
    /\ down => outages > 0

\* The configured destination is not the port a client gets.
LEMMA FirstElse ==
    ASSUME NEW m \in Node, NEW n \in Node, Kind[n] = "client", NEW k \in 1 .. MaxRuns
    PROVE  FirstDest(m) # PortOf(n, k)
<1>1. k # 0
  BY NodeAssumption DEF NodeAssumption
<1> QED
  BY <1>1 DEF FirstDest, PortOf, NoPort

\* A constructor leaves only a client without a port.
LEMMA FirstBound ==
    ASSUME NEW n \in Node, NEW k \in 1 .. MaxRuns, FirstPort(n, k) = NoPort
    PROVE  Kind[n] = "client"
<1>1. k \in 0 .. MaxRuns
  BY NodeAssumption DEF NodeAssumption
<1> QED
  BY <1>1, Ports DEF FirstPort

\* Bound holds at the start.
LEMMA BoundInit == Init => Bound
<1> SUFFICES ASSUME Init PROVE Bound
  OBVIOUS
<1>1. 1 \in 1 .. MaxRuns
  BY NodeAssumption DEF NodeAssumption
<1>2. ASSUME NEW n \in Node, port[n] = NoPort
      PROVE  Kind[n] = "client" /\ Unheard(PortOf(n, run[n]))
  <2>1. FirstPort(n, 1) = NoPort /\ run[n] = 1 /\ net = {}
        /\ \A m \in Node : dest[m] = FirstDest(m)
    BY <1>2 DEF Init
  <2>2. Kind[n] = "client"
    BY <1>1, <2>1, FirstBound
  <2> QED
    BY <1>1, <2>1, <2>2, FirstElse DEF Unheard
<1> QED
  BY <1>2 DEF Init, Bound

\* Every step keeps Bound.
LEMMA BoundStep == TypeOK /\ Addressed /\ Bound /\ [Next]_vars => Bound'
<1> SUFFICES ASSUME TypeOK, Addressed, Bound, [Next]_vars PROVE Bound'
  OBVIOUS
<1>1. outages \in Nat
  BY NodeAssumption DEF TypeOK, NodeAssumption
<1>2. ASSUME UNCHANGED <<run, port, dest>>, net' \subseteq net, down' => outages' > 0
      PROVE  Bound'
  <2>1. \A p : Unheard(p) => Unheard(p)'
    BY <1>2 DEF Unheard
  <2>2. \A n \in Node : PortOf(n, run[n])' = PortOf(n, run[n])
    BY <1>2 DEF PortOf
  <2> QED
    BY <1>2, <2>1, <2>2 DEF Bound, Unheard, PortOf
<1>3. ASSUME NEW n \in Node, NEW kind, Send(n, kind) PROVE Bound'
  <2>1. PortOf(n, run[n]) # NoPort /\ PortOf(n, run[n])[1] = n
    BY Ports, NodeAssumption DEF TypeOK, NodeAssumption
  <2>2. ASSUME NEW m \in Node, port'[m] = NoPort
        PROVE  /\ Kind[m] = "client" /\ run' = run
               /\ \A d \in net' : d.from # PortOf(m, run[m]) /\ d.to # PortOf(m, run[m])
               /\ \A k \in Node : dest'[k] # PortOf(m, run[m])
    <3>1. m # n /\ port[m] = NoPort
      BY <1>3, <2>1, <2>2 DEF Send, TypeOK
    <3>2. Kind[m] = "client" /\ Unheard(PortOf(m, run[m]))
      BY <3>1 DEF Bound
    <3>3. PortOf(m, run[m])[1] = m
      BY Ports, NodeAssumption DEF TypeOK, NodeAssumption
    <3>4. \A d \in net' : d \in net \/ (d.from = PortOf(n, run[n]) /\ d.to = dest[n])
      BY <1>3 DEF Send
    <3> QED
      BY <1>3, <2>1, <3>1, <3>2, <3>3, <3>4 DEF Send, Unheard
  <2>3. down' => outages' > 0
    BY <1>3 DEF Send
  <2> QED
    BY <2>2, <2>3 DEF Bound, Unheard, PortOf
<1>4. ASSUME NEW n \in Node, NEW d \in net, Receive(n, d) PROVE Bound'
  <2>1. UNCHANGED <<run, port, down, outages>> /\ dest' = [dest EXCEPT ![n] = Heard(n, d.from)]
        /\ d.to = port[n]
    BY <1>4 DEF Receive
  <2>2. \A c \in net' : c \in net \/ (c.from = port[n] /\ c.to = Heard(n, d.from))
    BY <1>4 DEF Receive
  <2>3. Heard(n, d.from) \in {d.from, dest[n]}
    BY DEF Heard
  <2>4. ASSUME NEW m \in Node, port[m] = NoPort
        PROVE  /\ \A c \in net' : c.from # PortOf(m, run[m]) /\ c.to # PortOf(m, run[m])
               /\ \A k \in Node : dest'[k] # PortOf(m, run[m])
    <3>1. Unheard(PortOf(m, run[m]))
      BY <2>4 DEF Bound
    <3>2. port[n] # PortOf(m, run[m]) /\ Heard(n, d.from) # PortOf(m, run[m])
      BY <2>1, <2>3, <3>1 DEF Unheard
    <3> QED
      BY <2>1, <2>2, <3>1, <3>2 DEF Unheard, TypeOK
  <2> QED
    BY <2>1, <2>4 DEF Bound, Unheard, PortOf
<1>5. ASSUME NEW n \in Node, Start(n) PROVE Bound'
  <2>1. run[n] + 1 \in 1 .. MaxRuns /\ run[n] \in 1 .. MaxRuns
    BY <1>5, NodeAssumption DEF Start, TypeOK, NodeAssumption
  <2>2. /\ port' = [port EXCEPT ![n] = FirstPort(n, run[n] + 1)]
        /\ dest' = [dest EXCEPT ![n] = FirstDest(n)]
        /\ run' = [run EXCEPT ![n] = @ + 1] /\ UNCHANGED <<net, down, outages>>
    BY <1>5 DEF Start, network
  <2>3. ASSUME NEW m \in Node, port'[m] = NoPort
        PROVE  /\ Kind[m] = "client" /\ run'[m] \in 1 .. MaxRuns
               /\ \A d \in net : d.from # PortOf(m, run'[m]) /\ d.to # PortOf(m, run'[m])
               /\ \A k \in Node : dest[k] # PortOf(m, run'[m])
    <3>1. CASE m = n
      <4>1. FirstPort(n, run[n] + 1) = NoPort /\ run'[n] = run[n] + 1
        BY <2>2, <2>3, <3>1 DEF TypeOK
      <4>2. Kind[n] = "client"
        BY <2>1, <4>1, FirstBound
      <4>3. ASSUME NEW x \in Node, NEW p, Had(x, p) PROVE p # PortOf(n, run[n] + 1)
        <5>1. PICK k \in 1 .. run[x] : p = PortOf(x, k)
          BY <4>3 DEF Had
        <5>2. k \in 0 .. MaxRuns /\ run[n] + 1 \in 0 .. MaxRuns
          BY <2>1, NodeAssumption DEF TypeOK, NodeAssumption
        <5>3. PortOf(x, k)[1] = x /\ PortOf(n, run[n] + 1)[1] = n
          BY <5>2, Ports
        <5>4. x = n => k # run[n] + 1
          BY <2>1
        <5> QED
          BY <4>2, <5>1, <5>3, <5>4 DEF PortOf
      <4>4. PortOf(n, run[n] + 1) # NoPort
        BY <2>1, Ports, NodeAssumption DEF NodeAssumption
      <4>5. \A d \in net : d.from # PortOf(n, run[n] + 1) /\ d.to # PortOf(n, run[n] + 1)
        BY <4>3, OtherNode DEF Addressed
      <4>6. \A k \in Node : dest[k] # PortOf(n, run[n] + 1)
        BY <4>3, <4>4, OtherNode DEF Addressed
      <4> QED
        BY <2>1, <3>1, <4>1, <4>2, <4>5, <4>6
    <3>2. CASE m # n
      <4>1. port[m] = NoPort /\ run'[m] = run[m]
        BY <2>2, <2>3, <3>2 DEF TypeOK
      <4> QED
        BY <4>1 DEF Bound, Unheard, TypeOK
    <3> QED
      BY <3>1, <3>2
  <2>4. ASSUME NEW m \in Node, port'[m] = NoPort, NEW k \in Node
        PROVE  dest'[k] # PortOf(m, run'[m])
    <3>1. FirstDest(n) # PortOf(m, run'[m])
      BY <2>3, <2>4, FirstElse
    <3> QED
      BY <2>2, <2>3, <2>4, <3>1 DEF TypeOK
  <2> QED
    BY <2>2, <2>3, <2>4 DEF Bound, Unheard, PortOf
<1>6. ASSUME NEW n \in Node, SendThrows(n) \/ Quit(n) \/ ReceiveThrows(n) PROVE Bound'
  BY <1>2, <1>6 DEF SendThrows, Quit, ReceiveThrows, network, Bound
<1>7. ASSUME NEW d \in net, Lose(d) \/ \E n \in Node : Refused(n, d) PROVE Bound'
  BY <1>2, <1>7 DEF Lose, Refused, process, Bound
<1>8. CASE Outage
  BY <1>1, <1>2, <1>8 DEF Outage, process
<1>9. CASE Repair \/ UNCHANGED vars
  BY <1>2, <1>9 DEF Repair, vars, process, network, Bound
<1> QED
  BY <1>3, <1>4, <1>5, <1>6, <1>7, <1>8, <1>9 DEF Next

\* A datagram comes back only from a peer that is away.
LEMMA RefusedAway ==
    ASSUME TypeOK, Addressed, Bound, NEW n \in Node, NEW d \in net, Refused(n, d)
    PROVE  ResetFails /\ Away(Other(n))
<1> DEFINE o == Other(n)
<1>1. o \in Node
  BY OtherNode
<1>2. d.from = port[n] /\ ResetFails /\ (alive[o] => port[o] # d.to)
  BY <1>1 DEF Refused
<1>3. d.from # NoPort
  BY SomePort DEF TypeOK, Datagram
<1>4. Had(n, d.from)
  BY <1>2, <1>3, HasPort
<1>5. Had(o, d.to)
  BY <1>4, OwnPort DEF Addressed
<1>6. ASSUME alive[o], ~(run[o] > 1) PROVE FALSE
  <2>1. run[o] = 1
    BY <1>1, <1>6, NodeAssumption DEF TypeOK, NodeAssumption
  <2>2. d.to = PortOf(o, run[o])
    BY <1>5, <2>1 DEF Had
  <2>3. port[o] = NoPort
    BY <1>1, <1>2, <1>6, <2>2 DEF TypeOK
  <2> QED
    BY <1>1, <2>2, <2>3 DEF Bound, Unheard
<1> QED
  BY <1>2, <1>6 DEF Away

\* Every step keeps DeafHasCause.
LEMMA DeafStep ==
    TypeOK /\ Addressed /\ Bound /\ DeafHasCause /\ [Next]_vars => DeafHasCause'
<1> SUFFICES ASSUME TypeOK, Addressed, Bound, DeafHasCause, [Next]_vars
             PROVE  DeafHasCause'
  OBVIOUS
<1>1. outages > 0 => outages' > 0
  <2>1. outages \in Nat /\ \A k \in Nat : k > 0 => k + 1 > 0
    BY NodeAssumption DEF TypeOK, NodeAssumption
  <2>2. outages' = outages \/ outages' = outages + 1
    BY DEF Next, Send, SendThrows, ReceiveThrows, Quit, Start, Receive, Refused, Lose, Outage,
       Repair, vars, network
  <2> QED
    BY <2>1, <2>2
<1> DEFINE Cause(n) == \/ outages > 0
                       \/ UnboundFails /\ Kind[n] = "client"
                       \/ ResetFails /\ Away(Other(n))
<1>2. ASSUME NEW n \in Node, Cause(n) PROVE Cause(n)'
  <2>1. \A m \in Node : Away(m) => Away(m)'
    <3>1. ASSUME NEW k \in Node, Start(k) PROVE \A m \in Node : Away(m) => Away(m)'
      <4>1. \A m \in Node : run[m] \in Nat /\ run[m] >= 1
        BY NodeAssumption DEF TypeOK, NodeAssumption
      <4>2. run' = [run EXCEPT ![k] = @ + 1] /\ alive' = [alive EXCEPT ![k] = TRUE]
        BY <3>1 DEF Start
      <4> QED
        BY <4>1, <4>2 DEF Away, TypeOK
    <3>2. CASE run' = run /\ (alive' = alive \/ \E k \in Node : alive' = [alive EXCEPT ![k] = FALSE])
      BY <3>2 DEF Away, TypeOK
    <3> QED
      BY <3>1, <3>2 DEF Next, Send, SendThrows, ReceiveThrows, Quit, Receive, Refused, Lose,
         Outage, Repair, vars, process
  <2>2. ResetFails /\ Away(Other(n)) => Away(Other(n))'
    BY <2>1, OtherNode
  <2> QED
    BY <1>1, <1>2, <2>2
<1>3. ASSUME NEW n \in Node, ear'[n] = "ended" PROVE Cause(n)'
  <2>1. CASE ear[n] = "ended"
    <3>1. Cause(n)
      BY <2>1 DEF DeafHasCause
    <3> QED
      BY <1>2, <3>1
  <2>2. CASE ear[n] # "ended"
    <3>1. ASSUME NEW m \in Node, Start(m) PROVE FALSE
      BY <1>3, <2>2, <3>1 DEF Start, TypeOK
    <3>2. ASSUME ReceiveThrows(n) PROVE Cause(n)
      BY <3>2 DEF ReceiveThrows, Bound
    <3>3. ASSUME NEW d \in net, Refused(n, d) PROVE Cause(n)
      BY <3>3, RefusedAway
    <3>4. ASSUME NEW d \in net, Receive(n, d) PROVE Cause(n)
      BY <1>3, <2>2, <3>4 DEF Receive, Bound
    <3>5. ASSUME NEW m \in Node, m # n,
                 ReceiveThrows(m) \/ \E d \in net : Receive(m, d) \/ Refused(m, d)
          PROVE  FALSE
      BY <1>3, <2>2, <3>5 DEF ReceiveThrows, Receive, Refused, TypeOK
    <3>6. Cause(n)
      BY <1>3, <2>2, <3>1, <3>2, <3>3, <3>4, <3>5 DEF Next, Send, SendThrows, Quit, Lose,
         Outage, Repair, vars, process
    <3> QED
      BY <1>2, <3>6
  <2> QED
    BY <2>1, <2>2
<1> QED
  BY <1>3 DEF DeafHasCause

\* For any two processes, any number of restarts and outages, whatever receive_from
\* does on a socket without a port or after a datagram nobody took: a listen thread
\* ends only by one of the causes DeafHasCause names, so one that is bound hears a
\* peer that stays up as long as the network does.
THEOREM DeafHasItsCause == Spec => []DeafHasCause
<1>1. Init => DeafHasCause
  BY DEF Init, DeafHasCause
<1> QED
  BY <1>1, BoundInit, BoundStep, DeafStep, UdpTypeCorrect, AlwaysAddressed, PTL DEF Spec

-----------------------------------------------------------------------------
(* The byte stream of TcpFraming: types.                                   *)

\* The bytes of a header or a body, numbered from 1.
LEMMA BytesTypes ==
    ASSUME NEW m \in Packet, NEW part \in {"header", "body"}, NEW len \in Nat
    PROVE  /\ Bytes(m, part, len) \in Seq(Byte)
           /\ Len(Bytes(m, part, len)) = len
           /\ \A k \in 1 .. len : Bytes(m, part, len)[k] = [of |-> m, part |-> part, at |-> k]
<1>1. \A k \in 1 .. len : [of |-> m, part |-> part, at |-> k] \in Byte
  BY DEF Byte
<1>2. QED
  BY <1>1 DEF Bytes

\* What TcpTypeOK needs to be inductive: the buffer is empty while a header is
\* awaited, a body has a size, and nothing is handed over before setDelegate.
TcpTypes ==
    /\ TcpTypeOK
    /\ rpc = "header" => buffer = <<>>
    /\ rpc = "body" => Announced(header) \in Nat
    /\ ~delegate => delivered = <<>>

\* The header and the body of a packet.
LEMMA PacketTypes ==
    ASSUME NEW m \in Packet
    PROVE  /\ m[1] \in Thread /\ m[2] \in 1 .. MaxSends /\ m[2] \in Nat
           /\ HeaderBytes \in Nat \ {0} /\ Size[m[1]] \in Nat \ {0}
           /\ HeaderOf(m) \in Seq(Byte) /\ Len(HeaderOf(m)) = HeaderBytes
           /\ BodyOf(m) \in Seq(Byte) /\ Len(BodyOf(m)) = Size[m[1]]
           /\ \A k \in 1 .. HeaderBytes :
                  HeaderOf(m)[k] = [of |-> m, part |-> "header", at |-> k]
           /\ \A k \in 1 .. Size[m[1]] : BodyOf(m)[k] = [of |-> m, part |-> "body", at |-> k]
<1>1. m[1] \in Thread /\ m[2] \in 1 .. MaxSends /\ m[2] \in Nat
  BY TcpAssumption DEF Packet, TcpAssumption
<1>2. HeaderBytes \in Nat \ {0} /\ Size[m[1]] \in Nat \ {0}
  BY <1>1, TcpAssumption DEF TcpAssumption
<1>3. /\ HeaderOf(m) \in Seq(Byte) /\ Len(HeaderOf(m)) = HeaderBytes
      /\ \A k \in 1 .. HeaderBytes :
             HeaderOf(m)[k] = [of |-> m, part |-> "header", at |-> k]
  BY <1>2, BytesTypes DEF HeaderOf
<1> DEFINE len == Size[m[1]]
<1>4. /\ BodyOf(m) \in Seq(Byte) /\ Len(BodyOf(m)) = len
      /\ \A k \in 1 .. len : BodyOf(m)[k] = [of |-> m, part |-> "body", at |-> k]
  <2>1. len \in Nat /\ BodyOf(m) = Bytes(m, "body", len)
    BY <1>2 DEF BodyOf
  <2> HIDE DEF len
  <2>2. QED
    BY <2>1, BytesTypes
<1>5. QED
  BY <1>1, <1>2, <1>3, <1>4

\* What read_some takes and what it leaves.
LEMMA Parts ==
    ASSUME NEW s \in Seq(Byte), NEW n \in 0 .. Len(s)
    PROVE  /\ SubSeq(s, 1, n) \in Seq(Byte) /\ Len(SubSeq(s, 1, n)) = n
           /\ \A k \in 1 .. n : SubSeq(s, 1, n)[k] = s[k]
           /\ SubSeq(s, n + 1, Len(s)) \in Seq(Byte)
           /\ Len(SubSeq(s, n + 1, Len(s))) = Len(s) - n
           /\ \A k \in 1 .. Len(s) - n : SubSeq(s, n + 1, Len(s))[k] = s[n + k]
<1>1. /\ n \in Nat /\ Len(s) \in Nat /\ n <= Len(s)
      /\ \A k \in 1 .. Len(s) : s[k] \in Byte
  BY LenProperties
<1>2. /\ \A k \in 1 .. n : s[k] \in Byte
      /\ \A k \in n + 1 .. Len(s) : s[k] \in Byte
  BY <1>1
<1>3. /\ SubSeq(s, 1, n) \in Seq(Byte) /\ Len(SubSeq(s, 1, n)) = n
      /\ \A k \in 1 .. n : SubSeq(s, 1, n)[k] = s[k]
  <2>1. /\ SubSeq(s, 1, n) \in Seq(Byte)
        /\ Len(SubSeq(s, 1, n)) = IF 1 <= n THEN n - 1 + 1 ELSE 0
        /\ \A k \in 1 .. n - 1 + 1 : SubSeq(s, 1, n)[k] = s[1 + k - 1]
    BY <1>1, <1>2, SubSeqProperties
  <2>2. QED
    BY <1>1, <2>1
<1>4. /\ SubSeq(s, n + 1, Len(s)) \in Seq(Byte)
      /\ Len(SubSeq(s, n + 1, Len(s))) = Len(s) - n
      /\ \A k \in 1 .. Len(s) - n : SubSeq(s, n + 1, Len(s))[k] = s[n + k]
  <2>1. /\ SubSeq(s, n + 1, Len(s)) \in Seq(Byte)
        /\ Len(SubSeq(s, n + 1, Len(s)))
               = IF n + 1 <= Len(s) THEN Len(s) - (n + 1) + 1 ELSE 0
        /\ \A k \in 1 .. Len(s) - (n + 1) + 1 :
               SubSeq(s, n + 1, Len(s))[k] = s[(n + 1) + k - 1]
    BY <1>1, <1>2, SubSeqProperties
  <2>2. QED
    BY <1>1, <2>1
<1>5. QED
  BY <1>3, <1>4

\* The types hold at the start.
LEMMA TcpTypesInit == TcpInit => TcpTypes
<1> SUFFICES ASSUME TcpInit PROVE TcpTypes
  OBVIOUS
<1>1. /\ <<>> \in Seq(Packet) /\ <<>> \in Seq(Byte) /\ <<>> \in Seq(Seq(Byte))
  OBVIOUS
<1>2. HeaderBytes \in Nat /\ MaxSends \in Nat
  BY TcpAssumption DEF TcpAssumption
<1>3. QED
  <2>1. writing \in [Thread -> 0 .. MaxSends] /\ mixed \in BOOLEAN
    <3>1. 0 \in 0 .. MaxSends
      BY <1>2
    <3>2. QED
      BY <3>1 DEF TcpInit
  <2>2. header \in Seq(Byte) /\ got \in Nat /\ got <= HeaderBytes
    BY <1>1, <1>2 DEF TcpInit, NoHeader
  <2>3. /\ sent \in Seq(Packet) /\ stream \in Seq(Byte) /\ buffer = <<>>
        /\ buffer \in Seq(Byte) /\ delivered \in Seq(Seq(Byte)) /\ split \in BOOLEAN
        /\ rpc = "header" /\ delegate \in BOOLEAN /\ early \in Nat /\ delivered = <<>>
    BY <1>1 DEF TcpInit
  <2>4. QED
    BY <2>1, <2>2, <2>3 DEF TcpTypes, TcpTypeOK

\* Every step keeps the types.
LEMMA TcpTypesStep == TcpTypes /\ [TcpNext]_tcpVars => TcpTypes'
<1> SUFFICES ASSUME TcpTypes, [TcpNext]_tcpVars PROVE TcpTypes'
  OBVIOUS
<1>1. /\ HeaderBytes \in Nat /\ MaxSends \in Nat /\ Len(sent) \in Nat
      /\ \A t \in Thread : writing[t] \in 0 .. MaxSends
      /\ got \in Nat /\ stream \in Seq(Byte) /\ header \in Seq(Byte) /\ buffer \in Seq(Byte)
      /\ Len(stream) \in Nat /\ Len(buffer) \in Nat /\ sent \in Seq(Packet)
  BY TcpAssumption DEF TcpAssumption, TcpTypes, TcpTypeOK
<1>2. ASSUME NEW t \in Thread, WriteHeader(t) PROVE TcpTypes'
  <2> DEFINE n == Len(sent) + 1
  <2>1. n \in 1 .. MaxSends
    BY <1>1, <1>2 DEF WriteHeader
  <2>2. <<t, n>> \in Packet
    BY <2>1 DEF Packet
  <2>3. HeaderOf(<<t, n>>) \in Seq(Byte)
    BY <2>2, PacketTypes
  <2>4. sent' \in Seq(Packet) /\ stream' \in Seq(Byte)
    <3>1. sent' = Append(sent, <<t, n>>) /\ stream' = stream \o HeaderOf(<<t, n>>)
      BY <1>2 DEF WriteHeader
    <3> HIDE DEF n
    <3>2. sent' \in Seq(Packet)
      BY <1>1, <2>2, <3>1, AppendProperties
    <3>3. stream' \in Seq(Byte)
      BY <1>1, <2>3, <3>1, ConcatProperties
    <3>4. QED
      BY <3>2, <3>3
  <2>5. writing' \in [Thread -> 0 .. MaxSends] /\ mixed' \in BOOLEAN
    BY <1>1, <1>2, <2>1 DEF WriteHeader, TcpTypes, TcpTypeOK
  <2>6. QED
    BY <1>2, <2>4, <2>5 DEF WriteHeader, TcpTypes, TcpTypeOK, readVars, handed, Announced
<1>3. ASSUME NEW t \in Thread, WriteBody(t) PROVE TcpTypes'
  <2>1. <<t, writing[t]>> \in Packet
    BY <1>1, <1>3 DEF WriteBody, Packet
  <2>2. BodyOf(<<t, writing[t]>>) \in Seq(Byte)
    BY <2>1, PacketTypes
  <2>3. stream' \in Seq(Byte)
    BY <1>1, <1>3, <2>2 DEF WriteBody
  <2>4. writing' \in [Thread -> 0 .. MaxSends]
    BY <1>1, <1>3 DEF WriteBody, TcpTypes, TcpTypeOK
  <2>5. QED
    BY <1>3, <2>3, <2>4 DEF WriteBody, TcpTypes, TcpTypeOK, readVars, handed, Announced
<1>4. CASE ReadHeader
  <2>1. PICK n \in 1 .. HeaderBytes - got :
            /\ n <= Len(stream)
            /\ header' = SubSeq(stream, 1, n) \o SubSeq(header, n + 1, Len(header))
            /\ got' = got + n
            /\ split' = (split \/ n < HeaderBytes)
            /\ stream' = SubSeq(stream, n + 1, Len(stream))
    BY <1>4 DEF ReadHeader
  <2>2. n \in 0 .. Len(stream) /\ got' \in Nat /\ got' <= HeaderBytes
    BY <1>1, <2>1
  <2>3. stream' \in Seq(Byte) /\ SubSeq(stream, 1, n) \in Seq(Byte)
    BY <1>1, <2>1, <2>2, Parts
  <2>4. SubSeq(header, n + 1, Len(header)) \in Seq(Byte)
    <3>1. /\ n + 1 \in Int /\ Len(header) \in Int
          /\ \A k \in n + 1 .. Len(header) : header[k] \in Byte
      BY <1>1, <2>2, ElementOfSeq
    <3>2. QED
      BY <3>1, SubSeqProperties
  <2>5. header' \in Seq(Byte)
    BY <2>1, <2>3, <2>4, ConcatProperties
  <2>6. split' \in BOOLEAN
    BY <2>1 DEF TcpTypes, TcpTypeOK
  <2>7. QED
    BY <1>4, <2>2, <2>3, <2>5, <2>6 DEF ReadHeader, TcpTypes, TcpTypeOK, sendVars, handed
<1>5. CASE StartBody
  <2>1. IsHeader(header) => Announced(header) \in Nat
    <3> SUFFICES ASSUME NEW j \in 1 .. Len(sent), header = HeaderOf(sent[j])
                 PROVE  Announced(header) \in Nat
      BY DEF IsHeader
    <3>1. PICK m \in Packet : m = sent[j]
      BY <1>1, ElementOfSeq
    <3>2. 1 \in 1 .. HeaderBytes /\ Size[m[1]] \in Nat
      BY PacketTypes
    <3>3. header[1] = [of |-> m, part |-> "header", at |-> 1]
      BY <3>1, <3>2, PacketTypes
    <3>4. QED
      BY <3>2, <3>3 DEF Announced
  <2>2. Len(<<>>) = 0
    OBVIOUS
  <2>3. QED
    BY <1>1, <1>5, <2>1, <2>2 DEF StartBody, TcpTypes, TcpTypeOK, sendVars, handed
<1>6. CASE ReadBody
  <2>1. PICK n \in 1 .. Announced(header) - got :
            /\ n <= Len(stream)
            /\ buffer' = buffer \o SubSeq(stream, 1, n)
            /\ got' = got + n
            /\ stream' = SubSeq(stream, n + 1, Len(stream))
    BY <1>6 DEF ReadBody
  <2>2. n \in 0 .. Len(stream)
    BY <1>1, <2>1
  <2>3. /\ stream' \in Seq(Byte) /\ SubSeq(stream, 1, n) \in Seq(Byte)
        /\ Len(SubSeq(stream, 1, n)) = n
    BY <1>1, <2>1, <2>2, Parts
  <2>4. buffer' \in Seq(Byte) /\ Len(buffer') = Len(buffer) + n
    BY <1>1, <2>1, <2>3, ConcatProperties
  <2>5. got' \in Nat /\ got' = Len(buffer') /\ got' <= Announced(header)
    <3>1. Announced(header) \in Nat /\ got = Len(buffer) /\ got <= Announced(header)
      BY <1>6 DEF ReadBody, TcpTypes, TcpTypeOK
    <3>2. QED
      BY <1>1, <2>1, <2>2, <2>4, <3>1
  <2>6. QED
    BY <1>6, <2>3, <2>4, <2>5 DEF ReadBody, TcpTypes, TcpTypeOK, sendVars, handed, Announced
<1>7. CASE Deliver
  <2>1. /\ delivered' \in Seq(Seq(Byte)) /\ early' \in Nat /\ delegate' \in BOOLEAN
        /\ ~delegate' => delivered' = <<>>
    <3>1. /\ delivered \in Seq(Seq(Byte)) /\ early \in Nat /\ delegate \in BOOLEAN
          /\ ~delegate => delivered = <<>>
      BY DEF TcpTypes, TcpTypeOK
    <3>2. Append(delivered, buffer) \in Seq(Seq(Byte))
      BY <1>1, <3>1
    <3>3. HandOver
      BY <1>7 DEF Deliver
    <3>4. CASE delegate
      BY <3>1, <3>2, <3>3, <3>4 DEF HandOver
    <3>5. CASE ~delegate
      BY <3>1, <3>3, <3>5 DEF HandOver
    <3>6. QED
      BY <3>4, <3>5
  <2>2. NoHeader \in Seq(Byte) /\ <<>> \in Seq(Byte)
    BY DEF NoHeader
  <2>3. QED
    BY <1>1, <1>7, <2>1, <2>2 DEF Deliver, TcpTypes, TcpTypeOK, sendVars
<1>8. CASE Stop
  BY <1>8 DEF Stop, TcpTypes, TcpTypeOK, sendVars, handed
<1>9. CASE SetDelegate
  BY <1>9 DEF SetDelegate, TcpTypes, TcpTypeOK, sendVars, Announced
<1>10. CASE UNCHANGED tcpVars
  BY <1>10 DEF tcpVars, TcpTypes, TcpTypeOK, sendVars, readVars, handed, Announced
<1>11. QED
  BY <1>2, <1>3, <1>4, <1>5, <1>6, <1>7, <1>8, <1>9, <1>10 DEF TcpNext, TcpSend, Listen

\* Type correctness of the byte stream, its writers and its reader.
THEOREM TcpTypeCorrect == TcpSpec => []TcpTypeOK
<1>1. TcpTypes => TcpTypeOK
  BY DEF TcpTypes
<1>2. QED
  BY <1>1, TcpTypesInit, TcpTypesStep, PTL DEF TcpSpec

-----------------------------------------------------------------------------
(* Until a header comes in parts or between a header and its body, the     *)
(* reader stays in step with those who write.                              *)

\* Where a byte is: in the header or the body of the n-th packet.
Place(b) == [no |-> b.of[2], part |-> b.part, at |-> b.at]
HeaderAt(n, k) == [no |-> n, part |-> "header", at |-> k]
BodyAt(n, k) == [no |-> n, part |-> "body", at |-> k]

\* the place that comes after a byte,
After(b) ==
    IF b.part = "header"
    THEN IF b.at < HeaderBytes THEN HeaderAt(b.of[2], b.at + 1) ELSE BodyAt(b.of[2], 1)
    ELSE IF b.at < Size[b.of[1]] THEN BodyAt(b.of[2], b.at + 1) ELSE HeaderAt(b.of[2] + 1, 1)

\* and bytes each of which comes after the one before, from first to just before next.
Linked(s, first, next) ==
    IF s = <<>> THEN first = next
    ELSE /\ Place(s[1]) = first
         /\ \A k \in 1 .. Len(s) - 1 : Place(s[k + 1]) = After(s[k])
         /\ next = After(s[Len(s)])

\* A byte of a packet is told by its place.
LEMMA ByPlace ==
    ASSUME NEW b \in Byte, NEW m \in Packet, b.of = m, NEW k,
           NEW part, Place(b) = [no |-> m[2], part |-> part, at |-> k]
    PROVE  b = [of |-> m, part |-> part, at |-> k]
<1>1. b = [of |-> b.of, part |-> b.part, at |-> b.at]
  BY DEF Byte
<1>2. b.part = part /\ b.at = k
  BY DEF Place
<1>3. QED
  BY <1>1, <1>2

\* Where one piece ends the next begins.
LEMMA LinkedConcat ==
    ASSUME NEW s \in Seq(Byte), NEW r \in Seq(Byte), NEW a, NEW b, NEW c,
           Linked(s, a, b), Linked(r, b, c)
    PROVE  Linked(s \o r, a, c)
<1>1. CASE s = <<>>
  <2>1. s \o r = r
    BY <1>1, ConcatEmptySeq
  <2>2. QED
    BY <1>1, <2>1 DEF Linked
<1>2. CASE r = <<>>
  <2>1. s \o r = s
    BY <1>2, ConcatEmptySeq
  <2>2. QED
    BY <1>2, <2>1 DEF Linked
<1>3. CASE s # <<>> /\ r # <<>>
  <2> DEFINE w == s \o r
  <2>1. Len(s) \in Nat \ {0} /\ Len(r) \in Nat \ {0}
    BY <1>3, EmptySeq
  <2>2. /\ Len(w) = Len(s) + Len(r)
        /\ \A i \in 1 .. Len(s) + Len(r) : w[i] = IF i <= Len(s) THEN s[i] ELSE r[i - Len(s)]
    BY ConcatProperties
  <2> HIDE DEF w
  <2>3. /\ Place(s[1]) = a /\ b = After(s[Len(s)])
        /\ \A k \in 1 .. Len(s) - 1 : Place(s[k + 1]) = After(s[k])
        /\ Place(r[1]) = b /\ c = After(r[Len(r)])
        /\ \A k \in 1 .. Len(r) - 1 : Place(r[k + 1]) = After(r[k])
    BY <1>3 DEF Linked
  <2>4. w # <<>> /\ Place(w[1]) = a /\ w[Len(w)] = r[Len(r)]
    <3>1. Len(w) # 0
      BY <2>1, <2>2
    <3>2. QED
      BY <2>1, <2>2, <2>3, <3>1, EmptySeq
  <2>5. ASSUME NEW k \in 1 .. Len(w) - 1 PROVE Place(w[k + 1]) = After(w[k])
    <3>1. k \in 1 .. Len(s) + Len(r) /\ k + 1 \in 1 .. Len(s) + Len(r)
      BY <2>1, <2>2
    <3>2. CASE k < Len(s)
      <4>1. k \in 1 .. Len(s) - 1 /\ k <= Len(s) /\ k + 1 <= Len(s)
        BY <2>1, <3>2
      <4>2. w[k] = s[k] /\ w[k + 1] = s[k + 1]
        BY <2>2, <3>1, <4>1
      <4>3. QED
        BY <2>3, <4>1, <4>2
    <3>3. CASE k = Len(s)
      <4>1. k <= Len(s) /\ ~(k + 1 <= Len(s)) /\ (k + 1) - Len(s) = 1
        BY <2>1, <3>3
      <4>2. w[k] = s[Len(s)] /\ w[k + 1] = r[1]
        BY <2>2, <3>1, <3>3, <4>1
      <4>3. QED
        BY <2>3, <4>2
    <3>4. CASE k > Len(s)
      <4>1. /\ ~(k <= Len(s)) /\ ~(k + 1 <= Len(s))
            /\ k - Len(s) \in 1 .. Len(r) - 1 /\ (k + 1) - Len(s) = (k - Len(s)) + 1
        BY <2>1, <2>2, <3>4
      <4>2. w[k] = r[k - Len(s)] /\ w[k + 1] = r[(k - Len(s)) + 1]
        BY <2>2, <3>1, <4>1
      <4>3. QED
        BY <2>3, <4>1, <4>2
    <3>5. QED
      BY <2>1, <2>2, <3>2, <3>3, <3>4
  <2>6. Linked(w, a, c)
    BY <2>3, <2>4, <2>5 DEF Linked
  <2>7. QED
    BY <2>6 DEF w
<1>4. QED
  BY <1>1, <1>2, <1>3

\* What is left when n bytes have been read begins after the n-th.
LEMMA LinkedRest ==
    ASSUME NEW s \in Seq(Byte), NEW a, NEW b, Linked(s, a, b), NEW n \in 1 .. Len(s)
    PROVE  Linked(SubSeq(s, n + 1, Len(s)), After(s[n]), b)
<1> DEFINE r == SubSeq(s, n + 1, Len(s))
<1>1. /\ Len(s) \in Nat /\ n \in 0 .. Len(s) /\ s # <<>>
  BY EmptySeq
<1>2. /\ r \in Seq(Byte) /\ Len(r) = Len(s) - n
      /\ \A k \in 1 .. Len(s) - n : r[k] = s[n + k]
  BY <1>1, Parts
<1>3. /\ \A k \in 1 .. Len(s) - 1 : Place(s[k + 1]) = After(s[k])
      /\ b = After(s[Len(s)])
  BY <1>1 DEF Linked
<1> HIDE DEF r
<1>4. CASE n = Len(s)
  <2>1. r = <<>>
    BY <1>1, <1>2, <1>4, EmptySeq
  <2>2. QED
    BY <1>3, <1>4, <2>1 DEF Linked, r
<1>5. CASE n < Len(s)
  <2>1. /\ r # <<>> /\ n \in 1 .. Len(s) - 1 /\ 1 \in 1 .. Len(s) - n
        /\ n + (Len(s) - n) = Len(s) /\ Len(s) - n \in 1 .. Len(s) - n
    BY <1>1, <1>2, <1>5
  <2>2. Place(r[1]) = After(s[n]) /\ r[Len(r)] = s[Len(s)]
    BY <1>2, <1>3, <2>1
  <2>3. ASSUME NEW k \in 1 .. Len(r) - 1 PROVE Place(r[k + 1]) = After(r[k])
    <3>1. /\ k \in 1 .. Len(s) - n /\ k + 1 \in 1 .. Len(s) - n
          /\ n + k \in 1 .. Len(s) - 1 /\ n + (k + 1) = (n + k) + 1
      BY <1>1, <1>2
    <3>2. r[k + 1] = s[n + (k + 1)] /\ r[k] = s[n + k]
      BY <1>2, <3>1
    <3>3. Place(s[(n + k) + 1]) = After(s[n + k])
      BY <1>3, <3>1
    <3>4. QED
      BY <3>1, <3>2, <3>3
  <2>4. QED
    BY <1>3, <2>1, <2>2, <2>3 DEF Linked, r
<1>6. QED
  BY <1>1, <1>4, <1>5

\* A header leads up to its body,
LEMMA HeaderLinked ==
    ASSUME NEW m \in Packet
    PROVE  Linked(HeaderOf(m), HeaderAt(m[2], 1), BodyAt(m[2], 1))
<1> DEFINE h == HeaderOf(m)
<1>1. /\ HeaderBytes \in Nat \ {0} /\ h \in Seq(Byte) /\ Len(h) = HeaderBytes
      /\ \A k \in 1 .. HeaderBytes : h[k] = [of |-> m, part |-> "header", at |-> k]
  BY PacketTypes
<1> HIDE DEF h
<1>2. \A k \in 1 .. HeaderBytes :
          /\ Place(h[k]) = HeaderAt(m[2], k)
          /\ After(h[k]) = IF k < HeaderBytes THEN HeaderAt(m[2], k + 1) ELSE BodyAt(m[2], 1)
  BY <1>1 DEF Place, HeaderAt, After
<1>3. h # <<>>
  BY <1>1
<1>4. After(h[Len(h)]) = BodyAt(m[2], 1) /\ Place(h[1]) = HeaderAt(m[2], 1)
  BY <1>1, <1>2
<1>5. ASSUME NEW k \in 1 .. Len(h) - 1 PROVE Place(h[k + 1]) = After(h[k])
  <2>1. k < HeaderBytes /\ k \in 1 .. HeaderBytes /\ k + 1 \in 1 .. HeaderBytes
    BY <1>1
  <2>2. QED
    BY <1>2, <2>1
<1>6. QED
  BY <1>3, <1>4, <1>5 DEF Linked, h

\* and a body to the next header.
LEMMA BodyLinked ==
    ASSUME NEW m \in Packet
    PROVE  Linked(BodyOf(m), BodyAt(m[2], 1), HeaderAt(m[2] + 1, 1))
<1> DEFINE h == BodyOf(m)
           len == Size[m[1]]
<1>1. /\ len \in Nat \ {0} /\ h \in Seq(Byte) /\ Len(h) = len
      /\ \A k \in 1 .. len : h[k] = [of |-> m, part |-> "body", at |-> k]
  BY PacketTypes
<1> HIDE DEF h, len
<1>2. \A k \in 1 .. len :
          /\ Place(h[k]) = BodyAt(m[2], k)
          /\ After(h[k]) = IF k < len THEN BodyAt(m[2], k + 1) ELSE HeaderAt(m[2] + 1, 1)
  <2> SUFFICES ASSUME NEW k \in 1 .. len
               PROVE  /\ Place(h[k]) = BodyAt(m[2], k)
                      /\ After(h[k]) = IF k < len THEN BodyAt(m[2], k + 1)
                                                  ELSE HeaderAt(m[2] + 1, 1)
    OBVIOUS
  <2>1. h[k].of = m /\ h[k].part = "body" /\ h[k].at = k
    BY <1>1
  <2>2. QED
    BY <2>1 DEF Place, BodyAt, After, len
<1>3. h # <<>>
  BY <1>1
<1>4. After(h[Len(h)]) = HeaderAt(m[2] + 1, 1) /\ Place(h[1]) = BodyAt(m[2], 1)
  BY <1>1, <1>2
<1>5. ASSUME NEW k \in 1 .. Len(h) - 1 PROVE Place(h[k + 1]) = After(h[k])
  <2>1. k < len /\ k \in 1 .. len /\ k + 1 \in 1 .. len
    BY <1>1
  <2>2. QED
    BY <1>2, <2>1
<1>6. QED
  BY <1>3, <1>4, <1>5 DEF Linked, h

\* Induction, with a set for the predicate: a natural number outside the set
\* would have a least one.
LEMMA SetInduction ==
    ASSUME NEW S, 0 \in S, \A n \in Nat : n \in S => n + 1 \in S
    PROVE  Nat \subseteq S
<1> SUFFICES ASSUME NEW m \in Nat, m \notin S PROVE FALSE
  OBVIOUS
<1> DEFINE less == OpToRel(<, Nat)
           out == {n \in Nat : n \notin S}
<1>1. IsWellFoundedOn(less, Nat)
  BY NatLessThanWellFounded
<1>2. \A x, y \in Nat : y < x => <<y, x>> \in less
  BY DEF OpToRel
<1> HIDE DEF less
<1>3. PICK x \in out : \A y \in out : <<y, x>> \notin less
  <2>1. \E x \in out : \A y \in out : ~(<<y, x>> \in less)
    BY <1>1, WFMin
  <2>2. QED
    BY <2>1
<1>4. x \in Nat /\ x # 0
  OBVIOUS
<1>5. x - 1 \in Nat /\ x - 1 < x /\ x - 1 + 1 = x
  BY <1>4
<1>6. x - 1 \notin S
  BY <1>5
<1>7. QED
  BY <1>2, <1>3, <1>5, <1>6

\* What is read first is what comes first: the bytes of one header,
LEMMA HeaderRead ==
    ASSUME NEW s \in Seq(Byte), NEW m \in Packet, NEW b, Linked(s, HeaderAt(m[2], 1), b),
           NEW n \in 1 .. HeaderBytes, n <= Len(s),
           \A k \in 1 .. Len(s) : s[k].of[2] = m[2] => s[k].of = m
    PROVE  \A k \in 1 .. n : s[k] = HeaderOf(m)[k]
<1> DEFINE B(k) == [of |-> m, part |-> "header", at |-> k]
           P == {k \in Nat : k + 1 <= n => s[k + 1] = B(k + 1)}
<1>1. /\ HeaderBytes \in Nat \ {0} /\ Len(s) \in Nat /\ s # <<>>
      /\ n \in Nat /\ 1 <= n /\ n <= HeaderBytes
  BY TcpAssumption, EmptySeq DEF TcpAssumption
<1>2. /\ Place(s[1]) = HeaderAt(m[2], 1)
      /\ \A k \in 1 .. Len(s) - 1 : Place(s[k + 1]) = After(s[k])
  BY <1>1 DEF Linked
<1>3. ASSUME NEW k \in 1 .. Len(s), NEW i, Place(s[k]) = HeaderAt(m[2], i) PROVE s[k] = B(i)
  <2>1. s[k] \in Byte /\ s[k].of[2] = m[2]
    BY <1>3, ElementOfSeq DEF Place, HeaderAt
  <2>2. QED
    BY <1>3, <2>1, ByPlace DEF HeaderAt
<1>4. 0 \in P
  BY <1>1, <1>2, <1>3
<1>5. ASSUME NEW k \in Nat, k \in P PROVE k + 1 \in P
  <2> SUFFICES ASSUME (k + 1) + 1 <= n PROVE s[(k + 1) + 1] = B((k + 1) + 1)
    OBVIOUS
  <2>1. /\ k + 1 <= n /\ k + 1 \in 1 .. Len(s) - 1 /\ (k + 1) + 1 \in 1 .. Len(s)
        /\ k + 1 < HeaderBytes
    BY <1>1
  <2>2. s[k + 1] = B(k + 1)
    BY <1>5, <2>1
  <2>3. Place(s[(k + 1) + 1]) = After(s[k + 1])
    BY <1>2, <2>1
  <2>4. After(s[k + 1]) = HeaderAt(m[2], (k + 1) + 1)
    BY <2>1, <2>2 DEF After
  <2>5. QED
    BY <1>3, <2>1, <2>3, <2>4
<1> HIDE DEF P
<1>6. Nat \subseteq P
  BY <1>4, <1>5, SetInduction
<1>7. ASSUME NEW k \in 1 .. n PROVE s[k] = HeaderOf(m)[k]
  <2>1. k - 1 \in Nat /\ (k - 1) + 1 = k /\ k <= n /\ k \in 1 .. HeaderBytes
    BY <1>1
  <2>2. s[k] = B(k)
    BY <1>6, <2>1 DEF P
  <2>3. QED
    BY <2>1, <2>2, PacketTypes
<1>8. QED
  BY <1>7

\* and of one body, from the first that was not read yet.
LEMMA BodyRead ==
    ASSUME NEW s \in Seq(Byte), NEW m \in Packet, NEW g \in Nat, NEW b,
           Linked(s, BodyAt(m[2], g + 1), b),
           NEW n \in 1 .. Size[m[1]] - g, n <= Len(s),
           \A k \in 1 .. Len(s) : s[k].of[2] = m[2] => s[k].of = m
    PROVE  \A k \in 1 .. n : s[k] = BodyOf(m)[g + k]
<1> DEFINE B(k) == [of |-> m, part |-> "body", at |-> k]
           P == {k \in Nat : k + 1 <= n => s[k + 1] = B(g + (k + 1))}
           len == Size[m[1]]
<1>1. len \in Nat /\ \A k \in 1 .. len : BodyOf(m)[k] = B(k)
  BY PacketTypes
<1>2. /\ Len(s) \in Nat /\ s # <<>> /\ n \in Nat /\ 1 <= n /\ n <= len - g
  BY <1>1, EmptySeq
<1>3. /\ Place(s[1]) = BodyAt(m[2], g + 1)
      /\ \A k \in 1 .. Len(s) - 1 : Place(s[k + 1]) = After(s[k])
  BY <1>2 DEF Linked
<1>4. ASSUME NEW k \in 1 .. Len(s), NEW i, Place(s[k]) = BodyAt(m[2], i) PROVE s[k] = B(i)
  <2>1. s[k] \in Byte /\ s[k].of[2] = m[2]
    BY <1>4, ElementOfSeq DEF Place, BodyAt
  <2>2. QED
    BY <1>4, <2>1, ByPlace DEF BodyAt
<1>5. ASSUME NEW k, k < len PROVE After(B(k)) = BodyAt(m[2], k + 1)
  <2>1. B(k).of = m /\ B(k).part = "body" /\ B(k).at = k
    OBVIOUS
  <2>2. QED
    BY <1>5, <2>1 DEF After
<1> HIDE DEF len, B
<1>6. 0 \in P
  BY <1>2, <1>3, <1>4
<1>7. ASSUME NEW k \in Nat, k \in P PROVE k + 1 \in P
  <2> SUFFICES ASSUME (k + 1) + 1 <= n PROVE s[(k + 1) + 1] = B(g + ((k + 1) + 1))
    OBVIOUS
  <2>1. /\ k + 1 <= n /\ k + 1 \in 1 .. Len(s) - 1 /\ (k + 1) + 1 \in 1 .. Len(s)
        /\ g + (k + 1) < len /\ (g + (k + 1)) + 1 = g + ((k + 1) + 1)
    BY <1>2, <1>1
  <2>2. s[k + 1] = B(g + (k + 1))
    BY <1>7, <2>1
  <2>3. Place(s[(k + 1) + 1]) = After(s[k + 1])
    BY <1>3, <2>1
  <2>4. After(s[k + 1]) = BodyAt(m[2], g + ((k + 1) + 1))
    BY <1>5, <2>1, <2>2
  <2>5. QED
    BY <1>4, <2>1, <2>3, <2>4
<1> HIDE DEF P
<1>8. Nat \subseteq P
  BY <1>6, <1>7, SetInduction
<1>9. ASSUME NEW k \in 1 .. n PROVE s[k] = BodyOf(m)[g + k]
  <2>1. k - 1 \in Nat /\ (k - 1) + 1 = k /\ k <= n /\ g + k \in 1 .. len
    BY <1>1, <1>2
  <2>2. s[k] = B(g + k)
    BY <1>8, <2>1 DEF P
  <2>3. QED
    BY <1>1, <2>1, <2>2
<1>10. QED
  BY <1>9

\* The packet the listen thread reads, the place of the byte it is to read next, and
\* that of the byte send() is to write next.
Current == early + Len(delivered) + 1
Awaited ==
    IF rpc = "header" THEN IF got = 0 THEN HeaderAt(Current, 1) ELSE BodyAt(Current, 1)
    ELSE IF got < Size[sent[Current][1]] THEN BodyAt(Current, got + 1)
                                         ELSE HeaderAt(Current + 1, 1)
Coming ==
    IF \E t \in Thread : writing[t] # 0 THEN BodyAt(Len(sent), 1)
                                        ELSE HeaderAt(Len(sent) + 1, 1)

\* The inductive invariant.  Packets are numbered as their headers are written, and
\* while none was written between another's header and body, the last one only may
\* lack its body;
Numbered ==
    /\ \A j \in 1 .. Len(sent) : sent[j][2] = j
    /\ \A t \in Thread : writing[t] # 0 => /\ writing[t] \in 1 .. Len(sent)
                                           /\ sent[writing[t]] = <<t, writing[t]>>
    /\ ~mixed => \A t \in Thread : writing[t] \in {0, Len(sent)}

\* the bytes of the stream are of packets sent,
Genuine ==
    \A k \in 1 .. Len(stream) : /\ stream[k].of[2] \in 1 .. Len(sent)
                                /\ stream[k].of = sent[stream[k].of[2]]

\* the packets handed over follow those that were dropped,
Handed ==
    /\ early + Len(delivered) <= Len(sent)
    /\ \A j \in 1 .. Len(delivered) : delivered[j] = BodyOf(sent[early + j])

\* the stream leads from what the listen thread awaits to what is coming,
Aligned == Linked(stream, Awaited, Coming)

\* and what has been read is the beginning of the next packet.
Read ==
    /\ rpc = "header" => got \in {0, HeaderBytes} /\ Len(header) <= HeaderBytes
    /\ rpc = "body" \/ got > 0 => Current <= Len(sent) /\ header = HeaderOf(sent[Current])
    /\ rpc = "body" => \A k \in 1 .. got : buffer[k] = BodyOf(sent[Current])[k]

\* The listen thread is where the bytes it has read leave it.
InPlace == rpc # "astray" /\ Handed /\ (rpc \in {"header", "body"} => Aligned /\ Read)
Following == Numbered /\ Genuine /\ (~split /\ ~mixed => InPlace)

\* The types the lemmas on Following use.
LEMMA FollowingTypes ==
    ASSUME TcpTypes
    PROVE  /\ sent \in Seq(Packet) /\ stream \in Seq(Byte) /\ delivered \in Seq(Seq(Byte))
           /\ Len(sent) \in Nat /\ Len(stream) \in Nat /\ Len(delivered) \in Nat
           /\ HeaderBytes \in Nat \ {0} /\ MaxSends \in Nat /\ got \in Nat /\ early \in Nat
           /\ header \in Seq(Byte) /\ Len(header) \in Nat
           /\ Current \in Nat /\ Current >= 1
           /\ \A n \in 1 .. Len(sent) : sent[n] \in Packet
<1>1. /\ sent \in Seq(Packet) /\ stream \in Seq(Byte) /\ delivered \in Seq(Seq(Byte))
      /\ HeaderBytes \in Nat \ {0} /\ MaxSends \in Nat /\ got \in Nat /\ early \in Nat
      /\ header \in Seq(Byte)
  BY TcpAssumption DEF TcpTypes, TcpTypeOK, TcpAssumption
<1>2. /\ Len(sent) \in Nat /\ Len(stream) \in Nat /\ Len(header) \in Nat
      /\ \A n \in 1 .. Len(sent) : sent[n] \in Packet
  BY <1>1, LenProperties, ElementOfSeq
<1>3. Len(delivered) \in Nat
  BY <1>1, LenProperties
<1>4. Current \in Nat /\ Current >= 1
  BY <1>1, <1>3 DEF Current
<1>5. QED
  BY <1>1, <1>2, <1>3, <1>4

\* The stream begins with the first header awaited.
LEMMA FollowingInit == TcpInit => Following
<1> SUFFICES ASSUME TcpInit PROVE Following
  OBVIOUS
<1>1. Len(<<>>) = 0
  OBVIOUS
<1>2. Numbered /\ Genuine
  BY <1>1 DEF TcpInit, Numbered, Genuine
<1>3. Current = 1
  BY <1>1 DEF TcpInit, Current
<1>4. Awaited = HeaderAt(1, 1) /\ Coming = HeaderAt(1, 1)
  BY <1>1, <1>3 DEF TcpInit, Awaited, Coming
<1>5. Aligned
  BY <1>1, <1>4 DEF TcpInit, Aligned, Linked
<1>6. rpc # "astray" /\ Handed /\ Read
  <2>1. HeaderBytes \in Nat \ {0}
    BY TcpAssumption DEF TcpAssumption
  <2>2. /\ rpc = "header" /\ got = 0 /\ Len(header) = 0
        /\ early + Len(delivered) = 0 /\ Len(delivered) = 0 /\ Len(sent) = 0
    BY <1>1 DEF TcpInit, NoHeader
  <2>3. QED
    BY <2>1, <2>2 DEF Handed, Read
<1>7. QED
  BY <1>2, <1>5, <1>6 DEF Following, InPlace

\* What is written to the stream is of packets sent.
LEMMA GenuineWrite ==
    ASSUME TcpTypes, Genuine, NEW m \in Packet, NEW h \in Seq(Byte),
           \A k \in 1 .. Len(h) : h[k].of = m, stream' = stream \o h,
           Len(sent') \in Nat, Len(sent) <= Len(sent'),
           \A j \in 1 .. Len(sent) : sent'[j] = sent[j],
           m[2] \in 1 .. Len(sent'), sent'[m[2]] = m
    PROVE  Genuine'
<1>1. /\ Len(stream') = Len(stream) + Len(h) /\ Len(h) \in Nat
      /\ \A k \in 1 .. Len(stream) + Len(h) :
             stream'[k] = IF k <= Len(stream) THEN stream[k] ELSE h[k - Len(stream)]
  BY FollowingTypes, ConcatProperties, LenProperties
<1>2. ASSUME NEW k \in 1 .. Len(stream')
      PROVE  /\ stream'[k].of[2] \in 1 .. Len(sent')
             /\ stream'[k].of = sent'[stream'[k].of[2]]
  <2>1. CASE k <= Len(stream)
    <3>1. k \in 1 .. Len(stream) /\ stream'[k] = stream[k]
      BY <1>1, <2>1, FollowingTypes
    <3>2. stream[k].of[2] \in 1 .. Len(sent) /\ stream[k].of = sent[stream[k].of[2]]
      BY <3>1 DEF Genuine
    <3>3. \A i \in 1 .. Len(sent) : i \in 1 .. Len(sent')
      BY FollowingTypes
    <3>4. QED
      BY <3>1, <3>2, <3>3
  <2>2. CASE ~(k <= Len(stream))
    <3>1. k - Len(stream) \in 1 .. Len(h) /\ k \in 1 .. Len(stream) + Len(h)
      BY <1>1, <2>2, FollowingTypes
    <3>2. stream'[k].of = m
      BY <1>1, <2>2, <3>1
    <3>3. QED
      BY <3>2
  <2>3. QED
    BY <2>1, <2>2
<1>3. QED
  BY <1>2 DEF Genuine

\* send() writes a header.
LEMMA FollowingWriteHeader ==
    ASSUME TcpTypes, Following, NEW t \in Thread, WriteHeader(t)
    PROVE  Following'
<1> DEFINE n == Len(sent) + 1
           m == <<t, n>>
           h == HeaderOf(m)
<1>1. /\ writing[t] = 0 /\ Len(sent) < MaxSends
      /\ writing' = [writing EXCEPT ![t] = n]
      /\ sent' = Append(sent, m) /\ stream' = stream \o h
      /\ mixed' = (mixed \/ \E u \in Thread : writing[u] # 0)
      /\ UNCHANGED <<rpc, header, got, buffer, delegate, early, delivered, split>>
  BY DEF WriteHeader, readVars, handed
<1>2. n \in 1 .. MaxSends /\ n \in Nat
  BY <1>1, FollowingTypes
<1>3. m \in Packet /\ m[1] = t /\ m[2] = n
  BY <1>2 DEF Packet
<1> HIDE DEF m
<1>4. /\ h \in Seq(Byte) /\ Len(h) = HeaderBytes
      /\ \A k \in 1 .. HeaderBytes : h[k].of = m
  <2>1. \A k \in 1 .. HeaderBytes : h[k] = [of |-> m, part |-> "header", at |-> k]
    BY <1>3, PacketTypes
  <2>2. ASSUME NEW k \in 1 .. HeaderBytes PROVE h[k].of = m
    <3>1. h[k] = [of |-> m, part |-> "header", at |-> k]
      BY <2>1
    <3>2. QED
      BY <3>1
  <2>3. QED
    BY <1>3, <2>2, PacketTypes
<1>5. /\ Len(sent') = n /\ sent'[n] = m
      /\ \A j \in 1 .. Len(sent) : sent'[j] = sent[j]
  BY <1>1, <1>3, FollowingTypes, AppendProperties
<1>6. Linked(h, HeaderAt(n, 1), BodyAt(n, 1))
  BY <1>3, HeaderLinked
<1> HIDE DEF h
<1>7. Numbered'
  <2>1. \A j \in 1 .. n : sent'[j][2] = j
    <3>1. \A j \in 1 .. n : j \in 1 .. Len(sent) \/ j = n
      BY FollowingTypes
    <3>2. QED
      BY <1>3, <1>5, <3>1 DEF Following, Numbered
  <2>2. ASSUME NEW u \in Thread, writing'[u] # 0
        PROVE  writing'[u] \in 1 .. n /\ sent'[writing'[u]] = <<u, writing'[u]>>
    <3>1. writing \in [Thread -> 0 .. MaxSends]
      BY DEF TcpTypes, TcpTypeOK
    <3>2. CASE u = t
      <4>1. writing'[u] = n
        BY <1>1, <3>1, <3>2
      <4>2. QED
        BY <1>2, <1>5, <3>2, <4>1 DEF m
    <3>3. CASE u # t
      <4>1. writing'[u] = writing[u]
        BY <1>1, <3>1, <3>3
      <4>2. writing[u] \in 1 .. Len(sent) /\ sent[writing[u]] = <<u, writing[u]>>
        BY <2>2, <4>1 DEF Following, Numbered
      <4>3. writing[u] \in 1 .. n
        BY <4>2, FollowingTypes
      <4>4. QED
        BY <1>5, <4>1, <4>2, <4>3
    <3>4. QED
      BY <3>2, <3>3
  <2>3. ASSUME ~mixed', NEW u \in Thread PROVE writing'[u] \in {0, n}
    <3>1. writing \in [Thread -> 0 .. MaxSends] /\ writing[u] = 0
      BY <1>1, <2>3 DEF TcpTypes, TcpTypeOK
    <3>2. QED
      BY <1>1, <3>1
  <2>4. QED
    BY <1>5, <2>1, <2>2, <2>3 DEF Numbered
<1>8. Genuine'
  <2>1. n \in 1 .. n /\ Len(sent) <= n
    BY <1>2, FollowingTypes
  <2> HIDE DEF n
  <2>2. QED
    BY <1>1, <1>2, <1>3, <1>4, <1>5, <2>1, GenuineWrite DEF Following
<1>9. ASSUME ~split', ~mixed' PROVE InPlace'
  <2>1. InPlace /\ \A u \in Thread : writing[u] = 0
    BY <1>1, <1>9 DEF Following
  <2>2. Current' = Current
    BY <1>1 DEF Current
  <2>3. Handed'
    <3>1. \A j \in 1 .. Len(delivered) : early + j \in 1 .. Len(sent)
      BY <2>1, FollowingTypes DEF InPlace, Handed
    <3>2. early + Len(delivered) <= n
      BY <2>1, FollowingTypes DEF InPlace, Handed
    <3> HIDE DEF n
    <3>3. QED
      BY <1>1, <1>5, <2>1, <3>1, <3>2 DEF InPlace, Handed
  <2>4. rpc' # "astray"
    BY <1>1, <2>1 DEF InPlace
  <2>5. ASSUME rpc \in {"header", "body"} PROVE Aligned' /\ Read'
    <3>1. Aligned /\ Read
      BY <2>1, <2>5 DEF InPlace
    <3>2. Current <= Len(sent) => sent'[Current] = sent[Current]
      BY <1>5, FollowingTypes
    <3>3. Awaited' = Awaited
      <4>1. CASE rpc = "header"
        BY <1>1, <2>2, <4>1 DEF Awaited
      <4>2. CASE rpc = "body"
        BY <1>1, <2>2, <3>1, <3>2, <4>2 DEF Awaited, Read
      <4>3. QED
        BY <2>5, <4>1, <4>2
    <3>4. Coming = HeaderAt(n, 1)
      BY <2>1 DEF Coming
    <3>5. Coming' = BodyAt(n, 1)
      <4>1. writing'[t] = n /\ n # 0
        BY <1>1, FollowingTypes DEF TcpTypes, TcpTypeOK
      <4> HIDE DEF n
      <4>2. QED
        BY <1>5, <4>1 DEF Coming
    <3>6. Linked(stream', Awaited', Coming')
      <4> HIDE DEF n
      <4>1. QED
        BY <1>1, <1>4, <1>6, <3>1, <3>3, <3>4, <3>5, FollowingTypes, LinkedConcat DEF Aligned
    <3>7. Read'
      <4>1. Current <= Len(sent) => Current <= n
        BY FollowingTypes
      <4> HIDE DEF n
      <4>2. QED
        BY <1>1, <1>5, <2>2, <3>1, <3>2, <4>1 DEF Read
    <3>8. QED
      BY <3>6, <3>7 DEF Aligned
  <2>6. QED
    BY <1>1, <2>3, <2>4, <2>5 DEF InPlace
<1>10. QED
  BY <1>7, <1>8, <1>9 DEF Following

\* send() writes a body.
LEMMA FollowingWriteBody ==
    ASSUME TcpTypes, Following, NEW t \in Thread, WriteBody(t)
    PROVE  Following'
<1> DEFINE m == <<t, writing[t]>>
           h == BodyOf(m)
<1>1. /\ writing[t] # 0 /\ writing' = [writing EXCEPT ![t] = 0] /\ stream' = stream \o h
      /\ UNCHANGED <<sent, mixed, rpc, header, got, buffer, delegate, early, delivered, split>>
  BY DEF WriteBody, readVars, handed
<1>2. writing \in [Thread -> 0 .. MaxSends]
  BY DEF TcpTypes, TcpTypeOK
<1>3. m \in Packet /\ m[2] \in 1 .. Len(sent) /\ sent[m[2]] = m /\ m[2] = writing[t]
  BY <1>1, <1>2 DEF Following, Numbered, Packet
<1> HIDE DEF m
<1>4. /\ h \in Seq(Byte) /\ Linked(h, BodyAt(m[2], 1), HeaderAt(m[2] + 1, 1))
      /\ \A k \in 1 .. Len(h) : h[k].of = m
  <2>1. /\ h \in Seq(Byte) /\ Linked(h, BodyAt(m[2], 1), HeaderAt(m[2] + 1, 1))
        /\ Len(h) = Size[m[1]]
    BY <1>3, PacketTypes, BodyLinked
  <2>2. \A k \in 1 .. Size[m[1]] : h[k] = [of |-> m, part |-> "body", at |-> k]
    BY <1>3, PacketTypes
  <2>3. ASSUME NEW k \in 1 .. Len(h) PROVE h[k].of = m
    <3>1. k \in 1 .. Size[m[1]]
      BY <2>1
    <3>2. h[k] = [of |-> m, part |-> "body", at |-> k]
      BY <2>2, <3>1
    <3>3. QED
      BY <3>2
  <2>4. QED
    BY <2>1, <2>3
<1> HIDE DEF h
<1>5. Numbered'
  <2>1. \A u \in Thread : writing'[u] = IF u = t THEN 0 ELSE writing[u]
    BY <1>1, <1>2
  <2>2. QED
    BY <1>1, <2>1 DEF Following, Numbered
<1>6. Genuine'
  <2>1. /\ sent' = sent /\ stream' = stream \o h /\ Len(sent) <= Len(sent)
        /\ Len(sent) \in Nat /\ Genuine
    BY <1>1, FollowingTypes DEF Following
  <2>2. QED
    BY <1>3, <1>4, <2>1, GenuineWrite
<1>7. ASSUME ~split', ~mixed' PROVE InPlace'
  <2>1. InPlace /\ \A u \in Thread : writing[u] \in {0, Len(sent)}
    BY <1>1, <1>7 DEF Following, Numbered
  <2>2. Current' = Current /\ Awaited' = Awaited
    BY <1>1 DEF Current, Awaited
  <2>3. m[2] = Len(sent) /\ Coming = BodyAt(Len(sent), 1)
    BY <1>1, <1>3, <2>1 DEF Coming
  <2>4. Coming' = HeaderAt(Len(sent) + 1, 1)
    <3>1. ASSUME NEW u \in Thread PROVE writing'[u] = 0
      <4>1. CASE u = t
        BY <1>1, <1>2, <4>1
      <4>2. CASE u # t /\ writing[u] # 0
        <5>1. sent[Len(sent)] = <<u, writing[u]>> /\ sent[Len(sent)] = <<t, writing[t]>>
          BY <1>1, <2>1, <4>2 DEF Following, Numbered
        <5>2. QED
          BY <4>2, <5>1
      <4>3. CASE u # t /\ writing[u] = 0
        BY <1>1, <1>2, <4>3
      <4>4. QED
        BY <4>1, <4>2, <4>3
    <3>2. QED
      BY <1>1, <3>1 DEF Coming
  <2>5. Aligned => Aligned'
    BY <1>1, <1>4, <2>2, <2>3, <2>4, FollowingTypes, LinkedConcat DEF Aligned
  <2>6. Handed' /\ (Read => Read')
    BY <1>1, <2>1, <2>2 DEF InPlace, Handed, Read
  <2>7. QED
    BY <1>1, <2>1, <2>5, <2>6 DEF InPlace
<1>8. QED
  BY <1>5, <1>6, <1>7 DEF Following

\* read_some takes n bytes off the stream.
LEMMA Taken ==
    ASSUME TcpTypes, Numbered, Genuine, NEW n \in 1 .. Len(stream),
           stream' = SubSeq(stream, n + 1, Len(stream)), UNCHANGED sendVars
    PROVE  /\ Numbered' /\ Genuine'
           /\ Aligned /\ Awaited' = After(stream[n]) => Aligned'
<1>1. UNCHANGED <<writing, sent, mixed>> /\ Coming' = Coming
  BY DEF Coming, sendVars
<1>2. n \in 0 .. Len(stream) /\ Len(stream) \in Nat
  BY FollowingTypes
<1>3. /\ Len(stream') = Len(stream) - n
      /\ \A k \in 1 .. Len(stream) - n : stream'[k] = stream[n + k]
  BY <1>2, FollowingTypes, Parts
<1>4. Genuine'
  <2>1. ASSUME NEW k \in 1 .. Len(stream')
        PROVE  k \in 1 .. Len(stream) - n /\ n + k \in 1 .. Len(stream)
    BY <1>2, <1>3
  <2>2. QED
    BY <1>1, <1>3, <2>1 DEF Genuine
<1>5. Aligned /\ Awaited' = After(stream[n]) => Aligned'
  BY <1>1, FollowingTypes, LinkedRest DEF Aligned
<1>6. QED
  BY <1>1, <1>4, <1>5 DEF Numbered

\* The bytes of the packet that is read.
LEMMA OwnBytes ==
    ASSUME TcpTypes, Numbered, Genuine, Current <= Len(sent)
    PROVE  /\ sent[Current] \in Packet /\ sent[Current][2] = Current
           /\ \A k \in 1 .. Len(stream) :
                  stream[k].of[2] = sent[Current][2] => stream[k].of = sent[Current]
<1>1. Current \in 1 .. Len(sent)
  BY FollowingTypes
<1>2. QED
  BY <1>1, FollowingTypes DEF Numbered, Genuine

\* The listen thread reads a header, or a part of one.
LEMMA FollowingReadHeader ==
    ASSUME TcpTypes, Following, ReadHeader
    PROVE  Following'
<1> DEFINE m == sent[Current]
<1>1. PICK n \in 1 .. HeaderBytes - got :
          /\ n <= Len(stream)
          /\ header' = SubSeq(stream, 1, n) \o SubSeq(header, n + 1, Len(header))
          /\ got' = got + n
          /\ split' = (split \/ n < HeaderBytes)
          /\ stream' = SubSeq(stream, n + 1, Len(stream))
  BY DEF ReadHeader
<1>2. /\ rpc = "header" /\ rpc' = rpc
      /\ UNCHANGED <<sendVars, writing, sent, mixed, delegate, early, delivered>>
      /\ Current' = Current
  BY DEF ReadHeader, sendVars, handed, Current
<1>3. n \in 1 .. Len(stream)
  BY <1>1, FollowingTypes
<1>4. Numbered' /\ Genuine' /\ (Aligned /\ Awaited' = After(stream[n]) => Aligned')
  BY <1>1, <1>2, <1>3, Taken DEF Following
<1>5. ASSUME ~split', ~mixed' PROVE InPlace'
  <2>1. Handed /\ Aligned /\ Read
    BY <1>1, <1>2, <1>5 DEF Following, InPlace
  <2>2. n = HeaderBytes /\ got = 0 /\ n \in 1 .. HeaderBytes
    <3>1. ~(n < HeaderBytes)
      BY <1>1, <1>5
    <3>2. QED
      BY <1>1, <3>1, FollowingTypes
  <2>3. Linked(stream, HeaderAt(Current, 1), Coming)
    BY <1>2, <2>1, <2>2 DEF Awaited, Aligned
  <2>4. Current <= Len(sent)
    <3>1. stream # <<>> /\ 1 \in 1 .. Len(stream)
      BY <1>3, FollowingTypes, EmptySeq
    <3>2. stream[1].of[2] = Current
      BY <2>3, <3>1 DEF Linked, Place, HeaderAt
    <3>3. QED
      BY <3>1, <3>2, FollowingTypes DEF Following, Genuine
  <2>5. /\ m \in Packet /\ m[2] = Current
        /\ \A k \in 1 .. Len(stream) : stream[k].of[2] = m[2] => stream[k].of = m
    BY <2>4, OwnBytes DEF Following
  <2> HIDE DEF m
  <2>6. \A k \in 1 .. n : stream[k] = HeaderOf(m)[k]
    BY <1>1, <2>2, <2>3, <2>5, FollowingTypes, HeaderRead
  <2>7. header' = HeaderOf(m) /\ Len(header') = HeaderBytes
    <3> DEFINE a == SubSeq(stream, 1, n)
               b == SubSeq(header, n + 1, Len(header))
               h == HeaderOf(m)
    <3>1. a \in Seq(Byte) /\ Len(a) = n /\ \A k \in 1 .. n : a[k] = stream[k]
      <4>1. n \in 0 .. Len(stream)
        BY <1>3
      <4>2. QED
        BY <4>1, FollowingTypes, Parts
    <3>2. h \in Seq(Byte) /\ Len(h) = n
      BY <2>2, <2>5, PacketTypes
    <3>3. a = h
      BY <2>6, <3>1, <3>2, SeqEqual
    <3>4. b = <<>>
      <4>1. Len(header) < n + 1 /\ Len(header) \in Int /\ n + 1 \in Int
        BY <1>2, <2>1, <2>2, FollowingTypes DEF Read
      <4>2. QED
        BY <4>1, SubSeqEmpty
    <3>5. QED
      BY <1>1, <2>2, <3>1, <3>2, <3>3, <3>4, ConcatEmptySeq
  <2>8. Awaited' = After(stream[n])
    <3>1. Awaited' = BodyAt(Current, 1)
      BY <1>1, <1>2, <2>2, FollowingTypes DEF Awaited
    <3>2. HeaderOf(m)[n] = [of |-> m, part |-> "header", at |-> n]
      BY <2>2, <2>5, PacketTypes
    <3>3. stream[n] = HeaderOf(m)[n]
      BY <2>2, <2>6
    <3>4. After(stream[n]) = BodyAt(Current, 1)
      BY <2>2, <2>5, <3>2, <3>3, FollowingTypes DEF After
    <3>5. QED
      BY <3>1, <3>4
  <2>9. Aligned'
    BY <1>4, <2>1, <2>8
  <2>10. Read'
    <3>1. /\ rpc' = "header" /\ got' = HeaderBytes /\ sent' = sent
      BY <1>1, <1>2, <2>2, FollowingTypes
    <3>2. header' = HeaderOf(sent'[Current'])
      BY <1>2, <2>7 DEF m
    <3>3. Len(header') <= HeaderBytes
      BY <2>7, FollowingTypes
    <3>4. QED
      BY <1>2, <2>4, <3>1, <3>2, <3>3 DEF Read
  <2>11. Handed'
    BY <1>2, <2>1 DEF Handed
  <2>12. QED
    BY <1>2, <2>9, <2>10, <2>11 DEF InPlace
<1>6. QED
  BY <1>4, <1>5 DEF Following

\* The size a header holds.
LEMMA SizeRead ==
    ASSUME TcpTypes, NEW m \in Packet, header = HeaderOf(m)
    PROVE  Announced(header) = Size[m[1]]
<1>1. 1 \in 1 .. HeaderBytes
  BY FollowingTypes
<1>2. header[1] = [of |-> m, part |-> "header", at |-> 1]
  BY <1>1, PacketTypes
<1>3. header[1].of = m
  BY <1>2
<1>4. QED
  BY <1>3 DEF Announced

\* The listen thread has a header, and takes the size from it.
LEMMA FollowingStartBody ==
    ASSUME TcpTypes, Following, StartBody
    PROVE  Following'
<1> DEFINE m == sent[Current]
<1>1. /\ rpc = "header" /\ got = HeaderBytes /\ got' = 0
      /\ rpc' = IF IsHeader(header) THEN "body" ELSE "astray"
      /\ UNCHANGED <<writing, sent, mixed, stream, header, buffer, delegate, early,
                     delivered, split>>
  BY DEF StartBody, sendVars, handed
<1>2. Numbered' /\ Genuine'
  BY <1>1 DEF Following, Numbered, Genuine
<1>3. ASSUME ~split', ~mixed' PROVE InPlace'
  <2>1. Handed /\ Aligned /\ Read
    BY <1>1, <1>3 DEF Following, InPlace
  <2>2. Current \in 1 .. Len(sent) /\ header = HeaderOf(m)
    BY <1>1, <2>1, FollowingTypes DEF Read
  <2>3. m \in Packet /\ Size[m[1]] \in Nat \ {0}
    BY <2>2, FollowingTypes, PacketTypes
  <2>4. rpc' = "body"
    BY <1>1, <2>2 DEF IsHeader
  <2>5. Current' = Current /\ Coming' = Coming /\ Handed'
    BY <1>1, <2>1 DEF Current, Coming, Handed
  <2>6. Awaited' = Awaited
    <3>1. Awaited = BodyAt(Current, 1)
      BY <1>1, FollowingTypes DEF Awaited
    <3>2. 0 < Size[m[1]] /\ 0 + 1 = 1
      BY <2>3
    <3>3. Awaited' = BodyAt(Current, 1)
      BY <1>1, <2>4, <2>5, <3>2 DEF Awaited
    <3>4. QED
      BY <3>1, <3>3
  <2>7. Aligned'
    BY <1>1, <2>1, <2>5, <2>6 DEF Aligned
  <2>8. Read'
    BY <1>1, <2>2, <2>4, <2>5, FollowingTypes DEF Read
  <2>9. QED
    BY <2>4, <2>5, <2>7, <2>8 DEF InPlace
<1>4. QED
  BY <1>2, <1>3 DEF Following

\* The listen thread reads some of a body.
LEMMA FollowingReadBody ==
    ASSUME TcpTypes, Following, ReadBody
    PROVE  Following'
<1> DEFINE m == sent[Current]
<1>1. PICK n \in 1 .. Announced(header) - got :
          /\ n <= Len(stream)
          /\ buffer' = buffer \o SubSeq(stream, 1, n)
          /\ got' = got + n
          /\ stream' = SubSeq(stream, n + 1, Len(stream))
  BY DEF ReadBody
<1>2. /\ rpc = "body" /\ rpc' = rpc
      /\ UNCHANGED <<sendVars, writing, sent, mixed, header, delegate, early, delivered, split>>
      /\ Current' = Current
  BY DEF ReadBody, sendVars, handed, Current
<1>3. Announced(header) \in Nat /\ buffer \in Seq(Byte) /\ Len(buffer) = got /\ got \in Nat
  BY <1>2 DEF TcpTypes, TcpTypeOK
<1>4. n \in 1 .. Len(stream)
  BY <1>1, <1>3, FollowingTypes
<1>5. Numbered' /\ Genuine' /\ (Aligned /\ Awaited' = After(stream[n]) => Aligned')
  BY <1>1, <1>2, <1>4, Taken DEF Following
<1>6. ASSUME ~split', ~mixed' PROVE InPlace'
  <2>1. Handed /\ Aligned /\ Read
    BY <1>2, <1>6 DEF Following, InPlace
  <2>2. Current <= Len(sent) /\ header = HeaderOf(m)
    BY <1>2, <2>1 DEF Read
  <2>3. /\ m \in Packet /\ m[2] = Current
        /\ \A k \in 1 .. Len(stream) : stream[k].of[2] = m[2] => stream[k].of = m
    BY <2>2, OwnBytes DEF Following
  <2> HIDE DEF m
  <2>4. Announced(header) = Size[m[1]]
    BY <2>2, <2>3, SizeRead
  <2>5. n \in 1 .. Size[m[1]] - got /\ got < Size[m[1]] /\ n <= Len(stream)
    BY <1>1, <1>3, <2>4
  <2>6. Linked(stream, BodyAt(m[2], got + 1), Coming)
    BY <1>2, <2>1, <2>3, <2>5 DEF Aligned, Awaited, m
  <2>7. \A k \in 1 .. n : stream[k] = BodyOf(m)[got + k]
    BY <1>3, <2>3, <2>5, <2>6, FollowingTypes, BodyRead
  <2>8. Awaited' = After(stream[n])
    <3> DEFINE len == Size[m[1]]
    <3>1. got + n \in 1 .. len /\ n \in 1 .. n /\ len \in Nat
      BY <1>3, <2>4, <2>5
    <3>2. BodyOf(m)[got + n] = [of |-> m, part |-> "body", at |-> got + n]
      BY <2>3, <3>1, PacketTypes
    <3>3. stream[n] = [of |-> m, part |-> "body", at |-> got + n]
      BY <2>7, <3>1, <3>2
    <3>4. /\ stream[n].of = m /\ stream[n].part = "body" /\ stream[n].at = got + n
      BY <3>3
    <3>5. After(stream[n]) = IF got + n < Size[m[1]] THEN BodyAt(Current, got + n + 1)
                                                     ELSE HeaderAt(Current + 1, 1)
      BY <2>3, <3>4 DEF After
    <3>6. Awaited' = IF got + n < Size[m[1]] THEN BodyAt(Current, got + n + 1)
                                             ELSE HeaderAt(Current + 1, 1)
      BY <1>1, <1>2 DEF Awaited, m
    <3>7. QED
      BY <3>5, <3>6
  <2>9. Read'
    <3> DEFINE s == SubSeq(stream, 1, n)
    <3>1. s \in Seq(Byte) /\ Len(s) = n /\ \A k \in 1 .. n : s[k] = stream[k]
      <4>1. n \in 0 .. Len(stream)
        BY <1>4
      <4>2. QED
        BY <4>1, FollowingTypes, Parts
    <3>2. \A k \in 1 .. got + n : buffer'[k] = IF k <= got THEN buffer[k] ELSE s[k - got]
      BY <1>1, <1>3, <3>1, ConcatProperties
    <3> HIDE DEF s
    <3>3. ASSUME NEW k \in 1 .. got + n PROVE buffer'[k] = BodyOf(m)[k]
      <4>1. CASE k <= got
        <5>1. k \in 1 .. got
          BY <1>3, <4>1
        <5>2. buffer[k] = BodyOf(m)[k]
          BY <1>2, <2>1, <5>1 DEF Read, m
        <5>3. QED
          BY <3>2, <4>1, <5>2
      <4>2. CASE ~(k <= got)
        <5>1. k - got \in 1 .. n /\ got + (k - got) = k
          BY <1>3, <1>4, <4>2
        <5>2. s[k - got] = BodyOf(m)[got + (k - got)]
          BY <2>7, <3>1, <5>1
        <5>3. QED
          BY <3>2, <4>2, <5>1, <5>2
      <4>3. QED
        BY <4>1, <4>2
    <3>4. QED
      BY <1>1, <1>2, <2>2, <3>3 DEF Read, m
  <2>10. Handed'
    BY <1>2, <2>1 DEF Handed
  <2>11. QED
    BY <1>2, <1>5, <2>1, <2>8, <2>9, <2>10 DEF InPlace
<1>7. QED
  BY <1>5, <1>6 DEF Following

\* The body is complete, and is handed to onPacket, if there is one.
LEMMA FollowingDeliver ==
    ASSUME TcpTypes, Following, Deliver
    PROVE  Following'
<1> DEFINE m == sent[Current]
<1>1. /\ rpc = "body" /\ got = Announced(header) /\ HandOver
      /\ rpc' = "header" /\ header' = <<>> /\ got' = 0
      /\ UNCHANGED <<writing, sent, mixed, stream, split>>
  BY DEF Deliver, NoHeader, sendVars
<1>2. Numbered' /\ Genuine'
  BY <1>1 DEF Following, Numbered, Genuine
<1>3. /\ buffer \in Seq(Byte) /\ Len(buffer) = got
  BY <1>1 DEF TcpTypes, TcpTypeOK
<1>4. ASSUME ~split', ~mixed' PROVE InPlace'
  <2>1. Handed /\ Aligned /\ Read
    BY <1>1, <1>4 DEF Following, InPlace
  <2>2. Current <= Len(sent) /\ header = HeaderOf(m)
    BY <1>1, <2>1 DEF Read
  <2>3. m \in Packet
    BY <2>2, OwnBytes DEF Following
  <2>4. buffer = BodyOf(m)
    <3> HIDE DEF m
    <3>1. BodyOf(m) \in Seq(Byte) /\ Len(BodyOf(m)) = got
      BY <1>1, <2>2, <2>3, SizeRead, PacketTypes
    <3>2. \A k \in 1 .. got : buffer[k] = BodyOf(m)[k]
      BY <1>1, <2>1 DEF Read, m
    <3>3. QED
      BY <1>3, <3>1, <3>2, SeqEqual
  <2>5. Handed' /\ Current' = Current + 1
    <3>1. CASE delegate
      <4>1. delivered' = Append(delivered, buffer) /\ early' = early
        BY <1>1, <3>1 DEF HandOver
      <4>2. /\ Len(delivered') = Len(delivered) + 1
            /\ delivered'[Len(delivered) + 1] = buffer
            /\ \A j \in 1 .. Len(delivered) : delivered'[j] = delivered[j]
        BY <1>3, <4>1, FollowingTypes, AppendProperties
      <4>3. ASSUME NEW j \in 1 .. Len(delivered) + 1
            PROVE  delivered'[j] = BodyOf(sent[early + j])
        <5>1. CASE j \in 1 .. Len(delivered)
          BY <2>1, <4>2, <5>1 DEF Handed
        <5>2. CASE j \notin 1 .. Len(delivered)
          <6>1. \A l, e \in Nat : \A i \in 1 .. l + 1 :
                    i \notin 1 .. l => i = l + 1 /\ e + i = e + l + 1
            OBVIOUS
          <6>2. j = Len(delivered) + 1 /\ early + j = Current
            BY <5>2, <6>1, FollowingTypes DEF Current
          <6>3. QED
            BY <2>4, <4>2, <6>2
        <5>3. QED
          BY <5>1, <5>2
      <4>4. Current' = Current + 1
        BY <4>1, <4>2, FollowingTypes DEF Current
      <4>5. early' + Len(delivered') <= Len(sent)
        BY <2>2, <4>1, <4>2, FollowingTypes DEF Current
      <4>6. QED
        BY <1>1, <4>1, <4>2, <4>3, <4>4, <4>5 DEF Handed
    <3>2. CASE ~delegate
      <4>1. early' = early + 1 /\ delivered' = <<>> /\ delivered = <<>>
        BY <1>1, <3>2 DEF HandOver, TcpTypes
      <4>2. Len(<<>>) = 0 /\ 1 .. 0 = {}
        OBVIOUS
      <4>3. Current = early + 1 /\ Current' = Current + 1
        BY <4>1, <4>2, FollowingTypes DEF Current
      <4>4. early' + Len(delivered') <= Len(sent)
        BY <2>2, <4>1, <4>2, <4>3, FollowingTypes
      <4>5. QED
        BY <1>1, <4>1, <4>2, <4>3, <4>4 DEF Handed
    <3>3. QED
      BY <3>1, <3>2
  <2>6. Aligned'
    <3>1. ~(got < Size[m[1]])
      <4>1. got = Size[m[1]] /\ got \in Nat
        <5> HIDE DEF m
        <5>1. QED
          BY <1>1, <2>2, <2>3, SizeRead, FollowingTypes
      <4>2. QED
        BY <4>1
    <3>2. Awaited = HeaderAt(Current + 1, 1)
      BY <1>1, <3>1 DEF Awaited
    <3>3. Awaited' = HeaderAt(Current + 1, 1)
      BY <1>1, <2>5 DEF Awaited
    <3>4. Coming' = Coming
      BY <1>1 DEF Coming
    <3>5. QED
      BY <1>1, <2>1, <3>2, <3>3, <3>4 DEF Aligned
  <2>7. Read'
    <3>1. Len(header') = 0
      BY <1>1
    <3>2. QED
      BY <1>1, <3>1, FollowingTypes DEF Read
  <2>8. QED
    BY <1>1, <2>5, <2>6, <2>7 DEF InPlace
<1>5. QED
  BY <1>2, <1>4 DEF Following

\* Every step keeps Following.
LEMMA FollowingStep == TcpTypes /\ Following /\ [TcpNext]_tcpVars => Following'
<1> SUFFICES ASSUME TcpTypes, Following, [TcpNext]_tcpVars PROVE Following'
  OBVIOUS
<1>1. CASE Stop
  BY <1>1 DEF Stop, Following, InPlace, Numbered, Genuine, Handed, sendVars, handed
<1>2. ASSUME SetDelegate \/ UNCHANGED tcpVars PROVE Following'
  <2>1. UNCHANGED <<writing, sent, mixed, stream, rpc, header, got, buffer, early,
                    delivered, split>>
    BY <1>2 DEF SetDelegate, tcpVars, sendVars, readVars, handed
  <2>2. Current' = Current /\ Coming' = Coming
    BY <2>1 DEF Current, Coming
  <2>3. Awaited' = Awaited
    BY <2>1, <2>2 DEF Awaited
  <2>4. QED
    BY <2>1, <2>2, <2>3 DEF Following, InPlace, Numbered, Genuine, Handed, Aligned, Read
<1>3. QED
  BY <1>1, <1>2, FollowingWriteHeader, FollowingWriteBody, FollowingReadHeader,
     FollowingStartBody, FollowingReadBody, FollowingDeliver DEF TcpNext, TcpSend, Listen

\* For any number of threads that send, packets and headers of any size, and however
\* read_some divides the bytes: the packets handed to onPacket are, from the first
\* that was whole after setDelegate, those that were sent, whole and in order, until
\* a header comes in parts or between another packet's header and body.
THEOREM TcpInStep == TcpSpec => []InStepUnlessTorn
<1>1. TcpTypes /\ Following => InStepUnlessTorn
  <2> SUFFICES ASSUME TcpTypes, Following, ~split, ~mixed PROVE InStep
    BY DEF InStepUnlessTorn
  <2>1. rpc # "astray" /\ Handed
    BY DEF Following, InPlace
  <2>2. DOMAIN delivered = 1 .. Len(delivered)
    BY FollowingTypes, LenProperties
  <2>3. QED
    BY <2>1, <2>2 DEF InStep, Handed
<1>2. TcpTypes /\ Following /\ [TcpNext]_tcpVars => (TcpTypes /\ Following)'
  BY TcpTypesStep, FollowingStep
<1>3. TcpInit => TcpTypes /\ Following
  BY TcpTypesInit, FollowingInit
<1>4. QED
  BY <1>1, <1>2, <1>3, PTL DEF TcpSpec

-----------------------------------------------------------------------------
(* ClockSync: types and samples. *)

\* A window stays a sequence of integers with an integer sum.
LEMMA FeedTypes ==
    ASSUME NEW rs \in Statistics, NEW v \in Int
    PROVE  Feed(rs, v) \in Statistics /\ Average(Feed(rs, v)) \in Fraction
<1> DEFINE w == Append(rs.window, v)
<1>1. /\ rs.window \in Seq(Int) /\ rs.sum \in Int
      /\ Len(rs.window) <= WindowSize /\ WindowSize \in Nat
  BY ClockSyncAssumption DEF Statistics, ClockSyncAssumption
<1>2. w \in Seq(Int) /\ Len(w) \in Nat /\ Len(w) > 0 /\ Len(w) <= WindowSize + 1
  BY <1>1
<1> HIDE DEF w
<1>3. Tail(w) \in Seq(Int) /\ Head(w) \in Int /\ Len(Tail(w)) = Len(w) - 1
  <2>1. w # <<>>
    BY <1>2
  <2>2. QED
    BY <1>2, <2>1
<1>4. Feed(rs, v) \in Statistics
  <2>1. CASE Len(w) > WindowSize
    BY <1>1, <1>2, <1>3, <2>1 DEF Feed, Statistics, w
  <2>2. CASE ~(Len(w) > WindowSize)
    BY <1>1, <1>2, <2>2 DEF Feed, Statistics, w
  <2>3. QED
    BY <2>1, <2>2
<1>5. Len(Feed(rs, v).window) \in Nat /\ Feed(rs, v).sum \in Int
  <2>1. Feed(rs, v).window \in Seq(Int) /\ Feed(rs, v).sum \in Int
    BY <1>4 DEF Statistics
  <2>2. QED
    BY <2>1
<1>6. QED
  BY <1>4, <1>5 DEF Average, Fraction

\* Type correctness of the exchange and of the estimate.
THEOREM SyncTypeCorrect == SyncSpec => []SyncTypeOK
<1>1. SyncInit => SyncTypeOK
  <2> SUFFICES ASSUME SyncInit PROVE SyncTypeOK
    OBVIOUS
  <2>1. <<>> \in Seq(Int) /\ <<>> \in Seq(Sample)
    OBVIOUS
  <2>2. NoStatistics \in Statistics
    BY <2>1, ClockSyncAssumption DEF NoStatistics, Statistics, ClockSyncAssumption
  <2>3. theirs \in Int
    BY ClockSyncAssumption DEF SyncInit, ClockSyncAssumption
  <2>4. config_latency \in Fraction
    BY ClockSyncAssumption DEF SyncInit, ClockSyncAssumption, Fraction
  <2>5. delta \in Fraction /\ latency \in Fraction
    BY DEF SyncInit, Fraction
  <2>6. QED
    BY <2>1, <2>2, <2>3, <2>4, <2>5, ClockSyncAssumption DEF SyncInit, SyncTypeOK, ClockSyncAssumption
<1>2. SyncTypeOK /\ [SyncNext]_syncVars => SyncTypeOK'
  <2> SUFFICES ASSUME SyncTypeOK, [SyncNext]_syncVars PROVE SyncTypeOK'
    OBVIOUS
  <2>1. /\ now \in 0 .. MaxNow /\ mine \in Int /\ theirs \in Int /\ jumps \in 0 .. MaxJumps
        /\ MaxNow \in Nat /\ MaxJumps \in Nat /\ MaxRequests \in Nat
        /\ requests \in 0 .. MaxRequests
    BY ClockSyncAssumption DEF SyncTypeOK, ClockSyncAssumption
  <2>2. CASE Tick
    BY <2>1, <2>2 DEF Tick, SyncTypeOK, clocks, channel, estimate
  <2>3. CASE SetClock
    <3>1. mine' \in Int /\ theirs' \in Int
      BY <2>1, <2>3, ClockSyncAssumption DEF SetClock, ClockSyncAssumption
    <3>2. QED
      BY <2>1, <2>3, <3>1 DEF SetClock, SyncTypeOK, channel, estimate
  <2>4. CASE SendClockSync
    <3>1. [sent |-> MyTime, at |-> now, era |-> jumps] \in Request
      BY <2>1 DEF Request, MyTime
    <3>2. QED
      BY <2>1, <2>4, <3>1 DEF SendClockSync, SyncTypeOK, clocks, estimate
  <2>5. ASSUME NEW r \in asked, AnswerClockSync(r) PROVE SyncTypeOK'
    <3>1. r \in Request
      BY DEF SyncTypeOK
    <3>2. [sent |-> r.sent, ack |-> TheirTime, at |-> r.at, turned |-> now, era |-> r.era] \in Ack
      BY <2>1, <3>1 DEF Request, Ack, TheirTime
    <3>3. QED
      BY <2>5, <3>2 DEF AnswerClockSync, SyncTypeOK, clocks, estimate
  <2>6. ASSUME NEW a \in answered, HandleAck(a) PROVE SyncTypeOK'
    <3>1. /\ a.sent \in Int /\ a.ack \in Int /\ a.at \in Int /\ a.turned \in Int
          /\ a.era \in 0 .. MaxJumps
      BY <2>1 DEF SyncTypeOK, Ack
    <3>2. MyTime \in Int
      BY <2>1 DEF MyTime
    <3>3. delta_rs' \in Statistics /\ Average(delta_rs') \in Fraction
      <4>1. 2 * a.ack - (a.sent + MyTime) \in Int
        BY <3>1, <3>2
      <4>2. delta_rs' = Feed(delta_rs, 2 * a.ack - (a.sent + MyTime))
        BY <2>6 DEF HandleAck
      <4>3. QED
        BY <4>1, <4>2, FeedTypes DEF SyncTypeOK
    <3>4. latency_rs' \in Statistics /\ Average(latency_rs') \in Fraction
      <4>1. MyTime - a.sent \in Int
        BY <3>1, <3>2
      <4>2. latency_rs' = Feed(latency_rs, MyTime - a.sent)
        BY <2>6 DEF HandleAck
      <4>3. QED
        BY <4>1, <4>2, FeedTypes DEF SyncTypeOK
    <3>5. delta' \in Fraction /\ latency' \in Fraction
      BY <2>6, <3>3, <3>4 DEF HandleAck
    <3>6. config_latency' \in Fraction
      <4>1. latency'.num \in Int /\ latency'.den \in Int
        BY <3>5 DEF Fraction
      <4>2. [num |-> 11 * latency'.num, den |-> 10 * latency'.den] \in Fraction
        BY <4>1 DEF Fraction
      <4>3. QED
        BY <2>6, <4>2 DEF HandleAck, SyncTypeOK
    <3>7. samples' \in Seq(Sample)
      <4> DEFINE s == [out |-> a.turned - a.at, back |-> now - a.turned,
                       era |-> a.era, seen |-> jumps]
      <4>1. s \in Sample
        BY <2>1, <3>1 DEF Sample
      <4>2. samples' = Append(samples, s)
        BY <2>6 DEF HandleAck
      <4> HIDE DEF s
      <4>3. QED
        BY <4>1, <4>2 DEF SyncTypeOK
    <3>8. QED
      BY <2>6, <3>3, <3>4, <3>5, <3>6, <3>7 DEF HandleAck, SyncTypeOK, clocks, channel
  <2>7. CASE UNCHANGED syncVars
    BY <2>7 DEF syncVars, SyncTypeOK, clocks, channel, estimate
  <2>8. QED
    BY <2>2, <2>3, <2>4, <2>5, <2>6, <2>7 DEF SyncNext
<1>3. QED
  BY <1>1, <1>2, PTL DEF SyncSpec

-----------------------------------------------------------------------------
\* The inductive invariant: a request of this era was sent no later than now,
\* an answer of this era lies between its request and now.
InOrder ==
    /\ \A r \in asked : r.era <= jumps /\ (r.era = jumps => r.sent <= MyTime)
    /\ \A a \in answered :
           /\ a.era <= jumps
           /\ a.era = jumps => /\ a.sent <= a.ack - (theirs - mine)
                               /\ a.ack - (theirs - mine) <= MyTime

\* At the start no request is out,
LEMMA InOrderInit == SyncInit => InOrder
BY DEF SyncInit, InOrder

\* and every step keeps the exchanges in order.
LEMMA InOrderStep == SyncTypeOK /\ InOrder /\ [SyncNext]_syncVars => InOrder'
<1> SUFFICES ASSUME SyncTypeOK, InOrder, [SyncNext]_syncVars PROVE InOrder'
  OBVIOUS
<1>1. /\ now \in Int /\ mine \in Int /\ theirs \in Int /\ jumps \in Int
      /\ \A r \in asked : r.sent \in Int /\ r.era \in Int
      /\ \A a \in answered : a.sent \in Int /\ a.ack \in Int /\ a.era \in Int
  BY ClockSyncAssumption DEF SyncTypeOK, Request, Ack, ClockSyncAssumption
<1>2. CASE Tick
  BY <1>1, <1>2 DEF Tick, InOrder, MyTime, clocks, channel
<1>3. CASE SetClock
  \* everything in flight is now of an earlier era
  <2>1. jumps' = jumps + 1 /\ asked' = asked /\ answered' = answered
    BY <1>3 DEF SetClock, channel
  <2>2. \A r \in asked : r.era < jumps'
    BY <1>1, <2>1 DEF InOrder
  <2>3. \A a \in answered : a.era < jumps'
    BY <1>1, <2>1 DEF InOrder
  <2>4. QED
    BY <1>1, <2>1, <2>2, <2>3 DEF InOrder
<1>4. CASE SendClockSync
  <2>1. /\ asked' = asked \cup {[sent |-> MyTime, at |-> now, era |-> jumps]}
        /\ now' = now /\ mine' = mine /\ theirs' = theirs /\ jumps' = jumps
        /\ answered' = answered
    BY <1>4 DEF SendClockSync, clocks
  <2>2. MyTime' = MyTime /\ MyTime \in Int
    BY <1>1, <2>1 DEF MyTime
  <2>3. QED
    BY <1>1, <2>1, <2>2 DEF InOrder
<1>5. ASSUME NEW r \in asked, AnswerClockSync(r) PROVE InOrder'
  <2> DEFINE new == [sent |-> r.sent, ack |-> TheirTime, at |-> r.at, turned |-> now, era |-> r.era]
  <2>1. /\ answered' = answered \cup {new}
        /\ now' = now /\ mine' = mine /\ theirs' = theirs /\ jumps' = jumps /\ asked' = asked
    BY <1>5 DEF AnswerClockSync, clocks
  <2>2. TheirTime - (theirs - mine) = MyTime
    BY <1>1 DEF TheirTime, MyTime
  <2>3. MyTime' = MyTime /\ MyTime \in Int
    BY <1>1, <2>1 DEF MyTime
  <2>4. /\ new.era = r.era /\ new.sent = r.sent /\ new.ack = TheirTime
        /\ r.era <= jumps /\ (r.era = jumps => r.sent <= MyTime)
    BY DEF InOrder
  <2> HIDE DEF new
  <2>5. QED
    BY <1>1, <2>1, <2>2, <2>3, <2>4 DEF InOrder
<1>6. ASSUME NEW a \in answered, HandleAck(a) PROVE InOrder'
  BY <1>6 DEF HandleAck, InOrder, MyTime, clocks, channel
<1>7. CASE UNCHANGED syncVars
  BY <1>7 DEF syncVars, InOrder, MyTime, clocks, channel
<1>8. QED
  BY <1>2, <1>3, <1>4, <1>5, <1>6, <1>7 DEF SyncNext

\* No symmetry, no order and no delivery is assumed of the channel: the offset
\* a ClockSyncAck gives is wrong by at most the latency it gives, unless a clock
\* was set during the exchange.
THEOREM EverySampleSound == SyncSpec => []SampleWithinLatency
<1>1. SyncTypeOK /\ InOrder => SampleWithinLatency
  <2> SUFFICES ASSUME SyncTypeOK, InOrder, NEW a \in answered, a.era = jumps
               PROVE  LET error == (2 * a.ack - (a.sent + MyTime)) - 2 * (theirs - mine)
                      IN error <= MyTime - a.sent /\ -error <= MyTime - a.sent
    BY DEF SampleWithinLatency
  <2>1. a.sent \in Int /\ a.ack \in Int /\ theirs - mine \in Int /\ MyTime \in Int
    BY ClockSyncAssumption DEF SyncTypeOK, Ack, MyTime, ClockSyncAssumption
  <2>2. a.sent <= a.ack - (theirs - mine) /\ a.ack - (theirs - mine) <= MyTime
    BY DEF InOrder
  <2>3. QED
    BY <2>1, <2>2
<1>2. QED
  BY <1>1, InOrderInit, InOrderStep, SyncTypeCorrect, PTL DEF SyncSpec

-----------------------------------------------------------------------------
(* What the averages say of the offset, for a window of any size.          *)

\* s is the sum of the values of w, by way of the sums t of its beginnings.
SumsTo(w, t, s) ==
    /\ t \in [0 .. Len(w) -> Int]
    /\ t[0] = 0
    /\ \A k \in 1 .. Len(w) : t[k] = t[k - 1] + w[k]
    /\ s = t[Len(w)]

Adds(rs) == \E t : SumsTo(rs.window, t, rs.sum)

\* Feed, with a name for the window before its first value leaves it.
LEMMA FeedIs ==
    ASSUME NEW rs, NEW v, NEW w, w = Append(rs.window, v), Len(w) > WindowSize
    PROVE  Feed(rs, v) = [window |-> Tail(w), sum |-> (rs.sum + v) - Head(w)]
BY DEF Feed

\* A window that is not full becomes one value longer.
LEMMA FeedGrows ==
    ASSUME NEW rs \in Statistics, NEW v \in Int, NEW n \in Nat,
           n = Len(rs.window), n < WindowSize
    PROVE  /\ Len(Feed(rs, v).window) = n + 1
           /\ \A k \in 1 .. n + 1 :
                  Feed(rs, v).window[k] = IF k <= n THEN rs.window[k] ELSE v
           /\ Feed(rs, v).sum = rs.sum + v
<1> DEFINE w == Append(rs.window, v)
<1>1. rs.window \in Seq(Int) /\ WindowSize \in Nat
  BY ClockSyncAssumption DEF Statistics, ClockSyncAssumption
<1>2. /\ Len(w) = n + 1
      /\ \A k \in 1 .. n + 1 : w[k] = IF k <= n THEN rs.window[k] ELSE v
  BY <1>1
<1>3. Feed(rs, v) = [window |-> w, sum |-> rs.sum + v]
  BY <1>1, <1>2 DEF Feed
<1> HIDE DEF w
<1>4. QED
  BY <1>2, <1>3

\* A full one moves on by one value.
LEMMA FeedMoves ==
    ASSUME NEW rs \in Statistics, NEW v \in Int, NEW n \in Nat,
           n = Len(rs.window), ~(n < WindowSize)
    PROVE  /\ Len(Feed(rs, v).window) = n /\ n = WindowSize /\ n > 0
           /\ \A k \in 1 .. n :
                  Feed(rs, v).window[k] = IF k < n THEN rs.window[k + 1] ELSE v
           /\ Feed(rs, v).sum = (rs.sum + v) - rs.window[1]
<1> DEFINE w == Append(rs.window, v)
<1>1. rs.window \in Seq(Int) /\ n = WindowSize /\ n > 0
  BY ClockSyncAssumption DEF Statistics, ClockSyncAssumption
<1>2. /\ w \in Seq(Int) /\ Len(w) = n + 1
      /\ \A k \in 1 .. n + 1 : w[k] = IF k <= n THEN rs.window[k] ELSE v
  <2>1. /\ w \in Seq(Int) /\ Len(w) = n + 1 /\ w[n + 1] = v
        /\ \A k \in 1 .. n : w[k] = rs.window[k]
    <3>1. /\ w \in Seq(Int) /\ Len(w) = Len(rs.window) + 1
          /\ w[Len(rs.window) + 1] = v
          /\ \A k \in 1 .. Len(rs.window) : w[k] = rs.window[k]
      BY <1>1, AppendProperties, Zenon
    <3>2. QED
      BY <3>1
  <2> HIDE DEF w
  <2>2. \A k \in 1 .. n + 1 : (k <= n => k \in 1 .. n) /\ (~(k <= n) => k = n + 1)
    OBVIOUS
  <2>3. QED
    BY <2>1, <2>2
<1> HIDE DEF w
<1>3. Feed(rs, v) = [window |-> Tail(w), sum |-> (rs.sum + v) - Head(w)]
  <2>1. Len(w) > WindowSize
    BY <1>1, <1>2
  <2>2. QED
    <3>1. w = Append(rs.window, v)
      BY DEF w
    <3>2. QED
      BY <2>1, <3>1, FeedIs
<1>4. /\ Head(w) = w[1] /\ Len(Tail(w)) = n
      /\ \A k \in 1 .. n : Tail(w)[k] = w[k + 1]
  <2>1. w # <<>>
    BY <1>1, <1>2
  <2>2. Len(Tail(w)) = n
    BY <1>1, <1>2, <2>1, HeadTailProperties
  <2>3. QED
    BY <1>2, <2>1, <2>2, HeadTailProperties
<1>5. Head(w) = rs.window[1]
  BY <1>1, <1>2, <1>4
<1>6. ASSUME NEW k \in 1 .. n
      PROVE  Tail(w)[k] = IF k < n THEN rs.window[k + 1] ELSE v
  <2>1. k + 1 \in 1 .. n + 1 /\ (k + 1 <= n <=> k < n)
    BY <1>1
  <2>2. QED
    BY <1>2, <1>4, <2>1
<1>7. QED
  BY <1>1, <1>3, <1>4, <1>5, <1>6

\* feed() keeps sum the sum of the window: what leaves it leaves the sum.
LEMMA FeedAdds ==
    ASSUME NEW rs \in Statistics, NEW v \in Int, Adds(rs)
    PROVE  Adds(Feed(rs, v))
<1> DEFINE n == Len(rs.window)
           w == Feed(rs, v).window
<1>1. /\ rs.window \in Seq(Int) /\ rs.sum \in Int /\ n \in Nat
      /\ \A k \in 1 .. n : rs.window[k] \in Int
  BY DEF Statistics
<1>2. PICK t : SumsTo(rs.window, t, rs.sum)
  BY DEF Adds
<1>3. CASE n < WindowSize
  <2> DEFINE u == [k \in 0 .. n + 1 |-> IF k <= n THEN t[k] ELSE t[n] + v]
  <2>1. /\ Len(w) = n + 1
        /\ \A k \in 1 .. n + 1 : w[k] = IF k <= n THEN rs.window[k] ELSE v
        /\ Feed(rs, v).sum = rs.sum + v
    BY <1>1, <1>3, FeedGrows
  <2> HIDE DEF w
  <2>4. /\ t \in [0 .. n -> Int] /\ t[0] = 0 /\ rs.sum = t[n]
        /\ \A k \in 1 .. n : t[k] = t[k - 1] + rs.window[k]
    BY <1>2 DEF SumsTo
  <2>5. u \in [0 .. n + 1 -> Int] /\ u[0] = 0 /\ u[n + 1] = t[n] + v
    BY <1>1, <2>4
  <2>6. ASSUME NEW k \in 1 .. n + 1 PROVE u[k] = u[k - 1] + w[k]
    <3>1. k - 1 \in 0 .. n /\ u[k - 1] = t[k - 1]
      BY <1>1
    <3>2. CASE k <= n
      <4>1. k \in 1 .. n /\ u[k] = t[k] /\ w[k] = rs.window[k]
        BY <1>1, <2>1, <3>2
      <4>2. QED
        BY <2>4, <3>1, <4>1
    <3>3. CASE k = n + 1
      <4>1. u[k] = t[n] + v /\ w[k] = v /\ k - 1 = n
        BY <1>1, <2>1, <2>5, <3>3
      <4>2. QED
        BY <3>1, <4>1
    <3>4. QED
      BY <1>1, <3>2, <3>3
  <2> HIDE DEF u
  <2>2. SumsTo(w, u, Feed(rs, v).sum)
    BY <2>1, <2>4, <2>5, <2>6 DEF SumsTo
  <2>3. QED
    BY <2>2 DEF Adds, w
<1>4. CASE ~(n < WindowSize)
  <2> DEFINE u == [k \in 0 .. n |-> IF k < n THEN t[k + 1] - rs.window[1]
                                             ELSE t[n] - rs.window[1] + v]
  <2>1. /\ Len(w) = n /\ n > 0
        /\ \A k \in 1 .. n : w[k] = IF k < n THEN rs.window[k + 1] ELSE v
        /\ Feed(rs, v).sum = (rs.sum + v) - rs.window[1]
    BY <1>1, <1>4, FeedMoves
  <2> HIDE DEF w
  <2>2. /\ t \in [0 .. n -> Int] /\ t[0] = 0 /\ rs.sum = t[n]
        /\ \A k \in 1 .. n : t[k] = t[k - 1] + rs.window[k]
    BY <1>2 DEF SumsTo
  <2>3. u \in [0 .. n -> Int] /\ u[0] = 0 /\ u[n] = Feed(rs, v).sum
    <3>1. rs.window[1] \in Int /\ \A k \in 0 .. n : k < n => k + 1 \in 0 .. n
      BY <1>1, <2>1
    <3>2. u \in [0 .. n -> Int]
      BY <1>1, <2>2, <3>1
    <3>3. t[1] = t[0] + rs.window[1] /\ u[0] = t[1] - rs.window[1]
      <4>1. 1 \in 1 .. n /\ 1 - 1 = 0 /\ 0 + 1 = 1 /\ 0 \in 0 .. n /\ 0 < n
        BY <1>1, <2>1
      <4>2. t[1] = t[0] + rs.window[1]
        BY <2>2, <4>1
      <4>3. u[0] = t[0 + 1] - rs.window[1]
        BY <4>1
      <4>4. QED
        BY <4>1, <4>2, <4>3
    <3>4. u[n] = t[n] - rs.window[1] + v /\ t[n] \in Int
      BY <1>1, <2>2
    <3> HIDE DEF u
    <3>5. QED
      BY <2>1, <2>2, <3>1, <3>2, <3>3, <3>4
  <2>4. ASSUME NEW k \in 1 .. n PROVE u[k] = u[k - 1] + w[k]
    <3>1. k - 1 \in 0 .. n /\ k - 1 < n /\ u[k - 1] = t[k] - rs.window[1]
      BY <1>1
    <3>2. CASE k < n
      <4>1. k + 1 \in 1 .. n /\ (k + 1) - 1 = k
        BY <1>1, <3>2
      <4>2. t[k + 1] = t[k] + rs.window[k + 1] /\ w[k] = rs.window[k + 1]
        BY <2>1, <2>2, <3>2, <4>1
      <4>3. u[k] = t[k + 1] - rs.window[1]
        BY <1>1, <3>2
      <4>4. t[k] \in Int /\ rs.window[k + 1] \in Int /\ rs.window[1] \in Int
        <5>1. 1 \in 1 .. n /\ k \in 0 .. n
          BY <1>1, <2>1
        <5>2. QED
          BY <1>1, <2>2, <4>1, <5>1
      <4> HIDE DEF u
      <4>5. QED
        BY <3>1, <4>2, <4>3, <4>4
    <3>3. CASE k = n
      <4>1. u[k] = t[n] - rs.window[1] + v /\ w[k] = v
        BY <1>1, <2>1, <3>3
      <4>2. t[n] \in Int /\ rs.window[1] \in Int
        BY <1>1, <2>1, <2>2
      <4> HIDE DEF u
      <4>3. QED
        BY <3>1, <3>3, <4>1, <4>2
    <3>4. QED
      BY <3>2, <3>3
  <2> HIDE DEF u
  <2>5. SumsTo(w, u, Feed(rs, v).sum)
    BY <2>1, <2>3, <2>4 DEF SumsTo
  <2>6. QED
    BY <2>5 DEF Adds, w
<1>5. QED
  BY <1>3, <1>4

\* The arithmetic of one more value: with e = k * c, the sums t and u of k values
\* stay within each other's bounds.
LEMMA OneValueMore ==
    ASSUME NEW c \in Int, NEW k \in Nat, NEW t \in Int, NEW u \in Int,
           NEW d \in Int, NEW l \in Int,
           t - k * c <= u, -(t - k * c) <= u, d - c <= l, -(d - c) <= l
    PROVE  /\ (t + d) - (k + 1) * c <= u + l
           /\ -((t + d) - (k + 1) * c) <= u + l
<1> DEFINE e == k * c
<1>1. e \in Int /\ (k + 1) * c = e + c /\ t - e <= u /\ -(t - e) <= u
  OBVIOUS
<1> HIDE DEF e
<1>2. (t + d) - (e + c) <= u + l /\ -((t + d) - (e + c)) <= u + l
  BY <1>1
<1>3. QED
  BY <1>1, <1>2

\* If each value of one window is c up to the value of the other, so are the sums.
LEMMA SumsWithin ==
    ASSUME NEW d \in Seq(Int), NEW l \in Seq(Int), Len(d) = Len(l), NEW c \in Int,
           NEW t, NEW u, NEW dsum, NEW lsum, SumsTo(d, t, dsum), SumsTo(l, u, lsum),
           \A k \in 1 .. Len(d) : d[k] - c <= l[k] /\ -(d[k] - c) <= l[k]
    PROVE  /\ dsum - Len(d) * c <= lsum
           /\ -(dsum - Len(d) * c) <= lsum
<1> DEFINE n == Len(d)
           within == {k \in Nat : k <= n => t[k] - k * c <= u[k] /\ -(t[k] - k * c) <= u[k]}
<1>1. /\ n \in Nat /\ \A k \in 1 .. n : d[k] \in Int /\ l[k] \in Int
      /\ t \in [0 .. n -> Int] /\ t[0] = 0 /\ dsum = t[n]
      /\ u \in [0 .. n -> Int] /\ u[0] = 0 /\ lsum = u[n]
      /\ \A k \in 1 .. n : t[k] = t[k - 1] + d[k] /\ u[k] = u[k - 1] + l[k]
  BY DEF SumsTo
<1>2. 0 \in within
  BY <1>1
<1>3. ASSUME NEW k \in Nat, k \in within PROVE k + 1 \in within
  <2> SUFFICES ASSUME k + 1 <= n
               PROVE  /\ t[k + 1] - (k + 1) * c <= u[k + 1]
                      /\ -(t[k + 1] - (k + 1) * c) <= u[k + 1]
    OBVIOUS
  <2>1. t[k] - k * c <= u[k] /\ -(t[k] - k * c) <= u[k]
    BY <1>1, <1>3
  <2>2. k + 1 \in 1 .. n /\ (k + 1) - 1 = k /\ k \in 0 .. n
    BY <1>1
  <2>3. t[k + 1] = t[k] + d[k + 1] /\ u[k + 1] = u[k] + l[k + 1]
    BY <1>1, <2>2
  <2>4. d[k + 1] - c <= l[k + 1] /\ -(d[k + 1] - c) <= l[k + 1]
    BY <2>2
  <2>5. t[k] \in Int /\ u[k] \in Int /\ d[k + 1] \in Int /\ l[k + 1] \in Int
    BY <1>1, <2>2
  <2>6. PICK a \in Int, b \in Int, x \in Int, y \in Int :
            a = t[k] /\ b = u[k] /\ x = d[k + 1] /\ y = l[k + 1]
    BY <2>5
  <2>7. a - k * c <= b /\ -(a - k * c) <= b /\ x - c <= y /\ -(x - c) <= y
    BY <2>1, <2>4, <2>6
  <2>8. /\ (a + x) - (k + 1) * c <= b + y
        /\ -((a + x) - (k + 1) * c) <= b + y
    BY <2>7, OneValueMore
  <2> QED
    BY <2>3, <2>6, <2>8
<1> HIDE DEF within
<1>4. Nat \subseteq within
  BY <1>2, <1>3, SetInduction
<1>5. n \in within
  BY <1>1, <1>4
<1>6. QED
  BY <1>1, <1>5 DEF within

\* The inductive invariant.  What is in flight since a clock was last set carries
\* the clocks' readings at the ghosts' times,
Readings ==
    /\ \A r \in asked : /\ r.era <= jumps /\ r.at <= now
                        /\ r.era = jumps => r.sent = r.at + mine
    /\ \A a \in answered : /\ a.era <= jumps /\ a.at <= a.turned /\ a.turned <= now
                           /\ a.era = jumps => /\ a.sent = a.at + mine
                                               /\ a.ack = a.turned + theirs

\* the sample a place of the windows comes from,
Origin(k) == samples[Len(samples) - Len(delta_rs.window) + k]

\* what the values d and l fed for a sample s say of the offset off of the clocks
\* in an era: d is the offset, off by how the way there and back differ, l is the
\* time of both,
Tells(s, d, l, era, off) ==
    /\ s.era <= era /\ s.out >= 0 /\ s.back >= 0
    /\ s.era = era => d = 2 * off + s.out - s.back /\ l = s.out + s.back

\* and the windows hold what the last samples gave.
Windows ==
    /\ Len(latency_rs.window) = Len(delta_rs.window)
    /\ Len(delta_rs.window) <= Len(samples)
    /\ samples # <<>> => Len(delta_rs.window) > 0
    /\ \A k \in 1 .. Len(delta_rs.window) :
           Tells(Origin(k), delta_rs.window[k], latency_rs.window[k], jumps, theirs - mine)

\* What is used are the averages of the windows.
Averages ==
    /\ Adds(delta_rs) /\ Adds(latency_rs)
    /\ samples # <<>> => delta = Average(delta_rs) /\ latency = Average(latency_rs)

Measured == Readings /\ Windows /\ Averages

\* At the start nothing is measured.
LEMMA MeasuredInit == SyncInit => Measured
<1> SUFFICES ASSUME SyncInit PROVE Measured
  OBVIOUS
<1>1. Len(<<>>) = 0
  OBVIOUS
<1>2. Adds(NoStatistics)
  <2>1. SumsTo(<<>>, [k \in 0 .. 0 |-> 0], 0)
    BY <1>1 DEF SumsTo
  <2>2. QED
    BY <2>1 DEF Adds, NoStatistics
<1>3. Windows
  BY <1>1 DEF SyncInit, Windows, NoStatistics
<1>4. Readings /\ Averages
  BY <1>2 DEF SyncInit, Readings, Averages
<1>5. QED
  BY <1>3, <1>4 DEF Measured

\* An ack handled is one more sample, and moves both windows.
LEMMA MeasuredAck ==
    ASSUME SyncTypeOK, Measured, NEW a \in answered, HandleAck(a)
    PROVE  Measured'
<1> DEFINE v == 2 * a.ack - (a.sent + MyTime)
           x == MyTime - a.sent
           new == [out |-> a.turned - a.at, back |-> now - a.turned,
                   era |-> a.era, seen |-> jumps]
           n == Len(delta_rs.window)
           N == Len(samples)
<1>1. /\ delta_rs' = Feed(delta_rs, v) /\ latency_rs' = Feed(latency_rs, x)
      /\ delta' = Average(delta_rs') /\ latency' = Average(latency_rs')
      /\ samples' = Append(samples, new)
      /\ UNCHANGED <<now, mine, theirs, jumps, asked, answered>>
  BY DEF HandleAck, clocks, channel
<1>2. /\ delta_rs \in Statistics /\ latency_rs \in Statistics /\ samples \in Seq(Sample)
      /\ mine \in Int /\ theirs \in Int /\ now \in Int /\ jumps \in Int
      /\ a.sent \in Int /\ a.ack \in Int /\ a.at \in Int /\ a.turned \in Int /\ a.era \in Int
  BY ClockSyncAssumption DEF SyncTypeOK, Ack, ClockSyncAssumption
<1>3. v \in Int /\ x \in Int /\ n \in Nat /\ N \in Nat
  BY <1>2 DEF MyTime, Statistics
<1>4. Readings'
  BY <1>1 DEF Measured, Readings
<1>5. Averages'
  BY <1>1, <1>2, <1>3, FeedAdds DEF Measured, Averages
<1>6. Tells(new, v, x, jumps, theirs - mine)
  <2>1. /\ a.era <= jumps /\ a.at <= a.turned /\ a.turned <= now
        /\ a.era = jumps => a.sent = a.at + mine /\ a.ack = a.turned + theirs
    BY DEF Measured, Readings
  <2>2. /\ new.out = a.turned - a.at /\ new.back = now - a.turned /\ new.era = a.era
        /\ MyTime = now + mine
    BY DEF MyTime
  <2> HIDE DEF new
  <2>3. QED
    <3> DEFINE off == theirs - mine
    <3>1. a.era = jumps => v = 2 * off + new.out - new.back
      BY <1>2, <2>1, <2>2
    <3>2. a.era = jumps => x = new.out + new.back
      BY <1>2, <2>1, <2>2
    <3>3. new.out >= 0 /\ new.back >= 0
      BY <1>2, <2>1, <2>2
    <3> HIDE DEF off, v, x
    <3>4. QED
      BY <2>1, <2>2, <3>1, <3>2, <3>3 DEF Tells, off
<1> HIDE DEF v, x
<1>7. new \in Sample
  <2>1. /\ a.at \in Int /\ a.turned \in Int /\ now \in Int
        /\ a.era \in 0 .. MaxJumps /\ jumps \in 0 .. MaxJumps
    BY ClockSyncAssumption DEF SyncTypeOK, Ack, ClockSyncAssumption
  <2>2. QED
    BY <2>1 DEF Sample
<1> HIDE DEF new
<1>8. /\ Len(samples') = N + 1 /\ samples'[N + 1] = new /\ samples' # <<>>
      /\ \A j \in 1 .. N : samples'[j] = samples[j]
  BY <1>1, <1>2, <1>7, AppendProperties
<1>9. /\ Len(latency_rs.window) = n /\ n <= N
      /\ \A k \in 1 .. n : Tells(samples[N - n + k], delta_rs.window[k],
                                 latency_rs.window[k], jumps, theirs - mine)
  BY DEF Measured, Windows, Origin
<1> HIDE DEF n, N
<1>10. n = Len(delta_rs.window) /\ n = Len(latency_rs.window)
  BY <1>9 DEF n
<1>11. CASE n < WindowSize
  <2>1. /\ Len(delta_rs'.window) = n + 1 /\ Len(latency_rs'.window) = n + 1
        /\ \A k \in 1 .. n + 1 :
               /\ delta_rs'.window[k] = IF k <= n THEN delta_rs.window[k] ELSE v
               /\ latency_rs'.window[k] = IF k <= n THEN latency_rs.window[k] ELSE x
    <3>1. /\ Len(Feed(delta_rs, v).window) = n + 1
          /\ \A k \in 1 .. n + 1 :
                 Feed(delta_rs, v).window[k] = IF k <= n THEN delta_rs.window[k] ELSE v
      BY <1>2, <1>3, <1>10, <1>11, FeedGrows
    <3>2. /\ Len(Feed(latency_rs, x).window) = n + 1
          /\ \A k \in 1 .. n + 1 :
                 Feed(latency_rs, x).window[k] = IF k <= n THEN latency_rs.window[k] ELSE x
      BY <1>2, <1>3, <1>10, <1>11, FeedGrows
    <3>3. QED
      BY <1>1, <3>1, <3>2
  <2>2. ASSUME NEW k \in 1 .. n + 1
        PROVE  Tells(Origin(k)', delta_rs'.window[k], latency_rs'.window[k],
                     jumps', theirs' - mine')
    <3>1. Origin(k)' = samples'[N - n + k]
      <4>1. (N + 1) - (n + 1) + k = N - n + k
        BY <1>3
      <4>2. QED
        BY <1>8, <2>1, <4>1 DEF Origin
    <3>2. CASE k <= n
      <4>1. k \in 1 .. n /\ N - n + k \in 1 .. N
        BY <1>3, <1>9, <3>2
      <4>2. /\ Origin(k)' = samples[N - n + k]
            /\ delta_rs'.window[k] = delta_rs.window[k]
            /\ latency_rs'.window[k] = latency_rs.window[k]
        BY <1>8, <2>1, <3>1, <3>2, <4>1
      <4>3. QED
        BY <1>1, <1>9, <4>1, <4>2
    <3>3. CASE ~(k <= n)
      <4>1. N - n + k = N + 1
        BY <1>3, <3>3
      <4>2. Origin(k)' = new /\ delta_rs'.window[k] = v /\ latency_rs'.window[k] = x
        BY <1>8, <2>1, <3>1, <3>3, <4>1
      <4>3. QED
        BY <1>1, <1>6, <4>2
    <3>4. QED
      BY <3>2, <3>3
  <2>3. n + 1 <= N + 1 /\ n + 1 > 0
    BY <1>3, <1>9
  <2>4. Windows'
    BY <1>8, <2>1, <2>2, <2>3 DEF Windows
  <2>5. QED
    BY <1>4, <1>5, <2>4 DEF Measured
<1>12. CASE ~(n < WindowSize)
  <2>1. /\ Len(delta_rs'.window) = n /\ Len(latency_rs'.window) = n /\ n > 0
        /\ \A k \in 1 .. n :
               /\ delta_rs'.window[k] = IF k < n THEN delta_rs.window[k + 1] ELSE v
               /\ latency_rs'.window[k] = IF k < n THEN latency_rs.window[k + 1] ELSE x
    <3>1. /\ Len(Feed(delta_rs, v).window) = n /\ n > 0
          /\ \A k \in 1 .. n :
                 Feed(delta_rs, v).window[k] = IF k < n THEN delta_rs.window[k + 1] ELSE v
      BY <1>2, <1>3, <1>10, <1>12, FeedMoves
    <3>2. /\ Len(Feed(latency_rs, x).window) = n
          /\ \A k \in 1 .. n :
                 Feed(latency_rs, x).window[k] = IF k < n THEN latency_rs.window[k + 1] ELSE x
      BY <1>2, <1>3, <1>10, <1>12, FeedMoves
    <3>3. QED
      BY <1>1, <3>1, <3>2
  <2>2. ASSUME NEW k \in 1 .. n
        PROVE  Tells(Origin(k)', delta_rs'.window[k], latency_rs'.window[k],
                     jumps', theirs' - mine')
    <3>1. Origin(k)' = samples'[N - n + (k + 1)]
      <4>1. (N + 1) - n + k = N - n + (k + 1)
        BY <1>3
      <4>2. QED
        BY <1>8, <2>1, <4>1 DEF Origin
    <3>2. CASE k < n
      <4>1. k + 1 \in 1 .. n /\ N - n + (k + 1) \in 1 .. N
        BY <1>3, <1>9, <3>2
      <4>2. /\ Origin(k)' = samples[N - n + (k + 1)]
            /\ delta_rs'.window[k] = delta_rs.window[k + 1]
            /\ latency_rs'.window[k] = latency_rs.window[k + 1]
        BY <1>8, <2>1, <3>1, <3>2, <4>1
      <4>3. QED
        BY <1>1, <1>9, <4>1, <4>2
    <3>3. CASE ~(k < n)
      <4>1. N - n + (k + 1) = N + 1
        BY <1>3, <3>3
      <4>2. Origin(k)' = new /\ delta_rs'.window[k] = v /\ latency_rs'.window[k] = x
        BY <1>8, <2>1, <3>1, <3>3, <4>1
      <4>3. QED
        BY <1>1, <1>6, <4>2
    <3>4. QED
      BY <3>2, <3>3
  <2>3. n <= N + 1
    BY <1>3, <1>9
  <2>4. Windows'
    BY <1>8, <2>1, <2>2, <2>3 DEF Windows
  <2>5. QED
    BY <1>4, <1>5, <2>4 DEF Measured
<1>13. QED
  BY <1>11, <1>12

\* Each value of the window comes from a sample.
LEMMA OriginIsSample ==
    ASSUME SyncTypeOK, Windows, NEW k \in 1 .. Len(delta_rs.window)
    PROVE  Origin(k) \in Sample
<1> DEFINE n == Len(delta_rs.window)
           N == Len(samples)
<1>1. samples \in Seq(Sample) /\ N \in Nat /\ n \in Nat /\ n <= N
  BY DEF SyncTypeOK, Statistics, Windows
<1>2. Origin(k) = samples[N - n + k]
  BY DEF Origin
<1> HIDE DEF n
<1>3. k \in 1 .. n
  BY DEF n
<1> HIDE DEF N
<1>4. N - n + k \in 1 .. N
  BY <1>1, <1>3
<1>5. QED
  BY <1>1, <1>2, <1>4, ElementOfSeq DEF N

\* Every step keeps Measured.
LEMMA MeasuredStep == SyncTypeOK /\ Measured /\ [SyncNext]_syncVars => Measured'
<1> SUFFICES ASSUME SyncTypeOK, Measured, [SyncNext]_syncVars PROVE Measured'
  OBVIOUS
<1>1. /\ now \in Int /\ mine \in Int /\ theirs \in Int /\ jumps \in Int
      /\ \A r \in asked : r.sent \in Int /\ r.at \in Int /\ r.era \in Int
      /\ \A a \in answered : /\ a.sent \in Int /\ a.ack \in Int /\ a.era \in Int
                             /\ a.at \in Int /\ a.turned \in Int
  BY ClockSyncAssumption DEF SyncTypeOK, Request, Ack, ClockSyncAssumption
<1>2. ASSUME UNCHANGED <<mine, theirs, jumps, estimate>> PROVE (Windows /\ Averages)'
  BY <1>2 DEF Measured, Windows, Averages, Origin, estimate
<1>3. CASE Tick
  <2>1. Readings'
    BY <1>1, <1>3 DEF Tick, Measured, Readings, clocks, channel
  <2>2. QED
    BY <1>2, <1>3, <2>1 DEF Tick, Measured, clocks
<1>4. CASE SetClock
  \* everything in flight and in the windows is now of an earlier era
  <2>1. jumps' = jumps + 1 /\ UNCHANGED <<now, channel, estimate>>
    BY <1>4 DEF SetClock
  <2>2. Readings'
    BY <1>1, <2>1 DEF Measured, Readings, channel
  <2>3. ASSUME NEW k \in 1 .. Len(delta_rs.window)
        PROVE  Tells(Origin(k), delta_rs.window[k], latency_rs.window[k],
                     jumps', theirs' - mine')
    <3>1. Tells(Origin(k), delta_rs.window[k], latency_rs.window[k], jumps, theirs - mine)
      BY DEF Measured, Windows
    <3>2. Origin(k).era \in Int
      BY OriginIsSample DEF Measured, Sample
    <3>3. Origin(k).era <= jumps' /\ Origin(k).era # jumps'
      BY <1>1, <2>1, <3>1, <3>2 DEF Tells
    <3>4. QED
      BY <3>1, <3>3 DEF Tells
  <2>4. Windows'
    <3>1. \A k : Origin(k)' = Origin(k)
      BY <2>1 DEF Origin, estimate
    <3>2. QED
      BY <2>1, <2>3, <3>1 DEF Measured, Windows, estimate
  <2>5. Averages'
    BY <2>1 DEF Measured, Averages, estimate
  <2>6. QED
    BY <2>2, <2>4, <2>5 DEF Measured
<1>5. CASE SendClockSync
  <2> DEFINE new == [sent |-> MyTime, at |-> now, era |-> jumps]
  <2>1. /\ asked' = asked \cup {new}
        /\ UNCHANGED <<now, mine, theirs, jumps, answered, estimate>>
    BY <1>5 DEF SendClockSync, clocks
  <2>2. new.sent = new.at + mine /\ new.at = now /\ new.era = jumps
    BY DEF MyTime
  <2> HIDE DEF new
  <2>3. Readings'
    BY <1>1, <2>1, <2>2 DEF Measured, Readings
  <2>4. QED
    BY <1>2, <2>1, <2>3 DEF Measured
<1>6. ASSUME NEW r \in asked, AnswerClockSync(r) PROVE Measured'
  <2> DEFINE new == [sent |-> r.sent, ack |-> TheirTime, at |-> r.at, turned |-> now,
                     era |-> r.era]
  <2>1. /\ answered' = answered \cup {new}
        /\ UNCHANGED <<now, mine, theirs, jumps, asked, estimate>>
    BY <1>6 DEF AnswerClockSync, clocks
  <2>2. /\ new.ack = new.turned + theirs /\ new.turned = now
        /\ new.sent = r.sent /\ new.at = r.at /\ new.era = r.era
    BY DEF TheirTime
  <2> HIDE DEF new
  <2>3. Readings'
    BY <1>1, <2>1, <2>2 DEF Measured, Readings
  <2>4. QED
    BY <1>2, <2>1, <2>3 DEF Measured
<1>7. ASSUME NEW a \in answered, HandleAck(a) PROVE Measured'
  BY <1>7, MeasuredAck
<1>8. CASE UNCHANGED syncVars
  <2>1. Readings'
    BY <1>8 DEF syncVars, Measured, Readings, clocks, channel
  <2>2. QED
    BY <1>2, <1>8, <2>1 DEF syncVars, Measured, clocks
<1>9. QED
  BY <1>3, <1>4, <1>5, <1>6, <1>7, <1>8 DEF SyncNext

\* What a steady window holds.
LEMMA SteadyWindow ==
    ASSUME SyncTypeOK, Measured, Steady
    PROVE  LET n == Len(delta_rs.window)
               c == 2 * (theirs - mine)
           IN  /\ n \in Nat /\ Len(latency_rs.window) = n
               /\ delta = [num |-> delta_rs.sum, den |-> 2 * n]
               /\ latency = [num |-> latency_rs.sum, den |-> 2 * n]
               /\ \A k \in 1 .. n :
                      /\ Len(samples) - n + k \in Recent
                      /\ Origin(k).out \in Nat /\ Origin(k).back \in Nat
                      /\ delta_rs.window[k] = c + Origin(k).out - Origin(k).back
                      /\ latency_rs.window[k] = Origin(k).out + Origin(k).back
<1> DEFINE n == Len(delta_rs.window)
<1>1. /\ samples \in Seq(Sample) /\ Len(samples) \in Nat
      /\ n \in Nat /\ n <= Len(samples) /\ n <= WindowSize /\ WindowSize \in Nat
      /\ Len(latency_rs.window) = n
  BY ClockSyncAssumption DEF SyncTypeOK, Statistics, Measured, Windows, ClockSyncAssumption
<1>2. /\ delta = [num |-> delta_rs.sum, den |-> 2 * n]
      /\ latency = [num |-> latency_rs.sum, den |-> 2 * n]
  BY <1>1 DEF Steady, Measured, Averages, Average
<1>3. ASSUME NEW k \in 1 .. n
      PROVE  /\ Len(samples) - n + k \in Recent
             /\ Origin(k).out \in Nat /\ Origin(k).back \in Nat
             /\ delta_rs.window[k]
                    = 2 * (theirs - mine) + Origin(k).out - Origin(k).back
             /\ latency_rs.window[k] = Origin(k).out + Origin(k).back
  <2> DEFINE j == Len(samples) - n + k
  <2>1. j \in 1 .. Len(samples) /\ j > Len(samples) - WindowSize
    <3> HIDE DEF n
    <3> QED
      BY <1>1
  <2>2. j \in Recent
    BY <1>1, <2>1, LenProperties DEF Recent
  <2>3. Tells(Origin(k), delta_rs.window[k], latency_rs.window[k], jumps, theirs - mine)
    BY DEF Measured, Windows
  <2>4. Origin(k).era = jumps
    BY <2>2 DEF Steady, Origin
  <2>5. Origin(k).out \in Int /\ Origin(k).back \in Int
    BY OriginIsSample DEF Measured, Sample
  <2>6. /\ Origin(k).out >= 0 /\ Origin(k).back >= 0
        /\ delta_rs.window[k] = 2 * (theirs - mine) + Origin(k).out - Origin(k).back
        /\ latency_rs.window[k] = Origin(k).out + Origin(k).back
    <3> HIDE DEF n
    <3> QED
      BY <2>3, <2>4 DEF Tells
  <2>7. QED
    BY <2>2, <2>5, <2>6
<1>4. QED
  BY <1>1, <1>2, <1>3

\* However unlike the way there and the way back are: for every window size the
\* average is wrong by no more than the latency it is given with, from one window
\* after a clock was set.
THEOREM OffsetSound == SyncSpec => []OffsetWithinLatency
<1>1. SyncTypeOK /\ Measured => OffsetWithinLatency
  <2> SUFFICES ASSUME SyncTypeOK, Measured, Steady
               PROVE  LET error == delta.num - (theirs - mine) * delta.den
                      IN  /\ delta.den = latency.den
                          /\ error <= latency.num /\ -error <= latency.num
    BY DEF OffsetWithinLatency
  <2> DEFINE n == Len(delta_rs.window)
             off == theirs - mine
             c == 2 * off
  <2>1. /\ n \in Nat /\ Len(latency_rs.window) = n
        /\ delta = [num |-> delta_rs.sum, den |-> 2 * n]
        /\ latency = [num |-> latency_rs.sum, den |-> 2 * n]
        /\ \A k \in 1 .. n :
               /\ Origin(k).out \in Nat /\ Origin(k).back \in Nat
               /\ delta_rs.window[k] = c + Origin(k).out - Origin(k).back
               /\ latency_rs.window[k] = Origin(k).out + Origin(k).back
    BY SteadyWindow
  <2>2. /\ off \in Int /\ c \in Int
        /\ delta_rs.window \in Seq(Int) /\ latency_rs.window \in Seq(Int)
        /\ delta_rs.sum \in Int /\ latency_rs.sum \in Int
    BY DEF SyncTypeOK, Statistics
  <2>3. \A k \in 1 .. n : /\ delta_rs.window[k] - c <= latency_rs.window[k]
                          /\ -(delta_rs.window[k] - c) <= latency_rs.window[k]
    <3> SUFFICES ASSUME NEW k \in 1 .. n
                 PROVE  /\ delta_rs.window[k] - c <= latency_rs.window[k]
                        /\ -(delta_rs.window[k] - c) <= latency_rs.window[k]
      OBVIOUS
    <3> HIDE DEF c, n
    <3>1. /\ Origin(k).out \in Nat /\ Origin(k).back \in Nat
          /\ delta_rs.window[k] = c + Origin(k).out - Origin(k).back
          /\ latency_rs.window[k] = Origin(k).out + Origin(k).back
      BY <2>1
    <3> QED
      BY <2>2, <3>1
  <2>4. PICK t, u : /\ SumsTo(delta_rs.window, t, delta_rs.sum)
                    /\ SumsTo(latency_rs.window, u, latency_rs.sum)
    BY DEF Measured, Averages, Adds
  <2>5. off * (2 * n) = n * c
    BY <2>1, <2>2
  <2> HIDE DEF c, off
  <2>6. /\ delta_rs.sum - n * c <= latency_rs.sum
        /\ -(delta_rs.sum - n * c) <= latency_rs.sum
    BY <2>1, <2>2, <2>3, <2>4, SumsWithin
  <2>7. QED
    BY <2>1, <2>5, <2>6 DEF off
<1>2. QED
  BY <1>1, SyncTypeCorrect, MeasuredInit, MeasuredStep, PTL DEF SyncSpec

\* And if each exchange took as long there as back, the average is exact.
THEOREM SymmetricOffsetExact == SyncSpec => []SymmetricIsExact
<1>1. SyncTypeOK /\ Measured => SymmetricIsExact
  <2> SUFFICES ASSUME SyncTypeOK, Measured, Steady,
                      \A j \in Recent : samples[j].out = samples[j].back
               PROVE  delta.num = (theirs - mine) * delta.den
    BY DEF SymmetricIsExact
  <2> DEFINE n == Len(delta_rs.window)
             off == theirs - mine
             c == 2 * off
             zero == [k \in 1 .. n |-> 0]
             zeros == [k \in 0 .. n |-> 0]
  <2>1. /\ n \in Nat
        /\ delta = [num |-> delta_rs.sum, den |-> 2 * n]
        /\ \A k \in 1 .. n :
               /\ Len(samples) - n + k \in Recent
               /\ Origin(k).out \in Nat
               /\ delta_rs.window[k] = c + Origin(k).out - Origin(k).back
    BY SteadyWindow
  <2>2. off \in Int /\ c \in Int /\ delta_rs.window \in Seq(Int) /\ delta_rs.sum \in Int
    BY DEF SyncTypeOK, Statistics
  <2>3. \A k \in 1 .. n : delta_rs.window[k] = c
    <3> SUFFICES ASSUME NEW k \in 1 .. n PROVE delta_rs.window[k] = c
      OBVIOUS
    <3>1. Origin(k).out = Origin(k).back
      BY <2>1 DEF Origin
    <3> HIDE DEF c, n
    <3>2. /\ delta_rs.window[k] = c + Origin(k).out - Origin(k).back
          /\ Origin(k).out \in Int
      <4>1. Origin(k).out \in Nat
        BY <2>1
      <4>2. QED
        BY <2>1, <4>1
    <3> QED
      BY <2>2, <3>1, <3>2
  <2>4. zero \in Seq(Int) /\ Len(zero) = n
    BY <2>1
  <2>5. \A k \in 1 .. n : delta_rs.window[k] - c <= zero[k] /\ -(delta_rs.window[k] - c) <= zero[k]
    BY <2>2, <2>3
  <2>6. SumsTo(zero, zeros, 0)
    BY <2>1, <2>4 DEF SumsTo
  <2>7. PICK t : SumsTo(delta_rs.window, t, delta_rs.sum)
    BY DEF Measured, Averages, Adds
  <2>8. off * (2 * n) = n * c /\ n * c \in Int
    BY <2>1, <2>2
  <2> HIDE DEF c, off, zero, zeros
  <2>9. delta_rs.sum - n * c <= 0 /\ -(delta_rs.sum - n * c) <= 0
    BY <2>2, <2>4, <2>5, <2>6, <2>7, SumsWithin
  <2>10. delta_rs.sum = off * (2 * n)
    BY <2>2, <2>8, <2>9
  <2>11. QED
    BY <2>1, <2>10 DEF off
<1>2. QED
  BY <1>1, SyncTypeCorrect, MeasuredInit, MeasuredStep, PTL DEF SyncSpec
=============================================================================
