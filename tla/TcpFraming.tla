----------------------------- MODULE TcpFraming -----------------------------
(***************************************************************************)
(* NetworkConnection_TCPServerClient of src/networking.cpp: send() turns a *)
(* packet into a header with its size and a body, two writes to one byte   *)
(* stream; the listen thread turns the stream into packets again.  send()  *)
(* takes no lock and is called by several threads of the application: the  *)
(* callback of each MIDI input, main() for clock synchronisation, and the  *)
(* listen thread itself, for the answers onPacket gives.  The listen       *)
(* thread runs from the constructor on, and drops what is whole before     *)
(* main() has called setDelegate.                                          *)
(***************************************************************************)
EXTENDS Integers, Sequences

CONSTANTS
    Thread,         \* threads that call send()
    HeaderBytes,    \* sizeof(int)
    Size,           \* per thread, the size of the packets it sends
    SplitHeader,    \* whether read_some may return part of a header
    MaxSends        \* bound: packets sent

ASSUME TcpAssumption ==
    /\ HeaderBytes \in Nat \ {0}
    /\ Size \in [Thread -> Nat \ {0}]
    /\ SplitHeader \in BOOLEAN
    /\ MaxSends \in Nat

VARIABLES
    writing,    \* the packet whose body a thread in send() has still to write, or 0
    sent,       \* the packets in the order their headers were written
    mixed,      \* history: whether a header was written before another's body
    stream,     \* bytes written and not read
    rpc,        \* where the listen thread is
    header,     \* the bytes of its variable packet_size
    got,        \* packet_size_num_bytes, then num_read
    buffer,     \* what it has read of the body
    delegate,   \* whether setDelegate was called
    early,      \* history: packets that were whole before it was
    delivered,  \* packets handed to onPacket
    split       \* history: whether a header was read in parts

sendVars == <<writing, sent, mixed>>
handed == <<delegate, early, delivered>>
readVars == <<rpc, header, got, buffer, handed, split>>
tcpVars == <<sendVars, stream, readVars>>

-----------------------------------------------------------------------------
\* The n-th packet, when t sends it, is <<t, n>>; a byte knows where it belongs.
Packet == Thread \X (1 .. MaxSends)
Byte == [of : Packet, part : {"header", "body"}, at : Nat]

Bytes(m, part, len) == [k \in 1 .. len |-> [of |-> m, part |-> part, at |-> k]]
HeaderOf(m) == Bytes(m, "header", HeaderBytes)
BodyOf(m) == Bytes(m, "body", Size[m[1]])

\* packet_size when no byte of it has been read
NoHeader == <<>>

\* Whether packet_size holds the size some packet announces.
IsHeader(h) == \E n \in 1 .. Len(sent) : h = HeaderOf(sent[n])
Announced(h) == Size[h[1].of[1]]

TcpInit ==
    /\ writing = [t \in Thread |-> 0]
    /\ sent = <<>>
    /\ mixed = FALSE
    /\ stream = <<>>
    /\ rpc = "header"
    /\ header = NoHeader
    /\ got = 0
    /\ buffer = <<>>
    /\ delegate = FALSE
    /\ early = 0
    /\ delivered = <<>>
    /\ split = FALSE

-----------------------------------------------------------------------------
\* the first write of send()
WriteHeader(t) ==
    /\ writing[t] = 0
    /\ Len(sent) < MaxSends
    /\ writing' = [writing EXCEPT ![t] = Len(sent) + 1]
    /\ sent' = Append(sent, <<t, Len(sent) + 1>>)
    /\ mixed' = (mixed \/ \E u \in Thread : writing[u] # 0)
    /\ stream' = stream \o HeaderOf(<<t, Len(sent) + 1>>)
    /\ UNCHANGED readVars

\* the second write of send()
WriteBody(t) ==
    /\ writing[t] # 0
    /\ writing' = [writing EXCEPT ![t] = 0]
    /\ stream' = stream \o BodyOf(<<t, writing[t]>>)
    /\ UNCHANGED <<sent, mixed, readVars>>

-----------------------------------------------------------------------------
\* One read_some for what is missing of the header.  It always writes to the
\* first bytes of packet_size, whatever has been read already.
ReadHeader ==
    /\ rpc = "header"
    /\ \E n \in 1 .. HeaderBytes - got :
           /\ n <= Len(stream)
           /\ SplitHeader \/ n = HeaderBytes
           /\ header' = SubSeq(stream, 1, n) \o SubSeq(header, n + 1, Len(header))
           /\ got' = got + n
           /\ split' = (split \/ n < HeaderBytes)
           /\ stream' = SubSeq(stream, n + 1, Len(stream))
    /\ UNCHANGED <<sendVars, rpc, buffer, handed>>

\* four bytes are in: the size of the next packet, or of none
StartBody ==
    /\ rpc = "header"
    /\ got = HeaderBytes
    /\ rpc' = IF IsHeader(header) THEN "body" ELSE "astray"
    /\ got' = 0
    /\ UNCHANGED <<sendVars, stream, header, buffer, handed, split>>

\* Seeded fault: a read of the body starts over at the beginning of the buffer.
ReadBodyOver ==
    /\ rpc = "body"
    /\ \E n \in 1 .. Announced(header) - got :
           /\ n <= Len(stream)
           /\ buffer' = SubSeq(stream, 1, n) \o SubSeq(buffer, n + 1, Len(buffer))
           /\ got' = got + n
           /\ stream' = SubSeq(stream, n + 1, Len(stream))
    /\ UNCHANGED <<sendVars, rpc, header, handed, split>>

\* one read_some for what is missing of the body
ReadBody ==
    /\ rpc = "body"
    /\ \E n \in 1 .. Announced(header) - got :
           /\ n <= Len(stream)
           /\ buffer' = buffer \o SubSeq(stream, 1, n)
           /\ got' = got + n
           /\ stream' = SubSeq(stream, n + 1, Len(stream))
    /\ UNCHANGED <<sendVars, rpc, header, handed, split>>

\* the delegate is handed the packet, if there is one
HandOver ==
    /\ IF delegate THEN delivered' = Append(delivered, buffer) /\ UNCHANGED early
                   ELSE early' = early + 1 /\ UNCHANGED delivered
    /\ UNCHANGED delegate

\* Seeded fault: the counter is declared outside the loop.
DeliverUncounted ==
    /\ rpc = "body"
    /\ got = Announced(header)
    /\ HandOver
    /\ rpc' = "header"
    /\ header' = NoHeader
    /\ buffer' = <<>>
    /\ UNCHANGED <<sendVars, stream, got, split>>

\* the body is complete
Deliver ==
    /\ rpc = "body"
    /\ got = Announced(header)
    /\ HandOver
    /\ rpc' = "header"
    /\ header' = NoHeader
    /\ got' = 0
    /\ buffer' = <<>>
    /\ UNCHANGED <<sendVars, stream, split>>

\* read_some fails: the exception ends the thread, and nobody is told
Stop ==
    /\ rpc \in {"header", "body"}
    /\ rpc' = "stopped"
    /\ UNCHANGED <<sendVars, stream, header, got, buffer, handed, split>>

\* main(), with the constructor and its thread behind it
SetDelegate ==
    /\ ~delegate
    /\ delegate' = TRUE
    /\ UNCHANGED <<sendVars, stream, rpc, header, got, buffer, early, delivered, split>>

TcpSend(t) == WriteHeader(t) \/ WriteBody(t)
Listen == ReadHeader \/ StartBody \/ ReadBody \/ Deliver

TcpNext == (\E t \in Thread : TcpSend(t)) \/ Listen \/ Stop \/ SetDelegate

TcpSpec == TcpInit /\ [][TcpNext]_tcpVars

\* The threads run, and TCP delivers.
TcpFairSpec == TcpSpec /\ WF_tcpVars(Listen) /\ \A t \in Thread : WF_tcpVars(WriteBody(t))

-----------------------------------------------------------------------------
(* Type invariant. *)
TcpTypeOK ==
    /\ writing \in [Thread -> 0 .. MaxSends]
    /\ sent \in Seq(Packet)
    /\ mixed \in BOOLEAN
    /\ stream \in Seq(Byte)
    /\ rpc \in {"header", "body", "astray", "stopped"}
    /\ header \in Seq(Byte)
    /\ got \in Nat
    /\ buffer \in Seq(Byte)
    /\ rpc = "header" => got <= HeaderBytes
    /\ rpc = "body" => got = Len(buffer) /\ got <= Announced(header)
    /\ delegate \in BOOLEAN
    /\ early \in Nat
    /\ delivered \in Seq(Seq(Byte))
    /\ split \in BOOLEAN

\* What onPacket is given are the packets given to send(), whole, each once and
\* in order from the first that was whole after setDelegate, as README.md's
\* "UDP-like channel between two clients" has it of packets; a header is never read
\* where there is none.
InStep ==
    /\ rpc # "astray"
    /\ early + Len(delivered) <= Len(sent)
    /\ \A j \in DOMAIN delivered : delivered[j] = BodyOf(sent[early + j])

\* Whatever threads send, only two things put the listen thread out of step: a
\* header that came in parts, whose second part is written over the first, and a
\* header written between another packet's header and body.
InStepUnlessTorn == split \/ mixed \/ InStep

\* Every packet arrives, however the bytes of the bodies are divided among the
\* reads, unless the connection fails, one of those two things happens, or the
\* packet is whole before main() has called setDelegate, when it is dropped.
Arrives ==
    \A n \in 1 .. MaxSends :
        (Len(sent) >= n) ~> \/ n <= early
                            \/ n <= early + Len(delivered)
                            \/ rpc = "stopped" \/ split \/ mixed
=============================================================================
