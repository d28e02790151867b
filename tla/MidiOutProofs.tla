---------------------------- MODULE MidiOutProofs ---------------------------
(***************************************************************************)
(* Proofs about MidiOut, for every platform, any program, any lengths of   *)
(* messages and any number of calls.                                       *)
(***************************************************************************)
EXTENDS MidiOut, TLAPS

USE DEF Alsa, Core, Win

\* A message is new when it is sent, and Windows has no virtual port.
Numbered ==
    /\ silent \subseteq 1 .. calls
    /\ upc # "idle" => calls > 0
    /\ Win => ~virtual
    /\ upc = "playing" => Win

\* Both the encoder and the buffer have the room bufferSize says, and a
\* connection has its subscription, as long as there is memory.
Roomy ==
    "memory" \notin failed =>
        /\ bufferSize <= coder /\ bufferSize <= buffer
        /\ fault = "none"

Subscribed == Alsa /\ connected => link = "live"

\* Only ALSA keeps messages back, and whoever a message that is kept was sent to is
\* still there or has left with the message unheard.
Held ==
    /\ ~Alsa => buffered = {}
    /\ buffered \subseteq 1 .. calls
    /\ \A m \in buffered : \A r \in due[m] : r \in Present \/ m \in left[r]
    /\ upc = "send" => due[calls] \subseteq Present

IInv == TypeOK /\ Numbered /\ Roomy /\ Subscribed /\ Held /\ SilentIsHeard

-----------------------------------------------------------------------------
\* An object starts with room, without connection and with nothing sent.
LEMMA InitIInv == Init => IInv
<1> SUFFICES ASSUME Init PROVE IInv
  OBVIOUS
<1> USE ApiAssumption, OutAssumption DEF Init, ApiInit
<1>1. TypeOK
  <2>1. ApiTypeOK({"idle", "gone", "send", "playing"})
    <3>1. calls \in 0 .. MaxCalls
      OBVIOUS
    <3>2. /\ program \in Programs /\ connected \in BOOLEAN /\ failed \subseteq Fails
          /\ upc \in {"idle", "gone", "send", "playing"}
          /\ after \in {"idle", "gone", "send", "playing"}
      OBVIOUS
    <3> QED
      BY <3>1, <3>2 DEF ApiTypeOK
  <2>2. due \in [1 .. MaxCalls -> SUBSET Receivers]
    OBVIOUS
  <2>3. /\ heard \in [Receivers -> SUBSET (1 .. MaxCalls)]
        /\ left \in [Receivers -> SUBSET (1 .. MaxCalls)]
    OBVIOUS
  <2> QED
    BY <2>1, <2>2, <2>3 DEF TypeOK
<1>2. Numbered /\ Roomy /\ Subscribed /\ Held /\ SilentIsHeard
  BY DEF Numbered, Roomy, Subscribed, Held, SilentIsHeard
<1> QED
  BY <1>1, <1>2 DEF IInv

-----------------------------------------------------------------------------
\* What becomes of the output buffer when receivers leave.
Leaves ==
    /\ buffered' \in {{}, buffered}
    /\ left' \in [Receivers -> SUBSET (1 .. MaxCalls)]
    /\ \A r \in Receivers : left[r] \subseteq left'[r] /\ left'[r] \subseteq left[r] \cup buffered
    /\ \A r \in Receivers :
           buffered \subseteq left'[r] \/ (buffered' = buffered /\ (r \in Present => r \in Present'))

\* What a function that opens or closes ports may change.
LEMMA PortEffect ==
    ASSUME TypeOK, PortStep
    PROVE  /\ UNCHANGED <<after, api, bufferSize, coder, buffer, due, silent, heard>>
           /\ calls' = calls + 1 /\ calls < MaxCalls
           /\ program' = program
           /\ upc' \in {"idle", "gone"}
           /\ connected' \in BOOLEAN /\ client' \in BOOLEAN /\ virtual' \in BOOLEAN
           /\ link' \in {"garbage", "live", "freed"}
           /\ failed \subseteq failed' /\ failed' \subseteq Fails
           /\ Win /\ ~virtual => ~virtual'
           /\ (Alsa /\ connected => link = "live") =>
                  fault' = fault /\ (Alsa /\ connected' => link' = "live")
           /\ \/ /\ UNCHANGED <<buffered, left>>
                 /\ connected => connected'
                 /\ virtual => virtual'
              \/ Leaves
<1> USE DEF TypeOK, ApiTypeOK, Begin, Call, Fail
<1>0. UNCHANGED <<after, api, bufferSize, coder, buffer, due, silent, heard>>
  BY DEF PortStep
<1> DEFINE Kept == UNCHANGED <<buffered, left>>
<1>1. CASE OpenConnected /\ Kept
  BY <1>0, <1>1 DEF OpenConnected
<1>2. CASE OpenPort /\ Kept
  BY <1>0, <1>2 DEF OpenPort
<1>3. CASE OpenFails /\ Kept
  <2> USE <1>3 DEF OpenFails
  <2>1. failed \subseteq failed' /\ failed' \subseteq Fails
    OBVIOUS
  <2>2. client' \in BOOLEAN
    OBVIOUS
  <2> QED
    BY <1>0, <2>1, <2>2
<1>4. CASE SubscribeFails /\ Kept
  BY <1>0, <1>4 DEF SubscribeFails
<1>5. CASE OpenVirtual /\ Kept
  BY <1>0, <1>5 DEF OpenVirtual
<1>6. CASE OpenVirtualFails /\ Kept
  BY <1>0, <1>6 DEF OpenVirtualFails
<1>7. ASSUME Close("closePort", "idle") \/ Close("delete", "gone")
      PROVE  /\ calls' = calls + 1 /\ calls < MaxCalls
             /\ program' = program
             /\ upc' \in {"idle", "gone"}
             /\ connected' = FALSE
             /\ UNCHANGED <<client, virtual, failed>>
             /\ Leaves
             /\ link' = IF Alsa /\ connected THEN "freed" ELSE link
             /\ fault' = IF Alsa /\ connected /\ link # "live"
                         THEN "freed twice" ELSE fault
  <2>1. Leaves
    <3>1. PICK to :
              /\ left' = [r \in Receivers |->
                     IF to = "gone" \/ (connected /\ r = "port")
                     THEN left[r] \cup buffered ELSE left[r]]
              /\ buffered' = IF to = "gone" THEN {} ELSE buffered
              /\ virtual' = virtual
      BY <1>7 DEF Close
    <3>2. left' \in [Receivers -> SUBSET (1 .. MaxCalls)]
      BY <3>1
    <3>3. ASSUME NEW r \in Receivers, ~(buffered \subseteq left'[r])
          PROVE  buffered' = buffered /\ (r \in Present => r \in Present')
      BY <3>1, <3>3 DEF Present
    <3> QED
      BY <3>1, <3>2, <3>3 DEF Leaves
  <2> QED
    BY <1>7, <2>1 DEF Close
<1>8. CASE Close("closePort", "idle") \/ Close("delete", "gone")
  <2>1. calls' = calls + 1 /\ calls < MaxCalls
    BY <1>7, <1>8
  <2>2. link' \in {"garbage", "live", "freed"}
    BY <1>7, <1>8
  <2>3. (Alsa /\ connected => link = "live") => fault' = fault
    BY <1>7, <1>8
  <2>4. UNCHANGED <<client, virtual, failed>> /\ connected' = FALSE
    BY <1>7, <1>8
  <2>5. program' = program /\ upc' \in {"idle", "gone"}
    BY <1>7, <1>8
  <2>6. Leaves
    BY <1>7, <1>8
  <2> HIDE DEF Begin, Call, Fail
  <2> QED
    BY <1>0, <2>1, <2>2, <2>3, <2>4, <2>5, <2>6
<1> QED
  BY <1>1, <1>2, <1>3, <1>4, <1>5, <1>6, <1>8 DEF PortStep, OpenStep

\* What opens and closes ports sends nothing and frees a subscription only when
\* there is one.
LEMMA PortKeeps == IInv /\ PortStep => IInv'
<1> SUFFICES ASSUME IInv, PortStep PROVE IInv'
  OBVIOUS
<1> USE ApiAssumption DEF IInv
<1>0. TypeOK
  OBVIOUS
<1>1. TypeOK'
  <2>1. calls' \in 0 .. MaxCalls
    BY <1>0, PortEffect DEF TypeOK, ApiTypeOK
  <2>2. ApiTypeOK({"idle", "gone", "send", "playing"})'
    <3>1. /\ program' \in Programs /\ connected' \in BOOLEAN /\ failed' \subseteq Fails
          /\ upc' \in {"idle", "gone", "send", "playing"}
          /\ after' \in {"idle", "gone", "send", "playing"}
      BY <1>0, PortEffect DEF TypeOK, ApiTypeOK
    <3> QED
      BY <2>1, <3>1 DEF ApiTypeOK
  <2>3. /\ buffered' \subseteq 1 .. MaxCalls
        /\ left' \in [Receivers -> SUBSET (1 .. MaxCalls)]
    <3>1. UNCHANGED <<buffered, left>> \/ Leaves
      BY <1>0, PortEffect
    <3> QED
      BY <1>0, <3>1 DEF Leaves, TypeOK
  <2> QED
    BY <1>0, <2>2, <2>3, PortEffect DEF TypeOK
<1>2. SilentIsHeard'
  <2>1. /\ UNCHANGED <<due, silent, heard>> /\ failed \subseteq failed'
        /\ \/ UNCHANGED <<buffered, left>>
           \/ Leaves
    BY <1>0, PortEffect
  <2>2. CASE UNCHANGED <<buffered, left>>
    BY <2>1, <2>2 DEF SilentIsHeard
  <2>3. CASE Leaves
    <3>1. \A m \in silent : \A r \in due[m] :
              m \in heard[r] \/ m \in buffered' \/ m \in left'[r]
      <4> SUFFICES ASSUME NEW m \in silent, NEW r \in due[m]
                   PROVE  m \in heard[r] \/ m \in buffered' \/ m \in left'[r]
        OBVIOUS
      <4>1. r \in Receivers
        BY DEF TypeOK
      <4>2. m \in heard[r] \/ m \in buffered \/ m \in left[r]
        BY DEF SilentIsHeard
      <4> QED
        BY <2>3, <4>1, <4>2 DEF Leaves
    <3>2. "drain" \notin failed' => buffered' = {} /\ \A r \in Receivers : left'[r] = {}
      BY <2>1, <2>3 DEF Leaves, SilentIsHeard
    <3> QED
      BY <2>1, <3>1, <3>2 DEF SilentIsHeard
  <2> QED
    BY <2>1, <2>2, <2>3
<1>3. Numbered'
  <2>1. calls \in Nat
    BY <1>0 DEF TypeOK, ApiTypeOK
  <2>2. silent' \subseteq 1 .. calls'
    <3>1. silent' = silent /\ calls' = calls + 1
      BY <1>0, PortEffect
    <3> QED
      BY <2>1, <3>1 DEF Numbered
  <2>3. (Win => ~virtual)'
    BY <1>0, PortEffect DEF Numbered
  <2>4. calls' > 0
    BY <1>0, <2>1, PortEffect
  <2>5. upc' \in {"idle", "gone"}
    BY <1>0, PortEffect
  <2> QED
    BY <2>2, <2>3, <2>4, <2>5 DEF Numbered
<1>4. Subscribed' /\ fault' = fault
  BY <1>0, PortEffect DEF Subscribed
<1>5. Roomy'
  BY <1>0, <1>4, PortEffect DEF Roomy
<1>6. Held'
  <2>0. /\ UNCHANGED <<api, due>>
        /\ calls' = calls + 1 /\ upc' \in {"idle", "gone"}
        /\ \/ UNCHANGED <<buffered, left>> /\ (connected => connected') /\ (virtual => virtual')
           \/ Leaves
    BY <1>0, PortEffect
  <2>1. buffered' \subseteq buffered
    BY <2>0 DEF Leaves
  <2>2. buffered' \subseteq 1 .. calls'
    BY <2>0, <2>1 DEF Held, TypeOK, ApiTypeOK
  <2>3. ASSUME NEW m \in buffered', NEW r \in due'[m]
        PROVE  r \in Present' \/ m \in left'[r]
    <3>1. m \in buffered /\ r \in due[m] /\ m \in 1 .. MaxCalls
      BY <2>0, <2>1 DEF TypeOK
    <3>2. r \in Receivers
      BY <3>1 DEF TypeOK
    <3>3. r \in Present \/ m \in left[r]
      BY <3>1 DEF Held
    <3>4. CASE Leaves
      BY <3>1, <3>2, <3>3, <3>4 DEF Leaves
    <3>5. CASE UNCHANGED <<buffered, left>> /\ (connected => connected') /\ (virtual => virtual')
      BY <3>3, <3>5 DEF Present
    <3> QED
      BY <2>0, <3>4, <3>5
  <2> QED
    BY <2>0, <2>1, <2>2, <2>3 DEF Held
<1> QED
  BY <1>1, <1>2, <1>3, <1>4, <1>5, <1>6

-----------------------------------------------------------------------------
\* A message that is sent gets a number no other has.
LEMMA SendsNew ==
    ASSUME TypeOK, NEW to, Sends(to)
    PROVE  /\ calls' = calls + 1 /\ calls' \in 1 .. MaxCalls
           /\ upc' = to /\ program' = program
           /\ due' \in [1 .. MaxCalls -> SUBSET Receivers]
           /\ \A m \in 1 .. calls : due'[m] = due[m]
           /\ due'[calls'] = Present
BY ApiAssumption DEF TypeOK, ApiTypeOK, Sends, Begin, Present

\* The system takes nothing back.
LEMMA DeliverAdds ==
    ASSUME TypeOK, NEW ms \in SUBSET (1 .. MaxCalls), NEW rs, Deliver(ms, rs)
    PROVE  /\ heard' \in [Receivers -> SUBSET (1 .. MaxCalls)]
           /\ \A r \in Receivers : heard[r] \subseteq heard'[r]
           /\ \A r \in rs \cap Receivers : ms \subseteq heard'[r]
BY DEF TypeOK, Deliver

\* What leaves the output buffer is heard by all there are.
LEMMA DrainHeard ==
    ASSUME TypeOK, NEW ms \in SUBSET (1 .. MaxCalls), NEW k \in Nat, Drain(ms, k)
    PROVE  /\ heard' \in [Receivers -> SUBSET (1 .. MaxCalls)]
           /\ \A r \in Receivers : heard[r] \subseteq heard'[r]
           /\ \A m \in ms \ buffered' : \A r \in Present : m \in heard'[r]
           /\ buffered' \subseteq ms
<1> DEFINE out == {m \in ms : m < k}
<1>1. Deliver(out, Present) /\ buffered' = {m \in ms : m >= k}
  BY DEF Drain
<1>2. ms \ buffered' \subseteq out
  <2> SUFFICES ASSUME NEW m \in ms, ~(m >= k) PROVE m < k
    BY <1>1
  <2> QED
    OBVIOUS
<1>3. Present \subseteq Receivers
  BY DEF Present
<1>4. out \in SUBSET (1 .. MaxCalls)
  OBVIOUS
<1> HIDE DEF out
<1>5. /\ heard' \in [Receivers -> SUBSET (1 .. MaxCalls)]
      /\ \A r \in Receivers : heard[r] \subseteq heard'[r]
      /\ \A r \in Present \cap Receivers : out \subseteq heard'[r]
  BY <1>1, <1>4, DeliverAdds
<1> QED
  BY <1>1, <1>2, <1>3, <1>5

-----------------------------------------------------------------------------
\* What a step of sendMessage may change.
SendEffect ==
    /\ calls' \in 1 .. MaxCalls /\ calls <= calls'
    /\ upc' \in {"idle", "send", "playing"} /\ program' = program
    /\ upc' = "playing" => Win
    /\ due' \in [1 .. MaxCalls -> SUBSET Receivers]
    /\ \A m \in 1 .. calls : due'[m] = due[m]
    /\ heard' \in [Receivers -> SUBSET (1 .. MaxCalls)]
    /\ \A r \in Receivers : heard[r] \subseteq heard'[r]
    /\ silent' \subseteq silent \cup {calls'}
    /\ calls' \in silent' \ silent =>
           \A r \in due'[calls'] : calls' \in heard'[r] \/ calls' \in buffered'
    /\ buffered' \subseteq buffered \cup {calls'}
    /\ \A m \in buffered \ buffered' : \A r \in Present : m \in heard'[r]
    /\ calls' \in buffered' \/ upc' = "send" => due'[calls'] \subseteq Present
    /\ ~Alsa => buffered' = buffered
    /\ "drain" \notin failed' /\ buffered = {} => buffered' = {}
    /\ failed \subseteq failed' /\ failed' \subseteq Fails
    /\ bufferSize' \in {1} \cup Lengths
    /\ coder' \in {1} \cup Lengths
    /\ buffer' \in {0, 1} \cup Lengths
    /\ Roomy => Roomy'

\* Such a step keeps the invariant: what was heard stays heard, and a message that
\* becomes silent now is heard now.
LEMMA SendKeeps ==
    IInv /\ SendEffect /\ UNCHANGED <<after, connected, api, client, virtual, link, left>>
        => IInv'
<1> SUFFICES ASSUME IInv, SendEffect,
                    UNCHANGED <<after, connected, api, client, virtual, link, left>>
             PROVE  IInv'
  OBVIOUS
<1>0. TypeOK /\ Numbered /\ Subscribed /\ Held /\ SilentIsHeard /\ Roomy
  BY DEF IInv
<1>1. calls \in 0 .. MaxCalls /\ calls' \in 1 .. MaxCalls /\ calls <= calls'
  BY <1>0 DEF TypeOK, ApiTypeOK, SendEffect
<1>2. silent' \subseteq 1 .. calls'
  <2>1. silent \subseteq 1 .. calls /\ silent' \subseteq silent \cup {calls'}
    BY <1>0 DEF Numbered, SendEffect
  <2> QED
    BY <1>1, <2>1, ApiAssumption
<1>3. TypeOK'
  <2>1. calls' \in 0 .. MaxCalls
    BY <1>1, ApiAssumption
  <2>2. silent' \subseteq 1 .. MaxCalls
    BY <1>1, <1>2, ApiAssumption
  <2>4. buffered' \subseteq 1 .. MaxCalls
    BY <1>0, <1>1 DEF TypeOK, SendEffect
  <2>3. ApiTypeOK({"idle", "gone", "send", "playing"})'
    <3>1. /\ program' \in Programs /\ connected' \in BOOLEAN /\ failed' \subseteq Fails
          /\ upc' \in {"idle", "gone", "send", "playing"}
          /\ after' \in {"idle", "gone", "send", "playing"}
      BY <1>0 DEF TypeOK, ApiTypeOK, SendEffect
    <3> QED
      BY <2>1, <3>1 DEF ApiTypeOK
  <2> QED
    BY <1>0, <2>2, <2>3, <2>4 DEF TypeOK, SendEffect
<1>4. Numbered'
  <2>1. calls' > 0
    BY <1>1, ApiAssumption
  <2> QED
    BY <1>0, <1>2, <2>1 DEF Numbered, SendEffect
<1>5. SilentIsHeard'
  <2>1. ASSUME NEW m \in silent', NEW r \in due'[m]
        PROVE  m \in heard'[r] \/ m \in buffered' \/ m \in left'[r]
    <3>1. CASE m \in silent
      <4>1. m \in 1 .. calls /\ m \in 1 .. MaxCalls
        BY <1>0, <3>1 DEF Numbered, TypeOK
      <4>2. due'[m] = due[m]
        BY <4>1 DEF SendEffect
      <4>3. r \in Receivers
        BY <1>0, <4>1, <4>2 DEF TypeOK
      <4>4. CASE m \in heard[r]
        BY <4>3, <4>4 DEF SendEffect
      <4>5. CASE m \in left[r]
        BY <4>5
      <4>6. CASE m \in buffered
        BY <1>0, <2>1, <4>2, <4>6 DEF Held, SendEffect
      <4> QED
        BY <1>0, <2>1, <3>1, <4>2, <4>4, <4>5, <4>6 DEF SilentIsHeard
    <3>2. CASE m \notin silent
      BY <2>1, <3>2 DEF SendEffect
    <3> QED
      BY <3>1, <3>2
  <2>2. "drain" \notin failed' => buffered' = {} /\ \A r \in Receivers : left'[r] = {}
    BY <1>0 DEF SilentIsHeard, SendEffect
  <2> QED
    BY <2>1, <2>2 DEF SilentIsHeard
<1>7. Held'
  <2>1. buffered' \subseteq 1 .. calls'
    BY <1>0, <1>1 DEF Held, SendEffect
  <2>2. Present' = Present
    BY DEF Present
  <2>3. ASSUME NEW m \in buffered', NEW r \in due'[m]
        PROVE  r \in Present' \/ m \in left'[r]
    <3>1. CASE m = calls'
      BY <2>2, <2>3, <3>1 DEF SendEffect
    <3>2. CASE m # calls'
      <4>1. m \in buffered
        BY <3>2 DEF SendEffect
      <4>2. due'[m] = due[m]
        BY <1>0, <4>1 DEF Held, SendEffect
      <4> QED
        BY <1>0, <2>2, <2>3, <4>1, <4>2 DEF Held
    <3> QED
      BY <3>1, <3>2
  <2>4. (~Alsa => buffered = {})' /\ (upc' = "send" => due'[calls'] \subseteq Present')
    BY <1>0, <2>2 DEF Held, SendEffect
  <2> QED
    BY <2>1, <2>3, <2>4 DEF Held
<1>6. Subscribed' /\ Roomy'
  BY <1>0 DEF Subscribed, SendEffect
<1> QED
  BY <1>3, <1>4, <1>5, <1>6, <1>7 DEF IInv

\* A message too long for the buffer either gets room in both, or an error.
LEMMA GrowEffect == \A n \in Lengths : IInv /\ Grow(n) => SendEffect
<1> SUFFICES ASSUME NEW n \in Lengths, IInv, Grow(n) PROVE SendEffect
  OBVIOUS
<1>0. TypeOK /\ n \in Nat
  BY OutAssumption DEF IInv
<1>1. /\ calls' = calls + 1 /\ calls' \in 1 .. MaxCalls
      /\ upc' \in {"send", "idle"} /\ program' = program
      /\ due' \in [1 .. MaxCalls -> SUBSET Receivers]
      /\ \A m \in 1 .. calls : due'[m] = due[m]
      /\ due'[calls'] = Present
  BY <1>0, SendsNew DEF Grow
<1>2. calls <= calls'
  BY <1>0, <1>1 DEF TypeOK, ApiTypeOK
<1>3. UNCHANGED <<buffered, silent, heard, fault>> /\ bufferSize' = n
  BY DEF Grow
<1>4. failed \subseteq failed' /\ failed' \subseteq Fails
  BY <1>0 DEF Grow, Fail, TypeOK, ApiTypeOK
<1>5. coder' \in {1} \cup Lengths /\ buffer' \in {0, 1} \cup Lengths
  BY <1>0 DEF Grow, TypeOK
<1>6. "memory" \in failed' \/ (coder' = n /\ buffer' = n)
  BY DEF Grow, Fail
<1>7. Roomy => Roomy'
  <2>1. "memory" \notin failed' => bufferSize' <= coder' /\ bufferSize' <= buffer'
    BY <1>0, <1>3, <1>6
  <2> QED
    BY <1>3, <1>4, <2>1 DEF Roomy
<1> QED
  BY <1>0, <1>1, <1>2, <1>3, <1>4, <1>5, <1>7 DEF SendEffect, TypeOK

\* What fits the buffer is copied into it, and what is sent is heard.
LEMMA SendAlsaEffect == \A n \in Lengths : IInv /\ SendAlsa(n) => SendEffect
<1> SUFFICES ASSUME NEW n \in Lengths, IInv, SendAlsa(n) PROVE SendEffect
  OBVIOUS
<1>0. TypeOK /\ Numbered /\ Held /\ n \in Nat
  BY OutAssumption DEF IInv
<1>1. /\ calls' \in 1 .. MaxCalls /\ calls <= calls'
      /\ upc' = "idle" /\ program' = program
      /\ due' \in [1 .. MaxCalls -> SUBSET Receivers]
      /\ \A m \in 1 .. calls : due'[m] = due[m]
      /\ due'[calls'] \subseteq Present
  <2>1. CASE Sends("idle")
    <3>1. calls' = calls + 1 /\ calls \in Nat
      BY <1>0, <2>1, SendsNew DEF TypeOK, ApiTypeOK
    <3>2. calls <= calls'
      BY <3>1
    <3> QED
      BY <1>0, <2>1, <3>2, SendsNew
  <2>2. CASE Continue("send", "idle") /\ UNCHANGED due
    <3>1. calls' = calls /\ calls \in 1 .. MaxCalls
      BY <1>0, <2>2, ApiAssumption DEF Continue, Numbered, TypeOK, ApiTypeOK
    <3>2. calls <= calls'
      BY <3>1, ApiAssumption
    <3> QED
      BY <1>0, <2>2, <3>1, <3>2 DEF Continue, TypeOK, Held
  <2> QED
    BY <2>1, <2>2 DEF SendAlsa
<1> DEFINE Sound ==
      /\ heard' \in [Receivers -> SUBSET (1 .. MaxCalls)]
      /\ \A r \in Receivers : heard[r] \subseteq heard'[r]
      /\ silent' \subseteq silent \cup {calls'}
      /\ calls' \in silent' \ silent =>
             \A r \in due'[calls'] : calls' \in heard'[r] \/ calls' \in buffered'
      /\ buffered' \subseteq buffered \cup {calls'}
      /\ \A m \in buffered \ buffered' : \A r \in Present : m \in heard'[r]
      /\ "drain" \notin failed' /\ buffered = {} => buffered' = {}
<1>2. Sound
  <2>1. CASE UNCHANGED <<buffered, silent, heard>>
    BY <1>0, <2>1 DEF TypeOK
  <2>2. ASSUME NEW k \in Nat, Drain(buffered, k), UNCHANGED silent
        PROVE  Sound
    <3>1. buffered \in SUBSET (1 .. MaxCalls)
      BY <1>0 DEF TypeOK
    <3> QED
      BY <1>0, <2>2, <3>1, DrainHeard
  <2>3. ASSUME NEW k \in Nat, Drain(buffered \cup {calls'}, k), silent' = silent \cup {calls'},
               "drain" \notin failed' => k = calls' + 1
        PROVE  Sound
    <3>1. buffered \cup {calls'} \in SUBSET (1 .. MaxCalls)
      BY <1>0, <1>1 DEF TypeOK
    <3>2. /\ heard' \in [Receivers -> SUBSET (1 .. MaxCalls)]
          /\ \A r \in Receivers : heard[r] \subseteq heard'[r]
          /\ \A m \in (buffered \cup {calls'}) \ buffered' : \A r \in Present : m \in heard'[r]
          /\ buffered' \subseteq buffered \cup {calls'}
      BY <1>0, <2>3, <3>1, DrainHeard
    <3>3. "drain" \notin failed' /\ buffered = {} => buffered' = {}
      <4> SUFFICES ASSUME k = calls' + 1, buffered = {} PROVE buffered' = {}
        BY <2>3
      <4>1. buffered' = {m \in {calls'} : m >= calls' + 1}
        BY <2>3 DEF Drain
      <4>2. ~(calls' >= calls' + 1)
        <5>1. calls' \in Nat
          BY <1>1, ApiAssumption
        <5>2. \A x \in Nat : ~(x >= x + 1)
          OBVIOUS
        <5> QED
          BY <5>1, <5>2
      <4> QED
        BY <4>1, <4>2
    <3> QED
      BY <1>1, <2>3, <3>2, <3>3
  <2>4. calls' + 1 \in Nat /\ 1 .. MaxCalls \subseteq Nat /\ buffered \cup {calls'} \subseteq Nat
    <3>1. 1 .. MaxCalls \subseteq Nat
      BY ApiAssumption
    <3>2. calls' \in Nat
      BY <1>1, <3>1
    <3>3. \A x \in Nat : x + 1 \in Nat
      OBVIOUS
    <3> QED
      BY <1>0, <1>1, <3>1, <3>2, <3>3 DEF TypeOK
  <2> HIDE DEF Sound
  <2> QED
    BY <2>1, <2>2, <2>3, <2>4 DEF SendAlsa, Fail
<1>3. failed \subseteq failed' /\ failed' \subseteq Fails
  BY <1>0 DEF SendAlsa, Fail, TypeOK, ApiTypeOK
<1>4. UNCHANGED <<bufferSize, coder, buffer>>
  BY DEF SendAlsa
<1>5. Roomy => Roomy'
  <2>0. n <= bufferSize \/ n = bufferSize
    BY DEF SendAlsa
  <2>1. n <= bufferSize
    BY <1>0, <2>0
  <2>2. bufferSize \in Nat /\ buffer \in Nat
    BY <1>0, OutAssumption DEF TypeOK
  <2>3. bufferSize <= buffer => fault' = fault
    <3>1. fault' = IF n > buffer THEN "written past the end" ELSE fault
      BY DEF SendAlsa
    <3>2. bufferSize <= buffer => ~(n > buffer)
      BY <1>0, <2>1, <2>2
    <3> QED
      BY <3>1, <3>2
  <2> QED
    BY <1>3, <1>4, <2>3 DEF Roomy
<1> QED
  BY <1>0, <1>1, <1>2, <1>3, <1>4, <1>5 DEF SendEffect, TypeOK, SendAlsa

\* OS X has no buffer of its own.
LEMMA SendCoreEffect == IInv /\ SendCore => SendEffect
<1> SUFFICES ASSUME IInv, SendCore PROVE SendEffect
  OBVIOUS
<1>0. TypeOK
  BY DEF IInv
<1>1. /\ calls' = calls + 1 /\ calls' \in 1 .. MaxCalls
      /\ upc' = "idle" /\ program' = program
      /\ due' \in [1 .. MaxCalls -> SUBSET Receivers]
      /\ \A m \in 1 .. calls : due'[m] = due[m]
  BY <1>0, SendsNew DEF SendCore
<1>2. calls <= calls'
  BY <1>0, <1>1 DEF TypeOK, ApiTypeOK
<1>3. /\ heard' \in [Receivers -> SUBSET (1 .. MaxCalls)]
      /\ \A r \in Receivers : heard[r] \subseteq heard'[r]
      /\ silent' \subseteq silent \cup {calls'}
      /\ calls' \in silent' \ silent => \A r \in due'[calls'] : calls' \in heard'[r]
  <2>1. CASE silent' = silent \cup {calls'} /\ Deliver({calls'}, due'[calls'])
    <3>1. due'[calls'] \subseteq Receivers
      BY <1>1
    <3> QED
      BY <1>0, <1>1, <2>1, <3>1, DeliverAdds
  <2>2. CASE silent' = silent /\ \E some \in SUBSET due'[calls'] : Deliver({calls'}, some)
    BY <1>0, <1>1, <2>2, DeliverAdds
  <2>3. CASE UNCHANGED <<silent, heard>>
    BY <1>0, <2>3 DEF TypeOK
  <2>4. \/ silent' = silent \cup {calls'} /\ Deliver({calls'}, due'[calls'])
        \/ silent' = silent /\ \E some \in SUBSET due'[calls'] : Deliver({calls'}, some)
        \/ UNCHANGED <<silent, heard>>
    BY DEF SendCore
  <2> QED
    BY <2>1, <2>2, <2>3, <2>4
<1>4. failed \subseteq failed' /\ failed' \subseteq Fails
  BY <1>0 DEF SendCore, Fail, TypeOK, ApiTypeOK
<1>5. UNCHANGED <<bufferSize, coder, buffer, buffered, fault>>
  BY DEF SendCore
<1>6. Roomy => Roomy'
  BY <1>4, <1>5 DEF Roomy
<1>7. buffered = {} /\ buffered' = buffered
  BY <1>5 DEF IInv, Held, SendCore
<1> QED
  BY <1>0, <1>1, <1>2, <1>3, <1>4, <1>5, <1>6, <1>7 DEF SendEffect, TypeOK

\* On Windows there is nobody to hear what is sent without a connection.
LEMMA SendWinEffect == IInv /\ SendWin => SendEffect
<1> SUFFICES ASSUME IInv, SendWin PROVE SendEffect
  OBVIOUS
<1>0. TypeOK /\ Numbered
  BY DEF IInv
<1>1. /\ calls' = calls + 1 /\ calls' \in 1 .. MaxCalls
      /\ upc' \in {"playing", "idle"} /\ program' = program
      /\ due' \in [1 .. MaxCalls -> SUBSET Receivers]
      /\ \A m \in 1 .. calls : due'[m] = due[m]
      /\ due'[calls'] = Present
  BY <1>0, SendsNew DEF SendWin
<1>2. calls <= calls'
  BY <1>0, <1>1 DEF TypeOK, ApiTypeOK
<1>3. UNCHANGED <<bufferSize, coder, buffer, buffered, heard, failed, fault>>
  BY DEF SendWin
<1>4. ~connected => due'[calls'] = {}
  BY <1>0, <1>1 DEF SendWin, Numbered, Present
<1>5. /\ silent' \subseteq silent \cup {calls'}
      /\ calls' \in silent' \ silent => \A r \in due'[calls'] : calls' \in heard'[r]
  BY <1>4 DEF SendWin
<1>6. Roomy => Roomy'
  BY <1>3 DEF Roomy
<1>7. buffered = {} /\ buffered' = buffered /\ Win
  BY <1>3 DEF IInv, Held, SendWin
<1> QED
  BY <1>0, <1>1, <1>2, <1>3, <1>5, <1>6, <1>7 DEF SendEffect, TypeOK, ApiTypeOK

\* When the device has played the message it was heard.
LEMMA PlayedEffect == IInv /\ Played => SendEffect
<1> SUFFICES ASSUME IInv, Played PROVE SendEffect
  OBVIOUS
<1>0. TypeOK /\ Numbered
  BY DEF IInv
<1>1. calls' = calls /\ calls \in 1 .. MaxCalls
  BY <1>0, ApiAssumption DEF Played, Continue, Numbered, TypeOK, ApiTypeOK
<1>2. calls <= calls'
  BY <1>1, ApiAssumption
<1>3. upc' = "idle" /\ program' = program /\ UNCHANGED <<due, bufferSize, coder, buffer, buffered, fault>>
  BY DEF Played, Continue
<1>4. /\ heard' \in [Receivers -> SUBSET (1 .. MaxCalls)]
      /\ \A r \in Receivers : heard[r] \subseteq heard'[r]
      /\ silent' \subseteq silent \cup {calls'}
      /\ calls' \in silent' \ silent => \A r \in due'[calls'] : calls' \in heard'[r]
  <2>1. CASE silent' = silent \cup {calls} /\ Deliver({calls}, due[calls])
    <3>1. due[calls] \subseteq Receivers
      BY <1>0, <1>1 DEF TypeOK
    <3> QED
      BY <1>0, <1>1, <1>3, <2>1, <3>1, DeliverAdds
  <2>2. CASE UNCHANGED <<silent, heard>>
    BY <1>0, <2>2 DEF TypeOK
  <2> QED
    BY <2>1, <2>2 DEF Played
<1>5. failed \subseteq failed' /\ failed' \subseteq Fails
  BY <1>0 DEF Played, Fail, TypeOK, ApiTypeOK
<1>6. Roomy => Roomy'
  BY <1>3, <1>5 DEF Roomy
<1>7. buffered = {} /\ buffered' = buffered
  BY <1>0, <1>3 DEF IInv, Held, Played, Continue, Numbered
<1> QED
  BY <1>0, <1>1, <1>2, <1>3, <1>4, <1>5, <1>6, <1>7 DEF SendEffect, TypeOK

-----------------------------------------------------------------------------
\* Every step keeps the invariant.
LEMMA NextKeeps == IInv /\ [Next]_vars => IInv'
<1> SUFFICES ASSUME IInv, [Next]_vars PROVE IInv'
  OBVIOUS
<1>1. CASE PortStep
  BY <1>1, PortKeeps
<1>2. CASE SendStep
  <2>1. SendEffect
    BY <1>2, GrowEffect, SendAlsaEffect, SendCoreEffect, SendWinEffect, PlayedEffect
    DEF SendStep
  <2> QED
    BY <1>2, <2>1, SendKeeps DEF SendStep
<1>3. CASE UNCHANGED vars
  BY <1>3 DEF vars, apiVars, callVars, outVars, alsaVars, sendVars, IInv, TypeOK,
              ApiTypeOK, Numbered, Roomy, Subscribed, Held, SilentIsHeard, Present
<1> QED
  BY <1>1, <1>2, <1>3 DEF Next

\* The invariant holds in every behaviour of an output object.
LEMMA AlwaysIInv == Spec => []IInv
<1>1. Init => IInv
  BY InitIInv
<1>2. IInv /\ [Next]_vars => IInv'
  BY NextKeeps
<1> QED
  BY <1>1, <1>2, PTL DEF Spec

\* Every variable of an output object keeps its type on each of the platforms.
THEOREM OutTypeCorrect == Spec => []TypeOK
<1>1. IInv => TypeOK
  BY DEF IInv
<1> QED
  BY <1>1, AlwaysIInv, PTL

\* For messages of any length in any order, and ports opened and closed in between,
\* sendMessage never writes past its buffer and no subscription is freed twice, as
\* long as the system gives memory.
THEOREM FaultsNeedMemory == Spec => []FaultHasCause
<1>1. IInv => FaultHasCause
  BY DEF IInv, Roomy, FaultHasCause
<1> QED
  BY <1>1, AlwaysIInv, PTL

\* Whatever ports are opened and closed and whatever fails, a message sendMessage
\* raised no error for was heard by every receiver there was when it was called, but
\* for one ALSA's output buffer kept, which it does not report.
THEOREM SilentHeard == Spec => []SilentIsHeard
<1>1. IInv => SilentIsHeard
  BY DEF IInv
<1> QED
  BY <1>1, AlwaysIInv, PTL
=============================================================================
