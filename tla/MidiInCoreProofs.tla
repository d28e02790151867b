-------------------------- MODULE MidiInCoreProofs --------------------------
(***************************************************************************)
(* Proofs about MidiInCore, for any programs, any number of calls and      *)
(* messages, and any way to put what a device sends into packets.          *)
(***************************************************************************)
EXTENDS MidiInCore, MidiInApiProofs

\* Ignoring goes by chunks, so it takes two sequences one after the other.
LEMMA UnignoredConcat ==
    ASSUME NEW a \in Seq(Chunk), NEW b \in Seq(Chunk), NEW flags
    PROVE  Unignored(a \o b, flags) = Unignored(a, flags) \o Unignored(b, flags)
<1> DEFINE N == Len(b)
           b_(n) == SubSeq(b, 1, n)
           S == {n \in 0 .. N : Unignored(a \o b_(n), flags) = Unignored(a, flags) \o Unignored(b_(n), flags)}
<1>1. N \in Nat /\ b_(N) = b
  OBVIOUS
<1>2. 0 \in S
  <2>1. b_(0) = <<>> /\ a \o b_(0) = a
    OBVIOUS
  <2>2. Unignored(a, flags) \in Seq(Chunk)
    <3>1. PICK c \in Seq(Chunk) : c = a
      OBVIOUS
    <3>2. PICK f \in [0 .. Len(a) -> Seq(Chunk)] : Unignored(a, flags) = f[Len(a)]
      BY UnignoredIs
    <3>3. Len(a) \in 0 .. Len(a)
      OBVIOUS
    <3> QED
      BY <3>2, <3>3
  <2>3. Unignored(a, flags) \o <<>> = Unignored(a, flags)
    BY <2>2
  <2>4. Unignored(b_(0), flags) = <<>>
    BY <2>1, UnignoredNone
  <2>5. a \o b_(0) = a /\ 0 \in 0 .. N
    BY <1>1, <2>1
  <2> HIDE DEF b_
  <2> QED
    BY <2>3, <2>4, <2>5
<1>3. ASSUME NEW n \in 1 .. N, n - 1 \in S
      PROVE  n \in S
  <2> DEFINE x == b_(n - 1)
             c == b[n]
  <2>1. x \in Seq(Chunk) /\ c \in Chunk /\ b_(n) = Append(x, c)
    OBVIOUS
  <2>2. Unignored(a \o x, flags) = Unignored(a, flags) \o Unignored(x, flags)
    BY <1>3
  <2> HIDE DEF x, c
  <2>3. a \o Append(x, c) = Append(a \o x, c) /\ a \o x \in Seq(Chunk)
    <3>1. a \o x \in Seq(Chunk) /\ <<c>> \in Seq(Chunk)
      BY <2>1
    <3>2. Append(x, c) = x \o <<c>> /\ Append(a \o x, c) = (a \o x) \o <<c>>
      BY <2>1, <3>1, AppendIsConcat
    <3> QED
      BY <2>1, <3>1, <3>2, ConcatAssociative
  <2>4. /\ Unignored(a, flags) \in Seq(Chunk) /\ Unignored(x, flags) \in Seq(Chunk)
        /\ Unignored(Append(x, c), flags) =
               IF c.kind \in flags THEN Unignored(x, flags) ELSE Append(Unignored(x, flags), c)
        /\ Unignored(Append(a \o x, c), flags) =
               IF c.kind \in flags THEN Unignored(a \o x, flags)
                                   ELSE Append(Unignored(a \o x, flags), c)
    BY <2>1, <2>3, UnignoredAppend
  <2> DEFINE u == Unignored(a, flags)
             v == Unignored(x, flags)
  <2>5. u \o Append(v, c) = Append(u \o v, c)
    <3> HIDE DEF u, v
    <3>0. u \in Seq(Chunk) /\ v \in Seq(Chunk)
      BY <2>4 DEF u, v
    <3>1. u \o v \in Seq(Chunk) /\ <<c>> \in Seq(Chunk)
      BY <2>1, <3>0
    <3>2. Append(v, c) = v \o <<c>> /\ Append(u \o v, c) = (u \o v) \o <<c>>
      BY <2>1, <3>0, <3>1, AppendIsConcat
    <3> QED
      BY <3>0, <3>1, <3>2, ConcatAssociative
  <2>6. Unignored(a \o Append(x, c), flags) = u \o Unignored(Append(x, c), flags)
    BY <2>2, <2>3, <2>4, <2>5
  <2>7. n \in 0 .. N
    OBVIOUS
  <2> QED
    BY <2>1, <2>6, <2>7
<1> HIDE DEF S
<1>4. 0 .. N \subseteq S
  BY <1>1, <1>2, <1>3, InductionUpTo
<1>5. N \in S
  BY <1>1, <1>4
<1> QED
  BY <1>1, <1>5 DEF S

-----------------------------------------------------------------------------
(* Chunks as they come, and packets of them. *)

\* a chunk that is a message of its own, or a part of a sysex message
Part == {c \in Chunk : c.kind = "sysex" \/ (c.first /\ c.last)}

\* Sequences of them are what the devices are proved to send (InParts).
LEMMA PartSequences ==
    ASSUME NEW s
    PROVE  s \in Seq(Part) <=> s \in Seq(Chunk) /\ InParts(s)
<1>1. ASSUME s \in Seq(Part) PROVE s \in Seq(Chunk) /\ InParts(s)
  <2>1. s \in Seq(Chunk)
    BY <1>1 DEF Part
  <2>2. \A i \in DOMAIN s : s[i] \in Part
    BY <1>1
  <2> QED
    BY <2>1, <2>2 DEF Part, InParts
<1>2. ASSUME s \in Seq(Chunk), InParts(s) PROVE s \in Seq(Part)
  <2>1. \A i \in 1 .. Len(s) : s[i] \in Part
    BY <1>2 DEF Part, InParts
  <2>2. s = [i \in 1 .. Len(s) |-> s[i]] /\ Len(s) \in Nat
    BY <1>2
  <2> QED
    BY <2>1, <2>2
<1> QED
  BY <1>1, <1>2

\* One or two packets, one after the other.
LEMMA FlattenFew ==
    ASSUME NEW T, NEW a \in Seq(T), NEW b \in Seq(T)
    PROVE  FlattenSeq(<<a>>) = a /\ FlattenSeq(<<a, b>>) = a \o b
<1>1. /\ <<>> \in Seq(Seq(T)) /\ <<a>> \in Seq(Seq(T))
      /\ Append(<<>>, a) = <<a>> /\ Append(<<a>>, b) = <<a, b>>
      /\ <<>> \o a = a
  <2>1. PICK U : U = Seq(T)
    OBVIOUS
  <2>2. <<>> \in Seq(U) /\ <<a>> \in Seq(U) /\ Append(<<>>, a) = <<a>> /\ <<a, b>> \in Seq(U)
    BY <2>1
  <2>3. /\ Append(<<a>>, b) \in Seq(U) /\ Len(Append(<<a>>, b)) = 2
        /\ Append(<<a>>, b)[1] = a /\ Append(<<a>>, b)[2] = b
    BY <2>1, <2>2, AppendProperties
  <2>4. Len(<<a, b>>) = 2 /\ <<a, b>>[1] = a /\ <<a, b>>[2] = b
    OBVIOUS
  <2>5. \A i \in 1 .. 2 : Append(<<a>>, b)[i] = <<a, b>>[i]
    BY <2>3, <2>4
  <2>6. Append(<<a>>, b) = <<a, b>>
    BY <2>2, <2>3, <2>4, <2>5, SeqEqual
  <2>7. <<>> \o a = a
    BY ConcatEmptySeq
  <2> QED
    BY <2>1, <2>2, <2>6, <2>7
<1>2. FlattenSeq(<<a>>) = FlattenSeq(<<>>) \o a
  BY <1>1, FlattenAppend
<1>3. FlattenSeq(<<a>>) = a
  BY <1>1, <1>2, FlattenNone
<1>4. FlattenSeq(<<a, b>>) = FlattenSeq(<<a>>) \o b
  BY <1>1, FlattenAppend
<1> QED
  BY <1>3, <1>4

\* A sequence of one or two things, and the rest of it.
LEMMA FewOf ==
    ASSUME NEW U, NEW ss \in Seq(U), ss # <<>>, Len(ss) <= 2
    PROVE  /\ Head(ss) = ss[1] /\ Head(ss) \in U /\ Tail(ss) \in Seq(U)
           /\ Len(Tail(ss)) = Len(ss) - 1 /\ Len(ss) \in 1 .. 2
           /\ \A i \in 1 .. Len(ss) - 1 : Tail(ss)[i] = ss[i + 1]
           /\ \A i \in 1 .. Len(ss) : ss[i] \in U
           /\ Len(ss) = 1 => ss = <<ss[1]>> /\ Tail(ss) = <<>>
           /\ Len(ss) = 2 => ss = <<ss[1], ss[2]>> /\ Tail(ss) = <<ss[2]>>
<1>1. Len(ss) \in 1 .. 2 /\ Head(ss) = ss[1]
  <2>1. PICK n \in Nat \ {0} : n = Len(ss)
    BY EmptySeq
  <2>2. Len(ss) \in 1 .. 2
    BY <2>1
  <2>3. Head(ss) = ss[1]
    OBVIOUS
  <2> QED
    BY <2>2, <2>3
<1>2. /\ Head(ss) \in U /\ Tail(ss) \in Seq(U) /\ Len(Tail(ss)) = Len(ss) - 1
      /\ \A i \in 1 .. Len(Tail(ss)) : Tail(ss)[i] = ss[i + 1]
  BY HeadTailProperties
<1>3. \A i \in 1 .. Len(ss) : ss[i] \in U
  OBVIOUS
<1>4. ASSUME Len(ss) = 1 PROVE ss = <<ss[1]>> /\ Tail(ss) = <<>>
  <2>1. Tail(ss) = <<>>
    <3>1. Len(Tail(ss)) = 0 /\ Tail(ss) \in Seq(U)
      BY <1>2, <1>4
    <3> QED
      BY <3>1, EmptySeq
  <2>2. <<ss[1]>> \in Seq(U) /\ Len(<<ss[1]>>) = 1 /\ \A i \in 1 .. 1 : ss[i] = <<ss[1]>>[i]
    BY <1>3, <1>4
  <2> QED
    BY <1>4, <2>1, <2>2, SeqEqual
<1>5. ASSUME Len(ss) = 2 PROVE ss = <<ss[1], ss[2]>> /\ Tail(ss) = <<ss[2]>>
  <2>1. ss[1] \in U /\ ss[2] \in U
    BY <1>3, <1>5
  <2>2. <<ss[1], ss[2]>> \in Seq(U) /\ Len(<<ss[1], ss[2]>>) = 2
        /\ \A i \in 1 .. 2 : ss[i] = <<ss[1], ss[2]>>[i]
    BY <2>1
  <2>3. <<ss[2]>> \in Seq(U) /\ Len(<<ss[2]>>) = 1 /\ <<ss[2]>>[1] = ss[2]
    BY <2>1
  <2>4. Len(Tail(ss)) = 1 /\ Tail(ss)[1] = ss[2]
    <3>1. Len(Tail(ss)) = 1
      BY <1>2, <1>5
    <3>2. PICK t : t = Tail(ss) /\ \A i \in 1 .. 1 : t[i] = ss[i + 1]
      BY <1>2, <3>1
    <3>3. PICK i \in 1 .. 1, j \in Nat : j = i + 1
      OBVIOUS
    <3>4. t[i] = ss[j]
      BY <3>2, <3>3
    <3>5. i = 1 /\ j = 2
      BY <3>3
    <3> QED
      BY <3>1, <3>2, <3>4, <3>5
  <2>5. \A i \in 1 .. 1 : Tail(ss)[i] = <<ss[2]>>[i]
    BY <2>3, <2>4
  <2>6. ss = <<ss[1], ss[2]>>
    BY <1>5, <2>2, SeqEqual
  <2>7. Tail(ss) = <<ss[2]>>
    BY <1>2, <2>3, <2>4, <2>5, SeqEqual
  <2> QED
    BY <2>6, <2>7
<1> QED
  BY <1>1, <1>2, <1>3, <1>4, <1>5

\* The packets of a list are its first and the others.
LEMMA FlattenHead ==
    ASSUME NEW T, NEW ss \in Seq(Seq(T)), ss # <<>>, Len(ss) <= 2
    PROVE  /\ Head(ss) \in Seq(T) /\ Tail(ss) \in Seq(Seq(T)) /\ Len(Tail(ss)) <= 1
           /\ FlattenSeq(Tail(ss)) \in Seq(T)
           /\ FlattenSeq(ss) = Head(ss) \o FlattenSeq(Tail(ss))
           /\ \A i \in DOMAIN Tail(ss) : Tail(ss)[i] = ss[i + 1] /\ i + 1 \in DOMAIN ss
<1>0. /\ Head(ss) = ss[1] /\ Head(ss) \in Seq(T) /\ Tail(ss) \in Seq(Seq(T))
      /\ Len(Tail(ss)) = Len(ss) - 1 /\ Len(ss) \in 1 .. 2
      /\ \A i \in 1 .. Len(ss) - 1 : Tail(ss)[i] = ss[i + 1]
      /\ \A i \in 1 .. Len(ss) : ss[i] \in Seq(T)
  BY FewOf
<1>1. Head(ss) \in Seq(T) /\ Tail(ss) \in Seq(Seq(T)) /\ Len(Tail(ss)) <= 1
      /\ \A i \in DOMAIN Tail(ss) : Tail(ss)[i] = ss[i + 1] /\ i + 1 \in DOMAIN ss
  <2>1. DOMAIN Tail(ss) = 1 .. Len(ss) - 1 /\ DOMAIN ss = 1 .. Len(ss)
    BY <1>0
  <2> QED
    BY <1>0, <2>1
<1>2. FlattenSeq(Tail(ss)) \in Seq(T)
  <2>1. <<>> \in Seq(T)
    OBVIOUS
  <2> QED
    BY <1>1, <2>1, FlattenAppend
<1>3. CASE Len(ss) = 1
  <2>1. ss = <<ss[1]>> /\ Tail(ss) = <<>>
    BY <1>3, FewOf
  <2>2. ss[1] \in Seq(T)
    BY <1>0, <1>3
  <2>3. FlattenSeq(ss) = ss[1] /\ ss[1] \o <<>> = ss[1]
    BY <2>1, <2>2, FlattenFew, ConcatEmptySeq
  <2> QED
    BY <1>0, <1>1, <1>2, <2>1, <2>3, FlattenNone
<1>4. CASE Len(ss) = 2
  <2>1. ss = <<ss[1], ss[2]>> /\ Tail(ss) = <<ss[2]>>
    BY <1>4, FewOf
  <2>2. ss[1] \in Seq(T) /\ ss[2] \in Seq(T)
    BY <1>0, <1>4
  <2>3. FlattenSeq(ss) = ss[1] \o ss[2] /\ FlattenSeq(Tail(ss)) = ss[2]
    BY <2>1, <2>2, FlattenFew
  <2> QED
    BY <1>0, <1>1, <1>2, <2>3
<1> QED
  <2>1. Len(ss) = 1 \/ Len(ss) = 2
    BY <1>0
  <2> QED
    BY <1>3, <1>4, <2>1

\* A list of packets holds what the device has sent, from the first chunk on.
LEMMA ListOf ==
    ASSUME NEW T, NEW s \in Seq(T), NEW l \in Lists(s)
    PROVE  /\ l \in Seq(Seq(T)) /\ Len(l) \in {1, 2}
           /\ \A i \in DOMAIN l : Packet(l[i])
           /\ \E n \in 0 .. Len(s) : FlattenSeq(l) = SubSeq(s, 1, n)
<1>1. \A i \in DOMAIN l : Packet(l[i])
  BY DEF Lists
<1>2. \A m, n \in Nat : m >= 1 /\ n <= Len(s) => SubSeq(s, m, n) \in Seq(T)
  OBVIOUS
<1>3. \/ \E n \in 0 .. Len(s) : l = <<SubSeq(s, 1, n)>>
      \/ \E m, n \in 0 .. Len(s) :
             m <= n /\ l = <<SubSeq(s, 1, m), SubSeq(s, m + 1, n)>>
  BY DEF Lists
<1>4. CASE \E n \in 0 .. Len(s) : l = <<SubSeq(s, 1, n)>>
  <2>1. PICK n \in 0 .. Len(s) : l = <<SubSeq(s, 1, n)>>
    BY <1>4
  <2>2. SubSeq(s, 1, n) \in Seq(T)
    BY <1>2
  <2>3. l \in Seq(Seq(T)) /\ Len(l) = 1
    BY <2>1, <2>2
  <2> QED
    BY <1>1, <2>1, <2>2, <2>3, FlattenFew
<1>5. CASE \E m, n \in 0 .. Len(s) : m <= n /\ l = <<SubSeq(s, 1, m), SubSeq(s, m + 1, n)>>
  <2>1. PICK m, n \in 0 .. Len(s) : m <= n /\ l = <<SubSeq(s, 1, m), SubSeq(s, m + 1, n)>>
    BY <1>5
  <2>2. SubSeq(s, 1, m) \in Seq(T) /\ SubSeq(s, m + 1, n) \in Seq(T)
    BY <1>2, <2>1
  <2>3. l \in Seq(Seq(T)) /\ Len(l) = 2
    BY <2>1, <2>2
  <2>4. SubSeq(s, 1, m) \o SubSeq(s, m + 1, n) = SubSeq(s, 1, n)
    <3>1. 1 \in 1 .. Len(s) + 1 /\ m \in 1 - 1 .. Len(s) /\ n \in m .. Len(s)
      BY <2>1
    <3> QED
      BY <3>1, ConcatAdjacentSubSeq
  <2> QED
    BY <1>1, <2>1, <2>2, <2>3, <2>4, FlattenFew
<1> QED
  BY <1>3, <1>4, <1>5

-----------------------------------------------------------------------------
\* u is the end of s.
Ends(s, u) ==
    /\ Len(u) <= Len(s)
    /\ \A i \in 1 .. Len(u) : s[Len(s) - Len(u) + i] = u[i]

\* What is put behind s is its end.
LEMMA EndsAll ==
    ASSUME NEW s \in Seq(Chunk), NEW u \in Seq(Chunk)
    PROVE  Ends(s \o u, u)
<1>1. /\ Len(s \o u) = Len(s) + Len(u)
      /\ \A i \in 1 .. Len(s) + Len(u) : (s \o u)[i] = IF i <= Len(s) THEN s[i] ELSE u[i - Len(s)]
      /\ Len(s) \in Nat /\ Len(u) \in Nat
  BY ConcatProperties
<1> SUFFICES ASSUME NEW i \in 1 .. Len(u) PROVE (s \o u)[Len(s) + i] = u[i]
  BY <1>1 DEF Ends
<1> QED
  BY <1>1

\* What comes before the rest of the end comes before it in s.
LEMMA EndsRest ==
    ASSUME NEW s \in Seq(Chunk), NEW p \in Seq(Chunk), NEW r \in Seq(Chunk), Ends(s, p \o r)
    PROVE  /\ Ends(s, r) /\ Len(p \o r) = Len(p) + Len(r)
           /\ Len(s) - Len(p \o r) \in Nat /\ Len(s) - Len(r) = Len(s) - Len(p \o r) + Len(p)
           /\ \A i \in 1 .. Len(p) : s[Len(s) - Len(p \o r) + i] = p[i]
<1> DEFINE u == p \o r
<1>1. /\ Len(u) = Len(p) + Len(r)
      /\ \A i \in 1 .. Len(p) + Len(r) : u[i] = IF i <= Len(p) THEN p[i] ELSE r[i - Len(p)]
      /\ Len(p) \in Nat /\ Len(r) \in Nat /\ Len(s) \in Nat
  BY ConcatProperties
<1>2. Len(u) <= Len(s) /\ \A i \in 1 .. Len(u) : s[Len(s) - Len(u) + i] = u[i]
  BY DEF Ends
<1> HIDE DEF u
<1>3. \A i \in 1 .. Len(p) : s[Len(s) - Len(u) + i] = p[i]
  BY <1>1, <1>2
<1>4. Ends(s, r)
  <2> SUFFICES ASSUME NEW i \in 1 .. Len(r) PROVE s[Len(s) - Len(r) + i] = r[i]
    BY <1>1, <1>2 DEF Ends
  <2>1. Len(p) + i \in 1 .. Len(u) /\ u[Len(p) + i] = r[i]
    <3>1. Len(p) + i \in 1 .. Len(p) + Len(r) /\ Len(p) + i > Len(p) /\ Len(p) + i - Len(p) = i
      BY <1>1
    <3> QED
      BY <1>1, <3>1
  <2>2. Len(s) - Len(u) + (Len(p) + i) = Len(s) - Len(r) + i
    BY <1>1
  <2> QED
    BY <1>2, <2>1, <2>2
<1> QED
  BY <1>1, <1>2, <1>3, <1>4 DEF u

-----------------------------------------------------------------------------
(* Types, and where the callback is in a list. *)

\* where a function of the program may be
CorePlaces == InPlaces \cup {"dispose", "destroy"}

\* A packet is looked at only between two messages, a sysex message or a part of
\* one is alone in it, and what is not parsed yet is the end of what was taken.
InPackets ==
    /\ list \in Seq(Seq(Part)) /\ Len(list) <= 2 /\ packet \in Seq(Part)
    /\ \A i \in DOMAIN list : list[i] = <<>> \/ Alone(list[i])
    /\ packet = <<>> \/ Alone(packet)
    /\ ~running => list = <<>> /\ packet = <<>>
    /\ continueSysex => packet = <<>>
    /\ emitted # <<>> => emitted[1].first
    /\ consumed # <<>> => consumed[1].first
    /\ ~skipped => Ends(consumed, Unparsed)

\* Types, packets, and where the queue is.
Typed ==
    /\ TypeOK
    /\ InTypes
    /\ after \in {"idle", "destroy"}
    /\ InPackets
    /\ InRing

\* All this holds at the start.
LEMMA InitTyped == Init => Typed
<1> SUFFICES ASSUME Init PROVE Typed
  OBVIOUS
<1>1. InTypes /\ InRing
  BY InTypesInit, InRingInit DEF Init
<1>2. ApiTypeOK(CorePlaces)
  <2>1. "idle" \in CorePlaces /\ 0 \in 0 .. MaxCalls
    BY ApiAssumption DEF CorePlaces, InPlaces, ApiAssumption
  <2> QED
    BY <2>1 DEF Init, ApiInit, ApiTypeOK
<1>3. message \in Message /\ list \in Seq(Message) /\ packet \in Message
  BY DEF Init, NoMessage, Message
<1>4. TypeOK
  BY <1>1, <1>2, <1>3 DEF Init, TypeOK, InTypes, CorePlaces
<1>5. InPackets
  <2>1. list = <<>> /\ packet = <<>> /\ emitted = <<>> /\ consumed = <<>> /\ continueSysex = FALSE
    BY DEF Init, InInit
  <2>2. Unparsed = <<>>
    <3>1. <<>> \o <<>> = <<>>
      OBVIOUS
    <3> QED
      BY <2>1, <3>1, FlattenNone DEF Unparsed
  <2>3. Ends(<<>>, <<>>)
    BY DEF Ends
  <2>4. list \in Seq(Seq(Part)) /\ Len(list) <= 2 /\ packet \in Seq(Part)
    BY <2>1
  <2> QED
    BY <2>1, <2>2, <2>3, <2>4 DEF InPackets
<1> QED
  BY <1>1, <1>4, <1>5 DEF Typed, Init, ApiInit

\* Chunks in parts are chunks.
LEMMA PartsAreChunks ==
    ASSUME InPackets
    PROVE  /\ list \in Seq(Message) /\ packet \in Message
           /\ FlattenSeq(list) \in Seq(Part) /\ Unparsed \in Seq(Part)
           /\ Unparsed \in Seq(Chunk)
<1>1. Seq(Part) \subseteq Seq(Chunk)
  BY DEF Part
<1>2. list \in Seq(Message) /\ packet \in Message
  BY <1>1 DEF InPackets, Message
<1>3. FlattenSeq(list) \in Seq(Part)
  <2>1. <<>> \in Seq(Part) /\ list \in Seq(Seq(Part))
    BY DEF InPackets
  <2> QED
    BY <2>1, FlattenAppend
<1>4. Unparsed \in Seq(Part)
  BY <1>3, ConcatProperties DEF Unparsed, InPackets
<1> QED
  BY <1>1, <1>2, <1>3, <1>4

\* A step takes the chunks p off what is not parsed.
Takes(p) ==
    /\ p \in Seq(Part) /\ p # <<>>
    /\ Unparsed' \in Seq(Part)
    /\ Unparsed = p \o Unparsed'

\* The callback goes on to the next packet, or returns.
LEMMA PacketGoes ==
    ASSUME InPackets, Return \/ NextPacket \/ (Empty /\ ~skipped')
    PROVE  Unparsed' = Unparsed
<1>1. CASE Return
  BY <1>1 DEF Return, Unparsed
<1>2. CASE NextPacket
  <2>1. /\ packet = <<>> /\ list # <<>> /\ packet' = Head(list) /\ list' = Tail(list)
        /\ list \in Seq(Seq(Part)) /\ Len(list) <= 2
    BY <1>2 DEF NextPacket, Between, InPackets
  <2>2. FlattenSeq(list) = packet' \o FlattenSeq(list') /\ FlattenSeq(list) \in Seq(Part)
    BY <2>1, FlattenHead, PartsAreChunks
  <2>3. <<>> \o FlattenSeq(list) = FlattenSeq(list)
    BY <2>2, ConcatEmptySeq
  <2> QED
    BY <2>1, <2>2, <2>3 DEF Unparsed
<1>3. CASE Empty /\ ~skipped'
  BY <1>3, FlattenNone DEF Empty, Unparsed
<1> QED
  BY <1>1, <1>2, <1>3

\* It takes a packet of a sysex message, one of a message that was broken off, a
\* sysex message, or a short one.  Of these a sysex message is alone.
LEMMA MoreTakes ==
    ASSUME InPackets, MoreSysex
    PROVE  /\ Takes(Head(list)) /\ packet' = packet /\ packet = <<>>
           /\ Head(list) = <<>> \/ Alone(Head(list))
<1>1. /\ packet = <<>> /\ list # <<>> /\ Head(list) # <<>> /\ list' = Tail(list) /\ packet' = packet
      /\ list \in Seq(Seq(Part)) /\ Len(list) <= 2
  BY DEF MoreSysex, Between, InPackets
<1>2. /\ Head(list) \in Seq(Part) /\ FlattenSeq(Tail(list)) \in Seq(Part)
      /\ FlattenSeq(list) = Head(list) \o FlattenSeq(Tail(list))
  BY <1>1, FlattenHead
<1>3. /\ <<>> \o FlattenSeq(Tail(list)) = FlattenSeq(Tail(list))
      /\ <<>> \o FlattenSeq(list) = FlattenSeq(list)
  BY <1>2, PartsAreChunks, ConcatEmptySeq
<1>4. Unparsed = FlattenSeq(list) /\ Unparsed' = FlattenSeq(Tail(list))
  BY <1>1, <1>3 DEF Unparsed
<1>5. Head(list) = list[1] /\ 1 \in DOMAIN list
  <2>1. Head(list) = list[1] /\ Len(list) \in 1 .. 2 /\ DOMAIN list = 1 .. Len(list)
    BY <1>1, FewOf, LenProperties
  <2> QED
    BY <2>1
<1> QED
  BY <1>1, <1>2, <1>4, <1>5 DEF Takes, InPackets

\* A packet that is a sysex message or a part of one is taken whole,
LEMMA AloneTakes ==
    ASSUME InPackets, Broken \/ Sysex, list' = list
    PROVE  /\ Takes(packet) /\ packet' = <<>> /\ Len(packet) = 1
           /\ Head(packet) \in Part /\ packet = <<Head(packet)>>
<1>1. /\ packet # <<>> /\ packet' = <<>> /\ packet \in Seq(Part) /\ Alone(packet)
      /\ ~Head(packet).first \/ Head(packet).kind = "sysex"
  BY DEF Broken, Sysex, Parsing, InPackets
<1>2. Head(packet) = packet[1] /\ 1 \in DOMAIN packet /\ Head(packet) \in Part
  <2>1. Len(packet) \in Nat \ {0}
    BY <1>1, EmptySeq
  <2> QED
    BY <1>1, <2>1, LenProperties
<1>3. Head(packet).kind = "sysex"
  BY <1>1, <1>2 DEF Part
<1>4. Len(packet) = 1
  BY <1>1, <1>2, <1>3 DEF Alone
<1>5. packet = <<Head(packet)>>
  <2>1. Len(packet) <= 2
    BY <1>4
  <2> QED
    BY <1>1, <1>2, <1>4, <2>1, FewOf
<1>6. FlattenSeq(list) \in Seq(Part) /\ <<>> \o FlattenSeq(list) = FlattenSeq(list)
  BY PartsAreChunks, ConcatEmptySeq
<1> QED
  BY <1>1, <1>2, <1>4, <1>5, <1>6 DEF Takes, Unparsed

\* and of one with short messages the first.
LEMMA ShortTakes ==
    ASSUME InPackets, Short, list' = list
    PROVE  /\ Takes(<<Head(packet)>>) /\ Head(packet) \in Part
           /\ packet' \in Seq(Part) /\ (packet' = <<>> \/ Alone(packet'))
           /\ Head(packet).kind # "sysex" /\ Head(packet).first /\ Head(packet).last
<1>1. /\ packet # <<>> /\ packet' = Tail(packet) /\ packet \in Seq(Part) /\ Alone(packet)
      /\ Head(packet).kind # "sysex"
  BY DEF Short, Parsing, InPackets
<1>2. Head(packet) \in Part /\ Tail(packet) \in Seq(Part) /\ Len(Tail(packet)) = Len(packet) - 1
      /\ \A i \in 1 .. Len(Tail(packet)) : Tail(packet)[i] = packet[i + 1]
  BY <1>1, HeadTailProperties
<1>3. packet' = <<>> \/ Alone(packet')
  <2>1. CASE Len(packet) = 1
    <3>1. Len(Tail(packet)) = 0
      BY <1>2, <2>1
    <3> QED
      BY <1>1, <1>2, <3>1, EmptySeq
  <2>2. CASE \A i \in DOMAIN packet : packet[i].kind # "sysex"
    <3>1. PICK n \in Nat : n = Len(packet) /\ DOMAIN packet = 1 .. n
      BY <1>1, LenProperties
    <3>2. PICK t : t = Tail(packet) /\ DOMAIN t = 1 .. n - 1 /\ Len(t) = n - 1
                   /\ \A i \in 1 .. n - 1 : t[i] = packet[i + 1]
      <4>1. DOMAIN Tail(packet) = 1 .. Len(Tail(packet))
        BY <1>2, LenProperties
      <4> QED
        BY <1>2, <3>1, <4>1
    <3>3. \A i \in DOMAIN t : t[i].kind # "sysex"
      BY <2>2, <3>1, <3>2
    <3> QED
      BY <1>1, <3>2, <3>3 DEF Alone
  <2> QED
    BY <1>1, <2>1, <2>2 DEF Alone
<1>4. packet = <<Head(packet)>> \o Tail(packet)
  BY <1>1
<1>5. FlattenSeq(list) \in Seq(Part) /\ <<Head(packet)>> \in Seq(Part)
  BY <1>2, PartsAreChunks
<1>6. Unparsed = <<Head(packet)>> \o (Tail(packet) \o FlattenSeq(list))
  BY <1>2, <1>4, <1>5, ConcatAssociative DEF Unparsed
<1>7. Tail(packet) \o FlattenSeq(list) \in Seq(Part)
  BY <1>2, <1>5, ConcatProperties
<1>8. Head(packet).first /\ Head(packet).last
  BY <1>1, <1>2 DEF Part
<1>9. Unparsed' = Tail(packet) \o FlattenSeq(list)
  BY <1>1 DEF Unparsed
<1> QED
  BY <1>1, <1>2, <1>3, <1>5, <1>6, <1>7, <1>8, <1>9 DEF Takes

\* What else happens leaves the packets alone,
LEMMA PacketsStay ==
    ASSUME InPackets, UNCHANGED <<list, packet, running, continueSysex, skipped, consumed>>,
           emitted' # <<>> => emitted'[1].first
    PROVE  InPackets'
<1>1. Unparsed' = Unparsed
  BY DEF Unparsed
<1> QED
  BY <1>1 DEF InPackets

\* and a step of the callback takes from what is there.
LEMMA TakesEnds ==
    ASSUME InTypes, InPackets, UNCHANGED consumed, skipped => skipped',
           NEW p, Takes(p)
    PROVE  /\ Len(Unparsed) = Len(p) + Len(Unparsed') /\ Len(p) \in Nat \ {0}
           /\ ~skipped' => /\ Ends(consumed', Unparsed')
                           /\ Len(consumed) - Len(Unparsed) \in Nat
                           /\ Len(consumed') - Len(Unparsed')
                                  = Len(consumed) - Len(Unparsed) + Len(p)
                           /\ \A i \in 1 .. Len(p) :
                                  consumed[Len(consumed) - Len(Unparsed) + i] = p[i]
<1>1. /\ consumed \in Seq(Chunk) /\ p \in Seq(Chunk) /\ Unparsed' \in Seq(Chunk)
      /\ Unparsed = p \o Unparsed'
  BY DEF Takes, InTypes, InTypeOK, Part
<1>2. Len(p) \in Nat \ {0} /\ Len(Unparsed) = Len(p) + Len(Unparsed')
  BY <1>1, EmptySeq, ConcatProperties DEF Takes
<1>3. ASSUME ~skipped' PROVE Ends(consumed, p \o Unparsed')
  BY <1>1, <1>3 DEF InPackets
<1> QED
  BY <1>1, <1>2, <1>3, EndsRest

\* Every step of the callback but Deliver keeps the packets as InPackets says.
LEMMA CallbackPackets ==
    ASSUME InTypes, InPackets,
           \/ Return \/ Empty \/ NextPacket \/ MoreSysex
           \/ /\ Broken \/ Sysex \/ Short
              /\ UNCHANGED <<list, running, skipped, streamVars>>
    PROVE  InPackets'
<1>1. UNCHANGED <<consumed, emitted>> /\ (skipped => skipped')
  <2>1. UNCHANGED <<consumed, emitted>>
    BY DEF Return, Empty, NextPacket, MoreSysex, streamVars
  <2>2. skipped' = skipped \/ skipped' = (skipped \/ FlattenSeq(list) # <<>>)
    BY DEF Return, Empty, NextPacket, MoreSysex
  <2>3. skipped => skipped'
    BY <2>2
  <2> QED
    BY <2>1, <2>3
<1>2. /\ list \in Seq(Seq(Part)) /\ Len(list) <= 2 /\ packet \in Seq(Part)
      /\ \A i \in DOMAIN list : list[i] = <<>> \/ Alone(list[i])
      /\ packet = <<>> \/ Alone(packet)
  BY DEF InPackets
<1>3. ASSUME list # <<>>
      PROVE  /\ Head(list) \in Seq(Part) /\ Tail(list) \in Seq(Seq(Part)) /\ Len(Tail(list)) <= 2
             /\ \A i \in DOMAIN Tail(list) : Tail(list)[i] = <<>> \/ Alone(Tail(list)[i])
             /\ Head(list) = <<>> \/ Alone(Head(list))
  <2>1. /\ Head(list) \in Seq(Part) /\ Tail(list) \in Seq(Seq(Part)) /\ Len(Tail(list)) <= 1
        /\ \A i \in DOMAIN Tail(list) : Tail(list)[i] = list[i + 1] /\ i + 1 \in DOMAIN list
    BY <1>2, <1>3, FlattenHead
  <2>2. Head(list) = list[1] /\ 1 \in DOMAIN list
    <3>1. Head(list) = list[1] /\ Len(list) \in 1 .. 2 /\ DOMAIN list = 1 .. Len(list)
      BY <1>2, <1>3, FewOf, LenProperties
    <3> QED
      BY <3>1
  <2>3. Len(Tail(list)) <= 2
    <3>1. PICK n \in Nat : n = Len(Tail(list))
      BY <2>1, LenProperties
    <3> QED
      BY <2>1, <3>1
  <2> QED
    BY <1>2, <2>1, <2>2, <2>3
<1>4. CASE Return \/ Empty \/ NextPacket
  <2>1. CASE Return
    <3>1. UNCHANGED <<list, packet, continueSysex, skipped>> /\ list = <<>> /\ packet = <<>>
      BY <2>1 DEF Return, Between
    <3>2. Unparsed' = Unparsed
      BY <2>1, PacketGoes
    <3> QED
      BY <1>1, <3>1, <3>2 DEF InPackets
  <2>2. CASE Empty
    <3>1. UNCHANGED <<packet, continueSysex, running>> /\ list' = <<>> /\ running /\ packet = <<>>
      BY <2>2 DEF Empty, Between
    <3>2. ~skipped' => Unparsed' = Unparsed
      BY <2>2, PacketGoes
    <3>3. list' \in Seq(Seq(Part)) /\ Len(list') <= 2 /\ DOMAIN list' = {}
      BY <3>1
    <3> QED
      BY <1>1, <3>1, <3>2, <3>3 DEF InPackets
  <2>3. CASE NextPacket
    <3>1. /\ UNCHANGED <<skipped, continueSysex, running>> /\ list # <<>> /\ running
          /\ list' = Tail(list) /\ packet' = Head(list) /\ ~continueSysex
      BY <2>3 DEF NextPacket, Between
    <3>2. Unparsed' = Unparsed
      BY <2>3, PacketGoes
    <3> QED
      BY <1>1, <1>3, <3>1, <3>2 DEF InPackets
  <2> QED
    BY <1>4, <2>1, <2>2, <2>3
<1>5. CASE MoreSysex
  <2>1. /\ UNCHANGED <<skipped, packet, running>> /\ list # <<>> /\ running /\ packet = <<>>
        /\ list' = Tail(list)
    BY <1>5 DEF MoreSysex, Between
  <2>2. Takes(Head(list))
    BY <1>5, MoreTakes
  <2>3. ~skipped' => Ends(consumed', Unparsed')
    BY <1>1, <2>2, TakesEnds
  <2> QED
    BY <1>1, <1>3, <2>1, <2>3 DEF InPackets
<1>6. CASE (Broken \/ Sysex) /\ UNCHANGED <<list, running, skipped, streamVars>>
  <2>1. UNCHANGED <<list, running, skipped>> /\ running
    BY <1>6 DEF Broken, Sysex, Parsing
  <2>2. Takes(packet) /\ packet' = <<>>
    BY <1>6, AloneTakes
  <2>3. ~skipped' => Ends(consumed', Unparsed')
    BY <1>1, <2>2, TakesEnds
  <2>4. packet' \in Seq(Part)
    BY <2>2
  <2> QED
    BY <1>1, <1>2, <2>1, <2>2, <2>3, <2>4 DEF InPackets
<1>7. CASE Short /\ UNCHANGED <<list, running, skipped, streamVars>>
  <2>1. /\ UNCHANGED <<list, running, skipped, continueSysex>> /\ running /\ ~continueSysex
    BY <1>7 DEF Short, Parsing, InPackets
  <2>2. Takes(<<Head(packet)>>) /\ packet' \in Seq(Part) /\ (packet' = <<>> \/ Alone(packet'))
    BY <1>7, ShortTakes
  <2>3. ~skipped' => Ends(consumed', Unparsed')
    BY <1>1, <2>2, TakesEnds
  <2> QED
    BY <1>1, <1>2, <2>1, <2>2, <2>3 DEF InPackets
<1> QED
  BY <1>4, <1>5, <1>6, <1>7

\* The callback is given what has come since, whole or in part.
LEMMA DeliverTakes ==
    ASSUME InTypes, InPackets, Deliver
    PROVE  /\ consumed' = consumed \o Unparsed' /\ Unparsed = <<>> /\ Unparsed' \in Seq(Part)
           /\ consumed' \in Seq(Chunk) /\ InParts(consumed')
           /\ consumed = <<>> /\ Unparsed' # <<>> => Unparsed'[1].first
           /\ InPackets'
<1>1. /\ emitted \in Seq(Part) /\ consumed \in Seq(Part)
      /\ emitted \in Seq(Chunk) /\ consumed \in Seq(Chunk)
  BY PartSequences DEF InTypes, InTypeOK
<1>2. Pending \in Seq(Part) /\ (consumed = <<>> => Pending = emitted)
  <2>1. PICK m, n \in Nat : m = Len(consumed) /\ n = Len(emitted)
    BY <1>1
  <2>2. Pending = SubSeq(emitted, m + 1, n)
    BY <2>1 DEF Pending
  <2>3. consumed = <<>> => m = 0
    BY <2>1
  <2> QED
    BY <1>1, <2>1, <2>2, <2>3
<1>3. /\ list' \in Lists(Pending) /\ packet' = packet /\ packet = <<>> /\ list = <<>>
      /\ running' = TRUE /\ UNCHANGED <<emitted, continueSysex, skipped>>
      /\ consumed' = consumed \o FlattenSeq(list')
  BY DEF Deliver, Consume, InPackets
<1>4. /\ list' \in Seq(Seq(Part)) /\ Len(list') \in {1, 2}
      /\ \A i \in DOMAIN list' : Packet(list'[i])
  BY <1>2, <1>3, ListOf
<1>5. PICK n \in 0 .. Len(Pending) : FlattenSeq(list') = SubSeq(Pending, 1, n)
  BY <1>2, <1>3, ListOf
<1>6. FlattenSeq(list') \in Seq(Part)
  BY <1>2, <1>5
<1>7. Unparsed' = FlattenSeq(list') /\ Unparsed = <<>>
  <2>1. <<>> \o FlattenSeq(list') = FlattenSeq(list') /\ <<>> \o <<>> = <<>>
    BY <1>6, ConcatEmptySeq
  <2> QED
    BY <1>3, <2>1, FlattenNone DEF Unparsed
<1>8. consumed' \in Seq(Part)
  BY <1>1, <1>3, <1>6, ConcatProperties
<1>9. consumed' \in Seq(Chunk) /\ InParts(consumed') /\ FlattenSeq(list') \in Seq(Chunk)
  BY <1>6, <1>8, PartSequences
<1>10. consumed = <<>> /\ Unparsed' # <<>> => Unparsed'[1].first
  <2> SUFFICES ASSUME consumed = <<>>, FlattenSeq(list') # <<>>
               PROVE  FlattenSeq(list')[1].first
    BY <1>7
  <2>1. n # 0 /\ n \in Nat /\ Len(emitted) \in Nat /\ n <= Len(emitted)
    BY <1>1, <1>2, <1>5
  <2>2. emitted # <<>>
    BY <1>1, <2>1
  <2>3. SubSeq(emitted, 1, n)[1] = emitted[1]
    BY <1>1, <2>1
  <2> QED
    BY <1>2, <1>5, <2>2, <2>3 DEF InPackets
<1>11. consumed' # <<>> => consumed'[1].first
  <2>1. CASE consumed = <<>>
    <3>1. consumed' = Unparsed'
      BY <1>3, <1>6, <1>7, <2>1, ConcatEmptySeq
    <3> QED
      BY <1>10, <2>1, <3>1
  <2>2. CASE consumed # <<>>
    <3>1. Len(consumed) \in Nat \ {0}
      BY <1>1, <2>2, EmptySeq
    <3>2. consumed'[1] = consumed[1]
      BY <1>1, <1>3, <1>6, <3>1, ConcatProperties
    <3> QED
      BY <2>2, <3>2 DEF InPackets
  <2> QED
    BY <2>1, <2>2
<1>12. Ends(consumed', Unparsed')
  BY <1>1, <1>3, <1>7, <1>9, EndsAll
<1>13. \A i \in DOMAIN list' : list'[i] = <<>> \/ Alone(list'[i])
  BY <1>4 DEF Packet
<1>14. Len(list') <= 2
  BY <1>4
<1>15. InPackets'
  BY <1>3, <1>4, <1>11, <1>12, <1>13, <1>14 DEF InPackets
<1> QED
  BY <1>3, <1>6, <1>7, <1>9, <1>10, <1>15

\* The functions every platform has.
LEMMA InCallTyped == Typed /\ InCall /\ UNCHANGED coreVars => Typed'
<1> SUFFICES ASSUME Typed, InCall, UNCHANGED coreVars PROVE Typed'
  OBVIOUS
<1>1. InTypes' /\ InRing'
  BY InCallTypes, InCallQueue DEF Typed
<1>2. UNCHANGED <<after, connected, failed, consumed, emitted>>
  BY DEF InCall, streamVars, handVars
<1>3. /\ UNCHANGED program
      /\ calls' = calls \/ (calls < MaxCalls /\ calls' = calls + 1)
      /\ upc' \in {"idle", "cancel", "ignore", "load", "store"}
  BY DEF InCall, SetCallback, CancelFunction, CancelUsing, IgnoreTypes, IgnoreFlag,
         GetNothing, GetMessage, GetLoad, GetStore, Begin, Call, Continue
<1>4. ApiTypeOK(CorePlaces)
  BY DEF Typed, TypeOK, CorePlaces
<1>5. connected \in BOOLEAN /\ after \in CorePlaces
  BY <1>4 DEF ApiTypeOK
<1>6. ApiTypeOK(CorePlaces)'
  BY <1>2, <1>3, <1>4, <1>5, CallTypes DEF CorePlaces, InPlaces
<1>7. InPackets'
  BY <1>2, PacketsStay DEF Typed, InPackets, coreVars
<1>8. TypeOK'
  BY <1>1, <1>6 DEF Typed, TypeOK, InTypes, CorePlaces, coreVars
<1> QED
  BY <1>1, <1>2, <1>7, <1>8 DEF Typed

\* openPort, closePort and the destructor.
LEMMA PortTyped ==
    ASSUME Typed, UNCHANGED <<inVars, parseVars, fault>>,
           \/ /\ \/ OpenPort \/ OpenNothing \/ OpenFails
                 \/ OpenVirtual \/ OpenVirtualFails
              /\ after' = after
           \/ Close("closePort", "idle") \/ Close("delete", "destroy")
           \/ Disposed \/ Destroy
    PROVE  Typed'
<1> USE DEF Begin, Call, Continue
<1>1. /\ UNCHANGED <<callbackVars, queueVars, ignore, todo, retyped, emitted, consumed, handVars>>
      /\ UNCHANGED <<list, packet, running, message, continueSysex, skipped>>
  BY DEF inVars, ignoreVars, streamVars, parseVars
<1>2. after \in {"idle", "destroy"}
  BY DEF Typed
<1>3. /\ UNCHANGED program
      /\ calls' = calls \/ (calls < MaxCalls /\ calls' = calls + 1)
      /\ upc' \in {"idle", "dispose", "destroy", "gone"}
      /\ upc \in {"idle", "dispose", "destroy"}
      /\ after' \in {"idle", "destroy"}
  BY <1>2 DEF OpenPort, OpenNothing, OpenFails, OpenVirtual, OpenVirtualFails, Close,
         Disposed, Destroy
<1>4. InRing'
  <2>1. Getting' = Getting /\ Putting' = Putting
    BY <1>1, <1>3 DEF Getting, Putting, handVars
  <2> QED
    BY <1>1, <2>1, InRingStays DEF Typed
<1>5. InTypes'
  BY <1>1, <1>3, RestTypes DEF Typed, InTypes, InTypeOK
<1>6. connected' \in BOOLEAN /\ client' \in BOOLEAN /\ endpoint' \in BOOLEAN
  <2>1. connected \in BOOLEAN /\ client \in BOOLEAN /\ endpoint \in BOOLEAN
    BY DEF Typed, TypeOK, ApiTypeOK
  <2> QED
    BY <2>1 DEF OpenPort, OpenNothing, OpenFails, OpenVirtual, OpenVirtualFails, Close,
       Disposed, Destroy
<1>7. failed' = failed \/ \E what \in Fails : failed' = failed \cup {what}
  BY DEF OpenPort, OpenNothing, OpenFails, OpenVirtual, OpenVirtualFails, Close,
     Disposed, Destroy, Fail
<1>8. TypeOK'
  <2>1. ApiTypeOK(CorePlaces)'
    <3>1. ApiTypeOK(CorePlaces) /\ upc' \in CorePlaces /\ after' \in CorePlaces
      BY <1>3 DEF Typed, TypeOK, CorePlaces, InPlaces
    <3> QED
      BY <1>3, <1>6, <1>7, <3>1, CallTypes
  <2> QED
    BY <1>1, <1>5, <1>6, <2>1 DEF Typed, TypeOK, InTypes, CorePlaces
<1>9. InPackets'
  BY <1>1, PacketsStay DEF Typed, InPackets
<1> QED
  BY <1>3, <1>4, <1>5, <1>8, <1>9 DEF Typed

\* The callback.
LEMMA CallbackTyped == Typed /\ CallbackStep => Typed'
<1> SUFFICES ASSUME Typed, CallbackStep PROVE Typed'
  OBVIOUS
<1>1. CASE TailStep /\ UNCHANGED coreVars
  <2>1. InTypes' /\ InRing'
    BY <1>1, TailTypes, TailQueue DEF Typed
  <2>2. UNCHANGED <<callVars, connected, failed, consumed, emitted>>
    BY <1>1 DEF TailStep, streamVars
  <2>3. ApiTypeOK(CorePlaces)'
    BY <2>2 DEF Typed, TypeOK, ApiTypeOK, CorePlaces, callVars
  <2>4. TypeOK'
    BY <1>1, <2>1, <2>3 DEF Typed, TypeOK, InTypes, CorePlaces, coreVars
  <2>5. InPackets'
    BY <1>1, <2>2, PacketsStay DEF Typed, InPackets, coreVars
  <2> QED
    BY <2>1, <2>2, <2>4, <2>5 DEF Typed, callVars
<1>2. ASSUME ~(TailStep /\ UNCHANGED coreVars)
      PROVE  Typed'
  <2>1. /\ UNCHANGED <<apiVars, callbackVars, queueVars, client, endpoint>>
        /\ \/ Deliver \/ Return \/ Empty \/ NextPacket \/ MoreSysex
           \/ /\ Broken \/ Sysex \/ Short
              /\ UNCHANGED <<list, running, skipped, streamVars>>
    BY <1>2 DEF CallbackStep
  <2>2. /\ message \in Message /\ continueSysex \in BOOLEAN /\ running \in BOOLEAN
        /\ skipped \in BOOLEAN
        /\ ignore \subseteq Flags /\ todo \in Seq(Flags) /\ retyped \in BOOLEAN
        /\ emitted \in Seq(Chunk) /\ consumed \in Seq(Chunk)
        /\ InParts(emitted) /\ InParts(consumed)
        /\ InTypes /\ InPackets
    BY DEF Typed, TypeOK, InTypes, InTypeOK
  <2>3. emitted' = emitted /\ consumed' \in Seq(Chunk) /\ InParts(consumed') /\ InPackets'
    <3>1. CASE Deliver
      BY <2>2, <3>1, DeliverTakes DEF Deliver, Consume
    <3>2. CASE ~Deliver
      <4>1. InPackets'
        BY <2>1, <2>2, <3>2, CallbackPackets
      <4>2. UNCHANGED <<emitted, consumed>>
        BY <2>1, <3>2 DEF Return, Empty, NextPacket, MoreSysex, streamVars
      <4> QED
        BY <2>2, <4>1, <4>2
    <3> QED
      BY <3>1, <3>2
  <2>4. ignore' = ignore /\ todo' = todo /\ retyped' \in BOOLEAN
    <3>1. UNCHANGED ignoreVars \/ Looks \/ Consume(FlattenSeq(list'))
      BY <2>1 DEF Deliver, Return, Empty, NextPacket, MoreSysex, Broken, Sysex, Short
    <3> QED
      BY <2>2, <3>1 DEF ignoreVars, Looks, Consume
  <2>5. /\ message' \in Message /\ continueSysex' \in BOOLEAN /\ running' \in BOOLEAN
        /\ skipped' \in BOOLEAN
        /\ handVars' = handVars \/ (tail = "none" /\ \E m \in Message : HandOver(m))
    <3>1. CASE Deliver \/ Return \/ Empty \/ NextPacket
      BY <2>2, <3>1 DEF Deliver, Return, Empty, NextPacket, HandNothing
    <3>2. CASE MoreSysex
      <4> DEFINE more == message \o Head(list)
      <4>1. more \in Message /\ NoMessage \in Message
        <5>1. Head(list) \in Seq(Part)
          BY <2>2, <3>2, MoreTakes DEF Takes
        <5>2. Head(list) \in Seq(Chunk)
          BY <5>1, PartSequences
        <5> QED
          BY <2>2, <5>2, ConcatProperties DEF Message, NoMessage
      <4>2. /\ message' \in {message, NoMessage, more}
            /\ handVars' = handVars \/ (tail = "none" /\ HandOver(more))
            /\ UNCHANGED <<running, skipped>>
        BY <3>2 DEF MoreSysex, HandNothing, Between
      <4>3. continueSysex' \in BOOLEAN
        BY <3>2 DEF MoreSysex
      <4> HIDE DEF more
      <4> QED
        BY <2>2, <4>1, <4>2, <4>3
    <3>3. CASE /\ Broken \/ Sysex \/ Short
               /\ UNCHANGED <<list, running, skipped, streamVars>>
      <4>1. Head(packet) \in Part /\ tail = "none" /\ UNCHANGED <<running, skipped>>
        BY <2>2, <3>3, AloneTakes, ShortTakes DEF Broken, Sysex, Short, Parsing
      <4>2. <<Head(packet)>> \in Message /\ NoMessage \in Message /\ Head(packet).last \in BOOLEAN
        BY <4>1 DEF Message, NoMessage, Part, Chunk
      <4>3. /\ message' \in {message, NoMessage, <<Head(packet)>>}
            /\ handVars' = handVars \/ HandOver(<<Head(packet)>>)
            /\ continueSysex' = continueSysex \/ continueSysex' = ~Head(packet).last
        <5>1. CASE Broken
          BY <5>1 DEF Broken, HandNothing
        <5>2. CASE Sysex
          BY <5>2 DEF Sysex, HandNothing
        <5>3. CASE Short
          BY <5>3 DEF Short, HandNothing
        <5> QED
          BY <3>3, <5>1, <5>2, <5>3
      <4> QED
        BY <2>2, <4>1, <4>2, <4>3
    <3> QED
      BY <2>1, <3>1, <3>2, <3>3
  <2>6. tail' = tail \/ (tail = "none" /\ tail' = "test")
    BY <2>5 DEF HandOver, handVars
  <2>7. UNCHANGED <<callVars, connected, failed, upc, after>>
    BY <2>1 DEF apiVars, callVars
  <2>8. InTypes'
    <3>1. handVars' = handVars \/ \E m \in Message : HandOver(m)
      BY <2>5
    <3> QED
      BY <2>1, <2>2, <2>3, <2>4, <2>7, <3>1, RestTypes
  <2>9. InRing'
    <3>1. Getting' = Getting
      BY <2>7 DEF Getting
    <3>2. Putting' = Putting
      BY <2>6 DEF Putting
    <3> QED
      BY <2>1, <3>1, <3>2, InRingStays DEF Typed
  <2>10. TypeOK'
    <3>1. ApiTypeOK(CorePlaces)'
      BY <2>7 DEF Typed, TypeOK, ApiTypeOK, CorePlaces, callVars
    <3>2. list' \in Seq(Message) /\ packet' \in Message
      <4>1. Seq(Part) \subseteq Seq(Chunk)
        BY DEF Part
      <4> QED
        BY <2>3, <4>1 DEF InPackets, Message
    <3>3. client' \in BOOLEAN /\ endpoint' \in BOOLEAN
      BY <2>1 DEF Typed, TypeOK
    <3> QED
      BY <2>5, <2>8, <3>1, <3>2, <3>3 DEF TypeOK, InTypes, CorePlaces
  <2> QED
    BY <2>3, <2>7, <2>8, <2>9, <2>10 DEF Typed
<1> QED
  BY <1>1, <1>2

\* Every step keeps types, packets and queue.
LEMMA NextTyped == Typed /\ [Next]_vars => Typed'
<1> SUFFICES ASSUME Typed, [Next]_vars PROVE Typed'
  OBVIOUS
<1>1. CASE UserStep
  BY <1>1, InCallTyped, PortTyped DEF UserStep
<1>2. CASE CallbackStep
  BY <1>2, CallbackTyped
<1>3. CASE DeviceStep \/ UNCHANGED vars
  <2>1. UNCHANGED <<callVars, connected, failed, callbackVars, queueVars,
                    ignoreVars, handVars, consumed, coreVars>>
    BY <1>3 DEF DeviceStep, Emit, vars, apiVars, inVars, streamVars
  <2>2. /\ emitted' \in Seq(Chunk) /\ InParts(emitted')
        /\ emitted' # <<>> => emitted'[1].first
    <3>1. CASE DeviceStep
      <4>1. /\ emitted' \in Seq(Chunk) /\ InParts(emitted') /\ emitted \in Seq(Chunk)
            /\ \E c \in NextChunks(emitted) : emitted' = Append(emitted, c)
        BY <3>1, EmitTypes DEF DeviceStep, Emit, Typed, InTypes, InTypeOK
      <4>2. PICK c \in NextChunks(emitted) : emitted' = Append(emitted, c)
        BY <4>1
      <4>3. CASE emitted = <<>>
        <5>1. c.first = TRUE
          BY <4>3 DEF NextChunks
        <5>2. emitted'[1] = c
          BY <4>2, <4>3
        <5> QED
          BY <4>1, <5>1, <5>2
      <4>4. CASE emitted # <<>>
        <5>1. Len(emitted) \in Nat \ {0}
          BY <4>1, <4>4, EmptySeq
        <5>2. emitted'[1] = emitted[1]
          BY <4>1, <4>2, <5>1
        <5> QED
          BY <4>1, <4>4, <5>2 DEF Typed, InPackets
      <4> QED
        BY <4>3, <4>4
    <3>2. CASE UNCHANGED vars
      BY <3>2 DEF vars, inVars, streamVars, Typed, InTypes, InTypeOK, InPackets
    <3> QED
      BY <1>3, <3>1, <3>2
  <2>3. InTypes'
    <3>1. /\ ignore \subseteq Flags /\ todo \in Seq(Flags) /\ retyped \in BOOLEAN
          /\ consumed \in Seq(Chunk) /\ InParts(consumed)
      BY DEF Typed, InTypes, InTypeOK
    <3> QED
      BY <2>1, <2>2, <3>1, RestTypes DEF Typed, callVars, ignoreVars, InParts
  <2>4. InRing'
    BY <2>1, InRingStays DEF Typed, callVars, handVars, Getting, Putting
  <2>5. TypeOK'
    <3>1. ApiTypeOK(CorePlaces)'
      BY <2>1 DEF Typed, TypeOK, ApiTypeOK, CorePlaces, callVars
    <3> QED
      BY <2>1, <2>3, <3>1 DEF Typed, TypeOK, InTypes, CorePlaces, coreVars
  <2>6. InPackets'
    BY <2>1, <2>2, PacketsStay DEF Typed, coreVars
  <2> QED
    BY <2>1, <2>3, <2>4, <2>5, <2>6 DEF Typed, callVars
<1> QED
  BY <1>1, <1>2, <1>3 DEF Next

\* Types, packets and queue always hold.
LEMMA AlwaysTyped == Spec => []Typed
BY InitTyped, NextTyped, PTL DEF Spec

\* TypeOK, and with it that size never exceeds the ring, whatever getMessage and
\* the callback overwrite.
THEOREM CoreTypeCorrect == Spec => []TypeOK
<1>1. Typed => TypeOK
  BY DEF Typed
<1> QED
  BY <1>1, AlwaysTyped, PTL

\* For a ring of any size: until an update of queue.size is overwritten, getMessage
\* returns what the callback put in, in that order, and the rest is in the ring.
THEOREM CoreQueueExact == Spec => []QueueExact
<1>1. Typed => QueueExact
  BY InRingExact DEF Typed
<1> QED
  BY <1>1, AlwaysTyped, PTL

-----------------------------------------------------------------------------
(* What is swallowed. *)

\* Before place i of s a sysex message has begun and not ended.
OpenAt(s, i) ==
    \E j \in 1 .. i - 1 :
        /\ s[j].kind = "sysex" /\ ~s[j].last
        /\ \A k \in j + 1 .. i - 1 : s[k].kind # "sysex"

\* the number of chunks parsed
Parsed == Len(consumed) - Len(Unparsed)

\* The place i of s is no loss.
Excused(s, i, h) ==
    s[i].kind # "note" \/ s[i] \in ToSet(FlattenSeq(h)) \/ OpenAt(s, i)

\* What is parsed is no loss, and only an unfinished sysex message is continued.
Swallows ==
    ~skipped => /\ \A i \in 1 .. Parsed : Excused(consumed, i, handed)
                /\ continueSysex => OpenAt(consumed, Parsed + 1)

\* What was handed over stays so.
LEMMA HandedGrows ==
    ASSUME NEW h \in Seq(Message), NEW m \in Message
    PROVE  /\ ToSet(FlattenSeq(h)) \subseteq ToSet(FlattenSeq(Append(h, m)))
           /\ \A i \in DOMAIN m : m[i] \in ToSet(FlattenSeq(Append(h, m)))
<1>1. /\ FlattenSeq(h) \in Seq(Chunk) /\ m \in Seq(Chunk)
      /\ FlattenSeq(Append(h, m)) = FlattenSeq(h) \o m
  BY FlattenAppend DEF Message
<1> DEFINE f == FlattenSeq(h)
<1>2. /\ Len(f \o m) = Len(f) + Len(m)
      /\ \A i \in 1 .. Len(f) + Len(m) : (f \o m)[i] = IF i <= Len(f) THEN f[i] ELSE m[i - Len(f)]
      /\ Len(f) \in Nat /\ Len(m) \in Nat /\ DOMAIN f = 1 .. Len(f) /\ DOMAIN m = 1 .. Len(m)
      /\ DOMAIN (f \o m) = 1 .. Len(f) + Len(m)
  BY <1>1, ConcatProperties, LenProperties
<1> HIDE DEF f
<1>3. \A i \in DOMAIN f : i \in DOMAIN (f \o m) /\ (f \o m)[i] = f[i]
  BY <1>2
<1>4. \A i \in DOMAIN m : Len(f) + i \in DOMAIN (f \o m) /\ (f \o m)[Len(f) + i] = m[i]
  BY <1>2
<1>5. ToSet(f) \subseteq ToSet(f \o m) /\ \A i \in DOMAIN m : m[i] \in ToSet(f \o m)
  BY <1>3, <1>4 DEF ToSet
<1> QED
  BY <1>1, <1>5 DEF f

\* A sysex message stays open past anything else.
LEMMA OpenStays ==
    ASSUME NEW s, NEW k \in Nat, NEW n \in Nat, OpenAt(s, k + 1),
           \A i \in 1 .. n : s[k + i].kind # "sysex"
    PROVE  \A i \in 1 .. n + 1 : OpenAt(s, k + i)
<1>1. PICK j \in 1 .. k : /\ s[j].kind = "sysex" /\ ~s[j].last
                          /\ \A l \in j + 1 .. k : s[l].kind # "sysex"
  BY DEF OpenAt
<1> SUFFICES ASSUME NEW i \in 1 .. n + 1
             PROVE  j \in 1 .. k + i - 1 /\ \A l \in j + 1 .. k + i - 1 : s[l].kind # "sysex"
  BY <1>1 DEF OpenAt
<1>2. j \in 1 .. k + i - 1
  OBVIOUS
<1>3. ASSUME NEW l \in j + 1 .. k + i - 1 PROVE s[l].kind # "sysex"
  <2>1. CASE l <= k
    BY <1>1, <2>1
  <2>2. CASE l > k
    <3>1. l - k \in 1 .. n /\ k + (l - k) = l
      BY <2>2
    <3> QED
      BY <3>1
  <2> QED
    BY <2>1, <2>2
<1> QED
  BY <1>2, <1>3

\* A sysex chunk that is not a last part opens a message.
LEMMA OpenBegins ==
    ASSUME NEW s, NEW k \in Nat \ {0}, s[k].kind = "sysex", ~s[k].last
    PROVE  OpenAt(s, k + 1)
BY DEF OpenAt

\* It is enough to look at the chunks a step takes.
LEMMA TakesSwallows ==
    ASSUME Typed, Swallows, UNCHANGED consumed, skipped => skipped',
           handed' = handed \/ \E m \in Message : handed' = Append(handed, m),
           NEW p, Takes(p),
           ~skipped' =>
               /\ \A i \in 1 .. Len(p) : \/ p[i].kind # "note"
                                         \/ p[i] \in ToSet(FlattenSeq(handed'))
                                         \/ OpenAt(consumed, Parsed + i)
               /\ continueSysex' => OpenAt(consumed, Parsed + Len(p) + 1)
    PROVE  Swallows'
<1> SUFFICES ASSUME ~skipped'
             PROVE  /\ \A i \in 1 .. Parsed' : Excused(consumed, i, handed')
                    /\ continueSysex' => OpenAt(consumed, Parsed' + 1)
  BY DEF Swallows, Parsed
<1>1. /\ Parsed \in Nat /\ Len(p) \in Nat \ {0} /\ Parsed' = Parsed + Len(p)
      /\ \A i \in 1 .. Len(p) : consumed[Parsed + i] = p[i]
  BY TakesEnds DEF Typed, Parsed
<1>2. ToSet(FlattenSeq(handed)) \subseteq ToSet(FlattenSeq(handed'))
  BY HandedGrows DEF Typed, TypeOK, InTypeOK
<1>3. ASSUME NEW i \in 1 .. Parsed' PROVE Excused(consumed, i, handed')
  <2>1. CASE i <= Parsed
    <3>1. Excused(consumed, i, handed)
      BY <1>1, <2>1 DEF Swallows
    <3> QED
      BY <1>2, <3>1 DEF Excused
  <2>2. CASE i > Parsed
    <3>1. i - Parsed \in 1 .. Len(p) /\ Parsed + (i - Parsed) = i
      BY <1>1, <2>2
    <3>2. consumed[i] = p[i - Parsed]
      BY <1>1, <3>1
    <3> QED
      BY <3>1, <3>2 DEF Excused
  <2> QED
    BY <1>1, <2>1, <2>2
<1>4. continueSysex' => OpenAt(consumed, Parsed' + 1)
  BY <1>1
<1> QED
  BY <1>3, <1>4

\* Nothing is lost by what takes no chunks.
LEMMA RestSwallows ==
    ASSUME Swallows, UNCHANGED <<consumed, continueSysex, handed>>, skipped => skipped',
           ~skipped' => Unparsed' = Unparsed
    PROVE  Swallows'
BY DEF Swallows, Parsed

\* No step of the callback swallows more.
LEMMA CallbackSwallows ==
    ASSUME Typed, Swallows,
           \/ Deliver \/ Return \/ Empty \/ NextPacket \/ MoreSysex
           \/ /\ Broken \/ Sysex \/ Short
              /\ UNCHANGED <<list, running, skipped, streamVars>>
    PROVE  Swallows'
<1> USE DEF Typed
<1>1. CASE Return \/ Empty \/ NextPacket
  <2>1. /\ UNCHANGED <<consumed, continueSysex, handed>>
        /\ skipped' = skipped \/ skipped' = (skipped \/ FlattenSeq(list) # <<>>)
    BY <1>1 DEF Return, Empty, NextPacket, streamVars, HandNothing, handVars
  <2>2. skipped => skipped'
    BY <2>1
  <2>3. ~skipped' => Unparsed' = Unparsed
    BY <1>1, PacketGoes
  <2> QED
    BY <2>1, <2>2, <2>3, RestSwallows
<1>2. CASE Deliver
  <2>1. /\ consumed' = consumed \o Unparsed' /\ Unparsed = <<>>
        /\ Unparsed' \in Seq(Chunk) /\ consumed \in Seq(Chunk)
        /\ UNCHANGED <<continueSysex, skipped, handed>>
    BY <1>2, DeliverTakes, PartSequences DEF InTypes, InTypeOK, Deliver, HandNothing, handVars
  <2>2. PICK n \in Nat : n = Len(consumed)
    BY <2>1
  <2>3. Parsed = n /\ Parsed' = n /\ \A i \in 1 .. n : consumed'[i] = consumed[i]
    <3>1. /\ Len(consumed') = n + Len(Unparsed') /\ Len(Unparsed') \in Nat /\ Len(Unparsed) = 0
          /\ \A i \in 1 .. n : consumed'[i] = consumed[i]
      BY <2>1, <2>2, ConcatProperties
    <3> QED
      BY <2>2, <3>1 DEF Parsed
  <2>4. ASSUME NEW i \in 1 .. n + 1, OpenAt(consumed, i) PROVE OpenAt(consumed', i)
    <3>1. PICK j \in 1 .. i - 1 : /\ consumed[j].kind = "sysex" /\ ~consumed[j].last
                                  /\ \A k \in j + 1 .. i - 1 : consumed[k].kind # "sysex"
      BY <2>4 DEF OpenAt
    <3>2. \A k \in 1 .. i - 1 : consumed'[k] = consumed[k]
      BY <2>3
    <3>3. consumed'[j] = consumed[j] /\ \A k \in j + 1 .. i - 1 : consumed'[k] = consumed[k]
      BY <3>2
    <3> QED
      BY <3>1, <3>3 DEF OpenAt
  <2>5. ASSUME ~skipped PROVE \A i \in 1 .. n : Excused(consumed', i, handed)
    BY <2>3, <2>4, <2>5 DEF Swallows, Excused
  <2>6. ~skipped /\ continueSysex => OpenAt(consumed', n + 1)
    BY <2>2, <2>3, <2>4 DEF Swallows
  <2> QED
    BY <2>1, <2>3, <2>5, <2>6 DEF Swallows
<1>3. CASE MoreSysex
  <2> DEFINE p == Head(list)
  <2>1. Takes(p) /\ p # <<>> /\ Alone(p) /\ p \in Seq(Chunk) /\ message \in Message
    <3>1. Takes(p) /\ p # <<>> /\ Alone(p)
      BY <1>3, MoreTakes DEF Takes
    <3>2. p \in Seq(Chunk)
      BY <3>1, PartSequences DEF Takes
    <3> QED
      BY <3>1, <3>2 DEF TypeOK
  <2>2. UNCHANGED <<consumed, skipped>> /\ continueSysex
    BY <1>3 DEF MoreSysex, streamVars
  <2>3. handed' = handed \/ handed' = Append(handed, message \o p)
    BY <1>3 DEF MoreSysex, HandOver, HandNothing, handVars
  <2>4. continueSysex' => ~(LastOf(p).kind = "sysex" /\ LastOf(p).last)
    BY <1>3 DEF MoreSysex
  <2> HIDE DEF p
  <2>5. handed' = handed \/ \E m \in Message : handed' = Append(handed, m)
    <3>1. message \o p \in Message
      BY <2>1, ConcatProperties DEF Message
    <3> QED
      BY <2>3, <3>1
  <2>6. ASSUME ~skipped'
        PROVE  /\ \A i \in 1 .. Len(p) : p[i].kind # "note" \/ OpenAt(consumed, Parsed + i)
               /\ continueSysex' => OpenAt(consumed, Parsed + Len(p) + 1)
    <3>1. /\ Parsed \in Nat /\ Len(p) \in Nat \ {0}
          /\ \A i \in 1 .. Len(p) : consumed[Parsed + i] = p[i]
      BY <2>1, <2>2, <2>6, TakesEnds DEF Parsed
    <3>2. OpenAt(consumed, Parsed + 1)
      BY <2>2, <2>6 DEF Swallows
    <3>3. CASE \A i \in 1 .. Len(p) : p[i].kind # "sysex"
      <4>1. \A i \in 1 .. Len(p) : consumed[Parsed + i].kind # "sysex"
        BY <3>1, <3>3
      <4>2. \A i \in 1 .. Len(p) + 1 : OpenAt(consumed, Parsed + i)
        BY <3>1, <3>2, <4>1, OpenStays
      <4>3. Parsed + Len(p) + 1 = Parsed + (Len(p) + 1) /\ Len(p) + 1 \in 1 .. Len(p) + 1
        BY <3>1
      <4>4. \A i \in 1 .. Len(p) : i \in 1 .. Len(p) + 1
        BY <3>1
      <4> QED
        BY <4>2, <4>3, <4>4
    <3>4. CASE Len(p) = 1 /\ p[1].kind = "sysex"
      <4>1. consumed[Parsed + 1] = p[1] /\ \A i \in 1 .. Len(p) : i = 1
        BY <3>1, <3>4
      <4>2. continueSysex' => ~p[1].last
        BY <2>4, <3>4 DEF LastOf
      <4>3. continueSysex' => OpenAt(consumed, Parsed + 1 + 1)
        BY <3>1, <3>4, <4>1, <4>2, OpenBegins
      <4> QED
        BY <3>4, <4>1, <4>3
    <3>5. DOMAIN p = 1 .. Len(p)
      BY <2>1
    <3> QED
      BY <2>1, <3>3, <3>4, <3>5 DEF Alone
  <2> QED
    BY <2>1, <2>2, <2>5, <2>6, TakesSwallows
<1>4. CASE (Broken \/ Sysex) /\ UNCHANGED <<list, running, skipped, streamVars>>
  <2> DEFINE c == Head(packet)
  <2>1. /\ Takes(<<c>>) /\ c \in Chunk /\ c.kind = "sysex" /\ UNCHANGED <<consumed, skipped>>
    <3>1. Takes(packet) /\ c \in Part /\ packet = <<c>> /\ UNCHANGED <<consumed, skipped>>
      BY <1>4, AloneTakes DEF streamVars
    <3>2. ~c.first \/ c.kind = "sysex"
      BY <1>4 DEF Broken, Sysex
    <3> QED
      BY <3>1, <3>2 DEF Part
  <2>2. ~continueSysex
    BY <1>4 DEF Broken, Sysex, Parsing, InPackets
  <2>3. continueSysex' => ~c.last
    BY <1>4, <2>2 DEF Broken, Sysex
  <2>4. handed' = handed \/ handed' = Append(handed, <<c>>)
    BY <1>4 DEF Broken, Sysex, HandOver, HandNothing, handVars
  <2> HIDE DEF c
  <2>5. handed' = handed \/ \E m \in Message : handed' = Append(handed, m)
    <3>1. <<c>> \in Message
      BY <2>1 DEF Message
    <3> QED
      BY <2>4, <3>1
  <2>6. /\ \A i \in 1 .. Len(<<c>>) : <<c>>[i].kind # "note"
        /\ ~skipped' /\ continueSysex' => OpenAt(consumed, Parsed + Len(<<c>>) + 1)
    <3>1. Len(<<c>>) = 1 /\ \A i \in 1 .. 1 : <<c>>[i] = c
      OBVIOUS
    <3>2. ASSUME ~skipped', continueSysex' PROVE OpenAt(consumed, Parsed + 1 + 1)
      <4>1. Parsed \in Nat /\ \A i \in 1 .. 1 : consumed[Parsed + i] = <<c>>[i]
        BY <2>1, <3>1, <3>2, TakesEnds DEF Parsed
      <4>2. consumed[Parsed + 1] = c
        BY <3>1, <4>1
      <4> QED
        BY <2>1, <2>3, <3>2, <4>1, <4>2, OpenBegins
    <3> QED
      BY <2>1, <3>1, <3>2
  <2> QED
    BY <2>1, <2>5, <2>6, TakesSwallows
<1>5. CASE Short /\ UNCHANGED <<list, running, skipped, streamVars>>
  <2> DEFINE c == Head(packet)
  <2>1. Takes(<<c>>) /\ c \in Chunk /\ UNCHANGED <<consumed, skipped>>
    BY <1>5, ShortTakes DEF Part, streamVars
  <2>2. ~continueSysex'
    BY <1>5 DEF Short, Parsing, InPackets
  <2>3. /\ handed' = handed \/ handed' = Append(handed, <<c>>)
        /\ c.kind = "note" => handed' = Append(handed, <<c>>)
    <3>1. "note" \notin ignore
      BY DEF InTypes, InTypeOK, Flags
    <3> QED
      BY <1>5, <3>1 DEF Short, Wanted, HandOver, HandNothing, handVars
  <2> HIDE DEF c
  <2>4. <<c>> \in Message /\ handed \in Seq(Message)
    BY <2>1 DEF Message, InTypes, InTypeOK
  <2>5. \A i \in 1 .. Len(<<c>>) : <<c>>[i].kind # "note" \/ <<c>>[i] \in ToSet(FlattenSeq(handed'))
    <3>1. Len(<<c>>) = 1 /\ DOMAIN <<c>> = 1 .. 1 /\ <<c>>[1] = c
      OBVIOUS
    <3>2. c.kind = "note" => c \in ToSet(FlattenSeq(handed'))
      <4>1. PICK m \in Message : m = <<c>> /\ 1 \in DOMAIN m /\ m[1] = c
        BY <2>4, <3>1
      <4>2. c \in ToSet(FlattenSeq(Append(handed, m)))
        BY <2>4, <4>1, HandedGrows
      <4> QED
        BY <2>3, <4>1, <4>2
    <3> QED
      BY <3>1, <3>2
  <2> QED
    BY <2>1, <2>2, <2>3, <2>4, <2>5, TakesSwallows
<1> QED
  BY <1>1, <1>2, <1>3, <1>4, <1>5

\* Nor does any other.
LEMMA NextSwallows == Typed /\ Swallows /\ [Next]_vars => Swallows'
<1> SUFFICES ASSUME Typed, Swallows, [Next]_vars PROVE Swallows'
  OBVIOUS
<1>1. CASE \/ UserStep \/ (TailStep /\ UNCHANGED coreVars) \/ DeviceStep \/ UNCHANGED vars
  <2>1. UNCHANGED <<consumed, list, packet, continueSysex, skipped, handed>>
    BY <1>1 DEF UserStep, InCall, inVars, parseVars, coreVars, streamVars, handVars, TailStep,
           TestCallback, CallUser, TestRoom, StoreMessage, LoadSize, StoreSize, TailGoes,
           DeviceStep, Emit, vars
  <2>2. Unparsed' = Unparsed
    BY <2>1 DEF Unparsed
  <2> QED
    BY <2>1, <2>2, RestSwallows
<1>2. CASE CallbackStep
  <2>1. CASE ~(TailStep /\ UNCHANGED coreVars)
    BY <1>2, <2>1, CallbackSwallows DEF CallbackStep
  <2> QED
    BY <1>1, <2>1
<1> QED
  BY <1>1, <1>2 DEF Next

\* For any packets, the callback never goes on swallowing when a sysex message has
\* ended, whether or not sysex messages are ignored: a note is lost only inside an
\* unfinished one or behind an empty packet.
THEOREM CoreNotesSwallowed == Spec => []NotesSwallowed
<1>1. Init => Typed /\ Swallows
  <2>1. Init => consumed = <<>> /\ continueSysex = FALSE /\ list = <<>> /\ packet = <<>>
    BY DEF Init, InInit
  <2>2. <<>> \o <<>> = <<>> /\ Len(<<>>) - Len(<<>>) = 0
    OBVIOUS
  <2>3. Init => Swallows
    BY <2>1, <2>2, FlattenNone DEF Swallows, Parsed, Unparsed
  <2> QED
    BY <2>3, InitTyped
<1>2. Typed /\ Swallows => NotesSwallowed
  <2> SUFFICES ASSUME Typed, Swallows, ~skipped, ~running, NEW i \in DOMAIN consumed
               PROVE  Excused(consumed, i, handed)
    BY DEF NotesSwallowed, Excused, OpenAt
  <2>1. list = <<>> /\ packet = <<>> /\ consumed \in Seq(Chunk)
    BY DEF Typed, InPackets, InTypes, InTypeOK
  <2>2. Unparsed = <<>>
    <3>1. <<>> \o <<>> = <<>>
      OBVIOUS
    <3> QED
      BY <2>1, <3>1, FlattenNone DEF Unparsed
  <2>3. Len(Unparsed) = 0 /\ Len(consumed) \in Nat /\ DOMAIN consumed = 1 .. Len(consumed)
    BY <2>1, <2>2
  <2>4. i \in 1 .. Parsed
    BY <2>3 DEF Parsed
  <2> QED
    BY <2>4 DEF Swallows
<1> QED
  BY <1>1, <1>2, NextTyped, NextSwallows, PTL DEF Spec

-----------------------------------------------------------------------------
(* What is handed over. *)

\* what Intact assumes
Undisturbed == ~retyped /\ ~skipped /\ WellFormed(consumed)

\* The message under way begins with its first part, there is one when the last
\* chunk parsed is no last part, and nothing that was parsed is missing.
Faithful ==
    Undisturbed =>
        /\ consumed # <<>> => upc # "ignore"
        /\ continueSysex <=> (Parsed # 0 /\ ~consumed[Parsed].last)
        /\ message # <<>> <=> (continueSysex /\ "sysex" \notin ignore)
        /\ message # <<>> => Head(message).first
        /\ \A i \in DOMAIN handed : Whole(handed[i])
        /\ FlattenSeq(handed) \o message \o Unignored(Unparsed, ignore)
               = Unignored(consumed, ignore)

\* what is left of a chunk
Kept(c) == IF c.kind \in ignore THEN <<>> ELSE <<c>>

\* It is what Unignored makes of the chunk alone.
LEMMA UnignoredOne ==
    ASSUME NEW c \in Chunk
    PROVE  Unignored(<<c>>, ignore) = Kept(c) /\ Kept(c) \in Seq(Chunk)
<1>1. <<>> \in Seq(Chunk) /\ Append(<<>>, c) = <<c>> /\ <<c>> \in Seq(Chunk)
  OBVIOUS
<1>2. Unignored(Append(<<>>, c), ignore) =
          IF c.kind \in ignore THEN Unignored(<<>>, ignore)
                               ELSE Append(Unignored(<<>>, ignore), c)
  BY <1>1, UnignoredAppend
<1> QED
  BY <1>1, <1>2, UnignoredNone DEF Kept

\* What is parsed goes to the message or, with the message, is handed over.
LEMMA KeptStays ==
    ASSUME NEW h \in Seq(Message), NEW m \in Message, NEW k \in Seq(Chunk)
    PROVE  /\ FlattenSeq(h) \in Seq(Chunk)
           /\ FlattenSeq(h) \o (m \o k) = FlattenSeq(h) \o m \o k
           /\ FlattenSeq(Append(h, m \o k)) \o <<>> = FlattenSeq(h) \o m \o k
<1>1. m \o k \in Message /\ m \in Seq(Chunk) /\ m \o k \in Seq(Chunk)
  BY ConcatProperties DEF Message
<1>2. PICK f \in Seq(Chunk) : /\ f = FlattenSeq(h)
                              /\ FlattenSeq(Append(h, m \o k)) = f \o (m \o k)
  BY <1>1, FlattenAppend DEF Message
<1>3. f \o (m \o k) = f \o m \o k
  BY <1>1, ConcatAssociative
<1>4. (f \o (m \o k)) \o <<>> = f \o (m \o k)
  BY <1>1, ConcatProperties, ConcatEmptySeq
<1> QED
  BY <1>2, <1>3, <1>4

\* It is enough to look at the chunk a step takes.
LEMMA TakesFaithful ==
    ASSUME Typed, Faithful, UNCHANGED <<consumed, ignore, upc>>,
           skipped => skipped', retyped => retyped',
           NEW c \in Part, Takes(<<c>>),
           Undisturbed' =>
               /\ continueSysex' <=> ~c.last
               /\ message' # <<>> <=> (continueSysex' /\ "sysex" \notin ignore)
               /\ message' # <<>> => Head(message').first
               /\ \/ handed' = handed /\ message' = message \o Kept(c)
                  \/ /\ handed' = Append(handed, message \o Kept(c)) /\ message' = <<>>
                     /\ Whole(message \o Kept(c))
    PROVE  Faithful'
<1> SUFFICES ASSUME Undisturbed'
             PROVE  /\ consumed' # <<>> => upc' # "ignore"
                    /\ continueSysex' <=> (Parsed' # 0 /\ ~consumed'[Parsed'].last)
                    /\ message' # <<>> <=> (continueSysex' /\ "sysex" \notin ignore')
                    /\ message' # <<>> => Head(message').first
                    /\ \A i \in DOMAIN handed' : Whole(handed'[i])
                    /\ FlattenSeq(handed') \o message' \o Unignored(Unparsed', ignore')
                           = Unignored(consumed', ignore')
  BY DEF Faithful, Undisturbed
<1>0. Undisturbed
  BY DEF Undisturbed
<1>1. /\ c \in Chunk /\ Unparsed' \in Seq(Chunk) /\ <<c>> \in Seq(Chunk)
      /\ Unparsed = <<c>> \o Unparsed'
  <2>1. Unparsed' \in Seq(Part) /\ Unparsed = <<c>> \o Unparsed'
    BY DEF Takes
  <2>2. c \in Chunk
    BY DEF Part
  <2> QED
    BY <2>1, <2>2, PartSequences
<1>2. Parsed \in Nat /\ Parsed' = Parsed + 1 /\ consumed[Parsed'] = c
  <2>1. Len(<<c>>) = 1 /\ <<c>>[1] = c
    OBVIOUS
  <2>2. /\ Parsed \in Nat /\ Parsed' = Parsed + 1
        /\ \A i \in 1 .. 1 : consumed[Parsed + i] = <<c>>[i]
    BY <2>1, TakesEnds DEF Typed, Parsed, Undisturbed
  <2> QED
    BY <2>1, <2>2
<1>3. \A i \in DOMAIN handed' : Whole(handed'[i])
  <2>1. handed' = handed \/ \E m : handed' = Append(handed, m) /\ Whole(m) /\ m \in Message
    <3>1. message \o Kept(c) \in Message
      <4>1. message \in Seq(Chunk)
        BY DEF Typed, TypeOK, Message
      <4> QED
        BY <1>1, <4>1, UnignoredOne, ConcatProperties DEF Message
    <3> QED
      BY <3>1
  <2>2. \A i \in DOMAIN handed : Whole(handed[i])
    BY <1>0 DEF Faithful
  <2>3. CASE handed' = handed
    BY <2>2, <2>3
  <2>4. CASE \E m : handed' = Append(handed, m) /\ Whole(m) /\ m \in Message
    <3>1. PICK m : handed' = Append(handed, m) /\ Whole(m) /\ m \in Message
      BY <2>4
    <3>2. handed \in Seq(Message)
      BY DEF Typed, InTypes, InTypeOK
    <3>3. PICK n \in Nat : n = Len(handed) /\ DOMAIN handed = 1 .. n
      BY <3>2, LenProperties
    <3>4. /\ DOMAIN handed' = 1 .. n + 1 /\ handed'[n + 1] = m
          /\ \A i \in 1 .. n : handed'[i] = handed[i]
      <4>1. handed' \in Seq(Message) /\ Len(handed') = n + 1
        BY <3>1, <3>2, <3>3, AppendProperties
      <4> QED
        BY <3>1, <3>2, <3>3, <4>1, AppendProperties, LenProperties
    <3> QED
      BY <2>2, <3>1, <3>3, <3>4
  <2> QED
    BY <2>1, <2>3, <2>4
<1>4. FlattenSeq(handed') \o message' \o Unignored(Unparsed', ignore')
          = Unignored(consumed', ignore')
  <2> DEFINE f == FlattenSeq(handed) \o message
             u == Unignored(Unparsed', ignore)
  <2>1. handed \in Seq(Message) /\ message \in Message /\ Kept(c) \in Seq(Chunk)
    BY <1>1, UnignoredOne DEF Typed, InTypes, InTypeOK, TypeOK
  <2>2. FlattenSeq(handed') \o message' = f \o Kept(c)
    <3>1. PICK k \in Seq(Chunk) :
              /\ k = Kept(c)
              /\ FlattenSeq(handed) \o (message \o k) = FlattenSeq(handed) \o message \o k
              /\ FlattenSeq(Append(handed, message \o k)) \o <<>> = FlattenSeq(handed) \o message \o k
      BY <2>1, KeptStays
    <3>2. CASE handed' = handed /\ message' = message \o Kept(c)
      BY <3>1, <3>2
    <3>3. CASE handed' = Append(handed, message \o Kept(c)) /\ message' = <<>>
      BY <3>1, <3>3
    <3> QED
      BY <3>2, <3>3
  <2>3. f \in Seq(Chunk)
    <3>1. <<>> \in Seq(Chunk) /\ message \in Seq(Chunk)
      BY <2>1 DEF Message
    <3>2. FlattenSeq(handed) \in Seq(Chunk)
      BY <2>1, <3>1, KeptStays
    <3> QED
      BY <3>1, <3>2, ConcatProperties
  <2>4. u \in Seq(Chunk)
    BY <1>1, UnignoredAppend
  <2>5. Unignored(Unparsed, ignore) = Kept(c) \o u
    <3>1. Unignored(<<c>> \o Unparsed', ignore)
              = Unignored(<<c>>, ignore) \o Unignored(Unparsed', ignore)
      BY <1>1, UnignoredConcat
    <3>2. Unignored(<<c>>, ignore) = Kept(c)
      BY <1>1, UnignoredOne
    <3> QED
      BY <1>1, <3>1, <3>2
  <2>6. f \o Unignored(Unparsed, ignore) = Unignored(consumed, ignore)
    BY <1>0 DEF Faithful
  <2> HIDE DEF f, u
  <2>7. f \o (Kept(c) \o u) = f \o Kept(c) \o u
    <3>1. PICK f_ \in Seq(Chunk), k \in Seq(Chunk), u_ \in Seq(Chunk) :
              f_ = f /\ k = Kept(c) /\ u_ = u
      BY <2>1, <2>3, <2>4
    <3>2. f_ \o (k \o u_) = f_ \o k \o u_
      BY <3>1, ConcatAssociative
    <3> QED
      BY <3>1, <3>2
  <2> QED
    BY <2>2, <2>5, <2>6, <2>7 DEF u
<1> QED
  BY <1>0, <1>2, <1>3, <1>4 DEF Faithful

\* What does not touch the message, the types or the chunks keeps it.
LEMMA RestFaithful ==
    ASSUME Faithful,
           UNCHANGED <<consumed, ignore, continueSysex, message, handed>>,
           skipped => skipped', retyped => retyped',
           upc' = "ignore" => upc = "ignore",
           ~skipped' => Unparsed' = Unparsed
    PROVE  Faithful'
<1> SUFFICES ASSUME Undisturbed'
             PROVE  Undisturbed /\ Parsed' = Parsed /\ Unparsed' = Unparsed
  BY DEF Faithful
<1> QED
  BY DEF Undisturbed, Parsed

\* The next chunk begins a message exactly when the last one ended one.
LEMMA NextFirst ==
    ASSUME Typed, Undisturbed, Faithful, UNCHANGED consumed, skipped' = skipped,
           NEW p, Takes(p)
    PROVE  p[1].first <=> ~continueSysex
<1>1. /\ Parsed \in Nat /\ consumed[Parsed + 1] = p[1]
      /\ Parsed + 1 \in DOMAIN consumed
  <2>1. /\ Len(p) \in Nat \ {0} /\ Parsed \in Nat /\ Len(consumed') - Len(Unparsed') = Parsed + Len(p)
        /\ \A i \in 1 .. Len(p) : consumed[Parsed + i] = p[i]
    BY TakesEnds DEF Typed, Parsed, Undisturbed
  <2>2. /\ Len(Unparsed') \in Nat /\ Len(consumed) \in Nat /\ DOMAIN consumed = 1 .. Len(consumed)
        /\ Len(consumed') = Len(consumed)
    BY DEF Takes, Typed, InTypes, InTypeOK
  <2> QED
    BY <2>1, <2>2
<1>2. continueSysex <=> (Parsed # 0 /\ ~consumed[Parsed].last)
  BY DEF Faithful
<1>3. CASE Parsed = 0
  <2>1. p[1] = consumed[1] /\ consumed # <<>>
    BY <1>1, <1>3
  <2>2. consumed[1].first
    BY <2>1 DEF Typed, InPackets
  <2> QED
    BY <1>2, <1>3, <2>1, <2>2
<1>4. CASE Parsed # 0
  <2>1. Parsed + 1 > 1 /\ Parsed + 1 - 1 = Parsed
    BY <1>1, <1>4
  <2>2. IF p[1].first THEN consumed[Parsed].last ELSE ~consumed[Parsed].last
    BY <1>1, <2>1 DEF Undisturbed, WellFormed
  <2> QED
    BY <1>2, <1>4, <2>2
<1> QED
  BY <1>3, <1>4

\* A packet inside a sysex message is its next part,
LEMMA MoreFaithful ==
    ASSUME Typed, Faithful, MoreSysex, UNCHANGED upc
    PROVE  Faithful'
<1> DEFINE p == Head(list)
           c == p[1]
<1>1. /\ Takes(p) /\ Alone(p) /\ p \in Seq(Part) /\ p # <<>> /\ Len(p) \in Nat \ {0}
      /\ DOMAIN p = 1 .. Len(p)
  <2>1. Takes(p) /\ Alone(p) /\ p \in Seq(Part) /\ p # <<>>
    BY MoreTakes DEF Typed, Takes
  <2> QED
    BY <2>1, EmptySeq, LenProperties
<1>2. UNCHANGED <<consumed, ignore, upc, skipped>> /\ continueSysex /\ (retyped => retyped')
  BY DEF MoreSysex, streamVars, Looks
<1>3. /\ LastOf(p).kind = "sysex" /\ LastOf(p).last <=> ~continueSysex'
      /\ message' = IF "sysex" \in ignore THEN message
                    ELSE IF ~continueSysex' THEN <<>> ELSE message \o p
      /\ handed' = IF "sysex" \notin ignore /\ ~continueSysex' THEN Append(handed, message \o p)
                   ELSE handed
  BY DEF MoreSysex, NoMessage, HandOver, HandNothing, handVars
<1> SUFFICES ASSUME Undisturbed' PROVE Faithful'
  BY DEF Faithful, Undisturbed
<1>4. Undisturbed
  BY <1>2 DEF Undisturbed
<1> HIDE DEF p
<1>5. p = <<c>> /\ c \in Part /\ c.kind = "sysex" /\ LastOf(p) = c
  <2>1. ~c.first
    BY <1>1, <1>2, <1>4, NextFirst
  <2>2. c \in Part
    BY <1>1
  <2>3. c.kind = "sysex"
    BY <2>1, <2>2 DEF Part
  <2>4. Len(p) = 1
    BY <1>1, <2>3 DEF Alone
  <2>5. p = <<p[1]>>
    <3>1. Len(p) <= 2
      BY <2>4
    <3> QED
      BY <1>1, <2>4, <3>1, FewOf
  <2> QED
    BY <2>2, <2>3, <2>4, <2>5 DEF LastOf
<1> HIDE DEF c
<1>6. message # <<>> <=> "sysex" \notin ignore
  BY <1>2, <1>4 DEF Faithful
<1>7. message # <<>> => Head(message).first
  BY <1>4 DEF Faithful
<1>8. message \in Seq(Chunk) /\ c \in Chunk /\ (continueSysex' <=> ~c.last)
  BY <1>3, <1>5 DEF Typed, TypeOK, Message, Part
<1>9. CASE "sysex" \in ignore
  <2>1. message' = message \o Kept(c) /\ handed' = handed /\ message = <<>> /\ message' = <<>>
    <3>1. Kept(c) = <<>> /\ message = <<>> /\ <<>> \o <<>> = <<>>
      BY <1>5, <1>6, <1>9 DEF Kept
    <3> QED
      BY <1>3, <1>9, <3>1
  <2> QED
    BY <1>1, <1>2, <1>5, <1>8, <1>9, <2>1, TakesFaithful
<1>10. CASE "sysex" \notin ignore
  <2> DEFINE more == message \o Kept(c)
  <2>1. Kept(c) = <<c>> /\ message # <<>>
    BY <1>5, <1>6, <1>10 DEF Kept
  <2>2. more # <<>> /\ Head(more).first /\ LastOf(more) = c
    <3>1. Len(message) \in Nat \ {0} /\ <<c>> \in Seq(Chunk) /\ Len(<<c>>) = 1 /\ <<c>>[1] = c
      BY <1>8, <2>1, EmptySeq
    <3>2. /\ more \in Seq(Chunk) /\ Len(more) = Len(message) + 1
          /\ more[1] = message[1] /\ more[Len(message) + 1] = c
      BY <1>8, <2>1, <3>1, ConcatProperties
    <3>3. more # <<>> /\ Head(more) = more[1] /\ Head(message) = message[1]
      BY <1>8, <3>1, <3>2, EmptySeq, HeadTailProperties
    <3> HIDE DEF more
    <3> QED
      BY <1>7, <2>1, <3>2, <3>3 DEF LastOf
  <2>3. /\ continueSysex' <=> ~c.last
        /\ message' = IF c.last THEN <<>> ELSE more
        /\ handed' = IF c.last THEN Append(handed, more) ELSE handed
    BY <1>3, <1>5, <1>8, <1>10, <2>1
  <2>4. c.last => Whole(more)
    BY <2>2 DEF Whole
  <2> HIDE DEF more
  <2>5. /\ message' # <<>> <=> continueSysex'
        /\ message' # <<>> => Head(message').first
        /\ \/ handed' = handed /\ message' = more
           \/ handed' = Append(handed, more) /\ message' = <<>> /\ Whole(more)
    BY <2>2, <2>3, <2>4
  <2> QED
    BY <1>1, <1>2, <1>5, <1>8, <1>10, <2>5, TakesFaithful DEF more
<1> QED
  BY <1>9, <1>10

\* and one outside is a sysex message, or its first part, or short messages.
LEMMA PacketFaithful ==
    ASSUME Typed, Faithful, Broken \/ Sysex \/ Short, UNCHANGED upc,
           UNCHANGED <<list, running, skipped, streamVars>>
    PROVE  Faithful'
<1> DEFINE c == Head(packet)
<1>1. Takes(<<c>>) /\ c \in Part /\ (Short => c.kind # "sysex" /\ c.last)
  <2>1. CASE Broken \/ Sysex
    <3>1. packet = <<c>> /\ Takes(packet) /\ c \in Part
      BY <2>1, AloneTakes DEF Typed
    <3>2. ASSUME Short PROVE c.kind # "sysex" /\ c.last
      BY <3>2, ShortTakes DEF Typed
    <3> QED
      BY <3>1, <3>2
  <2>2. CASE Short
    BY <2>2, ShortTakes DEF Typed
  <2> QED
    BY <2>1, <2>2
<1>2. /\ UNCHANGED <<consumed, ignore, upc, skipped>> /\ ~continueSysex
      /\ retyped => retyped'
  <2>1. UNCHANGED ignoreVars \/ Looks
    BY DEF Broken, Sysex, Short
  <2>2. ~continueSysex
    BY DEF Broken, Sysex, Short, Parsing, Typed, InPackets
  <2>3. ignore' = ignore /\ (retyped => retyped')
    <3>1. CASE UNCHANGED ignoreVars
      BY <3>1 DEF ignoreVars
    <3>2. CASE Looks
      BY <3>2 DEF Looks
    <3> QED
      BY <2>1, <3>1, <3>2
  <2>4. UNCHANGED <<consumed, skipped>>
    BY DEF streamVars
  <2> QED
    BY <2>2, <2>3, <2>4
<1> SUFFICES ASSUME Undisturbed' PROVE Faithful'
  BY DEF Faithful, Undisturbed
<1>3. Undisturbed
  BY <1>2 DEF Undisturbed
<1>4. message = <<>>
  BY <1>2, <1>3 DEF Faithful
<1>5. c.first
  <2> HIDE DEF c
  <2>1. <<c>>[1] = c
    OBVIOUS
  <2> QED
    BY <1>1, <1>2, <1>3, <2>1, NextFirst
<1>6. Sysex \/ Short
  BY <1>5 DEF Broken
<1>7. /\ continueSysex' <=> ~c.last
      /\ Kept(c) # <<>> /\ c.last => message' = <<>> /\ handed' = Append(handed, <<c>>)
      /\ Kept(c) # <<>> /\ ~c.last => message' = <<c>> /\ handed' = handed
      /\ Kept(c) = <<>> => message' = <<>> /\ handed' = handed
      /\ ~c.last => c.kind = "sysex"
  <2>0. /\ Wanted(c) <=> Kept(c) # <<>>
        /\ c.last \in BOOLEAN /\ (continueSysex' \in BOOLEAN)
    <3>1. <<c>> # <<>>
      OBVIOUS
    <3>2. c.last \in BOOLEAN
      BY <1>1 DEF Part, Chunk
    <3>3. continueSysex' \in BOOLEAN
      BY <1>2, <1>6 DEF Sysex, Short, Typed, TypeOK
    <3> QED
      BY <3>1, <3>2, <3>3 DEF Wanted, Kept
  <2>1. CASE Sysex
    BY <1>4, <2>0, <2>1 DEF Sysex, HandOver, HandNothing, handVars, NoMessage
  <2>2. CASE Short
    BY <1>1, <1>2, <1>4, <2>0, <2>2 DEF Short, HandOver, HandNothing, handVars, NoMessage
  <2> QED
    BY <1>6, <2>1, <2>2
<1> HIDE DEF c
<1>8. message \o Kept(c) = Kept(c) /\ (Kept(c) # <<>> => Kept(c) = <<c>>)
  <2>1. c \in Chunk
    BY <1>1 DEF Part
  <2> QED
    BY <1>4, <2>1, UnignoredOne, ConcatEmptySeq DEF Kept
<1>9. <<c>> # <<>> /\ Head(<<c>>) = c /\ LastOf(<<c>>) = c
  BY DEF LastOf
<1>10. ~c.last => (Kept(c) # <<>> <=> "sysex" \notin ignore)
  BY <1>7, <1>9 DEF Kept
<1>11. /\ message' # <<>> <=> (continueSysex' /\ "sysex" \notin ignore)
       /\ message' # <<>> => Head(message').first
  BY <1>5, <1>7, <1>8, <1>9, <1>10
<1>12. \/ handed' = handed /\ message' = message \o Kept(c)
       \/ /\ handed' = Append(handed, message \o Kept(c)) /\ message' = <<>>
          /\ Whole(message \o Kept(c))
  BY <1>5, <1>7, <1>8, <1>9 DEF Whole
<1> QED
  BY <1>1, <1>2, <1>7, <1>11, <1>12, TakesFaithful

\* Chunks that come to be taken are not missing.
LEMMA DeliverFaithful ==
    ASSUME Typed, Faithful, Deliver, UNCHANGED upc
    PROVE  Faithful'
<1>1. /\ consumed' = consumed \o Unparsed' /\ Unparsed = <<>>
      /\ Unparsed' \in Seq(Chunk) /\ consumed \in Seq(Chunk)
      /\ UNCHANGED <<continueSysex, skipped, message, handed, ignore>>
      /\ retyped' = (retyped \/ upc = "ignore")
  BY DeliverTakes, PartSequences
  DEF Typed, InTypes, InTypeOK, Deliver, HandNothing, handVars, Consume
<1> SUFFICES ASSUME Undisturbed' PROVE Faithful'
  BY DEF Faithful, Undisturbed
<1>2. PICK n \in Nat : n = Len(consumed) /\ DOMAIN consumed = 1 .. n
  BY <1>1, LenProperties
<1>3. /\ Parsed = n /\ Parsed' = n /\ \A i \in 1 .. n : consumed'[i] = consumed[i]
      /\ 1 .. n \subseteq DOMAIN consumed'
  <2>1. /\ Len(consumed') = n + Len(Unparsed') /\ Len(Unparsed') \in Nat /\ Len(Unparsed) = 0
        /\ \A i \in 1 .. n : consumed'[i] = consumed[i]
        /\ consumed' \in Seq(Chunk)
    BY <1>1, <1>2, ConcatProperties
  <2>2. DOMAIN consumed' = 1 .. n + Len(Unparsed')
    BY <2>1, LenProperties
  <2> QED
    BY <1>2, <2>1, <2>2 DEF Parsed
<1>4. ~retyped /\ upc # "ignore" /\ ~skipped
  BY <1>1 DEF Undisturbed
<1>5. WellFormed(consumed)
  <2> SUFFICES ASSUME NEW i \in 1 .. n, i > 1
               PROVE  IF consumed[i].first THEN consumed[i - 1].last
                      ELSE ~consumed[i - 1].last /\ consumed[i - 1].msg = consumed[i].msg
    BY <1>2 DEF WellFormed
  <2>1. i \in DOMAIN consumed' /\ i - 1 \in 1 .. n
    BY <1>3
  <2>2. consumed'[i] = consumed[i] /\ consumed'[i - 1] = consumed[i - 1]
    BY <1>3, <2>1
  <2> QED
    BY <2>1, <2>2 DEF Undisturbed, WellFormed
<1>6. Undisturbed
  BY <1>4, <1>5 DEF Undisturbed
<1>7. continueSysex' <=> (Parsed' # 0 /\ ~consumed'[Parsed'].last)
  <2>1. continueSysex <=> (n # 0 /\ ~consumed[n].last)
    BY <1>3, <1>6 DEF Faithful
  <2>2. n # 0 => consumed'[n] = consumed[n]
    BY <1>3
  <2> QED
    BY <1>1, <1>3, <2>1, <2>2
<1>8. FlattenSeq(handed') \o message' \o Unignored(Unparsed', ignore')
          = Unignored(consumed', ignore')
  <2>1. /\ FlattenSeq(handed) \in Seq(Chunk) /\ message \in Seq(Chunk)
    <3>1. handed \in Seq(Message) /\ message \in Message /\ <<>> \in Seq(Chunk)
      BY DEF Typed, TypeOK, InTypes, InTypeOK
    <3> QED
      BY <3>1, KeptStays DEF Message
  <2>2. PICK f \in Seq(Chunk) : f = FlattenSeq(handed) \o message
    BY <2>1, ConcatProperties
  <2>3. f \o Unignored(Unparsed, ignore) = Unignored(consumed, ignore)
    BY <1>6, <2>2 DEF Faithful
  <2>4. Unignored(Unparsed, ignore) = <<>> /\ f \o <<>> = f
    BY <1>1, UnignoredNone, ConcatEmptySeq
  <2>5. Unignored(consumed', ignore) = Unignored(consumed, ignore) \o Unignored(Unparsed', ignore)
    BY <1>1, UnignoredConcat
  <2>6. f = Unignored(consumed, ignore)
    BY <2>3, <2>4
  <2> QED
    BY <1>1, <2>2, <2>5, <2>6
<1>9. /\ message # <<>> <=> (continueSysex /\ "sysex" \notin ignore)
      /\ message # <<>> => Head(message).first
      /\ \A i \in DOMAIN handed : Whole(handed[i])
  BY <1>6 DEF Faithful
<1>10. upc' # "ignore" /\ \A i \in DOMAIN handed' : Whole(handed'[i])
  BY <1>1, <1>4, <1>9
<1>11. /\ message' # <<>> <=> (continueSysex' /\ "sysex" \notin ignore')
       /\ message' # <<>> => Head(message').first
  BY <1>1, <1>9
<1> QED
  BY <1>7, <1>8, <1>10, <1>11 DEF Faithful

\* The types change before any chunk is taken, or the messages do not count.
LEMMA UserFaithful ==
    ASSUME Typed, Faithful, UserStep
    PROVE  Faithful'
<1>1. /\ UNCHANGED <<consumed, handed, list, packet, continueSysex, message, skipped>>
      /\ Unparsed' = Unparsed
  BY DEF UserStep, InCall, inVars, parseVars, coreVars, streamVars, handVars, Unparsed
<1>2. CASE IgnoreTypes \/ IgnoreFlag
  <2> SUFFICES ASSUME Undisturbed' PROVE Faithful'
    BY DEF Faithful, Undisturbed
  <2>1. Undisturbed
    <3>1. retyped' = retyped \/ retyped' = (retyped \/ consumed # <<>>)
      BY <1>2 DEF IgnoreTypes, IgnoreFlag
    <3>2. ~retyped
      BY <3>1 DEF Undisturbed
    <3> QED
      BY <1>1, <3>2 DEF Undisturbed
  <2>2. consumed = <<>>
    BY <1>2, <2>1 DEF Undisturbed, Faithful, IgnoreTypes, IgnoreFlag, Continue
  <2>3. Unparsed = <<>> /\ Parsed = 0
    <3>1. Unparsed \in Seq(Chunk) /\ Ends(consumed, Unparsed)
      BY <2>1, PartsAreChunks DEF Typed, InPackets, Undisturbed
    <3>2. Len(Unparsed) \in Nat /\ Len(Unparsed) <= 0 /\ Len(consumed) = 0
      BY <2>2, <3>1 DEF Ends
    <3> QED
      BY <3>1, <3>2, EmptySeq DEF Parsed
  <2>4. ~continueSysex /\ message = <<>> /\ \A i \in DOMAIN handed : Whole(handed[i])
    BY <2>1, <2>3 DEF Faithful
  <2>5. FlattenSeq(handed) \o message \o <<>> = <<>>
    BY <2>1, <2>2, <2>3, UnignoredNone DEF Faithful
  <2>6. Unignored(Unparsed', ignore') = <<>> /\ Unignored(consumed', ignore') = <<>>
    BY <1>1, <2>2, <2>3, UnignoredNone
  <2>7. Parsed' = 0
    BY <1>1, <2>3 DEF Parsed
  <2> QED
    BY <1>1, <2>2, <2>4, <2>5, <2>6, <2>7 DEF Faithful
<1>3. CASE ~(IgnoreTypes \/ IgnoreFlag)
  <2>1. UNCHANGED <<ignore, retyped>>
    BY <1>3 DEF UserStep, InCall, SetCallback, CancelFunction, CancelUsing, GetNothing,
           GetMessage, GetLoad, GetStore, ignoreVars, inVars
  <2>2. upc' # "ignore"
    <3>1. after # "ignore"
      BY DEF Typed
    <3> QED
      BY <1>3, <3>1 DEF UserStep, InCall, SetCallback, CancelFunction, CancelUsing, GetNothing,
             GetMessage, GetLoad, GetStore, OpenPort, OpenNothing, OpenFails, OpenVirtual,
             OpenVirtualFails, Close, Disposed, Destroy, Begin, Call, Continue
  <2> QED
    BY <1>1, <2>1, <2>2, RestFaithful
<1> QED
  BY <1>2, <1>3

\* Every step keeps what is handed over faithful.
LEMMA NextFaithful == Typed /\ Faithful /\ [Next]_vars => Faithful'
<1> SUFFICES ASSUME Typed, Faithful, [Next]_vars PROVE Faithful'
  OBVIOUS
<1>1. CASE (TailStep /\ UNCHANGED coreVars) \/ DeviceStep \/ UNCHANGED vars
  <2>1. UNCHANGED <<consumed, list, packet, continueSysex, skipped, handed, message, ignore,
                    retyped, upc>>
    BY <1>1 DEF inVars, coreVars, streamVars, handVars, TailStep, ignoreVars, callVars, apiVars,
           TestCallback, CallUser, TestRoom, StoreMessage, LoadSize, StoreSize, TailGoes,
           DeviceStep, Emit, vars
  <2>2. Unparsed' = Unparsed
    BY <2>1 DEF Unparsed
  <2> QED
    BY <2>1, <2>2, RestFaithful
<1>2. CASE CallbackStep /\ ~(TailStep /\ UNCHANGED coreVars)
  <2>1. /\ upc' = upc
        /\ \/ Deliver \/ Return \/ Empty \/ NextPacket \/ MoreSysex
           \/ /\ Broken \/ Sysex \/ Short
              /\ UNCHANGED <<list, running, skipped, streamVars>>
    BY <1>2 DEF CallbackStep, apiVars, callVars
  <2>2. CASE Return \/ Empty \/ NextPacket
    <3>1. /\ UNCHANGED <<consumed, continueSysex, handed, message, ignore, retyped>>
          /\ skipped' = skipped \/ skipped' = (skipped \/ FlattenSeq(list) # <<>>)
      BY <2>2 DEF Return, Empty, NextPacket, streamVars, HandNothing, handVars, ignoreVars
    <3>2. skipped => skipped'
      BY <3>1
    <3>3. ~skipped' => Unparsed' = Unparsed
      BY <2>2, PacketGoes DEF Typed
    <3> QED
      BY <2>1, <3>1, <3>2, <3>3, RestFaithful
  <2> QED
    BY <2>1, <2>2, DeliverFaithful, MoreFaithful, PacketFaithful
<1> QED
  BY <1>1, <1>2, UserFaithful DEF Next

\* For any packets, any number of messages and across closePort and openPort: what is
\* handed over, and the part of a message under way, is what the device sent, without
\* the types to ignore, whole and in order, unless the types change under way, a packet
\* is empty, or something comes between the parts of a sysex message.
THEOREM CoreMessagesIntact == Spec => []Intact
<1>1. Init => Typed /\ Faithful
  <2>1. Init => /\ consumed = <<>> /\ continueSysex = FALSE /\ list = <<>> /\ packet = <<>>
                /\ message = <<>> /\ handed = <<>>
    BY DEF Init, InInit, NoMessage
  <2>2. <<>> \o <<>> = <<>> /\ Len(<<>>) - Len(<<>>) = 0 /\ DOMAIN <<>> = {}
    OBVIOUS
  <2>3. Init => Unparsed = <<>> /\ Parsed = 0
    BY <2>1, <2>2, FlattenNone DEF Parsed, Unparsed
  <2>4. ASSUME Init PROVE Faithful
    <3>1. FlattenSeq(handed) \o message \o Unignored(Unparsed, ignore) = Unignored(consumed, ignore)
      <4>1. FlattenSeq(handed) = <<>> /\ message = <<>>
        BY <2>1, <2>4, FlattenNone
      <4>2. Unignored(Unparsed, ignore) = <<>> /\ Unignored(consumed, ignore) = <<>>
        BY <2>1, <2>3, <2>4, UnignoredNone
      <4> QED
        BY <2>2, <4>1, <4>2
    <3>2. \A i \in DOMAIN handed : Whole(handed[i])
      BY <2>1, <2>2, <2>4
    <3> QED
      BY <2>1, <2>3, <2>4, <3>1, <3>2 DEF Faithful
  <2> QED
    BY <2>4, InitTyped
<1>2. Faithful => Intact
  BY DEF Faithful, Undisturbed, Intact
<1> QED
  BY <1>1, <1>2, NextTyped, NextFaithful, PTL DEF Spec
=============================================================================
