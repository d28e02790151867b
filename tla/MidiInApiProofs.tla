-------------------------- MODULE MidiInApiProofs ---------------------------
(***************************************************************************)
(* Proofs about the half of an input object that all platforms share.      *)
(***************************************************************************)
EXTENDS MidiInApi, SequencesExt, SequenceTheorems, WellFoundedInduction, TLAPS

\* A program that does not cancel its callback has a function whenever the flag
\* says so, and when the handler has read the flag.
CallbackSafe ==
    "cancelCallback" \notin program =>
        /\ using => function
        /\ tail = "call" => function
        /\ upc # "cancel"
        /\ fault # "null callback"

\* Without cancelCallback, no function of the program takes the function away.
LEMMA InCallSafe == CallbackSafe /\ InCall => CallbackSafe'
<1> SUFFICES ASSUME CallbackSafe, InCall, "cancelCallback" \notin program'
             PROVE  /\ using' => function'
                    /\ tail' = "call" => function'
                    /\ upc' # "cancel"
                    /\ fault' # "null callback"
  BY DEF CallbackSafe
<1>1. tail' = tail /\ fault' = fault
  BY DEF InCall, handVars
<1> USE DEF CallbackSafe, Begin, Call, Continue, callbackVars
<1>2. CASE SetCallback
  BY <1>1, <1>2 DEF SetCallback
<1>3. CASE CancelFunction
  BY <1>3 DEF CancelFunction
<1>4. CASE CancelUsing
  BY <1>4 DEF CancelUsing
<1>5. CASE \/ IgnoreTypes \/ IgnoreFlag
           \/ GetNothing \/ GetMessage \/ GetLoad \/ GetStore
  <2>1. UNCHANGED <<program, using, function>>
    BY <1>5 DEF IgnoreTypes, IgnoreFlag, GetNothing, GetMessage, GetLoad, GetStore
  <2>2. upc' # "cancel"
    BY <1>5 DEF IgnoreTypes, IgnoreFlag, GetNothing, GetMessage, GetLoad, GetStore
  <2> QED
    BY <1>1, <2>1, <2>2
<1> QED
  BY <1>2, <1>3, <1>4, <1>5 DEF InCall

\* The handler calls only after it has read the flag.
LEMMA TailSafe ==
    CallbackSafe /\ TailStep =>
        CallbackSafe' /\ (fault' = fault \/ fault' = "null callback")
<1> SUFFICES ASSUME CallbackSafe, TailStep
             PROVE  CallbackSafe' /\ (fault' = fault \/ fault' = "null callback")
  OBVIOUS
<1> USE DEF CallbackSafe, TailGoes
<1>1. UNCHANGED <<program, upc, using, function>>
  BY DEF TailStep, callVars, callbackVars
<1>2. CASE TestCallback
  BY <1>1, <1>2 DEF TestCallback
<1>3. CASE CallUser
  BY <1>1, <1>3 DEF CallUser
<1>4. CASE TestRoom \/ StoreMessage \/ LoadSize \/ StoreSize
  BY <1>1, <1>4 DEF TestRoom, StoreMessage, LoadSize, StoreSize
<1> QED
  BY <1>2, <1>3, <1>4 DEF TailStep

\* What the handler does besides calling back leaves the callback alone.
LEMMA RestSafe ==
    ASSUME CallbackSafe, UNCHANGED <<program, using, function>>,
           tail' = "call" => tail = "call",
           upc' = "cancel" => upc = "cancel",
           fault' = "null callback" => fault = "null callback"
    PROVE  CallbackSafe'
BY DEF CallbackSafe

-----------------------------------------------------------------------------
(* What the recursive operators compute. *)

\* Induction, with a set for the predicate: a natural number outside the set
\* would have a least one.
LEMMA SetInduction ==
    ASSUME NEW S, 0 \in S, \A n \in Nat : n \in S => n + 1 \in S
    PROVE  Nat \subseteq S
<1> SUFFICES ASSUME NEW m \in Nat, m \notin S PROVE FALSE
  OBVIOUS
<1> DEFINE less == OpToRel(<, Nat)
           out == {n \in Nat : n \notin S}
<1>1. IsWellFoundedOn(less, Nat)
  BY NatLessThanWellFounded
<1>2. \A x, y \in Nat : y < x => <<y, x>> \in less
  BY DEF OpToRel
<1> HIDE DEF less
<1>3. PICK x \in out : \A y \in out : <<y, x>> \notin less
  <2>1. \E x \in out : \A y \in out : ~(<<y, x>> \in less)
    BY <1>1, WFMin
  <2>2. QED
    BY <2>1
<1>4. x \in Nat /\ x # 0
  OBVIOUS
<1>5. x - 1 \in Nat /\ x - 1 < x /\ x - 1 + 1 = x
  BY <1>4
<1>6. x - 1 \notin S
  BY <1>5
<1>7. QED
  BY <1>2, <1>3, <1>5, <1>6

\* The same, as far as N.
LEMMA InductionUpTo ==
    ASSUME NEW N \in Nat, NEW S, 0 \in S, \A n \in 1 .. N : n - 1 \in S => n \in S
    PROVE  0 .. N \subseteq S
<1> DEFINE P == {n \in Nat : n <= N => n \in S}
<1>1. 0 \in P
  OBVIOUS
<1>2. ASSUME NEW n \in Nat, n \in P PROVE n + 1 \in P
  <2> SUFFICES ASSUME n + 1 <= N PROVE n + 1 \in S
    OBVIOUS
  <2>1. n + 1 \in 1 .. N /\ n + 1 - 1 = n /\ n \in S
    BY <1>2
  <2>2. n + 1 - 1 \in S => n + 1 \in S
    BY <2>1
  <2> QED
    BY <2>1, <2>2
<1> HIDE DEF P
<1>3. Nat \subseteq P
  BY <1>1, <1>2, SetInduction
<1> QED
  BY <1>3 DEF P

\* f begins with e and takes one step for each n.
Recursive(f, T, e, N, step) ==
    /\ f \in [0 .. N -> T]
    /\ f[0] = e
    /\ \A n \in 1 .. N : f[n] = step[n][f[n - 1]]

\* There is such a function, so a recursive definition has one to choose.
LEMMA Recursion ==
    ASSUME NEW T, NEW e \in T, NEW N \in Nat, NEW step \in [1 .. N -> [T -> T]]
    PROVE  \E f : Recursive(f, T, e, N, step)
<1> USE DEF Recursive
<1> DEFINE S == {n \in Nat : n <= N => \E f : Recursive(f, T, e, n, step)}
<1>1. 0 \in S
  <2>1. Recursive([i \in 0 .. 0 |-> e], T, e, 0, step)
    OBVIOUS
  <2> QED
    BY <2>1
<1>2. ASSUME NEW n \in Nat, n \in S PROVE n + 1 \in S
  <2> SUFFICES ASSUME n + 1 <= N PROVE \E f : Recursive(f, T, e, n + 1, step)
    OBVIOUS
  <2>1. PICK f : Recursive(f, T, e, n, step)
    BY <1>2
  <2> DEFINE g == [i \in 0 .. n + 1 |-> IF i <= n THEN f[i] ELSE step[n + 1][f[n]]]
  <2>2. step[n + 1][f[n]] \in T
    BY <2>1
  <2>3. Recursive(g, T, e, n + 1, step)
    BY <2>1, <2>2
  <2> QED
    BY <2>3
<1> HIDE DEF S
<1>3. N \in S
  BY <1>1, <1>2, SetInduction
<1> QED
  BY <1>3 DEF S

\* Unignored takes the chunks one after the other,
LEMMA UnignoredIs ==
    ASSUME NEW s \in Seq(Chunk), NEW flags
    PROVE  \E f \in [0 .. Len(s) -> Seq(Chunk)] :
               /\ f[0] = <<>>
               /\ \A n \in 1 .. Len(s) :
                      f[n] = IF s[n].kind \in flags THEN f[n - 1] ELSE Append(f[n - 1], s[n])
               /\ Unignored(s, flags) = f[Len(s)]
<1> DEFINE N == Len(s)
           More(n, x) == IF s[n].kind \in flags THEN x ELSE Append(x, s[n])
           Follows(f) == f = [n \in 0 .. Len(s) |-> IF n = 0 THEN <<>>
                                                    ELSE More(n, f[n - 1])]
<1>1. PICK T, e, to : T = Seq(Chunk) /\ e = <<>> /\ to = CHOOSE f : Follows(f)
  OBVIOUS
<1>2. Unignored(s, flags) = to[N]
  BY <1>1 DEF Unignored
<1>3. N \in Nat /\ e \in T
  BY <1>1
<1>4. \A n \in 1 .. N : \A x \in T : More(n, x) \in T
  BY <1>1, <1>3
<1>5. N = Len(s)
  OBVIOUS
<1> HIDE DEF N
<1>6. PICK f \in [0 .. N -> T] : f[0] = e /\ \A n \in 1 .. N : f[n] = More(n, f[n - 1])
  <2> HIDE DEF More, Follows
  <2> DEFINE step == [n \in 1 .. N |-> [x \in T |-> More(n, x)]]
  <2>1. step \in [1 .. N -> [T -> T]]
    BY <1>4
  <2>2. \A n \in 1 .. N : \A x \in T : step[n][x] = More(n, x)
    OBVIOUS
  <2> HIDE DEF step
  <2>3. PICK f : Recursive(f, T, e, N, step)
    BY <1>3, <2>1, Recursion
  <2>4. \A n \in 1 .. N : n - 1 \in 0 .. N /\ f[n - 1] \in T
    BY <1>3, <2>3 DEF Recursive
  <2> QED
    BY <2>2, <2>3, <2>4 DEF Recursive
<1>7. Follows(f)
  <2> HIDE DEF More
  <2> QED
    BY <1>5, <1>1, <1>3, <1>6
<1>8. Follows(to)
  <2> HIDE DEF Follows
  <2> QED
    BY <1>1, <1>7
<1>9. to[0] = <<>> /\ \A n \in 1 .. N : to[n] = More(n, to[n - 1])
  <2> HIDE DEF More
  <2> QED
    BY <1>5, <1>3, <1>8
<1> HIDE DEF Follows, More
<1>10. \A n \in 0 .. N : to[n] = f[n]
  <2>1. to[0] = f[0]
    <3>1. e = <<>>
      BY <1>1
    <3> QED
      BY <1>6, <1>9, <3>1
  <2>2. \A n \in 1 .. N : to[n - 1] = f[n - 1] => to[n] = f[n]
    BY <1>6, <1>9
  <2> DEFINE S == {n \in 0 .. N : to[n] = f[n]}
  <2>3. 0 \in S /\ \A n \in 1 .. N : n - 1 \in S => n \in S
    BY <1>3, <2>1, <2>2
  <2> HIDE DEF S
  <2>4. 0 .. N \subseteq S
    BY <1>3, <2>3, InductionUpTo
  <2> QED
    BY <2>4 DEF S
<1>11. to[N] = f[N]
  BY <1>3, <1>10
<1> QED
  BY <1>5, <1>1, <1>2, <1>6, <1>11 DEF More

\* beginning with none,
LEMMA UnignoredNone == ASSUME NEW flags PROVE Unignored(<<>>, flags) = <<>>
<1>1. <<>> \in Seq(Chunk) /\ Len(<<>>) = 0
  OBVIOUS
<1>2. \A s \in Seq(Chunk) : Len(s) = 0 => Unignored(s, flags) = <<>>
  <2> SUFFICES ASSUME NEW s \in Seq(Chunk), Len(s) = 0 PROVE Unignored(s, flags) = <<>>
    OBVIOUS
  <2>1. PICK f \in [0 .. Len(s) -> Seq(Chunk)] :
            /\ f[0] = <<>>
            /\ \A n \in 1 .. Len(s) :
                   f[n] = IF s[n].kind \in flags THEN f[n - 1] ELSE Append(f[n - 1], s[n])
            /\ Unignored(s, flags) = f[Len(s)]
    BY UnignoredIs
  <2> QED
    BY <2>1
<1> QED
  BY <1>1, <1>2

\* and one more chunk comes to the end, unless it is ignored.
LEMMA UnignoredAppend ==
    ASSUME NEW s \in Seq(Chunk), NEW c \in Chunk, NEW flags
    PROVE  /\ Unignored(s, flags) \in Seq(Chunk)
           /\ Unignored(Append(s, c), flags)
                  = IF c.kind \in flags THEN Unignored(s, flags)
                                        ELSE Append(Unignored(s, flags), c)
<1>1. PICK Q, N, t : Q = Seq(Chunk) /\ N = Len(s) /\ t = Append(s, c)
  OBVIOUS
<1>2. /\ t \in Q /\ Len(t) = N + 1 /\ t[N + 1] = c /\ N \in Nat
      /\ \A n \in 1 .. N : t[n] = s[n]
  BY <1>1
<1>3. PICK f \in [0 .. N -> Q] :
          /\ f[0] = <<>>
          /\ \A n \in 1 .. N :
                 f[n] = IF s[n].kind \in flags THEN f[n - 1] ELSE Append(f[n - 1], s[n])
          /\ Unignored(s, flags) = f[N]
  <2>1. \E f \in [0 .. Len(s) -> Seq(Chunk)] :
            /\ f[0] = <<>>
            /\ \A n \in 1 .. Len(s) :
                   f[n] = IF s[n].kind \in flags THEN f[n - 1] ELSE Append(f[n - 1], s[n])
            /\ Unignored(s, flags) = f[Len(s)]
    BY UnignoredIs
  <2> QED
    BY <1>1, <2>1
<1>4. PICK g \in [0 .. N + 1 -> Q] :
          /\ g[0] = <<>>
          /\ \A n \in 1 .. N + 1 :
                 g[n] = IF t[n].kind \in flags THEN g[n - 1] ELSE Append(g[n - 1], t[n])
          /\ Unignored(t, flags) = g[N + 1]
  <2>1. \A u \in Seq(Chunk) : \E h \in [0 .. Len(u) -> Seq(Chunk)] :
            /\ h[0] = <<>>
            /\ \A n \in 1 .. Len(u) :
                   h[n] = IF u[n].kind \in flags THEN h[n - 1] ELSE Append(h[n - 1], u[n])
            /\ Unignored(u, flags) = h[Len(u)]
    BY UnignoredIs
  <2>2. t \in Seq(Chunk)
    BY <1>1, <1>2
  <2> QED
    BY <1>1, <1>2, <2>1, <2>2
<1>5. f[N] = g[N]
  <2>1. f[0] = g[0]
    BY <1>3, <1>4
  <2>2. \A n \in 1 .. N : n \in 1 .. N + 1 /\ t[n] = s[n]
    BY <1>2
  <2>3. \A n \in 1 .. N : f[n - 1] = g[n - 1] => f[n] = g[n]
    BY <1>3, <1>4, <2>2
  <2> DEFINE S == {n \in 0 .. N : f[n] = g[n]}
  <2>4. 0 \in S /\ \A n \in 1 .. N : n - 1 \in S => n \in S
    BY <1>2, <2>1, <2>3
  <2> HIDE DEF S
  <2>5. 0 .. N \subseteq S
    BY <1>2, <2>4, InductionUpTo
  <2> QED
    BY <1>2, <2>5 DEF S
<1>6. g[N + 1] = IF c.kind \in flags THEN g[N] ELSE Append(g[N], c)
  <2>1. N + 1 \in 1 .. N + 1 /\ N + 1 - 1 = N
    BY <1>2
  <2> QED
    BY <1>2, <1>4, <2>1
<1>7. f[N] \in Q
  BY <1>2
<1> QED
  BY <1>1, <1>3, <1>4, <1>5, <1>6, <1>7

\* FlattenSeq concatenates one after the other,
LEMMA FlattenIs ==
    ASSUME NEW T, NEW ss \in Seq(Seq(T))
    PROVE  \E f \in [0 .. Len(ss) -> Seq(T)] :
               /\ f[0] = <<>>
               /\ \A n \in 1 .. Len(ss) : f[n] = f[n - 1] \o ss[n]
               /\ FlattenSeq(ss) = f[Len(ss)]
<1> DEFINE N == Len(ss)
           More(n, x) == x \o ss[n]
           Follows(f) == f = [i \in 1 .. Len(ss) |-> IF i = 1 THEN ss[i] ELSE More(i, f[i - 1])]
<1>1. PICK Q, e, to : Q = Seq(T) /\ e = <<>> /\ to = CHOOSE f : Follows(f)
  OBVIOUS
<1>2. FlattenSeq(ss) = IF N = 0 THEN ss ELSE to[N]
  BY <1>1 DEF FlattenSeq
<1>3. N \in Nat /\ e \in Q
  BY <1>1
<1>4. \A n \in 1 .. N : ss[n] \in Q /\ More(n, e) = ss[n] /\ \A x \in Q : More(n, x) \in Q
  BY <1>1, <1>3
<1>5. N = Len(ss)
  OBVIOUS
<1> HIDE DEF N
<1>6. PICK f \in [0 .. N -> Q] : f[0] = e /\ \A n \in 1 .. N : f[n] = More(n, f[n - 1])
  <2> HIDE DEF More, Follows
  <2> DEFINE step == [n \in 1 .. N |-> [x \in Q |-> More(n, x)]]
  <2>1. step \in [1 .. N -> [Q -> Q]]
    BY <1>4
  <2>2. \A n \in 1 .. N : \A x \in Q : step[n][x] = More(n, x)
    OBVIOUS
  <2> HIDE DEF step
  <2>3. PICK f : Recursive(f, Q, e, N, step)
    BY <1>3, <2>1, Recursion
  <2>4. \A n \in 1 .. N : n - 1 \in 0 .. N /\ f[n - 1] \in Q
    BY <1>3, <2>3 DEF Recursive
  <2> QED
    BY <2>2, <2>3, <2>4 DEF Recursive
<1>7. \A n \in 1 .. N : n = 1 => f[n] = ss[n]
  <2> HIDE DEF More
  <2> QED
    BY <1>3, <1>4, <1>6
<1>8. \E h : Follows(h)
  <2> DEFINE h == [i \in 1 .. N |-> f[i]]
  <2> HIDE DEF More
  <2>1. h = [i \in 1 .. N |-> IF i = 1 THEN ss[i] ELSE More(i, h[i - 1])]
    BY <1>3, <1>6, <1>7
  <2> HIDE DEF h
  <2> QED
    BY <1>5, <2>1
<1>9. Follows(to)
  <2> HIDE DEF Follows
  <2> QED
    BY <1>1, <1>8
<1>10. \A n \in 1 .. N : to[n] = IF n = 1 THEN ss[n] ELSE More(n, to[n - 1])
  <2> HIDE DEF More
  <2> QED
    BY <1>3, <1>5, <1>9
<1> HIDE DEF Follows, More
<1>11. N > 0 => to[N] = f[N]
  <2>1. PICK g : g = [n \in 0 .. N |-> IF n = 0 THEN f[0] ELSE to[n]]
    OBVIOUS
  <2>2. g[0] = f[0]
    BY <1>3, <2>1
  <2>3. \A n \in 1 .. N : g[n - 1] = f[n - 1] => g[n] = f[n]
    <3> SUFFICES ASSUME NEW n \in 1 .. N, g[n - 1] = f[n - 1] PROVE g[n] = f[n]
      OBVIOUS
    <3>1. g[n] = to[n] /\ (n # 1 => g[n - 1] = to[n - 1])
      BY <1>3, <2>1
    <3> QED
      BY <1>6, <1>7, <1>10, <3>1
  <2> DEFINE S == {n \in 0 .. N : g[n] = f[n]}
  <2>4. 0 \in S /\ \A n \in 1 .. N : n - 1 \in S => n \in S
    BY <1>3, <2>2, <2>3
  <2> HIDE DEF S
  <2>5. 0 .. N \subseteq S
    BY <1>3, <2>4, InductionUpTo
  <2> QED
    BY <1>3, <2>1, <2>5 DEF S
<1>12. FlattenSeq(ss) = f[N]
  <2>1. N = 0 => ss = e
    BY <1>1, <1>5, EmptySeq
  <2> QED
    BY <1>2, <1>3, <1>6, <1>11, <2>1
<1> QED
  BY <1>1, <1>5, <1>6, <1>12 DEF More

\* beginning with nothing,
LEMMA FlattenNone == FlattenSeq(<<>>) = <<>>
BY DEF FlattenSeq

\* and one more sequence comes to the end.
LEMMA FlattenAppend ==
    ASSUME NEW T, NEW ss \in Seq(Seq(T)), NEW s \in Seq(T)
    PROVE  /\ FlattenSeq(ss) \in Seq(T)
           /\ FlattenSeq(Append(ss, s)) = FlattenSeq(ss) \o s
<1>1. PICK Q, N, tt : Q = Seq(T) /\ N = Len(ss) /\ tt = Append(ss, s)
  OBVIOUS
<1>2. /\ tt \in Seq(Q) /\ Len(tt) = N + 1 /\ tt[N + 1] = s /\ N \in Nat
      /\ \A n \in 1 .. N : tt[n] = ss[n]
  BY <1>1
<1>3. PICK f \in [0 .. N -> Q] :
          /\ f[0] = <<>>
          /\ \A n \in 1 .. N : f[n] = f[n - 1] \o ss[n]
          /\ FlattenSeq(ss) = f[N]
  BY <1>1, FlattenIs
<1>4. PICK g \in [0 .. N + 1 -> Q] :
          /\ g[0] = <<>>
          /\ \A n \in 1 .. N + 1 : g[n] = g[n - 1] \o tt[n]
          /\ FlattenSeq(tt) = g[N + 1]
  <2>1. \A uu \in Seq(Seq(T)) : \E h \in [0 .. Len(uu) -> Seq(T)] :
            /\ h[0] = <<>>
            /\ \A n \in 1 .. Len(uu) : h[n] = h[n - 1] \o uu[n]
            /\ FlattenSeq(uu) = h[Len(uu)]
    BY FlattenIs
  <2>2. tt \in Seq(Seq(T))
    BY <1>1, <1>2
  <2> QED
    BY <1>1, <1>2, <2>1, <2>2
<1>5. f[N] = g[N]
  <2>1. f[0] = g[0]
    BY <1>3, <1>4
  <2>2. \A n \in 1 .. N : n \in 1 .. N + 1 /\ tt[n] = ss[n]
    BY <1>2
  <2>3. \A n \in 1 .. N : f[n - 1] = g[n - 1] => f[n] = g[n]
    BY <1>3, <1>4, <2>2
  <2> DEFINE S == {n \in 0 .. N : f[n] = g[n]}
  <2>4. 0 \in S /\ \A n \in 1 .. N : n - 1 \in S => n \in S
    BY <1>2, <2>1, <2>3
  <2> HIDE DEF S
  <2>5. 0 .. N \subseteq S
    BY <1>2, <2>4, InductionUpTo
  <2> QED
    BY <1>2, <2>5 DEF S
<1>6. g[N + 1] = g[N] \o s
  <2>1. N + 1 \in 1 .. N + 1 /\ N + 1 - 1 = N
    BY <1>2
  <2> QED
    <3>1. \A n \in 1 .. N + 1 : n - 1 = N => g[n] = g[N] \o tt[n]
      BY <1>4
    <3> QED
      BY <1>2, <2>1, <3>1
<1>7. f[N] \in Q
  BY <1>2
<1> QED
  BY <1>1, <1>3, <1>4, <1>5, <1>6, <1>7

-----------------------------------------------------------------------------
(* Types. *)

\* Only a sysex message comes in parts.
InParts(s) == \A i \in DOMAIN s : s[i].kind = "sysex" \/ (s[i].first /\ s[i].last)

\* The types of the variables, and what is between two accesses of the queue: a
\* message to take off, and room for one to put in.
InTypes ==
    /\ InTypeOK
    /\ InParts(emitted) /\ InParts(consumed)
    /\ upc = "ignore" => todo # <<>>
    /\ RingSize > 0 => front \in Slots /\ back \in Slots
    /\ upc \in {"load", "store"} => size > 0
    /\ upc = "store" => yours \in 1 .. RingSize
    /\ tail \in {"slot", "load", "store"} => size < RingSize
    /\ tail = "store" => mine < RingSize

\* The types hold at the start.
LEMMA InTypesInit == ApiInit /\ InInit => InTypes
<1> SUFFICES ASSUME ApiInit, InInit PROVE InTypes
  OBVIOUS
<1>1. NoMessage \in Message
  BY DEF NoMessage, Message
<1>2. ring \in [Slots -> Message]
  BY <1>1 DEF InInit
<1>3. /\ emitted \in Seq(Chunk) /\ consumed \in Seq(Chunk)
      /\ InParts(emitted) /\ InParts(consumed)
  BY DEF InInit, InParts
<1>4. /\ handed \in Seq(Message) /\ called \in Seq(Message)
      /\ pushed \in Seq(Message) /\ got \in Seq(Message) /\ todo \in Seq(Flags)
  BY DEF InInit
<1>5. /\ size \in 0 .. RingSize /\ front \in Nat /\ back \in Nat
      /\ mine \in Nat /\ yours \in Nat /\ ignore \subseteq Flags
      /\ RingSize > 0 => front \in Slots /\ back \in Slots
  BY InAssumption DEF InInit, Slots
<1> QED
  BY <1>1, <1>2, <1>3, <1>4, <1>5 DEF ApiInit, InInit, InTypes, InTypeOK

\* A function keeps the types of MidiApi.
LEMMA CallTypes ==
    ASSUME NEW places, ApiTypeOK(places), UNCHANGED program,
           calls' = calls \/ (calls < MaxCalls /\ calls' = calls + 1),
           upc' \in places, after' \in places, connected' \in BOOLEAN,
           failed' = failed \/ \E what \in Fails : failed' = failed \cup {what}
    PROVE  ApiTypeOK(places)'
BY ApiAssumption DEF ApiTypeOK

\* The slot after a slot is one, in a ring that has any.
LEMMA NextSlotType ==
    ASSUME RingSize > 0, NEW i \in Slots
    PROVE  NextSlot(i) \in Slots
BY InAssumption DEF Slots, NextSlot

\* The functions of a program keep the types.
LEMMA InCallTypes == InTypes /\ InCall => InTypes'
<1> SUFFICES ASSUME InTypes, InCall PROVE InTypes'
  OBVIOUS
<1> USE InAssumption DEF Begin, Call, Continue
<1>1. UNCHANGED <<emitted, consumed, tail, handing, handed, called>>
  BY DEF InCall, streamVars, handVars
<1>2. CASE SetCallback \/ CancelFunction \/ CancelUsing
  <2>1. UNCHANGED <<ignoreVars, queueVars>> /\ upc' \in {"idle", "cancel"}
    BY <1>2 DEF SetCallback, CancelFunction, CancelUsing
  <2>2. using' \in BOOLEAN /\ function' \in BOOLEAN
    BY <1>2 DEF SetCallback, CancelFunction, CancelUsing, InTypes, InTypeOK
  <2> QED
    BY <1>1, <2>1, <2>2 DEF InTypes, InTypeOK, ignoreVars, queueVars
<1>3. CASE IgnoreTypes \/ IgnoreFlag
  <2>1. UNCHANGED <<callbackVars, queueVars>>
    BY <1>3 DEF IgnoreTypes, IgnoreFlag
  <2>2. /\ todo' \in Seq(Flags) /\ ignore' \subseteq Flags /\ retyped' \in BOOLEAN
        /\ upc' \in {"idle", "ignore"} /\ (upc' = "ignore" => todo' # <<>>)
    <3>1. CASE IgnoreTypes
      <4>1. PICK new \in {<<>>, <<"time", "sense">>, <<"sysex", "time", "sense">>} :
                /\ upc' = IF new = <<>> THEN "idle" ELSE "ignore"
                /\ ignore' = {} /\ todo' = new
                /\ retyped' = (retyped \/ consumed # <<>>)
        BY <3>1 DEF IgnoreTypes
      <4>2. new \in Seq(Flags)
        <5> DEFINE F == Flags
        <5>1. "sysex" \in F /\ "time" \in F /\ "sense" \in F
          BY DEF Flags
        <5> HIDE DEF F
        <5>2. /\ <<>> \in Seq(F) /\ <<"time", "sense">> \in Seq(F)
              /\ <<"sysex", "time", "sense">> \in Seq(F)
          BY <5>1
        <5>3. new \in Seq(F)
          BY <4>1, <5>2
        <5> QED
          BY <5>3 DEF F
      <4> QED
        BY <4>1, <4>2
    <3>2. CASE IgnoreFlag
      <4>1. todo \in Seq(Flags) /\ todo # <<>>
        BY <3>2 DEF IgnoreFlag, InTypes, InTypeOK
      <4>2. Tail(todo) \in Seq(Flags) /\ Head(todo) \in Flags
            /\ (Len(todo) # 1 => Tail(todo) # <<>>)
        <5> DEFINE F == Flags
        <5>1. todo \in Seq(F) /\ todo # <<>>
          BY <4>1 DEF F
        <5> HIDE DEF F
        <5>2. Len(todo) \in Nat /\ Len(todo) # 0
          BY <5>1, EmptySeq
        <5>3. Head(todo) \in F /\ Tail(todo) \in Seq(F) /\ Len(Tail(todo)) = Len(todo) - 1
          BY <5>1, HeadTailProperties
        <5>4. Len(todo) # 1 => Tail(todo) # <<>>
          <6>1. Len(todo) # 1 => Len(Tail(todo)) # 0
            BY <5>2, <5>3
          <6>2. Len(<<>>) = 0
            OBVIOUS
          <6> QED
            BY <6>1, <6>2
        <5> QED
          BY <5>3, <5>4 DEF F
      <4> QED
        BY <3>2, <4>2 DEF IgnoreFlag, InTypes, InTypeOK
    <3> QED
      BY <1>3, <3>1, <3>2
  <2> QED
    BY <1>1, <2>1, <2>2 DEF InTypes, InTypeOK, callbackVars, queueVars
<1>4. CASE GetNothing \/ GetMessage \/ GetLoad \/ GetStore
  <2>1. UNCHANGED <<callbackVars, ignoreVars, ring, back, mine, pushed>>
    BY <1>4 DEF GetNothing, GetMessage, GetLoad, GetStore, queueVars
  <2>2. /\ got' \in Seq(Message) /\ yours' \in Nat /\ size' \in 0 .. RingSize
        /\ front' \in Nat /\ raced' \in BOOLEAN
        /\ RingSize > 0 => front' \in Slots
        /\ upc' \in {"idle", "load", "store"}
        /\ upc' \in {"load", "store"} => size' > 0
        /\ upc' = "store" => yours' \in 1 .. RingSize
        /\ size' <= size \/ (upc = "store" /\ size' = yours - 1)
    <3>0. /\ got \in Seq(Message) /\ yours \in Nat /\ size \in 0 .. RingSize
          /\ front \in Nat /\ raced \in BOOLEAN
          /\ RingSize > 0 => front \in Slots
          /\ upc \in {"load", "store"} => size > 0
          /\ upc = "store" => yours \in 1 .. RingSize
      BY DEF InTypes, InTypeOK
    <3>1. CASE GetNothing
      BY <3>0, <3>1 DEF GetNothing, queueVars
    <3>2. CASE GetMessage
      <4>1. ring[front] \in Message
        BY <3>2 DEF GetMessage, InTypes, InTypeOK
      <4> QED
        BY <3>0, <3>2, <4>1 DEF GetMessage
    <3>3. CASE GetLoad
      BY <3>0, <3>3 DEF GetLoad
    <3>4. CASE GetStore
      BY <3>0, <3>4, NextSlotType DEF GetStore, Slots
    <3> QED
      BY <1>4, <3>1, <3>2, <3>3, <3>4
  <2>3. tail \in {"slot", "load", "store"} => size' < RingSize
    BY <2>2 DEF InTypes, InTypeOK
  <2> QED
    BY <1>1, <2>1, <2>2, <2>3 DEF InTypes, InTypeOK, callbackVars, ignoreVars
<1> QED
  BY <1>2, <1>3, <1>4 DEF InCall

\* So does the end of the handler,
LEMMA TailTypes == InTypes /\ TailStep => InTypes'
<1> SUFFICES ASSUME InTypes, TailStep PROVE InTypes'
  OBVIOUS
<1> USE InAssumption DEF TailGoes
<1>1. UNCHANGED <<upc, using, function, ignore, todo, retyped, emitted, consumed,
                  handing, handed>>
  BY DEF TailStep, TestCallback, CallUser, TestRoom, StoreMessage, LoadSize,
         StoreSize, callVars, callbackVars, ignoreVars, streamVars
<1>2. /\ called' \in Seq(Message)
      /\ tail' \in {"none", "test", "call", "room", "slot", "load", "store"}
  <2>1. handing \in Message /\ called \in Seq(Message)
    BY DEF InTypes, InTypeOK
  <2>2. called' = called \/ called' = Append(called, handing)
    BY DEF TailStep, TestCallback, CallUser, TestRoom, StoreMessage, LoadSize, StoreSize
  <2>3. tail' \in {"none", "test", "call", "room", "slot", "load", "store"}
    BY DEF TailStep, TestCallback, CallUser, TestRoom, StoreMessage, LoadSize, StoreSize
  <2> QED
    BY <2>1, <2>2, <2>3
<1>3. CASE TestCallback \/ CallUser \/ TestRoom
  BY <1>1, <1>2, <1>3 DEF TestCallback, CallUser, TestRoom, queueVars, InTypes, InTypeOK
<1>4. CASE StoreMessage
  <2>1. RingSize > 0 /\ back \in Slots
    BY <1>4 DEF StoreMessage, InTypes, InTypeOK
  <2>2. back' \in Slots /\ ring' \in [Slots -> Message] /\ pushed' \in Seq(Message)
    BY <1>4, <2>1, NextSlotType DEF StoreMessage, InTypes, InTypeOK
  <2> QED
    BY <1>1, <1>2, <1>4, <2>1, <2>2 DEF StoreMessage, InTypes, InTypeOK, Slots
<1>5. CASE LoadSize \/ StoreSize
  <2>1. UNCHANGED <<ring, front, back, yours, pushed, got>>
    BY <1>5 DEF LoadSize, StoreSize
  <2>2. /\ mine' \in Nat /\ size' \in 0 .. RingSize /\ raced' \in BOOLEAN
        /\ size' = size \/ size' > 0
        /\ tail' = "none" \/ (tail' = "store" /\ mine' < RingSize /\ size' < RingSize)
    <3>1. size \in 0 .. RingSize /\ mine \in Nat /\ raced \in BOOLEAN
      BY DEF InTypes, InTypeOK
    <3>2. /\ tail \in {"slot", "load", "store"} => size < RingSize
          /\ tail = "store" => mine < RingSize
      BY DEF InTypes
    <3>3. CASE LoadSize
      BY <3>1, <3>2, <3>3 DEF LoadSize
    <3>4. CASE StoreSize
      BY <3>1, <3>2, <3>4 DEF StoreSize
    <3> QED
      BY <1>5, <3>3, <3>4
  <2> QED
    BY <1>1, <1>2, <2>1, <2>2 DEF InTypes, InTypeOK
<1> QED
  BY <1>3, <1>4, <1>5 DEF TailStep

\* and what else leaves the queue and its place alone, or hands a message over.
LEMMA RestTypes ==
    ASSUME InTypes, UNCHANGED <<callbackVars, queueVars>>,
           upc' = "ignore" => upc = "ignore" /\ todo' = todo,
           upc' = "load" => upc = "load",
           upc' = "store" => upc = "store",
           ignore' \subseteq Flags, todo' \in Seq(Flags), retyped' \in BOOLEAN,
           emitted' \in Seq(Chunk), consumed' \in Seq(Chunk),
           InParts(emitted'), InParts(consumed'),
           handVars' = handVars \/ \E m \in Message : HandOver(m)
    PROVE  InTypes'
<1>1. /\ tail' \in {"none", "test", "call", "room", "slot", "load", "store"}
      /\ tail' = tail \/ tail' = "test"
      /\ handing' \in Message /\ handed' \in Seq(Message) /\ called' \in Seq(Message)
  <2>1. /\ handing \in Message /\ handed \in Seq(Message) /\ called \in Seq(Message)
        /\ tail \in {"none", "test", "call", "room", "slot", "load", "store"}
    BY DEF InTypes, InTypeOK
  <2>2. CASE \E m \in Message : HandOver(m)
    BY <2>1, <2>2 DEF HandOver
  <2> QED
    BY <2>1, <2>2 DEF handVars
<1> QED
  BY <1>1 DEF InTypes, InTypeOK, callbackVars, queueVars

\* What a device sends,
LEMMA EmitTypes ==
    ASSUME InTypes, Emit
    PROVE  emitted' \in Seq(Chunk) /\ InParts(emitted') /\ consumed' = consumed
<1>1. PICK c \in NextChunks(emitted) : emitted' = Append(emitted, c)
  BY DEF Emit
<1>2. emitted \in Seq(Chunk) /\ InParts(emitted)
  BY DEF InTypes, InTypeOK
<1>3. c \in Chunk /\ (c.kind = "sysex" \/ (c.first /\ c.last))
  <2> DEFINE n == IF emitted = <<>> THEN 0 ELSE LastOf(emitted).msg
             cut == emitted # <<>> /\ ~LastOf(emitted).last
             new == [msg : {n + 1}, kind : Kinds, first : {TRUE}, last : BOOLEAN]
             rest == [msg : {n}, kind : {"sysex"}, first : {FALSE}, last : BOOLEAN]
  <2>1. n \in Nat /\ (cut => "sysex" \in Kinds)
    <3>1. emitted # <<>> => LastOf(emitted) \in Chunk /\ Len(emitted) \in DOMAIN emitted
      BY <1>2 DEF LastOf
    <3> QED
      BY <1>2, <3>1 DEF Chunk, InParts, LastOf
  <2>2. (c \in rest /\ cut) \/ (c \in new /\ (c.kind = "sysex" \/ c.last))
    BY <1>1 DEF NextChunks
  <2> HIDE DEF n, cut
  <2>3. CASE c \in rest /\ cut
    BY <2>1, <2>3 DEF Chunk
  <2>4. CASE c \in new /\ (c.kind = "sysex" \/ c.last)
    <3>1. n + 1 \in Nat
      BY <2>1
    <3>2. new \subseteq Chunk /\ \A x \in new : x.first = TRUE
      BY <3>1 DEF Chunk
    <3>3. c \in Chunk /\ c.first = TRUE
      BY <2>4, <3>2
    <3> QED
      BY <2>4, <3>3
  <2> QED
    BY <2>2, <2>3, <2>4
<1> QED
  BY <1>1, <1>2, <1>3 DEF Emit, InParts

\* and what a handler takes of it.
LEMMA TakeTypes ==
    ASSUME InTypes, Pending # <<>>, NEW c, c = Head(Pending), Consume(<<c>>)
    PROVE  /\ c \in Chunk /\ (c.kind = "sysex" \/ (c.first /\ c.last))
           /\ consumed' = Append(consumed, c)
           /\ consumed' \in Seq(Chunk) /\ InParts(consumed') /\ emitted' = emitted
<1>1. /\ emitted \in Seq(Chunk) /\ InParts(emitted)
      /\ consumed \in Seq(Chunk) /\ InParts(consumed)
  BY DEF InTypes, InTypeOK
<1>2. Len(consumed) + 1 \in DOMAIN emitted /\ c = emitted[Len(consumed) + 1]
  <2>1. PICK m, n : m = Len(consumed) + 1 /\ n = Len(emitted)
    OBVIOUS
  <2>2. m \in Nat \ {0} /\ n \in Nat /\ Pending = SubSeq(emitted, m, n)
    BY <1>1, <2>1 DEF Pending
  <2>3. m <= n /\ Pending[1] = emitted[m] /\ Pending \in Seq(Chunk)
    BY <1>1, <2>1, <2>2, SubSeqProperties
  <2> QED
    BY <1>1, <2>1, <2>2, <2>3
<1>3. c \in Chunk /\ (c.kind = "sysex" \/ (c.first /\ c.last))
  BY <1>1, <1>2 DEF InParts
<1>4. consumed' = Append(consumed, c) /\ emitted' = emitted
  BY <1>1, <1>3 DEF Consume
<1> QED
  BY <1>1, <1>3, <1>4 DEF InParts

-----------------------------------------------------------------------------
(* The queue. *)

\* A slot of the ring a number of places behind another.
LEMMA Behind ==
    ASSUME NEW r \in Nat \ {0}, NEW f \in 0 .. r - 1, NEW k \in 0 .. r
    PROVE  (f + k) % r = IF f + k < r THEN f + k ELSE f + k - r
<1>1. CASE f + k < r
  <2>1. \A a \in 0 .. r - 1 : a % r = a
    BY Z3
  <2> QED
    BY <1>1, <2>1
<1>2. CASE f + k >= r
  <2>1. \A a \in r .. 2 * r - 1 : a % r = a - r
    BY Z3
  <2> QED
    BY <1>2, <2>1
<1> QED
  BY <1>1, <1>2

\* Behind, with the slots of the ring.
LEMMA BehindInRing ==
    ASSUME RingSize > 0, NEW f \in Slots, NEW k \in 0 .. RingSize
    PROVE  (f + k) % RingSize = IF f + k < RingSize THEN f + k ELSE f + k - RingSize
<1>1. RingSize \in Nat \ {0} /\ f \in 0 .. RingSize - 1
  BY InAssumption DEF Slots
<1> QED
  BY <1>1, Behind

\* how many messages getMessage is through with
Done == Len(got) - Taken

\* Until the two overwrite each other: getMessage has returned what was put in,
\* in its order, and behind the front, from one place if it has copied that
\* message already, the others are in the ring, the one just written included.
InRing ==
    ~raced =>
        /\ Done \in Nat
        /\ Len(pushed) = Done + size + Written
        /\ \A i \in 1 .. Len(got) : pushed[i] = got[i]
        /\ \A k \in Taken .. size + Written - 1 :
               ring[(front + k) % RingSize] = pushed[Done + k + 1]
        /\ RingSize > 0 => back = (front + size + Written) % RingSize

\* An empty queue is where it should be.
LEMMA InRingInit == ApiInit /\ InInit => InRing
<1> SUFFICES ASSUME ApiInit, InInit PROVE InRing
  OBVIOUS
<1>1. Taken = 0 /\ Written = 0 /\ got = <<>> /\ pushed = <<>> /\ size = 0
      /\ front = 0 /\ back = 0
  BY DEF ApiInit, InInit, Taken, Written, Getting, Putting
<1>2. RingSize > 0 => (0 + 0) % RingSize = 0
  BY InAssumption, Behind
<1> QED
  BY <1>1, <1>2 DEF InRing, Done

\* What keeps queue and places keeps what is in the ring.
LEMMA InRingStays ==
    ASSUME InRing, UNCHANGED queueVars, Getting' = Getting, Putting' = Putting
    PROVE  InRing'
BY DEF InRing, Done, Taken, Written, queueVars

\* Taking a message off moves it from the ring to what was returned.
LEMMA InCallQueue == InTypes /\ InRing /\ InCall => InRing'
<1> SUFFICES ASSUME InTypes, InRing, InCall PROVE InRing'
  OBVIOUS
<1> USE InAssumption DEF Begin, Call, Continue
<1>1. tail' = tail /\ Putting' = Putting /\ Written' = Written
  BY DEF InCall, handVars, Putting, Written
<1>2. /\ pushed \in Seq(Message) /\ got \in Seq(Message) /\ ring \in [Slots -> Message]
      /\ size \in 0 .. RingSize /\ raced \in BOOLEAN
      /\ RingSize > 0 => front \in Slots
  BY DEF InTypes, InTypeOK
<1>3. CASE UNCHANGED queueVars /\ Getting' = Getting
  BY <1>1, <1>3, InRingStays
<1>4. CASE GetMessage
  <2>1. /\ Taken = 0 /\ Taken' = 1
        /\ got' = Append(got, ring[front])
        /\ UNCHANGED <<ring, front, back, size, pushed, raced>>
        /\ size \in 1 .. RingSize
    BY <1>2, <1>4 DEF GetMessage, Taken, Getting
  <2> SUFFICES ASSUME ~raced
               PROVE  InRing'
    BY <2>1 DEF InRing
  <2>2. front \in 0 .. RingSize - 1 /\ (front + 0) % RingSize = front
    BY <1>2, <2>1, Behind DEF Slots
  <2>3. ring[front] \in Message
    BY <1>2, <2>2 DEF Slots
  <2>4. got' \in Seq(Message) /\ Len(got') = Len(got) + 1 /\ Done' = Done
    BY <1>2, <2>1, <2>3 DEF Done
  <2>5. ring[front] = pushed[Done + 1]
    <3>1. 0 \in Taken .. size + Written - 1 /\ Done \in Nat
      BY <1>2, <2>1 DEF InRing, Written
    <3>2. ring[(front + 0) % RingSize] = pushed[Done + 0 + 1]
      BY <3>1 DEF InRing
    <3> QED
      BY <2>2, <3>1, <3>2
  <2>6. \A i \in 1 .. Len(got') : pushed'[i] = got'[i]
    BY <1>2, <2>1, <2>3, <2>4, <2>5 DEF InRing, Done
  <2>7. \A k \in 1 .. size + Written - 1 :
            ring[(front + k) % RingSize] = pushed[Done + k + 1]
    BY <1>2, <2>1 DEF InRing, Written
  <2> QED
    BY <1>1, <2>1, <2>4, <2>6, <2>7 DEF InRing
<1>5. CASE GetLoad
  <2>1. Taken' = Taken /\ UNCHANGED <<ring, front, back, size, pushed, got, raced>>
    BY <1>5 DEF GetLoad, Taken, Getting
  <2> QED
    BY <1>1, <2>1 DEF InRing, Done
<1>6. CASE GetStore
  <2>1. /\ Taken = 1 /\ Taken' = 0
        /\ size' = yours - 1 /\ raced' = (raced \/ size # yours)
        /\ front' = NextSlot(front)
        /\ UNCHANGED <<ring, back, pushed, got>>
    BY <1>6 DEF GetStore, Taken, Getting
  <2> SUFFICES ASSUME ~raced, size = yours
               PROVE  InRing'
    BY <2>1 DEF InRing
  <2>2. size \in 1 .. RingSize /\ size' = size - 1
    BY <1>2, <1>6, <2>1 DEF GetStore, InTypes
  <2>3. RingSize > 0 /\ front \in 0 .. RingSize - 1 /\ front' \in 0 .. RingSize - 1
    BY <1>2, <2>1, <2>2 DEF Slots, NextSlot
  <2>4. \A k \in 0 .. RingSize - 1 : (front' + k) % RingSize = (front + (k + 1)) % RingSize
    <3> SUFFICES ASSUME NEW k \in 0 .. RingSize - 1
                 PROVE  (front' + k) % RingSize = (front + (k + 1)) % RingSize
      OBVIOUS
    <3>1. (front' + k) % RingSize
              = IF front' + k < RingSize THEN front' + k ELSE front' + k - RingSize
      <4>1. front' \in Slots /\ k \in 0 .. RingSize
        BY <2>3 DEF Slots
      <4> QED
        BY <2>3, <4>1, BehindInRing
    <3>2. (front + (k + 1)) % RingSize
              = IF front + (k + 1) < RingSize THEN front + (k + 1)
                                              ELSE front + (k + 1) - RingSize
      <4>1. front \in Slots /\ k + 1 \in 0 .. RingSize
        BY <2>3 DEF Slots
      <4> QED
        BY <2>3, <4>1, BehindInRing
    <3>3. front' = IF front + 1 = RingSize THEN 0 ELSE front + 1
      BY <2>1 DEF NextSlot
    <3> QED
      BY <2>3, <3>1, <3>2, <3>3
  <2>5. Done' = Done + 1 /\ Done \in Nat /\ Done' = Len(got)
    BY <1>2, <2>1 DEF InRing, Done
  <2>6. Written \in {0, 1} /\ size + Written <= RingSize
    BY <1>2, <2>2 DEF Written, Putting, InTypes
  <2>7. \A k \in 0 .. size - 1 + Written - 1 :
            ring[(front' + k) % RingSize] = pushed[Done + 1 + k + 1]
    <3> SUFFICES ASSUME NEW k \in 0 .. size - 1 + Written - 1
                 PROVE  ring[(front' + k) % RingSize] = pushed[Done + 1 + k + 1]
      OBVIOUS
    <3>1. k + 1 \in Taken .. size + Written - 1 /\ k \in 0 .. RingSize - 1
      BY <1>2, <2>1, <2>6
    <3>2. ring[(front + (k + 1)) % RingSize] = pushed[Done + (k + 1) + 1]
      BY <3>1 DEF InRing
    <3>3. Done + (k + 1) + 1 = Done + 1 + k + 1
      BY <2>5, <3>1
    <3> QED
      BY <2>4, <3>1, <3>2, <3>3
  <2>8. back = (front' + (size - 1 + Written)) % RingSize
    <3>1. back = (front + size + Written) % RingSize
      BY <2>3 DEF InRing
    <3>2. size - 1 + Written \in 0 .. RingSize - 1
          /\ front + (size - 1 + Written + 1) = front + size + Written
      BY <1>2, <2>2, <2>3, <2>6
    <3> QED
      BY <2>4, <3>1, <3>2
  <2>9. front' + (size - 1 + Written) = front' + size' + Written
    BY <1>2, <2>2, <2>3, <2>6
  <2>10. Len(pushed) = Done' + size' + Written
    BY <1>2, <2>2, <2>5, <2>6 DEF InRing
  <2> QED
    BY <1>1, <2>1, <2>2, <2>5, <2>7, <2>8, <2>9, <2>10 DEF InRing
<1>7. CASE SetCallback \/ CancelFunction \/ CancelUsing \/ IgnoreTypes \/ IgnoreFlag \/ GetNothing
  <2>1. UNCHANGED queueVars
    BY <1>7 DEF SetCallback, CancelFunction, CancelUsing, IgnoreTypes, IgnoreFlag, GetNothing
  <2>2. ~Getting /\ ~Getting'
    BY <1>7 DEF SetCallback, CancelFunction, CancelUsing, IgnoreTypes, IgnoreFlag,
                GetNothing, Getting
  <2> QED
    BY <1>3, <2>1, <2>2 DEF Getting
<1> QED
  BY <1>4, <1>5, <1>6, <1>7 DEF InCall

\* Putting one in writes the slot behind the last, which holds nothing.
LEMMA TailQueue == InTypes /\ InRing /\ TailStep => InRing'
<1> SUFFICES ASSUME InTypes, InRing, TailStep PROVE InRing'
  OBVIOUS
<1> USE InAssumption DEF TailGoes
<1>1. upc' = upc /\ Getting' = Getting /\ Taken' = Taken
  BY DEF TailStep, callVars, Getting, Taken
<1>2. /\ pushed \in Seq(Message) /\ got \in Seq(Message) /\ ring \in [Slots -> Message]
      /\ size \in 0 .. RingSize /\ raced \in BOOLEAN /\ handing \in Message
      /\ RingSize > 0 => front \in Slots
      /\ Taken \in {0, 1}
  BY DEF InTypes, InTypeOK, Taken
<1>3. CASE TestCallback \/ CallUser \/ TestRoom
  <2>1. UNCHANGED queueVars
    BY <1>3 DEF TestCallback, CallUser, TestRoom
  <2>2. ~Putting /\ ~Putting'
    BY <1>3 DEF TestCallback, CallUser, TestRoom, Putting
  <2> QED
    BY <1>1, <2>1, <2>2, InRingStays DEF Putting
<1>4. CASE LoadSize
  <2>1. UNCHANGED <<ring, front, back, size, pushed, got, raced>> /\ Written' = Written
    BY <1>4 DEF LoadSize, Written, Putting
  <2> QED
    BY <1>1, <2>1 DEF InRing, Done
<1>5. CASE StoreSize
  <2>1. /\ UNCHANGED <<ring, front, back, pushed, got>>
        /\ Written = 1 /\ Written' = 0
        /\ size' = mine + 1 /\ raced' = (raced \/ size # mine)
    BY <1>5 DEF StoreSize, Written, Putting
  <2> SUFFICES ASSUME ~raced, size = mine
               PROVE  InRing'
    BY <2>1 DEF InRing
  <2>2. size' + Written' = size + Written
    BY <1>2, <2>1
  <2>3. /\ Done' = Done
        /\ Done' + size' + Written' = Done + size + Written
        /\ front' + size' + Written' = front + size + Written
    <3>1. Done \in Nat /\ front \in Nat
      BY DEF InRing, InTypes, InTypeOK
    <3>2. Done' = Done
      BY <1>1, <2>1 DEF Done
    <3> QED
      BY <1>2, <2>1, <2>2, <3>1, <3>2
  <2>4. size' + Written' - 1 = size + Written - 1
    BY <1>2, <2>1
  <2>5. /\ Done \in Nat
        /\ Len(pushed) = Done + size + Written
        /\ \A i \in 1 .. Len(got) : pushed[i] = got[i]
        /\ \A k \in Taken .. size + Written - 1 :
               ring[(front + k) % RingSize] = pushed[Done + k + 1]
        /\ RingSize > 0 => back = (front + size + Written) % RingSize
    BY DEF InRing
  <2> QED
    BY <1>1, <2>1, <2>3, <2>4, <2>5 DEF InRing
<1>6. CASE StoreMessage
  <2>1. /\ ring' = [ring EXCEPT ![back] = handing] /\ back' = NextSlot(back)
        /\ pushed' = Append(pushed, handing)
        /\ UNCHANGED <<front, size, got, raced>>
        /\ Written = 0 /\ Written' = 1 /\ size < RingSize
    BY <1>6 DEF StoreMessage, Written, Putting, InTypes
  <2> SUFFICES ASSUME ~raced
               PROVE  InRing'
    BY <2>1 DEF InRing
  <2>2. RingSize > 0 /\ front \in 0 .. RingSize - 1 /\ Done \in Nat /\ Done' = Done
    BY <1>1, <1>2, <2>1 DEF Slots, InRing, Done
  <2>3. back = (front + size) % RingSize
    <3>1. front + size + 0 = front + size
      BY <1>2, <2>2
    <3> QED
      BY <2>1, <2>2, <3>1 DEF InRing
  <2>4. back = (IF front + size < RingSize THEN front + size ELSE front + size - RingSize)
    <3>1. front \in Slots /\ size \in 0 .. RingSize
      BY <1>2, <2>2 DEF Slots
    <3> QED
      BY <2>2, <2>3, <3>1, BehindInRing
  <2>5. back' = (front' + size' + Written') % RingSize
    <3>1. (front + (size + 1)) % RingSize
              = IF front + (size + 1) < RingSize THEN front + (size + 1)
                                                 ELSE front + (size + 1) - RingSize
      <4>1. front \in Slots /\ size + 1 \in 0 .. RingSize
        BY <1>2, <2>1, <2>2 DEF Slots
      <4> QED
        BY <2>2, <4>1, BehindInRing
    <3>2. front + (size + 1) = front + size + 1
      BY <1>2, <2>2
    <3> QED
      BY <1>2, <2>1, <2>2, <2>4, <3>1, <3>2 DEF NextSlot
  <2>6. \A k \in 0 .. size - 1 : (front + k) % RingSize # back
    <3> SUFFICES ASSUME NEW k \in 0 .. size - 1
                 PROVE  (front + k) % RingSize # back
      OBVIOUS
    <3>1. (front + k) % RingSize
              = IF front + k < RingSize THEN front + k ELSE front + k - RingSize
      <4>1. front \in Slots /\ k \in 0 .. RingSize
        BY <1>2, <2>2 DEF Slots
      <4> QED
        BY <2>2, <4>1, BehindInRing
    <3> QED
      BY <1>2, <2>1, <2>2, <2>4, <3>1
  <2>7. Len(pushed) = Done + size /\ Len(pushed') = Done + size + 1
        /\ Len(got) <= Len(pushed)
    <3>1. Len(pushed) = Done + size
      BY <1>2, <2>1, <2>2 DEF InRing
    <3>2. Taken = 1 => size > 0
      BY DEF InTypes, Taken, Getting
    <3> QED
      BY <1>2, <2>1, <2>2, <3>1, <3>2 DEF Done
  <2>8. \A i \in 1 .. Len(got') : pushed'[i] = got'[i]
    <3>1. \A i \in 1 .. Len(got) : pushed[i] = got[i]
      BY DEF InRing
    <3>2. Len(got) \in Nat /\ 1 .. Len(got) \subseteq 1 .. Len(pushed)
      BY <1>2, <2>7
    <3> QED
      BY <1>2, <2>1, <3>1, <3>2
  <2>9. \A k \in Taken' .. size' + Written' - 1 :
            ring'[(front' + k) % RingSize] = pushed'[Done' + k + 1]
    <3> SUFFICES ASSUME NEW k \in Taken .. size
                 PROVE  ring'[(front + k) % RingSize] = pushed'[Done + k + 1]
      <4>1. size' + Written' - 1 = size
        BY <1>2, <2>1
      <4> QED
        BY <1>1, <2>1, <2>2, <4>1
    <3>1. CASE k = size
      <4>1. ring'[back] = handing
        BY <1>2, <2>1, <2>2, <2>3, <2>4 DEF Slots
      <4>2. pushed'[Done + size + 1] = handing
        BY <1>2, <2>1, <2>7
      <4> QED
        BY <2>3, <3>1, <4>1, <4>2
    <3>2. CASE k # size
      <4>1. k \in Taken .. size + Written - 1 /\ k \in 0 .. size - 1
        BY <1>2, <2>1, <3>2
      <4>2. ring[(front + k) % RingSize] = pushed[Done + k + 1]
        BY <4>1 DEF InRing
      <4>3. (front + k) % RingSize \in Slots /\ (front + k) % RingSize # back
        <5>1. front \in Slots /\ k \in 0 .. RingSize
          BY <1>2, <2>1, <2>2, <4>1 DEF Slots
        <5>2. (front + k) % RingSize
                  = IF front + k < RingSize THEN front + k ELSE front + k - RingSize
          BY <2>2, <5>1, BehindInRing
        <5>3. (front + k) % RingSize \in Slots
          BY <2>2, <5>1, <5>2 DEF Slots
        <5> QED
          BY <2>6, <4>1, <5>3
      <4>4. Done + k + 1 \in 1 .. Len(pushed)
        BY <1>2, <2>2, <2>7, <4>1
      <4> QED
        BY <1>2, <2>1, <4>2, <4>3, <4>4
    <3> QED
      BY <3>1, <3>2
  <2>10. Len(pushed') = Done' + size' + Written'
    BY <1>2, <2>1, <2>2, <2>7
  <2> QED
    BY <1>1, <2>2, <2>5, <2>8, <2>9, <2>10 DEF InRing
<1> QED
  BY <1>3, <1>4, <1>5, <1>6 DEF TailStep

\* What is in the ring is what Queued names.
LEMMA InRingExact == InTypes /\ InRing => QueueExact
<1> SUFFICES ASSUME InTypes, InRing, ~raced PROVE pushed = got \o Queued
  BY DEF QueueExact
<1> USE InAssumption
<1>1. /\ pushed \in Seq(Message) /\ got \in Seq(Message) /\ ring \in [Slots -> Message]
      /\ size \in 0 .. RingSize /\ size + Written \in 0 .. RingSize
      /\ Taken \in {0, 1} /\ Written \in {0, 1} /\ Taken <= size
      /\ RingSize > 0 => front \in Slots
  BY DEF InTypes, InTypeOK, Taken, Written, Getting, Putting
<1> DEFINE from == IF Getting THEN NextSlot(front) ELSE front
           n == size + Written - Taken
           queued == [i \in 1 .. n |-> ring[(from + i - 1) % RingSize]]
<1>2. n \in 0 .. RingSize
  BY <1>1
<1>3. Queued = queued
  BY DEF Queued
<1>4. \A i \in 1 .. n : /\ (from + i - 1) % RingSize = (front + (Taken + i - 1)) % RingSize
                       /\ (from + i - 1) % RingSize \in Slots
  <2> SUFFICES ASSUME NEW i \in 1 .. n
               PROVE  /\ (from + i - 1) % RingSize = (front + (Taken + i - 1)) % RingSize
                      /\ (from + i - 1) % RingSize \in Slots
    OBVIOUS
  <2>1. RingSize > 0 /\ front \in Slots /\ from \in Slots
    BY <1>1, <1>2, NextSlotType
  <2>2. i - 1 \in 0 .. RingSize /\ Taken + i - 1 \in 0 .. RingSize
    BY <1>1, <1>2
  <2> DEFINE a == from + (i - 1)
             b == Taken + i - 1
  <2>5. from = IF Taken = 1 THEN IF front + 1 = RingSize THEN 0 ELSE front + 1 ELSE front
    BY DEF Taken, NextSlot
  <2>6. from + i - 1 = from + (i - 1) /\ from \in Nat /\ front \in Nat
    BY <2>1, <2>2 DEF Slots
  <2> HIDE DEF from
  <2>3. a % RingSize = IF a < RingSize THEN a ELSE a - RingSize
    <3>1. \A k \in 0 .. RingSize :
              (from + k) % RingSize
                  = IF from + k < RingSize THEN from + k ELSE from + k - RingSize
      BY <2>1, BehindInRing
    <3> DEFINE j == i - 1
    <3>2. j \in 0 .. RingSize
      BY <2>2
    <3> HIDE DEF j
    <3>3. (from + j) % RingSize
              = IF from + j < RingSize THEN from + j ELSE from + j - RingSize
      BY <3>1, <3>2
    <3> QED
      BY <2>2, <2>6, <3>3 DEF j
  <2>4. (front + b) % RingSize
            = IF front + b < RingSize THEN front + b ELSE front + b - RingSize
    BY <2>1, <2>2, BehindInRing
  <2>7. (IF a < RingSize THEN a ELSE a - RingSize)
            = (IF front + b < RingSize THEN front + b ELSE front + b - RingSize)
    <3>1. CASE Taken = 0
      BY <2>5, <2>6, <3>1
    <3>2. CASE Taken = 1
      BY <1>1, <1>2, <2>1, <2>5, <3>2 DEF Slots
    <3> QED
      BY <1>1, <3>1, <3>2
  <2>8. (IF a < RingSize THEN a ELSE a - RingSize) \in Slots
    BY <2>1, <2>2 DEF Slots
  <2> QED
    BY <2>3, <2>4, <2>6, <2>7, <2>8
<1>5. queued \in Seq(Message) /\ Len(queued) = n
  BY <1>1, <1>2, <1>4
<1>6. Len(pushed) = Len(got) + n
  BY <1>1 DEF InRing, Done
<1>7. \A i \in 1 .. n : queued[i] = pushed[Len(got) + i]
  <2> SUFFICES ASSUME NEW i \in 1 .. n
               PROVE  queued[i] = pushed[Len(got) + i]
    OBVIOUS
  <2>1. Taken + i - 1 \in Taken .. size + Written - 1
    BY <1>1
  <2>2. ring[(front + (Taken + i - 1)) % RingSize] = pushed[Done + (Taken + i - 1) + 1]
    BY <2>1 DEF InRing
  <2>3. Done + (Taken + i - 1) + 1 = Len(got) + i
    BY <1>1, <1>2 DEF Done
  <2> QED
    BY <1>4, <2>2, <2>3
<1>8. \A i \in 1 .. Len(got) : pushed[i] = got[i]
  BY DEF InRing
<1> HIDE DEF n, queued
<1>9. got \o queued \in Seq(Message) /\ Len(got \o queued) = Len(pushed)
  BY <1>1, <1>2, <1>5, <1>6
<1>10. \A i \in 1 .. Len(pushed) : pushed[i] = (got \o queued)[i]
  <2> SUFFICES ASSUME NEW i \in 1 .. Len(pushed)
               PROVE  pushed[i] = (got \o queued)[i]
    OBVIOUS
  <2>1. CASE i <= Len(got)
    BY <1>1, <1>5, <1>6, <1>8, <2>1
  <2>2. CASE i > Len(got)
    <3>1. i - Len(got) \in 1 .. n /\ Len(got) + (i - Len(got)) = i
      BY <1>1, <1>2, <1>6, <2>2
    <3>2. (got \o queued)[i] = queued[i - Len(got)]
      BY <1>1, <1>5, <1>6, <2>2
    <3> QED
      BY <1>7, <3>1, <3>2
  <2>3. i <= Len(got) \/ i > Len(got)
    BY <1>1
  <2> QED
    BY <2>1, <2>2, <2>3
<1> QED
  BY <1>1, <1>3, <1>9, <1>10, SeqEqual
=============================================================================
