----------------------------- MODULE InputsProofs -----------------------------
(***************************************************************************)
(* Proofs about what Inputs puts together: PacketOptions, for packets of   *)
(* any length, and ModemEnumeration, for configurations of any length.     *)
(* Module IPProofs has those about IP, and here they become theorems of    *)
(* the whole.                                                              *)
(*                                                                         *)
(* PacketOptions: each loop over a packet is a function on the places in   *)
(* it.  That there is one that meets its equation is shown by induction    *)
(* (Iterated), and what it leaves by adding one option after the other to  *)
(* a packet (ByPacket): some of the options in their order (OfTypes), for  *)
(* a request with each option once.  The invariant OptionsInv says that    *)
(* our request stays such a one, and that its data is what the peer asked  *)
(* for last.                                                               *)
(*                                                                         *)
(* ModemEnumeration: the search for the modem's endpoints moves on with    *)
(* every step, and ends with endpoints of the right kind and interface or  *)
(* with none left out.                                                     *)
(***************************************************************************)
EXTENDS Inputs, IPProofs

----------------------------------------------------------------------------
(* Induction, for sets of numbers and of sequences *)

\* What holds at 0 and goes on from each number below n to the next holds up to n.
LEMMA UpTo ==
  ASSUME NEW n \in Nat, NEW S, 0 \in S, \A j \in 0..n : j \in S /\ j < n => j + 1 \in S
  PROVE  \A j \in 0..n : j \in S
<1> DEFINE Others == {j \in 0..n : j \notin S}
<1>1. ASSUME Others # {} PROVE FALSE
  <2>0. Others \subseteq Nat OBVIOUS
  <2>1. PICK m \in Others : \A k \in Others : m <= k
    <3> HIDE DEF Others
    <3>. QED BY <1>1, <2>0, Least
  <2>2. m \in 1..n /\ m - 1 \in 0..n /\ m - 1 < n OBVIOUS
  <2>3. m - 1 \in S BY <2>1, <2>2
  <2>4. (m - 1) + 1 \in S BY <2>2, <2>3
  <2>. QED BY <2>2, <2>4
<1>. QED BY <1>1

\* f is x at 0, and at each number after it what the step g makes of the value before.
Iteration(f, n, V, x, g) ==
  f \in [0..n -> V] /\ f[0] = x /\ \A j \in 1..n : f[j] = g[<<j, f[j - 1]>>]

\* A function can be given by its first value and a step from each value to the next.
LEMMA Iterated ==
  ASSUME NEW n \in Nat, NEW V, NEW x \in V, NEW g \in [(1..n) \X V -> V]
  PROVE  \E f : Iteration(f, n, V, x, g)
<1> DEFINE Is(f, m) == f \in [0..m -> V] /\ f[0] = x /\ \A j \in 1..m : f[j] = g[<<j, f[j - 1]>>]
           S == {m \in 0..n : \E f : Is(f, m)}
<1>1. 0 \in S
  <2>1. Is([j \in 0..0 |-> x], 0) OBVIOUS
  <2>2. 0 \in 0..n OBVIOUS
  <2> HIDE DEF Is
  <2>. QED BY <2>1, <2>2
<1>2. ASSUME NEW m \in 0..n, m \in S, m < n PROVE m + 1 \in S
  <2>1. PICK f : Is(f, m) BY <1>2
  <2> DEFINE h == [j \in 0..(m + 1) |-> IF j <= m THEN f[j] ELSE g[<<m + 1, f[m]>>]]
  <2>2. \A j \in 0..m : f[j] \in V BY <2>1
  <2>3. m + 1 \in 1..n /\ m \in 0..m BY <1>2
  <2>4. g[<<m + 1, f[m]>>] \in V BY <2>2, <2>3
  <2>5. h \in [0..(m + 1) -> V] BY <2>2, <2>4
  <2>6. h[0] = x BY <2>1
  <2>7. ASSUME NEW j \in 1..(m + 1) PROVE h[j] = g[<<j, h[j - 1]>>]
    <3>1. CASE j <= m
      <4>1. h[j] = f[j] /\ h[j - 1] = f[j - 1] BY <3>1
      <4>2. j \in 1..m BY <3>1
      <4>. QED BY <2>1, <4>1, <4>2
    <3>2. CASE j = m + 1 
      <4>1. h[j] = g[<<m + 1, f[m]>>] /\ h[j - 1] = f[m] BY <3>2
      <4>. QED BY <3>2, <4>1
    <3>. QED BY <3>1, <3>2
  <2>8. Is(h, m + 1) BY <2>5, <2>6, <2>7
  <2>9. m + 1 \in 0..n BY <2>3
  <2> HIDE DEF Is, h
  <2>. QED BY <2>8, <2>9
<1>3. n \in S
  <2> HIDE DEF S
  <2>. QED BY <1>1, <1>2, UpTo
<1>4. PICK f : Is(f, n) BY <1>3
<1>. QED BY <1>4 DEF Iteration

\* What a set has in common with a sequence that grows
LEMMA Growing ==
  ASSUME NEW A, NEW S, <<>> \in S, \A s \in Seq(A) : s \in S => \A e \in A : Append(s, e) \in S
  PROVE  Seq(A) \subseteq S
<1> SUFFICES ASSUME NEW s \in Seq(A) PROVE s \in S
  OBVIOUS
<1> DEFINE n == Len(s)
           pre(j) == SubSeq(s, 1, j)
           T == {j \in 0..n : pre(j) \in S}
<1>1. n \in Nat /\ s \in [1..n -> A] OBVIOUS
<1>2. 0 \in T
  <2>1. 0 \in 0..n BY <1>1
  <2>2. SubSeq(s, 1, 0) = <<>> OBVIOUS
  <2>. QED BY <2>1, <2>2
<1>3. ASSUME NEW j \in 0..n, j \in T, j < n PROVE j + 1 \in T
  <2>1. pre(j) \in Seq(A) /\ s[j + 1] \in A BY <1>1, <1>3
  <2>2. pre(j + 1) = Append(pre(j), s[j + 1])
    BY <1>1, <1>3
  <2>3. pre(j) \in S BY <1>3
  <2> HIDE DEF pre, n
  <2>4. Append(pre(j), s[j + 1]) \in S BY <2>1, <2>3
  <2>5. j + 1 \in 0..n BY <1>1, <1>3
  <2>. QED BY <2>2, <2>4, <2>5
<1>4. n \in T
  <2> HIDE DEF T, n
  <2>1. n \in 0..n BY <1>1
  <2>. QED BY <1>1, <1>2, <1>3, <2>1, UpTo
<1>5. pre(n) = s BY <1>1
<1>. QED BY <1>4, <1>5

\* f and h begin alike, and go on alike from where they are alike.
InStep(f, h, n) == f[0] = h[0] /\ \A j \in 1..n : f[j - 1] = h[j - 1] => f[j] = h[j]

\* Such functions are alike.
LEMMA SameSteps ==
  ASSUME NEW n \in Nat, NEW f, NEW h, InStep(f, h, n)
  PROVE  \A j \in 0..n : f[j] = h[j]
<1> DEFINE S == {j \in 0..n : f[j] = h[j]}
<1>0. f[0] = h[0] /\ \A j \in 1..n : f[j - 1] = h[j - 1] => f[j] = h[j] BY DEF InStep
<1>1. 0 \in S BY <1>0
<1>2. ASSUME NEW j \in 0..n, j \in S, j < n PROVE j + 1 \in S
  <2>1. j + 1 \in 1..n /\ (j + 1) - 1 = j /\ j + 1 \in 0..n BY <1>2
  <2>2. f[j] = h[j] BY <1>2
  <2>3. f[j + 1] = h[j + 1] BY <1>0, <2>1, <2>2
  <2>. QED BY <2>1, <2>3
<1>3. \A j \in 0..n : j \in S
  <2> HIDE DEF S
  <2>. QED BY <1>1, <1>2, UpTo
<1>. QED BY <1>3

----------------------------------------------------------------------------
(* Packets *)

Option == [type : 1..255, data : Seq(0..255)]
Packets == Seq(Option)

\* What a packet is with an option more
LEMMA Appended ==
  ASSUME NEW s \in Packets, NEW e \in Option
  PROVE  /\ Append(s, e) \in Packets /\ Len(s) \in Nat /\ Len(Append(s, e)) = Len(s) + 1
         /\ \A j \in 1..Len(s) : Append(s, e)[j] = s[j]
         /\ Append(s, e)[Len(s) + 1] = e
         /\ DOMAIN s = 1..Len(s) /\ DOMAIN Append(s, e) = 1..(Len(s) + 1)
BY DEF Packets

\* What a packet is made of
LEMMA InPacket ==
  ASSUME NEW s \in Packets
  PROVE  /\ Len(s) \in Nat /\ DOMAIN s = 1..Len(s)
         /\ \A j \in 1..Len(s) : s[j] \in Option /\ s[j].type \in 1..255
                                  /\ s[j].data \in Seq(0..255) /\ Len(s[j].data) \in Nat
<1>1. Len(s) \in Nat /\ DOMAIN s = 1..Len(s) /\ \A j \in 1..Len(s) : s[j] \in Option
  BY DEF Packets
<1>2. \A o \in Option : o.type \in 1..255 /\ o.data \in Seq(0..255) BY DEF Option
<1>. QED BY <1>1, <1>2

\* The packet with no option
LEMMA NoOption == <<>> \in Packets /\ Len(<<>>) = 0
BY DEF Packets

\* S has the packet with no option, and one with an option more if it has that without it.
GrowsTo(S) == <<>> \in S /\ \A s \in Packets, e \in Option : s \in S => Append(s, e) \in S

\* Such a set has all packets.
LEMMA ByPacket == ASSUME NEW S, GrowsTo(S) PROVE Packets \subseteq S
<1>1. <<>> \in S /\ \A s \in Seq(Option) : s \in S => \A e \in Option : Append(s, e) \in S
  BY DEF GrowsTo, Packets
<1>. QED BY <1>1, Growing DEF Packets

\* The types in a packet with an option more
LEMMA TypesAppended ==
  ASSUME NEW s \in Packets, NEW e \in Option
  PROVE  TypesIn(Append(s, e)) = TypesIn(s) \cup {e.type}
<1>1. \A t : t \in TypesIn(s) <=> \E j \in 1..Len(s) : s[j].type = t
  BY InPacket DEF TypesIn
<1>2. \A t : t \in TypesIn(Append(s, e)) <=> \E j \in 1..(Len(s) + 1) : Append(s, e)[j].type = t
  BY Appended DEF TypesIn
<1>3. Len(s) \in Nat BY InPacket
<1>4. ASSUME NEW t \in TypesIn(s) PROVE t \in TypesIn(Append(s, e))
  <2>1. PICK j \in 1..Len(s) : s[j].type = t BY <1>1
  <2>2. Append(s, e)[j].type = t /\ j \in 1..(Len(s) + 1) BY <1>3, <2>1, Appended
  <2>. QED BY <1>2, <2>2
<1>5. e.type \in TypesIn(Append(s, e))
  <2>1. Append(s, e)[Len(s) + 1] = e /\ Len(s) + 1 \in 1..(Len(s) + 1) BY <1>3, Appended
  <2>. QED BY <1>2, <2>1
<1>6. ASSUME NEW t \in TypesIn(Append(s, e)) PROVE t \in TypesIn(s) \/ t = e.type
  <2>1. PICK j \in 1..(Len(s) + 1) : Append(s, e)[j].type = t BY <1>2
  <2>2. CASE j = Len(s) + 1 BY <2>1, <2>2, Appended
  <2>3. CASE j \in 1..Len(s) BY <1>1, <2>1, <2>3, Appended
  <2>. QED BY <1>3, <2>1, <2>2, <2>3
<1>. QED BY <1>4, <1>5, <1>6

\* There is none in the packet with no option.
LEMMA TypesEmpty == TypesIn(<<>>) = {}
BY NoOption DEF TypesIn

\* A packet's types are bytes that are not zero.
LEMMA TypesRange == ASSUME NEW s \in Packets PROVE TypesIn(s) \subseteq 1..255
<1>1. \A t : t \in TypesIn(s) <=> \E j \in 1..Len(s) : s[j].type = t
  BY InPacket DEF TypesIn
<1>2. \A j \in 1..Len(s) : s[j].type \in 1..255 BY InPacket
<1>. QED BY <1>1, <1>2

----------------------------------------------------------------------------
(* The options of some types *)

IsSelection(f, s, T) ==
  f = [j \in 0..Len(s) |->
         IF j = 0 THEN <<>>
         ELSE IF s[j].type \in T THEN Append(f[j - 1], s[j]) ELSE f[j - 1]]

\* How OfTypes goes through a packet
LEMMA OfTypesIs ==
  ASSUME NEW s \in Packets, NEW T
  PROVE  \E f \in [0..Len(s) -> Packets] :
           /\ f[0] = <<>>
           /\ \A j \in 1..Len(s) :
                f[j] = IF s[j].type \in T THEN Append(f[j - 1], s[j]) ELSE f[j - 1]
           /\ OfTypes(s, T) = f[Len(s)]
<1> DEFINE n == Len(s)
           g == [jv \in (1..n) \X Packets |->
                   IF s[jv[1]].type \in T THEN Append(jv[2], s[jv[1]]) ELSE jv[2]]
<1>1. n \in Nat BY InPacket
<1>2. g \in [(1..n) \X Packets -> Packets]
  <2>1. ASSUME NEW jv \in (1..n) \X Packets
        PROVE  (IF s[jv[1]].type \in T THEN Append(jv[2], s[jv[1]]) ELSE jv[2]) \in Packets
    <3>1. jv[1] \in 1..n /\ jv[2] \in Packets OBVIOUS
    <3>2. s[jv[1]] \in Option BY <3>1, InPacket
    <3>. QED BY <3>1, <3>2, Appended
  <2>. QED BY <2>1
<1>0. \E f : Iteration(f, n, Packets, <<>>, g)
  <2> HIDE DEF g, n
  <2>1. <<>> \in Packets BY NoOption
  <2>. QED BY <1>1, <1>2, <2>1, Iterated
<1>3. PICK f : /\ f \in [0..n -> Packets] /\ f[0] = <<>>
               /\ \A j \in 1..n : f[j] = g[<<j, f[j - 1]>>]
  BY <1>0, Zenon DEF Iteration
<1>4. ASSUME NEW j \in 1..n
      PROVE  f[j] = IF s[j].type \in T THEN Append(f[j - 1], s[j]) ELSE f[j - 1]
  <2>1. j - 1 \in 0..n BY <1>1
  <2>2. f[j - 1] \in Packets BY <1>3, <2>1
  <2>. QED BY <1>3, <2>2
<1> HIDE DEF g
<1>5. IsSelection(f, s, T)
  <2>1. ASSUME NEW j \in 0..n
        PROVE  f[j] = IF j = 0 THEN <<>>
                      ELSE IF s[j].type \in T THEN Append(f[j - 1], s[j]) ELSE f[j - 1]
    <3>1. j = 0 \/ j \in 1..n BY <1>1
    <3>. QED BY <1>3, <1>4, <3>1
  <2>. QED BY <1>3, <2>1, Zenon DEF IsSelection
<1> DEFINE c == CHOOSE f1 : IsSelection(f1, s, T)
<1>6. IsSelection(c, s, T) BY <1>5
<1>7. OfTypes(s, T) = c[n] BY DEF OfTypes, IsSelection
<1> HIDE DEF c
<1>12. \A j \in 0..n : c[j] = IF j = 0 THEN <<>>
                           ELSE IF s[j].type \in T THEN Append(c[j - 1], s[j]) ELSE c[j - 1]
  BY <1>6, Zenon DEF IsSelection
<1>8. c[0] = <<>> BY <1>1, <1>12
<1>9. ASSUME NEW j \in 1..n
      PROVE  c[j] = IF s[j].type \in T THEN Append(c[j - 1], s[j]) ELSE c[j - 1]
  BY <1>1, <1>12
<1>10. \A j \in 0..n : c[j] = f[j]
  <2>1. \A j \in 1..n : c[j - 1] = f[j - 1] => c[j] = f[j] BY <1>4, <1>9
  <2>2. c[0] = f[0] BY <1>3, <1>8
  <2> HIDE DEF n
  <2>3. InStep(c, f, n) BY <2>1, <2>2, Zenon DEF InStep
  <2>. QED BY <1>1, <2>3, SameSteps
<1>11. OfTypes(s, T) = f[n] BY <1>1, <1>7, <1>10
<1>. QED BY <1>3, <1>4, <1>11

\* They are a packet.
LEMMA OfTypesPacket == ASSUME NEW s \in Packets, NEW T PROVE OfTypes(s, T) \in Packets
<1>1. PICK f \in [0..Len(s) -> Packets] : OfTypes(s, T) = f[Len(s)] BY OfTypesIs
<1>2. Len(s) \in 0..Len(s) BY InPacket
<1>. QED BY <1>1, <1>2

\* None of no option
LEMMA OfTypesEmpty == ASSUME NEW T PROVE OfTypes(<<>>, T) = <<>>
BY NoOption, OfTypesIs

\* An option more is one more of its type.
LEMMA OfTypesAppended ==
  ASSUME NEW s \in Packets, NEW e \in Option, NEW T
  PROVE  /\ OfTypes(s, T) \in Packets
         /\ OfTypes(Append(s, e), T) =
              IF e.type \in T THEN Append(OfTypes(s, T), e) ELSE OfTypes(s, T)
<1> DEFINE n == Len(s)
           a == Append(s, e)
<1>1. /\ a \in Packets /\ n \in Nat /\ Len(a) = n + 1 /\ a[n + 1] = e
      /\ \A j \in 1..n : a[j] = s[j]
  BY Appended
<1>2. PICK f \in [0..n -> Packets] :
        /\ f[0] = <<>>
        /\ \A j \in 1..n : f[j] = IF s[j].type \in T THEN Append(f[j - 1], s[j]) ELSE f[j - 1]
        /\ OfTypes(s, T) = f[n]
  BY OfTypesIs
<1> HIDE DEF a
<1>3. PICK h \in [0..(n + 1) -> Packets] :
        /\ h[0] = <<>>
        /\ \A j \in 1..(n + 1) :
             h[j] = IF a[j].type \in T THEN Append(h[j - 1], a[j]) ELSE h[j - 1]
        /\ OfTypes(a, T) = h[n + 1]
  BY ONLY <1>1, OfTypesIs
<1> HIDE DEF n
<1>4. \A j \in 0..n : f[j] = h[j]
  <2>1. ASSUME NEW j \in 1..n, f[j - 1] = h[j - 1] PROVE f[j] = h[j]
    <3>1. h[j] = IF a[j].type \in T THEN Append(h[j - 1], a[j]) ELSE h[j - 1] BY <1>1, <1>3
    <3>. QED BY <1>1, <1>2, <2>1, <3>1
  <2>2. f[0] = h[0] BY <1>2, <1>3
  <2>3. InStep(f, h, n) BY <2>1, <2>2, Zenon DEF InStep
  <2>. QED BY <1>1, <2>3, SameSteps
<1>5. h[n] = f[n] BY <1>1, <1>4
<1>6. h[n + 1] = IF a[n + 1].type \in T THEN Append(h[(n + 1) - 1], a[n + 1]) ELSE h[(n + 1) - 1]
  BY <1>1, <1>3
<1>7. (n + 1) - 1 = n BY <1>1
<1>8. OfTypes(s, T) \in Packets BY <1>1, <1>2
<1>9. OfTypes(a, T) = IF e.type \in T THEN Append(OfTypes(s, T), e) ELSE OfTypes(s, T)
  BY <1>1, <1>2, <1>3, <1>5, <1>6, <1>7
<1>. QED BY <1>8, <1>9 DEF a

\* OfTypes keeps a packet whose types are all among them,
LEMMA OfAllTypes ==
  ASSUME NEW s \in Packets, NEW T, TypesIn(s) \subseteq T
  PROVE  OfTypes(s, T) = s
<1> DEFINE S == {p \in Packets : TypesIn(p) \subseteq T => OfTypes(p, T) = p}
<1>1. <<>> \in S BY NoOption, OfTypesEmpty
<1>2. ASSUME NEW p \in Packets, p \in S, NEW e \in Option PROVE Append(p, e) \in S
  <2>1. ASSUME TypesIn(Append(p, e)) \subseteq T PROVE OfTypes(Append(p, e), T) = Append(p, e)
    <3>1. TypesIn(p) \subseteq T /\ e.type \in T BY <2>1, TypesAppended
    <3>. QED BY <1>2, <3>1, OfTypesAppended
  <2>. QED BY <2>1, Appended
<1>3. s \in S
  <2> HIDE DEF S
  <2>1. GrowsTo(S) BY <1>1, <1>2 DEF GrowsTo
  <2>. QED BY <2>1, ByPacket
<1>. QED BY <1>3

\* leaves no option of a packet that has none of them,
LEMMA OfNoTypes ==
  ASSUME NEW s \in Packets, NEW T, TypesIn(s) \cap T = {}
  PROVE  OfTypes(s, T) = <<>>
<1> DEFINE S == {p \in Packets : TypesIn(p) \cap T = {} => OfTypes(p, T) = <<>>}
<1>1. <<>> \in S BY NoOption, OfTypesEmpty
<1>2. ASSUME NEW p \in Packets, p \in S, NEW e \in Option PROVE Append(p, e) \in S
  <2>1. ASSUME TypesIn(Append(p, e)) \cap T = {} PROVE OfTypes(Append(p, e), T) = <<>>
    <3>1. TypesIn(p) \cap T = {} /\ e.type \notin T BY <2>1, TypesAppended
    <3>. QED BY <1>2, <3>1, OfTypesAppended
  <2>. QED BY <2>1, Appended
<1>3. s \in S
  <2> HIDE DEF S
  <2>1. GrowsTo(S) BY <1>1, <1>2 DEF GrowsTo
  <2>. QED BY <2>1, ByPacket
<1>. QED BY <1>3

\* takes what is left by another when it is used on that,
LEMMA OfTypesTwice ==
  ASSUME NEW s \in Packets, NEW T, NEW U
  PROVE  OfTypes(OfTypes(s, T), U) = OfTypes(s, T \cap U)
<1> DEFINE S == {p \in Packets : OfTypes(OfTypes(p, T), U) = OfTypes(p, T \cap U)}
<1>1. <<>> \in S BY NoOption, OfTypesEmpty
<1>2. ASSUME NEW p \in Packets, p \in S, NEW e \in Option PROVE Append(p, e) \in S
  <2>1. OfTypes(p, T) \in Packets BY OfTypesAppended
  <2>2. OfTypes(Append(p, e), T) = IF e.type \in T THEN Append(OfTypes(p, T), e) ELSE OfTypes(p, T)
    BY OfTypesAppended
  <2>3. OfTypes(Append(OfTypes(p, T), e), U) =
          IF e.type \in U THEN Append(OfTypes(OfTypes(p, T), U), e) ELSE OfTypes(OfTypes(p, T), U)
    BY <2>1, OfTypesAppended
  <2>4. OfTypes(Append(p, e), T \cap U) =
          IF e.type \in T \cap U THEN Append(OfTypes(p, T \cap U), e) ELSE OfTypes(p, T \cap U)
    BY OfTypesAppended
  <2>5. OfTypes(OfTypes(p, T), U) = OfTypes(p, T \cap U) BY <1>2
  <2>6. OfTypes(OfTypes(Append(p, e), T), U) = OfTypes(Append(p, e), T \cap U)
    <3> DEFINE q == OfTypes(p, T)
               r == OfTypes(q, U)
    <3>1. CASE e.type \in T
      <4>1. OfTypes(Append(p, e), T) = Append(q, e) BY <2>2, <3>1
      <4>2. OfTypes(Append(q, e), U) = IF e.type \in U THEN Append(r, e) ELSE r BY <2>3
      <4>3. OfTypes(Append(p, e), T \cap U) = IF e.type \in U THEN Append(r, e) ELSE r
        BY <2>4, <2>5, <3>1
      <4> HIDE DEF q, r
      <4>. QED BY <4>1, <4>2, <4>3
    <3>2. CASE e.type \notin T
      <4>1. OfTypes(Append(p, e), T) = q BY <2>2, <3>2
      <4>2. OfTypes(Append(p, e), T \cap U) = r BY <2>4, <2>5, <3>2
      <4>. QED BY <4>1, <4>2, Zenon
    <3>. QED BY <3>1, <3>2
  <2>. QED BY <2>6, Appended
<1>3. s \in S
  <2> HIDE DEF S
  <2>1. GrowsTo(S) BY <1>1, <1>2 DEF GrowsTo
  <2>. QED BY <2>1, ByPacket
<1>. QED BY <1>3

Contains(p, o) == \E j \in DOMAIN p : p[j] = o

\* and has options of these types only, the packet's.
LEMMA OfTypesFrom ==
  ASSUME NEW s \in Packets, NEW T
  PROVE  /\ OfTypes(s, T) \in Packets
         /\ TypesIn(OfTypes(s, T)) = TypesIn(s) \cap T
         /\ \A o : Contains(OfTypes(s, T), o) <=> Contains(s, o) /\ o.type \in T
         /\ s # <<>> /\ s[1].type \in T => OfTypes(s, T) # <<>> /\ OfTypes(s, T)[1] = s[1]
<1> DEFINE Good(p) == /\ TypesIn(OfTypes(p, T)) = TypesIn(p) \cap T
                      /\ \A o : Contains(OfTypes(p, T), o) <=> Contains(p, o) /\ o.type \in T
                      /\ p # <<>> /\ p[1].type \in T =>
                           OfTypes(p, T) # <<>> /\ OfTypes(p, T)[1] = p[1]
           S == {p \in Packets : Good(p)}
<1>1. <<>> \in S
  <2>1. TypesIn(<<>>) = {} BY TypesEmpty
  <2>2. \A o : ~Contains(<<>>, o) BY NoOption DEF Contains
  <2>. QED BY <2>1, <2>2, NoOption, OfTypesEmpty
<1>2. ASSUME NEW p \in Packets, p \in S, NEW e \in Option PROVE Append(p, e) \in S
  <2>1. ASSUME NEW q \in Packets, NEW o PROVE Contains(Append(q, e), o) <=> Contains(q, o) \/ o = e
    <3>1. /\ Len(q) \in Nat /\ DOMAIN q = 1..Len(q) /\ DOMAIN Append(q, e) = 1..(Len(q) + 1)
          /\ \A j \in 1..Len(q) : Append(q, e)[j] = q[j]
          /\ Append(q, e)[Len(q) + 1] = e
      BY Appended
    <3>2. \A j : j \in 1..(Len(q) + 1) <=> j \in 1..Len(q) \/ j = Len(q) + 1 BY <3>1
    <3>. QED BY <3>1, <3>2 DEF Contains
  <2>2. OfTypes(p, T) \in Packets BY OfTypesAppended
  <2>3. OfTypes(Append(p, e), T) = IF e.type \in T THEN Append(OfTypes(p, T), e) ELSE OfTypes(p, T)
    BY OfTypesAppended
  <2>4. TypesIn(OfTypes(Append(p, e), T)) = TypesIn(Append(p, e)) \cap T
    <3>1. TypesIn(Append(p, e)) = TypesIn(p) \cup {e.type} BY TypesAppended
    <3>2. TypesIn(Append(OfTypes(p, T), e)) = TypesIn(OfTypes(p, T)) \cup {e.type}
      BY <2>2, TypesAppended
    <3>. QED BY <1>2, <2>3, <3>1, <3>2
  <2>5. ASSUME NEW o
        PROVE  Contains(OfTypes(Append(p, e), T), o) <=> Contains(Append(p, e), o) /\ o.type \in T
    <3>1. Contains(OfTypes(p, T), o) <=> Contains(p, o) /\ o.type \in T BY <1>2
    <3>2. Contains(Append(p, e), o) <=> Contains(p, o) \/ o = e BY <2>1
    <3>3. Contains(Append(OfTypes(p, T), e), o) <=> Contains(OfTypes(p, T), o) \/ o = e
      BY <2>1, <2>2
    <3>. QED BY <2>3, <3>1, <3>2, <3>3
  <2>6. ASSUME Append(p, e) # <<>>, Append(p, e)[1].type \in T
        PROVE  OfTypes(Append(p, e), T) # <<>> /\ OfTypes(Append(p, e), T)[1] = Append(p, e)[1]
    <3>1. CASE p = <<>>
      <4>1. Append(p, e)[1] = e BY <3>1, NoOption, Appended
      <4>2. OfTypes(p, T) = <<>> BY <3>1, OfTypesEmpty
      <4>3. OfTypes(Append(p, e), T) = Append(<<>>, e) BY <2>3, <2>6, <4>1, <4>2
      <4>. QED BY <3>1, <4>3, NoOption, Appended
    <3>2. CASE p # <<>>
      <4>1. Append(p, e)[1] = p[1]
        <5>1. Len(p) >= 1 BY <3>2 DEF Packets
        <5>. QED BY <5>1, Appended
      <4>2. OfTypes(p, T) # <<>> /\ OfTypes(p, T)[1] = p[1] BY <1>2, <2>6, <3>2, <4>1
      <4>3. Append(OfTypes(p, T), e) # <<>> /\ Append(OfTypes(p, T), e)[1] = OfTypes(p, T)[1]
        <5>1. Len(OfTypes(p, T)) >= 1 BY <2>2, <4>2 DEF Packets
        <5>2. Len(Append(OfTypes(p, T), e)) = Len(OfTypes(p, T)) + 1 BY <2>2, Appended
        <5>3. Append(OfTypes(p, T), e)[1] = OfTypes(p, T)[1] BY <2>2, <5>1, Appended
        <5>. QED BY <2>2, <5>1, <5>2, <5>3, NoOption
      <4>. QED BY <2>3, <4>1, <4>2, <4>3
    <3>. QED BY <3>1, <3>2
  <2>7. Good(Append(p, e)) BY <2>4, <2>5, <2>6
  <2> HIDE DEF Good
  <2>. QED BY <2>7, Appended
<1>3. s \in S
  <2> HIDE DEF S
  <2>1. GrowsTo(S) BY <1>1, <1>2 DEF GrowsTo
  <2>. QED BY <2>1, ByPacket
<1>4. OfTypes(s, T) \in Packets BY OfTypesPacket
<1>. QED BY <1>3, <1>4

----------------------------------------------------------------------------
(* The length of a packet *)

IsLength(f, s) == f = [j \in 0..Len(s) |-> IF j = 0 THEN 4 ELSE f[j - 1] + 2 + Len(s[j].data)]

\* How LengthOf goes through a packet
LEMMA LengthOfIs ==
  ASSUME NEW s \in Packets
  PROVE  \E f \in [0..Len(s) -> Nat] :
           /\ f[0] = 4
           /\ \A j \in 1..Len(s) : f[j] = f[j - 1] + 2 + Len(s[j].data)
           /\ LengthOf(s) = f[Len(s)]
<1> DEFINE n == Len(s)
           g == [jv \in (1..n) \X Nat |-> jv[2] + 2 + Len(s[jv[1]].data)]
<1>1. n \in Nat BY InPacket
<1>2. g \in [(1..n) \X Nat -> Nat]
  <2>1. ASSUME NEW jv \in (1..n) \X Nat PROVE jv[2] + 2 + Len(s[jv[1]].data) \in Nat
    <3>1. jv[1] \in 1..n /\ jv[2] \in Nat OBVIOUS
    <3>2. Len(s[jv[1]].data) \in Nat BY <3>1, InPacket
    <3>. QED BY <3>1, <3>2
  <2>. QED BY <2>1
<1>0. \E f : Iteration(f, n, Nat, 4, g)
  <2> HIDE DEF g, n
  <2>1. 4 \in Nat OBVIOUS
  <2>. QED BY <1>1, <1>2, <2>1, Iterated
<1>3. PICK f : f \in [0..n -> Nat] /\ f[0] = 4 /\ \A j \in 1..n : f[j] = g[<<j, f[j - 1]>>]
  BY <1>0, Zenon DEF Iteration
<1>4. ASSUME NEW j \in 1..n PROVE f[j] = f[j - 1] + 2 + Len(s[j].data)
  <2>1. j - 1 \in 0..n BY <1>1
  <2>2. f[j - 1] \in Nat BY <1>3, <2>1
  <2>. QED BY <1>3, <2>2
<1> HIDE DEF g
<1>5. IsLength(f, s)
  <2>1. ASSUME NEW j \in 0..n
        PROVE  f[j] = IF j = 0 THEN 4 ELSE f[j - 1] + 2 + Len(s[j].data)
    <3>1. j = 0 \/ j \in 1..n BY <1>1
    <3>. QED BY <1>3, <1>4, <3>1
  <2>. QED BY <1>3, <2>1, Zenon DEF IsLength
<1> DEFINE c == CHOOSE f1 : IsLength(f1, s)
<1>6. IsLength(c, s) BY <1>5
<1>7. LengthOf(s) = c[n] BY DEF LengthOf, IsLength
<1> HIDE DEF c
<1>8. \A j \in 0..n : c[j] = IF j = 0 THEN 4 ELSE c[j - 1] + 2 + Len(s[j].data)
  BY <1>6, Zenon DEF IsLength
<1>9. c[0] = 4 BY <1>1, <1>8
<1>10. \A j \in 1..n : c[j] = c[j - 1] + 2 + Len(s[j].data) BY <1>1, <1>8
<1>11. \A j \in 0..n : c[j] = f[j]
  <2>1. \A j \in 1..n : c[j - 1] = f[j - 1] => c[j] = f[j] BY <1>4, <1>10
  <2>2. c[0] = f[0] BY <1>3, <1>9
  <2> HIDE DEF n
  <2>3. InStep(c, f, n) BY <2>1, <2>2, Zenon DEF InStep
  <2>. QED BY <1>1, <2>3, SameSteps
<1>12. LengthOf(s) = f[n] BY <1>1, <1>7, <1>11
<1>. QED BY <1>3, <1>4, <1>12

\* A packet has four bytes before its options.
LEMMA LengthEmpty == LengthOf(<<>>) = 4
BY NoOption, LengthOfIs

\* An option more is two bytes and its data more.
LEMMA LengthAppended ==
  ASSUME NEW s \in Packets, NEW e \in Option
  PROVE  /\ LengthOf(s) \in Nat
         /\ LengthOf(Append(s, e)) = LengthOf(s) + 2 + Len(e.data)
<1> DEFINE n == Len(s)
           a == Append(s, e)
<1>1. /\ a \in Packets /\ n \in Nat /\ Len(a) = n + 1 /\ a[n + 1] = e
      /\ \A j \in 1..n : a[j] = s[j]
  BY Appended
<1>2. PICK f \in [0..n -> Nat] :
        /\ f[0] = 4
        /\ \A j \in 1..n : f[j] = f[j - 1] + 2 + Len(s[j].data)
        /\ LengthOf(s) = f[n]
  BY LengthOfIs
<1> HIDE DEF a
<1>3. PICK h \in [0..(n + 1) -> Nat] :
        /\ h[0] = 4
        /\ \A j \in 1..(n + 1) : h[j] = h[j - 1] + 2 + Len(a[j].data)
        /\ LengthOf(a) = h[n + 1]
  BY <1>1, LengthOfIs
<1> HIDE DEF n
<1>4. \A j \in 0..n : f[j] = h[j]
  <2>1. ASSUME NEW j \in 1..n, f[j - 1] = h[j - 1] PROVE f[j] = h[j]
    <3>1. h[j] = h[j - 1] + 2 + Len(a[j].data) BY <1>1, <1>3
    <3>2. a[j] = s[j] BY <1>1
    <3>3. f[j] = f[j - 1] + 2 + Len(s[j].data) BY <1>2
    <3>. QED BY <2>1, <3>1, <3>2, <3>3
  <2>2. f[0] = h[0] BY <1>2, <1>3
  <2>3. InStep(f, h, n) BY <2>1, <2>2, Zenon DEF InStep
  <2>4. n \in Nat BY <1>1
  <2>. QED BY <2>3, <2>4, SameSteps
<1>5. h[n] = f[n] BY <1>1, <1>4
<1>6. h[n + 1] = h[(n + 1) - 1] + 2 + Len(a[n + 1].data) BY <1>1, <1>3
<1>7. (n + 1) - 1 = n /\ n \in 0..n BY <1>1
<1>8. LengthOf(s) \in Nat BY <1>2, <1>7
<1>9. LengthOf(a) = LengthOf(s) + 2 + Len(e.data) BY <1>1, <1>2, <1>3, <1>5, <1>6, <1>7
<1>. QED BY <1>8, <1>9 DEF a

\* The length is a number,
LEMMA LengthNat == ASSUME NEW s \in Packets PROVE LengthOf(s) \in Nat
<1>1. PICK f \in [0..Len(s) -> Nat] : LengthOf(s) = f[Len(s)] BY LengthOfIs
<1>2. Len(s) \in 0..Len(s) BY InPacket
<1>. QED BY <1>1, <1>2

\* no greater for some of the options than for all of them,
LEMMA OfTypesShorter ==
  ASSUME NEW s \in Packets, NEW T
  PROVE  LengthOf(OfTypes(s, T)) <= LengthOf(s)
<1> DEFINE S == {p \in Packets : LengthOf(OfTypes(p, T)) <= LengthOf(p)}
<1>1. <<>> \in S BY NoOption, OfTypesEmpty, LengthEmpty
<1>2. ASSUME NEW p \in Packets, p \in S, NEW e \in Option PROVE Append(p, e) \in S
  <2> DEFINE q == OfTypes(p, T)
  <2>1. q \in Packets BY OfTypesPacket
  <2>2. OfTypes(Append(p, e), T) = IF e.type \in T THEN Append(q, e) ELSE q BY OfTypesAppended
  <2>3. LengthOf(q) \in Nat /\ LengthOf(p) \in Nat BY <2>1, LengthNat
  <2>4. LengthOf(q) <= LengthOf(p) BY <1>2
  <2>5. /\ LengthOf(Append(q, e)) = LengthOf(q) + 2 + Len(e.data)
        /\ LengthOf(Append(p, e)) = LengthOf(p) + 2 + Len(e.data)
    BY <2>1, LengthAppended
  <2>6. Len(e.data) \in Nat BY DEF Option
  <2> HIDE DEF q
  <2>7. LengthOf(OfTypes(Append(p, e), T)) <= LengthOf(Append(p, e))
    <3>1. CASE e.type \in T BY <2>2, <2>3, <2>4, <2>5, <2>6, <3>1
    <3>2. CASE e.type \notin T BY <2>2, <2>3, <2>4, <2>5, <2>6, <3>2
    <3>. QED BY <3>1, <3>2
  <2>. QED BY <2>7, Appended
<1>3. s \in S
  <2> HIDE DEF S
  <2>1. GrowsTo(S) BY <1>1, <1>2 DEF GrowsTo
  <2>. QED BY <2>1, ByPacket
<1>. QED BY <1>3

\* and the same for options whose data is as long.
LEMMA LengthSame ==
  ASSUME NEW s \in Packets, NEW r \in Packets, Len(r) = Len(s),
         \A j \in 1..Len(s) : Len(r[j].data) = Len(s[j].data)
  PROVE  LengthOf(r) = LengthOf(s)
<1> DEFINE n == Len(s)
<1>1. n \in Nat BY InPacket
<1>2. PICK f \in [0..n -> Nat] :
        /\ f[0] = 4
        /\ \A j \in 1..n : f[j] = f[j - 1] + 2 + Len(s[j].data)
        /\ LengthOf(s) = f[n]
  BY LengthOfIs
<1>3. PICK h \in [0..Len(r) -> Nat] :
        /\ h[0] = 4
        /\ \A j \in 1..Len(r) : h[j] = h[j - 1] + 2 + Len(r[j].data)
        /\ LengthOf(r) = h[Len(r)]
  BY LengthOfIs
<1>4. \A j \in 0..n : f[j] = h[j]
  <2>1. ASSUME NEW j \in 1..n, f[j - 1] = h[j - 1] PROVE f[j] = h[j]
    <3>1. h[j] = h[j - 1] + 2 + Len(r[j].data) BY <1>3
    <3>2. f[j] = f[j - 1] + 2 + Len(s[j].data) BY <1>2
    <3>. QED BY <2>1, <3>1, <3>2
  <2>2. f[0] = h[0] BY <1>2, <1>3
  <2> HIDE DEF n
  <2>3. InStep(f, h, n) BY <2>1, <2>2, Zenon DEF InStep
  <2>. QED BY <1>1, <2>3, SameSteps
<1>5. n \in 0..n BY <1>1
<1>. QED BY <1>2, <1>3, <1>4, <1>5

----------------------------------------------------------------------------
(* An option removed *)

IsRemoved(f, s, t) ==
  f = [j \in 0..Len(s) |-> IF j = 0 THEN FALSE ELSE s[j].type = t /\ ~f[j - 1]]

IsKept(f, s, x) ==
  f = [j \in 0..Len(s) |->
         IF j = 0 THEN <<>> ELSE IF x[j] THEN f[j - 1] ELSE Append(f[j - 1], s[j])]

Removes(s, t) == CHOOSE f : IsRemoved(f, s, t)

\* Which options RemoveOption leaves out: one of the type, unless the one before it is
\* left out
LEMMA RemovesIs ==
  ASSUME NEW s \in Packets, NEW t
  PROVE  /\ Removes(s, t)[0] = FALSE
         /\ \A j \in 1..Len(s) :
              Removes(s, t)[j] = (s[j].type = t /\ ~Removes(s, t)[j - 1])
         /\ \A j \in 0..Len(s) : Removes(s, t)[j] \in BOOLEAN
<1> DEFINE n == Len(s)
           g == [jv \in (1..n) \X BOOLEAN |-> s[jv[1]].type = t /\ ~jv[2]]
           c == Removes(s, t)
<1>1. n \in Nat BY InPacket
<1>2. g \in [(1..n) \X BOOLEAN -> BOOLEAN] OBVIOUS
<1>0. \E f : Iteration(f, n, BOOLEAN, FALSE, g)
  <2> HIDE DEF g, n
  <2>1. FALSE \in BOOLEAN OBVIOUS
  <2>. QED BY <1>1, <1>2, <2>1, Iterated
<1>3. PICK f : f \in [0..n -> BOOLEAN] /\ f[0] = FALSE /\ \A j \in 1..n : f[j] = g[<<j, f[j - 1]>>]
  BY <1>0, Zenon DEF Iteration
<1>4. ASSUME NEW j \in 1..n PROVE f[j] = (s[j].type = t /\ ~f[j - 1])
  <2>1. j - 1 \in 0..n BY <1>1
  <2>2. <<j, f[j - 1]>> \in (1..n) \X BOOLEAN BY <1>3, <2>1
  <2>3. g[<<j, f[j - 1]>>] = (s[j].type = t /\ ~f[j - 1]) BY <2>2, Zenon
  <2>. QED BY <1>3, <2>3, Zenon
<1> HIDE DEF g
<1>5. IsRemoved(f, s, t)
  <2>1. ASSUME NEW j \in 0..n
        PROVE  f[j] = IF j = 0 THEN FALSE ELSE s[j].type = t /\ ~f[j - 1]
    <3>1. j = 0 \/ j \in 1..n BY <1>1
    <3>2. CASE j = 0 BY <1>3, <3>2, Zenon
    <3>3. CASE j \in 1..n
      <4>1. j # 0 BY <3>3
      <4>. QED BY <1>4, <3>3, <4>1, Zenon
    <3>. QED BY <3>1, <3>2, <3>3
  <2>. QED BY <1>3, <2>1, Zenon DEF IsRemoved
<1>6. IsRemoved(c, s, t) BY <1>5, Zenon DEF Removes
<1> HIDE DEF c
<1>7. \A j \in 0..n : c[j] = IF j = 0 THEN FALSE ELSE s[j].type = t /\ ~c[j - 1]
  BY <1>6, Zenon DEF IsRemoved
<1>8. c[0] = FALSE
  <2>1. 0 \in 0..n BY <1>1
  <2>. QED BY <1>7, <2>1, Zenon
<1>9. ASSUME NEW j \in 1..n PROVE c[j] = (s[j].type = t /\ ~c[j - 1])
  <2>1. j \in 0..n /\ j # 0 BY <1>1
  <2>. QED BY <1>7, <2>1, Zenon
<1>10. ASSUME NEW j \in 0..n PROVE c[j] \in BOOLEAN
  <2>1. j = 0 \/ j \in 1..n BY <1>1
  <2>2. CASE j = 0 BY <1>8, <2>2, Zenon
  <2>3. CASE j \in 1..n BY <1>9, <2>3, Zenon
  <2>. QED BY <2>1, <2>2, <2>3, Zenon
<1>. QED BY <1>8, <1>9, <1>10, Zenon DEF c

\* How RemoveOption goes through a packet
LEMMA RemoveOptionIs ==
  ASSUME NEW s \in Packets, NEW t
  PROVE  \E f \in [0..Len(s) -> Packets] :
           /\ f[0] = <<>>
           /\ \A j \in 1..Len(s) :
                f[j] = IF Removes(s, t)[j] THEN f[j - 1] ELSE Append(f[j - 1], s[j])
           /\ RemoveOption(s, t) = f[Len(s)]
<1> DEFINE n == Len(s)
           x == Removes(s, t)
           g == [jv \in (1..n) \X Packets |->
                   IF x[jv[1]] THEN jv[2] ELSE Append(jv[2], s[jv[1]])]
<1>1. n \in Nat BY InPacket
<1>7. RemoveOption(s, t) = (CHOOSE f1 : IsKept(f1, s, x))[n]
  BY DEF RemoveOption, IsKept, Removes, IsRemoved
<1> HIDE DEF x
<1>2. g \in [(1..n) \X Packets -> Packets]
  <2>1. ASSUME NEW jv \in (1..n) \X Packets
        PROVE  (IF x[jv[1]] THEN jv[2] ELSE Append(jv[2], s[jv[1]])) \in Packets
    <3>1. jv[1] \in 1..n /\ jv[2] \in Packets OBVIOUS
    <3>2. s[jv[1]] \in Option BY <3>1, InPacket
    <3>. QED BY <3>1, <3>2, Appended
  <2>. QED BY <2>1
<1>0. \E f : Iteration(f, n, Packets, <<>>, g)
  <2> HIDE DEF g, n
  <2>1. <<>> \in Packets BY NoOption
  <2>. QED BY <1>1, <1>2, <2>1, Iterated
<1>3. PICK f : f \in [0..n -> Packets] /\ f[0] = <<>> /\ \A j \in 1..n : f[j] = g[<<j, f[j - 1]>>]
  BY <1>0, Zenon DEF Iteration
<1>4. ASSUME NEW j \in 1..n
      PROVE  f[j] = IF x[j] THEN f[j - 1] ELSE Append(f[j - 1], s[j])
  <2>1. j - 1 \in 0..n BY <1>1
  <2>2. f[j - 1] \in Packets BY <1>3, <2>1
  <2>. QED BY <1>3, <2>2
<1> HIDE DEF g
<1>5. IsKept(f, s, x)
  <2>1. ASSUME NEW j \in 0..n
        PROVE  f[j] = IF j = 0 THEN <<>>
                      ELSE IF x[j] THEN f[j - 1] ELSE Append(f[j - 1], s[j])
    <3>1. j = 0 \/ j \in 1..n BY <1>1
    <3>. QED BY <1>3, <1>4, <3>1
  <2>. QED BY <1>3, <2>1, Zenon DEF IsKept
<1> DEFINE c == CHOOSE f1 : IsKept(f1, s, x)
<1>6. IsKept(c, s, x) BY <1>5
<1> HIDE DEF c
<1>12. \A j \in 0..n : c[j] = IF j = 0 THEN <<>>
                           ELSE IF x[j] THEN c[j - 1] ELSE Append(c[j - 1], s[j])
  BY <1>6, Zenon DEF IsKept
<1>8. c[0] = <<>> BY <1>1, <1>12
<1>9. ASSUME NEW j \in 1..n
      PROVE  c[j] = IF x[j] THEN c[j - 1] ELSE Append(c[j - 1], s[j])
  BY <1>1, <1>12
<1>10. \A j \in 0..n : c[j] = f[j]
  <2>1. \A j \in 1..n : c[j - 1] = f[j - 1] => c[j] = f[j] BY <1>4, <1>9
  <2>2. c[0] = f[0] BY <1>3, <1>8
  <2> HIDE DEF n
  <2>3. InStep(c, f, n) BY <2>1, <2>2, Zenon DEF InStep
  <2>. QED BY <1>1, <2>3, SameSteps
<1>11. RemoveOption(s, t) = f[n] BY <1>1, <1>7, <1>10 DEF c
<1>. QED BY <1>3, <1>4, <1>11 DEF x

\* The last option is left out.
Removed(s, t) == Removes(s, t)[Len(s)]

\* What is left is a packet.
LEMMA RemoveOptionPacket ==
  ASSUME NEW s \in Packets, NEW t PROVE RemoveOption(s, t) \in Packets /\ Removed(s, t) \in BOOLEAN
<1>1. PICK f \in [0..Len(s) -> Packets] : RemoveOption(s, t) = f[Len(s)] BY RemoveOptionIs
<1>2. Len(s) \in 0..Len(s) BY InPacket
<1>3. Removes(s, t)[Len(s)] \in BOOLEAN BY <1>2, RemovesIs, Zenon
<1>4. RemoveOption(s, t) \in Packets BY <1>1, <1>2
<1>. QED BY <1>3, <1>4, Zenon DEF Removed

\* Nothing is removed from no option.
LEMMA RemoveEmpty == ASSUME NEW t PROVE RemoveOption(<<>>, t) = <<>> /\ ~Removed(<<>>, t)
<1>1. RemoveOption(<<>>, t) = <<>> BY NoOption, RemoveOptionIs
<1>0. <<>> \in Packets BY NoOption
<1>2. Removes(<<>>, t)[0] = FALSE BY ONLY <1>0, RemovesIs
<1>3. ~Removes(<<>>, t)[0] BY <1>2, Zenon
<1>. QED BY <1>1, <1>3, NoOption DEF Removed

\* An option more is left out or left.
LEMMA RemoveAppended ==
  ASSUME NEW s \in Packets, NEW e \in Option, NEW t
  PROVE  /\ Removed(Append(s, e), t) <=> e.type = t /\ ~Removed(s, t)
         /\ RemoveOption(Append(s, e), t) =
              IF e.type = t /\ ~Removed(s, t) THEN RemoveOption(s, t)
              ELSE Append(RemoveOption(s, t), e)
<1> DEFINE n == Len(s)
           a == Append(s, e)
           x == Removes(s, t)
           y == Removes(a, t)
<1>1. /\ a \in Packets /\ n \in Nat /\ Len(a) = n + 1 /\ a[n + 1] = e
      /\ \A j \in 1..n : a[j] = s[j]
  BY Appended
<1>2. /\ x[0] = FALSE /\ \A j \in 1..n : x[j] = (s[j].type = t /\ ~x[j - 1]) BY RemovesIs, Zenon
<1>3. /\ y[0] = FALSE /\ \A j \in 1..Len(a) : y[j] = (a[j].type = t /\ ~y[j - 1])
  BY <1>1, RemovesIs, Zenon
<1>4. PICK f \in [0..n -> Packets] :
        /\ f[0] = <<>>
        /\ \A j \in 1..n : f[j] = IF x[j] THEN f[j - 1] ELSE Append(f[j - 1], s[j])
        /\ RemoveOption(s, t) = f[n]
  BY RemoveOptionIs
<1>5. PICK h \in [0..Len(a) -> Packets] :
        /\ h[0] = <<>>
        /\ \A j \in 1..Len(a) : h[j] = IF y[j] THEN h[j - 1] ELSE Append(h[j - 1], a[j])
        /\ RemoveOption(a, t) = h[Len(a)]
  BY <1>1, RemoveOptionIs
<1>15. Removed(s, t) = x[n] /\ Removed(a, t) = y[Len(a)] BY Zenon DEF Removed
<1> HIDE DEF a, n, x, y
<1>6. \A j \in 0..n : x[j] = y[j]
  <2>1. ASSUME NEW j \in 1..n, x[j - 1] = y[j - 1] PROVE x[j] = y[j]
    <3>1. j \in 1..Len(a) /\ a[j] = s[j] BY <1>1
    <3>2. x[j] = (s[j].type = t /\ ~x[j - 1]) BY <1>2
    <3>3. y[j] = (a[j].type = t /\ ~y[j - 1]) BY <1>3, <3>1
    <3>. QED BY <2>1, <3>1, <3>2, <3>3, Zenon
  <2>2. x[0] = y[0] BY <1>2, <1>3, Zenon
  <2>3. InStep(x, y, n) BY <2>1, <2>2, Zenon DEF InStep
  <2>4. n \in Nat BY <1>1
  <2>. QED BY <2>3, <2>4, SameSteps
<1>7. \A j \in 0..n : f[j] = h[j]
  <2>1. ASSUME NEW j \in 1..n, f[j - 1] = h[j - 1] PROVE f[j] = h[j]
    <3>1. j \in 1..Len(a) /\ a[j] = s[j] /\ j \in 0..n BY <1>1
    <3>2. f[j] = IF x[j] THEN f[j - 1] ELSE Append(f[j - 1], s[j]) BY <1>4
    <3>3. h[j] = IF y[j] THEN h[j - 1] ELSE Append(h[j - 1], a[j]) BY <1>5, <3>1
    <3>4. x[j] = y[j] BY <1>6, <3>1
    <3>. QED BY <2>1, <3>1, <3>2, <3>3, <3>4
  <2>2. f[0] = h[0] BY <1>4, <1>5
  <2>3. InStep(f, h, n) BY <2>1, <2>2, Zenon DEF InStep
  <2>4. n \in Nat BY <1>1
  <2>. QED BY <2>3, <2>4, SameSteps
<1>8. n \in 0..n /\ n + 1 \in 1..Len(a) /\ (n + 1) - 1 = n BY <1>1
<1>9. x[n] = y[n] /\ f[n] = h[n] BY <1>6, <1>7, <1>8
<1>10. y[n + 1] = (e.type = t /\ ~x[n])
  <2>1. y[n + 1] = (a[n + 1].type = t /\ ~y[(n + 1) - 1]) BY <1>3, <1>8, Zenon
  <2>2. a[n + 1] = e BY <1>1
  <2>3. (n + 1) - 1 = n BY <1>8
  <2>. QED BY <1>9, <2>1, <2>2, <2>3, Zenon
<1>11. h[n + 1] = IF y[n + 1] THEN f[n] ELSE Append(f[n], e)
  <2>1. h[n + 1] = IF y[n + 1] THEN h[(n + 1) - 1] ELSE Append(h[(n + 1) - 1], a[n + 1])
    BY <1>5, <1>8, Zenon
  <2>2. a[n + 1] = e BY <1>1
  <2>3. (n + 1) - 1 = n BY <1>8
  <2>. QED BY <1>9, <2>1, <2>2, <2>3, Zenon
<1>12. Len(a) = n + 1 BY <1>1
<1>13. RemoveOption(a, t) = h[n + 1] /\ RemoveOption(s, t) = f[n] BY <1>4, <1>5, <1>12
<1>14. Removed(s, t) = x[n] /\ Removed(a, t) = y[n + 1] BY <1>12, <1>15, Zenon
<1>16. Removed(a, t) <=> e.type = t /\ ~Removed(s, t) BY <1>10, <1>14, Zenon
<1>17. RemoveOption(a, t) = IF e.type = t /\ ~Removed(s, t) THEN RemoveOption(s, t)
                            ELSE Append(RemoveOption(s, t), e)
  BY <1>10, <1>11, <1>13, <1>14, Zenon
<1>. QED BY <1>16, <1>17, Zenon DEF a

\* RemoveOption takes no option of another type, and one of its type if there is one.
LEMMA RemoveOptionOf ==
  ASSUME NEW s \in Packets, NEW t
  PROVE  LET r == RemoveOption(s, t)
         IN  /\ \A T : t \notin T => OfTypes(r, T) = OfTypes(s, T)
             /\ TypesIn(r) \subseteq TypesIn(s)
             /\ Len(r) \in Nat /\ Len(r) <= Len(s)
             /\ t \in TypesIn(s) => Len(r) < Len(s)
<1> DEFINE Good(p) ==
             /\ \A T : t \notin T => OfTypes(RemoveOption(p, t), T) = OfTypes(p, T)
             /\ TypesIn(RemoveOption(p, t)) \subseteq TypesIn(p)
             /\ Len(RemoveOption(p, t)) <= Len(p)
             /\ t \in TypesIn(p) => Len(RemoveOption(p, t)) < Len(p)
             /\ Removed(p, t) => Len(RemoveOption(p, t)) < Len(p)
           S == {p \in Packets : Good(p)}
<1>1. <<>> \in S
  <2>1. RemoveOption(<<>>, t) = <<>> /\ ~Removed(<<>>, t) BY RemoveEmpty
  <2>2. TypesIn(<<>>) = {} BY TypesEmpty
  <2>3. Good(<<>>) BY <2>1, <2>2
  <2> HIDE DEF Good
  <2>. QED BY <2>3, NoOption
<1>2. ASSUME NEW p \in Packets, p \in S, NEW e \in Option PROVE Append(p, e) \in S
  <2> DEFINE q == RemoveOption(p, t)
             a == Append(p, e)
             r == RemoveOption(a, t)
             out == e.type = t /\ ~Removed(p, t)
  <2>1. q \in Packets /\ Len(q) \in Nat /\ Len(p) \in Nat BY RemoveOptionPacket, InPacket
  <2>2. /\ \A T : t \notin T => OfTypes(q, T) = OfTypes(p, T)
        /\ TypesIn(q) \subseteq TypesIn(p)
        /\ Len(q) <= Len(p)
        /\ t \in TypesIn(p) => Len(q) < Len(p)
        /\ Removed(p, t) => Len(q) < Len(p)
    BY <1>2
  <2>3. a \in Packets /\ Len(a) = Len(p) + 1 /\ TypesIn(a) = TypesIn(p) \cup {e.type}
    BY Appended, TypesAppended
  <2>4. (Removed(a, t) <=> out) /\ r = IF out THEN q ELSE Append(q, e)
    BY RemoveAppended, Zenon
  <2>5. /\ Append(q, e) \in Packets /\ Len(Append(q, e)) = Len(q) + 1
        /\ TypesIn(Append(q, e)) = TypesIn(q) \cup {e.type}
    BY <2>1, Appended, TypesAppended
  <2>6. ASSUME NEW T, t \notin T PROVE OfTypes(r, T) = OfTypes(a, T)
    <3>1. OfTypes(q, T) = OfTypes(p, T) BY <2>2, <2>6
    <3>2. OfTypes(a, T) = IF e.type \in T THEN Append(OfTypes(p, T), e) ELSE OfTypes(p, T)
      BY OfTypesAppended
    <3>3. OfTypes(Append(q, e), T) =
            IF e.type \in T THEN Append(OfTypes(q, T), e) ELSE OfTypes(q, T)
      BY <2>1, OfTypesAppended
    <3>4. out => e.type \notin T BY <2>6
    <3> HIDE DEF q, a, r, out
    <3>5. CASE out BY <2>4, <3>1, <3>2, <3>4, <3>5
    <3>6. CASE ~out
      <4>1. r = Append(q, e) BY <2>4, <3>6
      <4>. QED BY <3>1, <3>2, <3>3, <4>1
    <3>. QED BY <3>5, <3>6
  <2>7. out \/ (e.type # t) \/ (e.type = t /\ Removed(p, t)) OBVIOUS
  <2>8. out => e.type = t OBVIOUS
  <2> HIDE DEF q, a, r, out
  <2>9. TypesIn(r) \subseteq TypesIn(a) BY <2>2, <2>3, <2>4, <2>5
  <2>10. Len(r) <= Len(a) BY <2>1, <2>2, <2>3, <2>4, <2>5
  <2>11. Removed(a, t) => Len(r) < Len(a) BY <2>1, <2>2, <2>3, <2>4
  <2>12. ASSUME t \in TypesIn(a) PROVE Len(r) < Len(a)
    <3>1. CASE out BY <2>1, <2>2, <2>3, <2>4, <3>1
    <3>2. CASE ~out
      <4>1. Len(q) < Len(p) BY <2>2, <2>3, <2>7, <2>12, <3>2
      <4>. QED BY <2>1, <2>3, <2>4, <2>5, <3>2, <4>1
    <3>. QED BY <3>1, <3>2
  <2>13. Good(a) BY <2>6, <2>9, <2>10, <2>11, <2>12 DEF r
  <2> HIDE DEF Good
  <2>. QED BY <2>3, <2>13 DEF a
<1>3. s \in S
  <2> HIDE DEF S
  <2>1. GrowsTo(S) BY <1>1, <1>2 DEF GrowsTo
  <2>. QED BY <2>1, ByPacket
<1>4. Good(s) BY <1>3
<1>5. Len(RemoveOption(s, t)) \in Nat BY RemoveOptionPacket, InPacket
<1>. QED BY <1>4, <1>5

----------------------------------------------------------------------------
(* Packets with each option once *)

Distinct(s) == \A j, k \in DOMAIN s : s[j].type = s[k].type => j = k

\* A packet has each option once if the last one's type is not in the others.
LEMMA DistinctAppended ==
  ASSUME NEW s \in Packets, NEW e \in Option
  PROVE  Distinct(Append(s, e)) <=> Distinct(s) /\ e.type \notin TypesIn(s)
<1> DEFINE n == Len(s)
           a == Append(s, e)
<1>1. /\ n \in Nat /\ DOMAIN s = 1..n /\ DOMAIN a = 1..(n + 1) /\ a[n + 1] = e
      /\ \A j \in 1..n : a[j] = s[j]
  BY Appended
<1>2. \A t : t \in TypesIn(s) <=> \E j \in 1..n : s[j].type = t BY <1>1 DEF TypesIn
<1>3. Distinct(s) <=> \A j, k \in 1..n : s[j].type = s[k].type => j = k
  BY <1>1, Zenon DEF Distinct
<1>4. Distinct(a) <=> \A j, k \in 1..(n + 1) : a[j].type = a[k].type => j = k
  BY <1>1, Zenon DEF Distinct
<1> HIDE DEF n, a
<1>5. \A j : j \in 1..(n + 1) <=> j \in 1..n \/ j = n + 1 BY <1>1
<1>6. ASSUME Distinct(a) PROVE Distinct(s) /\ e.type \notin TypesIn(s)
  <2>1. ASSUME NEW j \in 1..n, NEW k \in 1..n, s[j].type = s[k].type PROVE j = k
    BY <1>1, <1>4, <1>5, <1>6, <2>1
  <2>2. ASSUME NEW j \in 1..n PROVE s[j].type # e.type
    <3>1. j \in 1..(n + 1) /\ n + 1 \in 1..(n + 1) /\ j # n + 1 BY <1>1
    <3>2. a[j].type # a[n + 1].type BY <1>4, <1>6, <3>1
    <3>. QED BY <1>1, <3>2
  <2>. QED BY <1>2, <1>3, <2>1, <2>2
<1>7. ASSUME Distinct(s), e.type \notin TypesIn(s) PROVE Distinct(a)
  <2>1. ASSUME NEW j \in 1..(n + 1), NEW k \in 1..(n + 1), a[j].type = a[k].type PROVE j = k
    <3>1. CASE j \in 1..n /\ k \in 1..n BY <1>1, <1>3, <1>7, <2>1, <3>1
    <3>2. CASE j = n + 1 /\ k \in 1..n
      <4>1. a[k].type \in TypesIn(s) BY <1>1, <1>2, <3>2
      <4>. QED BY <1>1, <1>7, <2>1, <3>2, <4>1
    <3>3. CASE k = n + 1 /\ j \in 1..n
      <4>1. a[j].type \in TypesIn(s) BY <1>1, <1>2, <3>3
      <4>. QED BY <1>1, <1>7, <2>1, <3>3, <4>1
    <3>. QED BY <1>5, <3>1, <3>2, <3>3
  <2>. QED BY <1>4, <2>1
<1>. QED BY <1>6, <1>7 DEF a

\* Some of such a packet's options are such a packet.
LEMMA OfTypesDistinct ==
  ASSUME NEW s \in Packets, NEW T, Distinct(s)
  PROVE  Distinct(OfTypes(s, T))
<1> DEFINE S == {p \in Packets : Distinct(p) => Distinct(OfTypes(p, T))}
<1>1. <<>> \in S BY NoOption, OfTypesEmpty
<1>2. ASSUME NEW p \in Packets, p \in S, NEW e \in Option PROVE Append(p, e) \in S
  <2>1. ASSUME Distinct(Append(p, e)) PROVE Distinct(OfTypes(Append(p, e), T))
    <3>1. Distinct(p) /\ e.type \notin TypesIn(p) BY <2>1, DistinctAppended
    <3>2. OfTypes(p, T) \in Packets BY OfTypesPacket
    <3>3. Distinct(OfTypes(p, T)) BY <1>2, <3>1
    <3>4. e.type \notin TypesIn(OfTypes(p, T)) BY <3>1, OfTypesFrom
    <3>5. Distinct(Append(OfTypes(p, T), e)) BY <3>2, <3>3, <3>4, DistinctAppended
    <3>6. OfTypes(Append(p, e), T) =
            IF e.type \in T THEN Append(OfTypes(p, T), e) ELSE OfTypes(p, T)
      BY OfTypesAppended
    <3>. QED BY <3>3, <3>5, <3>6
  <2>. QED BY <2>1, Appended
<1>3. s \in S
  <2> HIDE DEF S
  <2>1. GrowsTo(S) BY <1>1, <1>2 DEF GrowsTo
  <2>. QED BY <2>1, ByPacket
<1>. QED BY <1>3

\* The types a packet does not have do not matter.
LEMMA OfTypesSame ==
  ASSUME NEW s \in Packets, NEW T, NEW U, TypesIn(s) \cap T = TypesIn(s) \cap U
  PROVE  OfTypes(s, T) = OfTypes(s, U)
<1>1. OfTypes(s, TypesIn(s)) = s BY OfAllTypes
<1>2. OfTypes(OfTypes(s, TypesIn(s)), T) = OfTypes(s, TypesIn(s) \cap T) BY OfTypesTwice
<1>3. OfTypes(OfTypes(s, TypesIn(s)), U) = OfTypes(s, TypesIn(s) \cap U) BY OfTypesTwice
<1>. QED BY <1>1, <1>2, <1>3

\* Of a packet with each option once the option removed is none of the packet left.
LEMMA RemoveDistinct ==
  ASSUME NEW s \in Packets, NEW t, Distinct(s)
  PROVE  RemoveOption(s, t) = OfTypes(s, (1..255) \ {t})
<1> DEFINE Good(p) == /\ Removed(p, t) => t \in TypesIn(p)
                      /\ Distinct(p) => t \notin TypesIn(RemoveOption(p, t))
           S == {p \in Packets : Good(p)}
<1>1. <<>> \in S
  <2>1. RemoveOption(<<>>, t) = <<>> /\ ~Removed(<<>>, t) BY RemoveEmpty
  <2>2. Good(<<>>) BY <2>1, TypesEmpty
  <2>. QED BY <2>2, NoOption
<1>2. ASSUME NEW p \in Packets, p \in S, NEW e \in Option PROVE Append(p, e) \in S
  <2> DEFINE q == RemoveOption(p, t)
             a == Append(p, e)
             r == RemoveOption(a, t)
             out == e.type = t /\ ~Removed(p, t)
  <2>1. q \in Packets BY RemoveOptionPacket
  <2>2. (Removed(p, t) => t \in TypesIn(p)) /\ (Distinct(p) => t \notin TypesIn(q)) BY <1>2
  <2>3. /\ a \in Packets /\ TypesIn(a) = TypesIn(p) \cup {e.type}
        /\ TypesIn(Append(q, e)) = TypesIn(q) \cup {e.type}
    BY <2>1, Appended, TypesAppended
  <2>4. (Removed(a, t) <=> out) /\ r = IF out THEN q ELSE Append(q, e)
    BY RemoveAppended, Zenon
  <2>5. Removed(a, t) => t \in TypesIn(a) BY <2>3, <2>4
  <2>6. ASSUME Distinct(a) PROVE t \notin TypesIn(r)
    <3>1. Distinct(p) /\ e.type \notin TypesIn(p) BY <2>6, DistinctAppended
    <3>2. t \notin TypesIn(q) BY <2>2, <3>1
    <3>3. CASE out BY <2>4, <3>2, <3>3
    <3>4. CASE ~out
      <4>1. e.type # t BY <2>2, <3>1, <3>4
      <4>2. r = Append(q, e) BY <2>4, <3>4
      <4>. QED BY <2>3, <3>2, <4>1, <4>2
    <3>. QED BY <3>3, <3>4
  <2>7. Good(a) BY <2>5, <2>6
  <2> HIDE DEF Good
  <2>. QED BY <2>3, <2>7
<1>3. s \in S
  <2> HIDE DEF S
  <2>1. GrowsTo(S) BY <1>1, <1>2 DEF GrowsTo
  <2>. QED BY <2>1, ByPacket
<1> DEFINE r == RemoveOption(s, t)
           others == (1..255) \ {t}
<1>4. t \notin TypesIn(r) BY <1>3
<1>5. r \in Packets BY RemoveOptionPacket
<1>6. TypesIn(r) \subseteq 1..255 BY <1>5, TypesRange
<1>7. OfTypes(r, others) = OfTypes(s, others)
  <2>1. t \notin others OBVIOUS
  <2> HIDE DEF others
  <2>. QED BY <2>1, RemoveOptionOf
<1>8. TypesIn(r) \subseteq others BY <1>4, <1>6
<1> HIDE DEF r, others
<1>9. OfTypes(r, others) = r BY <1>5, <1>8, OfAllTypes
<1>. QED BY <1>7, <1>9 DEF r, others

----------------------------------------------------------------------------
(* The loops that remove options *)

IsREJ(f, packet, rej) ==
  f = [j \in 0..Len(rej) |-> IF j = 0 THEN packet ELSE RemoveOption(f[j - 1], rej[j].type)]

\* How ProcessREJ goes through what is rejected
LEMMA ProcessREJIs ==
  ASSUME NEW packet \in Packets, NEW rej \in Packets
  PROVE  \E f : /\ f[0] = packet
                /\ \A j \in 1..Len(rej) : f[j] = RemoveOption(f[j - 1], rej[j].type)
                /\ ProcessREJ(packet, rej) = f[Len(rej)]
<1> DEFINE n == Len(rej)
           g == [jv \in (1..n) \X Packets |-> RemoveOption(jv[2], rej[jv[1]].type)]
           c == CHOOSE f1 : IsREJ(f1, packet, rej)
<1>1. n \in Nat BY InPacket
<1>2. g \in [(1..n) \X Packets -> Packets] BY RemoveOptionPacket
<1>0. \E f : Iteration(f, n, Packets, packet, g)
  <2> HIDE DEF g, n
  <2>. QED BY <1>1, <1>2, Iterated
<1>3. PICK f : f \in [0..n -> Packets] /\ f[0] = packet /\ \A j \in 1..n : f[j] = g[<<j, f[j - 1]>>]
  BY <1>0, Zenon DEF Iteration
<1>4. ASSUME NEW j \in 1..n PROVE f[j] = RemoveOption(f[j - 1], rej[j].type)
  <2>1. j - 1 \in 0..n BY <1>1
  <2>2. f[j - 1] \in Packets BY <1>3, <2>1
  <2>. QED BY <1>3, <2>2
<1> HIDE DEF g
<1>5. IsREJ(f, packet, rej)
  <2>1. ASSUME NEW j \in 0..n
        PROVE  f[j] = IF j = 0 THEN packet ELSE RemoveOption(f[j - 1], rej[j].type)
    <3>1. j = 0 \/ j \in 1..n BY <1>1
    <3>. QED BY <1>3, <1>4, <3>1
  <2>. QED BY <1>3, <2>1, Zenon DEF IsREJ
<1>6. IsREJ(c, packet, rej) BY <1>5
<1>7. ProcessREJ(packet, rej) = c[n] BY DEF ProcessREJ, IsREJ
<1> HIDE DEF c
<1>8. \A j \in 0..n : c[j] = IF j = 0 THEN packet ELSE RemoveOption(c[j - 1], rej[j].type)
  BY <1>6, Zenon DEF IsREJ
<1>9. c[0] = packet /\ \A j \in 1..n : c[j] = RemoveOption(c[j - 1], rej[j].type) BY <1>1, <1>8
<1>. QED BY <1>7, <1>9

\* Of a request with each option once a REJ of some of its options leaves the others.
LEMMA RejectedOptions ==
  ASSUME NEW packet \in Packets, Distinct(packet), NEW T
  PROVE  ProcessREJ(packet, OfTypes(packet, T)) = OfTypes(packet, (1..255) \ T)
<1> DEFINE rej == OfTypes(packet, T)
           n == Len(rej)
           R(j) == {rej[i].type : i \in 1..j}
           Q(j) == OfTypes(packet, (1..255) \ R(j))
<1>1. rej \in Packets BY OfTypesPacket
<1>2. n \in Nat BY <1>1, InPacket
<1>3. TypesIn(rej) = TypesIn(packet) \cap T BY OfTypesFrom
<1>4. R(n) = TypesIn(rej) BY <1>1, InPacket DEF TypesIn
<1> HIDE DEF rej
<1>5. PICK f : /\ f[0] = packet
               /\ \A j \in 1..n : f[j] = RemoveOption(f[j - 1], rej[j].type)
               /\ ProcessREJ(packet, rej) = f[n]
  BY <1>1, ProcessREJIs
<1> HIDE DEF n
<1> DEFINE S == {j \in 0..n : f[j] = Q(j)}
<1>6. 0 \in S
  <2>1. R(0) = {} OBVIOUS
  <2>2. OfTypes(packet, 1..255) = packet BY TypesRange, OfAllTypes
  <2>3. (1..255) \ R(0) = 1..255 BY <2>1
  <2>4. f[0] = Q(0) BY <1>5, <2>2, <2>3
  <2>. QED BY <1>2, <2>4
<1>7. ASSUME NEW j \in 0..n, j \in S, j < n PROVE j + 1 \in S
  <2>1. j + 1 \in 1..n /\ (j + 1) - 1 = j /\ j + 1 \in 0..n BY <1>2, <1>7
  <2> DEFINE t == rej[j + 1].type
  <2>2. f[j + 1] = RemoveOption(f[j], t) BY <1>5, <2>1
  <2>3. f[j] = Q(j) BY <1>7
  <2>4. Q(j) \in Packets /\ Distinct(Q(j)) BY OfTypesPacket, OfTypesDistinct
  <2>5. RemoveOption(Q(j), t) = OfTypes(Q(j), (1..255) \ {t})
    <3> HIDE DEF t, Q
    <3>. QED BY <2>4, RemoveDistinct
  <2>6. R(j + 1) = R(j) \cup {t}
    <3>1. \A i : i \in 1..(j + 1) <=> i \in 1..j \/ i = j + 1 BY <1>2
    <3>. QED BY <3>1
  <2>7. OfTypes(Q(j), (1..255) \ {t}) = OfTypes(packet, ((1..255) \ R(j)) \cap ((1..255) \ {t}))
    <3> HIDE DEF R, t
    <3>. QED BY OfTypesTwice
  <2> HIDE DEF R, t
  <2>8. ((1..255) \ R(j)) \cap ((1..255) \ {t}) = (1..255) \ R(j + 1) BY <2>6
  <2>9. f[j + 1] = Q(j + 1)
    <3> DEFINE V == ((1..255) \ R(j)) \cap ((1..255) \ {t})
               W == (1..255) \ R(j + 1)
    <3>1. V = W BY <2>8
    <3>2. f[j + 1] = RemoveOption(Q(j), t) BY <2>2, <2>3
    <3>3. f[j + 1] = OfTypes(Q(j), (1..255) \ {t})
      <4> HIDE DEF Q
      <4>. QED BY <2>5, <3>2
    <3> HIDE DEF V, W
    <3>4. f[j + 1] = OfTypes(packet, V)
      <4> HIDE DEF Q
      <4>. QED BY <2>7, <3>3, Zenon DEF V
    <3>5. f[j + 1] = OfTypes(packet, W) BY <3>1, <3>4
    <3>. QED BY <3>5 DEF W
  <2>. QED BY <2>1, <2>9
<1>8. n \in S
  <2> HIDE DEF S
  <2>1. n \in 0..n BY <1>2
  <2>. QED BY <1>2, <1>6, <1>7, <2>1, UpTo
<1>9. ProcessREJ(packet, rej) = Q(n) BY <1>5, <1>8
<1>10. TypesIn(packet) \cap ((1..255) \ R(n)) = TypesIn(packet) \cap ((1..255) \ T)
  BY <1>3, <1>4
<1> HIDE DEF R
<1>11. Q(n) = OfTypes(packet, (1..255) \ T) BY <1>10, OfTypesSame
<1>. QED BY <1>9, <1>11 DEF rej

\* The first option of some types is found, and removed.
LEMMA WithoutFirstOf ==
  ASSUME NEW packet \in Packets, NEW T, TypesIn(packet) \cap T # {}
  PROVE  \E t \in TypesIn(packet) \cap T : WithoutFirst(packet, T) = RemoveOption(packet, t)
<1> DEFINE First(j) == /\ packet[j].type \in T
                       /\ \A k \in 1..(j - 1) : packet[k].type \notin T
           X == {j \in 1..Len(packet) : packet[j].type \in T}
           first == CHOOSE j \in DOMAIN packet : First(j)
<1>1. Len(packet) \in Nat /\ DOMAIN packet = 1..Len(packet) BY InPacket
<1>2. X # {} BY <1>1 DEF TypesIn
<1>3. PICK m \in X : \A j \in X : m <= j
  <2>1. X \subseteq Nat OBVIOUS
  <2> HIDE DEF X
  <2>. QED BY <1>2, <2>1, Least
<1>4. m \in DOMAIN packet /\ First(m) BY <1>1, <1>3
<1>5. first \in DOMAIN packet /\ First(first)
  <2> HIDE DEF First
  <2>. QED BY <1>4
<1>6. packet[first].type \in TypesIn(packet) \cap T BY <1>5 DEF TypesIn
<1>7. WithoutFirst(packet, T) = RemoveOption(packet, packet[first].type) BY DEF WithoutFirst
<1>. QED BY <1>6, <1>7

IsWithout(f, packet, types) ==
  f = [n \in 0..Len(packet) |-> IF n = 0 THEN packet ELSE WithoutFirst(f[n - 1], types)]

\* What is left of a packet is a packet.
LEMMA WithoutFirstPacket ==
  ASSUME NEW packet \in Packets, NEW T
  PROVE  WithoutFirst(packet, T) \in Packets
<1>1. CASE TypesIn(packet) \cap T = {} BY <1>1 DEF WithoutFirst
<1>2. CASE TypesIn(packet) \cap T # {} BY <1>2, WithoutFirstOf, RemoveOptionPacket
<1>. QED BY <1>1, <1>2

\* How Without goes on
LEMMA WithoutIs ==
  ASSUME NEW packet \in Packets, NEW T
  PROVE  \E f : /\ f[0] = packet
                /\ \A j \in 1..Len(packet) : f[j] = WithoutFirst(f[j - 1], T)
                /\ Without(packet, T) = f[Len(packet)]
<1> DEFINE n == Len(packet)
           g == [jv \in (1..n) \X Packets |-> WithoutFirst(jv[2], T)]
           c == CHOOSE f1 : IsWithout(f1, packet, T)
<1>1. n \in Nat BY InPacket
<1>2. g \in [(1..n) \X Packets -> Packets] BY WithoutFirstPacket
<1>0. \E f : Iteration(f, n, Packets, packet, g)
  <2> HIDE DEF g, n
  <2>. QED BY <1>1, <1>2, Iterated
<1>3. PICK f : f \in [0..n -> Packets] /\ f[0] = packet /\ \A j \in 1..n : f[j] = g[<<j, f[j - 1]>>]
  BY <1>0, Zenon DEF Iteration
<1>4. ASSUME NEW j \in 1..n PROVE f[j] = WithoutFirst(f[j - 1], T)
  <2>1. j - 1 \in 0..n BY <1>1
  <2>2. f[j - 1] \in Packets BY <1>3, <2>1
  <2>. QED BY <1>3, <2>2
<1> HIDE DEF g
<1>5. IsWithout(f, packet, T)
  <2>1. ASSUME NEW j \in 0..n
        PROVE  f[j] = IF j = 0 THEN packet ELSE WithoutFirst(f[j - 1], T)
    <3>1. j = 0 \/ j \in 1..n BY <1>1
    <3>. QED BY <1>3, <1>4, <3>1
  <2>. QED BY <1>3, <2>1, Zenon DEF IsWithout
<1>6. IsWithout(c, packet, T) BY <1>5
<1>7. Without(packet, T) = c[n] BY DEF Without, IsWithout
<1> HIDE DEF c
<1>8. \A j \in 0..n : c[j] = IF j = 0 THEN packet ELSE WithoutFirst(c[j - 1], T)
  BY <1>6, Zenon DEF IsWithout
<1>9. c[0] = packet /\ \A j \in 1..n : c[j] = WithoutFirst(c[j - 1], T) BY <1>1, <1>8
<1>. QED BY <1>7, <1>9

\* The options of some types are removed until there is none, which takes no more rounds
\* than there are options: the others are left, in their order.
LEMMA OthersLeft ==
  ASSUME NEW packet \in Packets, NEW T
  PROVE  Without(packet, T) = OfTypes(packet, TypesIn(packet) \ T)
<1> DEFINE n == Len(packet)
           U == TypesIn(packet) \ T
           Good(q, j) == /\ q \in Packets /\ TypesIn(q) \subseteq TypesIn(packet)
                         /\ OfTypes(q, U) = OfTypes(packet, U)
                         /\ TypesIn(q) \cap T = {} \/ Len(q) + j <= n
<1>1. n \in Nat BY InPacket
<1>2. PICK f : /\ f[0] = packet
               /\ \A j \in 1..n : f[j] = WithoutFirst(f[j - 1], T)
               /\ Without(packet, T) = f[n]
  BY WithoutIs
<1> DEFINE S == {j \in 0..n : Good(f[j], j)}
<1>3. 0 \in S BY <1>1, <1>2
<1>4. ASSUME NEW j \in 0..n, j \in S, j < n PROVE j + 1 \in S
  <2> DEFINE q == f[j]
             r == f[j + 1]
  <2>1. j + 1 \in 1..n /\ (j + 1) - 1 = j /\ j + 1 \in 0..n BY <1>1, <1>4
  <2>2. r = WithoutFirst(q, T) BY <1>2, <2>1
  <2>3. /\ q \in Packets /\ TypesIn(q) \subseteq TypesIn(packet)
        /\ OfTypes(q, U) = OfTypes(packet, U)
        /\ TypesIn(q) \cap T = {} \/ Len(q) + j <= n
    BY <1>4
  <2> HIDE DEF q, r, U, n
  <2>4. Good(r, j + 1)
    <3>1. CASE TypesIn(q) \cap T = {}
      <4>1. r = q BY <2>2, <3>1 DEF WithoutFirst
      <4>. QED BY <2>3, <3>1, <4>1
    <3>2. CASE TypesIn(q) \cap T # {}
      <4>1. PICK t \in TypesIn(q) \cap T : r = RemoveOption(q, t)
        BY <2>2, <2>3, <3>2, WithoutFirstOf
      <4>2. r \in Packets BY <2>3, <4>1, RemoveOptionPacket
      <4>3. t \notin U BY DEF U
      <4>4. /\ OfTypes(r, U) = OfTypes(q, U) /\ TypesIn(r) \subseteq TypesIn(q)
            /\ Len(r) \in Nat /\ Len(r) < Len(q)
        BY <2>3, <4>1, <4>3, RemoveOptionOf
      <4>5. Len(q) \in Nat BY <2>3, InPacket
      <4>6. Len(r) + (j + 1) <= n BY <1>1, <2>3, <3>2, <4>4, <4>5
      <4>. QED BY <2>3, <4>2, <4>4, <4>6
    <3>. QED BY <3>1, <3>2
  <2> HIDE DEF Good
  <2>. QED BY <2>1, <2>4 DEF r
<1>5. n \in S
  <2> HIDE DEF S, n
  <2>1. n \in 0..n BY <1>1
  <2>. QED BY <1>1, <1>3, <1>4, <2>1, UpTo
<1> DEFINE w == f[n]
<1>6. /\ w \in Packets /\ TypesIn(w) \subseteq TypesIn(packet)
      /\ OfTypes(w, U) = OfTypes(packet, U)
      /\ TypesIn(w) \cap T = {} \/ Len(w) + n <= n
  BY <1>5
<1> HIDE DEF w, n
<1>7. TypesIn(w) \cap T = {}
  <2>1. Len(w) \in Nat /\ DOMAIN w = 1..Len(w) BY <1>6, InPacket
  <2>2. ASSUME Len(w) = 0 PROVE TypesIn(w) = {} BY <2>1, <2>2 DEF TypesIn
  <2>. QED BY <1>1, <1>6, <2>1, <2>2
<1>8. OfTypes(w, U) = w BY <1>6, <1>7, OfAllTypes
<1>. QED BY <1>2, <1>6, <1>8 DEF w

----------------------------------------------------------------------------
(* What the peer sends, and what it gets *)

\* An option of the peer's is an option; of its authentication options there are two.
LEMMA PeerOptionOf ==
  ASSUME NEW l \in Layers, NEW o \in PeerOptions(l)
  PROVE  /\ o \in Option
         /\ o = CHAP \/ Len(o.data) = Lengths(l, o.type)
         /\ l = "LCP" /\ o.type = 3 => o = PAP \/ o = CHAP
<1>1. /\ <<192, 35>> \in Seq(0..255) /\ Len(<<192, 35>>) = 2
      /\ <<194, 35, 5>> \in Seq(0..255)
  OBVIOUS
<1>2. PAP \in Option /\ CHAP \in Option BY <1>1 DEF PAP, CHAP, Option
<1>3. Lengths("LCP", 3) = 2 BY DEF Lengths
<1>4. CASE o = PAP \/ o = CHAP
  <2>1. o = PAP => l = "LCP" \/ o \notin {PAP, CHAP} \/ l = "IPCP" BY DEF Layers
  <2>2. PAP.type = 3 /\ Len(PAP.data) = 2 BY <1>1 DEF PAP
  <2>3. CASE l = "LCP" BY <1>2, <1>3, <1>4, <2>2, <2>3
  <2>4. CASE l = "IPCP"
    <3>1. PICK t \in IpcpTypes, v \in OptionBytes :
            o = [type |-> t, data |-> Filled(v, Lengths(l, t))]
      BY <2>4 DEF PeerOptions
    <3>2. Lengths(l, t) = 4 BY <2>4 DEF Lengths
    <3>3. Len(Filled(v, 4)) = 4 BY DEF Filled
    <3>4. o.type = t /\ Len(o.data) = 4 BY <3>1, <3>2, <3>3
    <3>. QED BY <1>2, <1>4, <2>4, <3>2, <3>4
  <2>. QED BY <2>3, <2>4 DEF Layers
<1>5. CASE o # PAP /\ o # CHAP
  <2>1. PICK t \in 1..255, v \in 0..255 :
          /\ o = [type |-> t, data |-> Filled(v, Lengths(l, t))]
          /\ l = "LCP" => t # 3
    <3>1. LcpTypes \subseteq 1..255 /\ IpcpTypes \subseteq 1..255 /\ OptionBytes \subseteq 0..255
      BY OptionsAssumption
    <3>2. CASE l = "LCP"
      <4>1. PICK t \in LcpTypes \ {3}, v \in OptionBytes :
              o = [type |-> t, data |-> Filled(v, Lengths(l, t))]
        BY <1>5, <3>2 DEF PeerOptions
      <4>. QED BY <3>1, <4>1
    <3>3. CASE l # "LCP"
      <4>1. PICK t \in IpcpTypes, v \in OptionBytes :
              o = [type |-> t, data |-> Filled(v, Lengths(l, t))]
        BY <1>5, <3>3 DEF PeerOptions
      <4>. QED BY <3>1, <3>3, <4>1
    <3>. QED BY <3>2, <3>3
  <2> DEFINE n == Lengths(l, t)
  <2>2. n \in Nat BY DEF Lengths
  <2> HIDE DEF n
  <2>3. Filled(v, n) \in Seq(0..255) /\ Len(Filled(v, n)) = n BY <2>2 DEF Filled
  <2>4. o = [type |-> t, data |-> Filled(v, n)] BY <2>1 DEF n
  <2>5. o \in Option /\ o.type = t /\ Len(o.data) = n BY <2>3, <2>4 DEF Option
  <2>. QED BY <2>1, <2>5 DEF n
<1>. QED BY <1>4, <1>5

\* A packet of the peer's is a packet of the peer's options.
LEMMA PeerPacketOf ==
  ASSUME NEW l \in Layers, NEW p \in PeerPackets(l)
  PROVE  p \in Packets /\ \A j \in DOMAIN p : p[j] \in PeerOptions(l)
<1>1. PICK n \in 0..MaxOptions : p \in [1..n -> PeerOptions(l)] BY DEF PeerPackets
<1>2. n \in Nat BY <1>1, OptionsAssumption
<1>3. PeerOptions(l) \subseteq Option BY PeerOptionOf
<1>4. p \in [1..n -> Option] BY <1>1, <1>3
<1>5. p \in Packets
  <2>1. p \in Seq(Option) BY <1>2, <1>4
  <2>. QED BY <2>1 DEF Packets
<1>. QED BY <1>1, <1>5

\* A request of the peer's is answered with what is wrong with it.
LEMMA RequestAnswered ==
  ASSUME NEW l \in Layers, NEW packet \in PeerPackets(l)
  PROVE  LET unsupported    == OfTypes(packet, TypesIn(packet) \ SupportedOptions(l))
             authentication == OfTypes(packet, IF l = "LCP" THEN {3} ELSE {})
         IN  AnswerTo(l, packet) =
               IF unsupported # <<>> THEN [code |-> "REJ", packet |-> unsupported]
               ELSE IF \E j \in DOMAIN authentication : authentication[j] # PAP
               THEN [code |-> "NAK", packet |-> ChangeOption(authentication, PAP)]
               ELSE [code |-> "ACK", packet |-> packet]
<1> DEFINE supported == SupportedOptions(l)
           unsupported == OfTypes(packet, TypesIn(packet) \ supported)
           authentication == OfTypes(packet, IF l = "LCP" THEN {3} ELSE {})
           rej == TestForREJ(packet, supported)
           nak == TestForNAK(rej.packet, PAP)
           Other == \E j \in DOMAIN authentication : authentication[j] # PAP
<1>1. packet \in Packets /\ \A j \in DOMAIN packet : packet[j] \in PeerOptions(l)
  BY PeerPacketOf
<1>2. rej.bad <=> TypesIn(packet) \ supported # {} BY DEF TestForREJ
<1>3. rej.packet = IF TypesIn(packet) \subseteq supported THEN packet
                   ELSE Without(packet, supported)
  BY DEF TestForREJ
<1>4. Without(packet, supported) = unsupported BY <1>1, OthersLeft
<1>5. unsupported # <<>> <=> TypesIn(packet) \ supported # {}
  <2>1. TypesIn(unsupported) = TypesIn(packet) \cap (TypesIn(packet) \ supported)
    BY <1>1, OfTypesFrom
  <2>2. CASE TypesIn(packet) \ supported # {} BY <2>1, <2>2, TypesEmpty
  <2>3. CASE TypesIn(packet) \ supported = {}
    <3>1. TypesIn(packet) \cap (TypesIn(packet) \ supported) = {} BY <2>3
    <3>2. unsupported = <<>> BY <1>1, <3>1, OfNoTypes
    <3>. QED BY <2>3, <3>2
  <2>. QED BY <2>2, <2>3
<1>6. PAP.type = 3 /\ DOMAIN PAP.data = {1, 2} /\ PAP.data[1] = 192 /\ PAP.data[2] = 35
  BY DEF PAP
<1>7. CHAP.type = 3 /\ CHAP.data[1] = 194 BY DEF CHAP
<1>8. AnswerTo(l, packet) = IF rej.bad THEN [code |-> "REJ", packet |-> rej.packet]
                            ELSE IF l = "LCP" /\ nak.bad
                            THEN [code |-> "NAK", packet |-> nak.packet]
                            ELSE [code |-> "ACK", packet |-> packet]
  BY Zenon DEF AnswerTo
<1>9. nak.bad <=> \E j \in DOMAIN rej.packet :
                    /\ rej.packet[j].type = PAP.type
                    /\ \E k \in DOMAIN PAP.data : rej.packet[j].data[k] # PAP.data[k]
  BY Zenon DEF TestForNAK
<1>10. nak.bad => nak.packet = OnlyOption(rej.packet, PAP) BY DEF TestForNAK
<1> HIDE DEF rej, nak, supported
<1>11. CASE TypesIn(packet) \ supported # {}
  <2>1. rej.bad /\ rej.packet = unsupported BY <1>2, <1>3, <1>4, <1>11
  <2>2. AnswerTo(l, packet) = [code |-> "REJ", packet |-> unsupported] BY <1>8, <2>1, Zenon
  <2>. QED BY <1>5, <1>11, <2>2 DEF supported
<1>12. CASE TypesIn(packet) \ supported = {}
  <2>1. ~rej.bad /\ rej.packet = packet /\ unsupported = <<>> BY <1>2, <1>3, <1>5, <1>12
  <2>2. CASE l # "LCP"
    <3>1. authentication = <<>>
      <4>1. TypesIn(packet) \cap {} = {} OBVIOUS
      <4>. QED BY <1>1, <2>2, <4>1, OfNoTypes
    <3>2. ~Other BY <3>1
    <3>3. AnswerTo(l, packet) = [code |-> "ACK", packet |-> packet] BY <1>8, <2>1, <2>2, Zenon
    <3> HIDE DEF unsupported, authentication
    <3>. QED BY <2>1, <3>2, <3>3, Zenon DEF unsupported, authentication, supported
  <2>3. CASE l = "LCP"
    <3>1. authentication = OfTypes(packet, {3}) BY <2>3
    <3>2. \A o : Contains(authentication, o) <=> Contains(packet, o) /\ o.type \in {3}
      BY <1>1, <3>1, OfTypesFrom
    <3>3. Other <=> \E o : Contains(authentication, o) /\ o # PAP
      <4> HIDE DEF authentication
      <4>1. Other => \E o : Contains(authentication, o) /\ o # PAP
        <5>1. SUFFICES ASSUME Other PROVE \E o : Contains(authentication, o) /\ o # PAP
          OBVIOUS
        <5>2. PICK j \in DOMAIN authentication : authentication[j] # PAP BY <5>1
        <5>3. Contains(authentication, authentication[j]) BY DEF Contains
        <5>. QED BY <5>2, <5>3
      <4>2. ASSUME NEW o, Contains(authentication, o), o # PAP PROVE Other
        BY <4>2 DEF Contains
      <4>. QED BY <4>1, <4>2
    <3>4. \A o : Contains(packet, o) /\ o.type = 3 => o = PAP \/ o = CHAP
      BY <1>1, <2>3, PeerOptionOf DEF Contains
    <3>5. nak.bad <=> Other
      <4>1. ASSUME nak.bad PROVE Other
        <5>1. PICK j \in DOMAIN packet :
                packet[j].type = 3 /\ \E k \in {1, 2} : packet[j].data[k] # PAP.data[k]
          BY <1>6, <1>9, <2>1, <4>1
        <5>2. Contains(packet, packet[j]) /\ packet[j] # PAP BY <5>1 DEF Contains
        <5>3. Contains(authentication, packet[j]) BY <3>2, <5>1, <5>2
        <5>. QED BY <3>3, <5>2, <5>3
      <4>2. ASSUME Other PROVE nak.bad
        <5>1. PICK o : Contains(authentication, o) /\ o # PAP BY <3>3, <4>2
        <5>2. Contains(packet, o) /\ o.type = 3 BY <3>2, <5>1
        <5>3. o = CHAP BY <3>4, <5>1, <5>2
        <5>4. PICK j \in DOMAIN packet : packet[j] = CHAP BY <5>2, <5>3 DEF Contains
        <5>5. 1 \in DOMAIN PAP.data /\ packet[j].type = PAP.type
              /\ packet[j].data[1] # PAP.data[1]
          BY <1>6, <1>7, <5>4
        <5>. QED BY <1>9, <2>1, <5>4, <5>5
      <4>. QED BY <4>1, <4>2
    <3>6. OnlyOption(packet, PAP) = ChangeOption(authentication, PAP)
      <4>1. Without(packet, TypesIn(packet) \ {3}) =
              OfTypes(packet, TypesIn(packet) \ (TypesIn(packet) \ {3}))
        BY <1>1, OthersLeft
      <4>2. TypesIn(packet) \cap (TypesIn(packet) \ (TypesIn(packet) \ {3}))
              = TypesIn(packet) \cap {3}
        OBVIOUS
      <4>3. OfTypes(packet, TypesIn(packet) \ (TypesIn(packet) \ {3})) = OfTypes(packet, {3})
        BY <1>1, <4>2, OfTypesSame
      <4> HIDE DEF authentication
      <4>. QED BY <1>6, <3>1, <4>1, <4>3, Zenon DEF OnlyOption
    <3> HIDE DEF authentication, Other
    <3>7. CASE nak.bad
      <4>1. nak.packet = ChangeOption(authentication, PAP) BY <1>10, <2>1, <3>6, <3>7
      <4>2. AnswerTo(l, packet) = [code |-> "NAK", packet |-> ChangeOption(authentication, PAP)]
        BY <1>8, <2>1, <2>3, <3>7, <4>1, Zenon
      <4>3. Other BY <3>5, <3>7
      <4> HIDE DEF unsupported
      <4>. QED BY <2>1, <4>2, <4>3, Zenon DEF unsupported, authentication, supported, Other
    <3>8. CASE ~nak.bad
      <4>1. AnswerTo(l, packet) = [code |-> "ACK", packet |-> packet]
        BY <1>8, <2>1, <3>8, Zenon
      <4>2. ~Other BY <3>5, <3>8
      <4> HIDE DEF unsupported
      <4>. QED BY <2>1, <4>1, <4>2, Zenon DEF unsupported, authentication, supported, Other
    <3>. QED BY <3>7, <3>8
  <2>. QED BY <2>2, <2>3
<1>. QED BY <1>11, <1>12

----------------------------------------------------------------------------
(* Our request *)

\* Requests as they have to be: each option once, its data as long as its type says
Requests(l) == {p \in Packets : /\ Distinct(p)
                                /\ \A j \in 1..Len(p) : Len(p[j].data) = Lengths(l, p[j].type)
                                /\ LengthOf(p) <= OUTGOING_PACKET_BUFFER_SIZE}

\* An option of such a request is replaced whole.
LEMMA OptionChanged ==
  ASSUME NEW l \in Layers, NEW p \in Requests(l),
         NEW o \in Option, Len(o.data) = Lengths(l, o.type)
  PROVE  /\ ChangeOption(p, o) \in Packets /\ Len(ChangeOption(p, o)) = Len(p)
         /\ \A m \in 1..Len(p) : ChangeOption(p, o)[m] = IF p[m].type = o.type THEN o ELSE p[m]
<1> DEFINE n == Len(p)
           q == [m \in 1..n |-> IF p[m].type = o.type THEN o ELSE p[m]]
<1>1. p \in Packets /\ \A j \in 1..n : Len(p[j].data) = Lengths(l, p[j].type) BY DEF Requests
<1>2. n \in Nat /\ DOMAIN p = 1..n /\ \A j \in 1..n : p[j] \in Option BY <1>1, InPacket
<1>3. ASSUME NEW m \in 1..n, p[m].type = o.type
      PROVE  [p[m] EXCEPT !.data = [k \in DOMAIN @ |-> IF k <= Len(o.data)
                                                       THEN o.data[k] ELSE @[k]]] = o
  <2> DEFINE r == p[m]
             d == [k \in DOMAIN r.data |-> IF k <= Len(o.data) THEN o.data[k] ELSE r.data[k]]
  <2>1. r \in Option /\ r.type = o.type /\ Len(r.data) = Len(o.data) BY <1>1, <1>2, <1>3
  <2> HIDE DEF r
  <2>2. r.data \in Seq(0..255) /\ o.data \in Seq(0..255) BY <2>1 DEF Option
  <2>3. DOMAIN r.data = 1..Len(o.data) /\ DOMAIN o.data = 1..Len(o.data) /\ Len(o.data) \in Nat
    BY <2>1, <2>2
  <2>4. \A k \in DOMAIN r.data : d[k] = o.data[k] BY <2>3
  <2>5. d = o.data
    <3>1. DOMAIN d = DOMAIN o.data BY <2>3
    <3>2. o.data = [k \in DOMAIN o.data |-> o.data[k]] BY <2>2
    <3> DEFINE a == o.data
    <3>. QED BY <2>3, <2>4, <3>2
  <2>6. [r EXCEPT !.data = d] = [type |-> r.type, data |-> d] BY <2>1 DEF Option
  <2>7. o = [type |-> o.type, data |-> o.data] BY DEF Option
  <2>8. [r EXCEPT !.data = d] = o BY <2>1, <2>5, <2>6, <2>7
  <2>. QED BY <2>8 DEF r
<1>4. ChangeOption(p, o) = q BY <1>2, <1>3 DEF ChangeOption
<1>5. q \in [1..n -> Option] BY <1>2
<1>6. q \in Packets /\ Len(q) = n
  <2> HIDE DEF q
  <2>. QED BY <1>2, <1>5 DEF Packets
<1>. QED BY <1>4, <1>6

\* The request stays so when the peer asks for an option: the option is in it then, if it
\* fits, and no other option has changed.
LEMMA OptionProcessed ==
  ASSUME NEW l \in Layers, NEW p \in Requests(l),
         NEW o \in Option, Len(o.data) = Lengths(l, o.type)
  PROVE  LET q == ProcessOption(p, o)
         IN  /\ q \in Requests(l) /\ TypesIn(p) \subseteq TypesIn(q)
             /\ \A m \in 1..Len(q) : q[m] = o \/ (q[m].type # o.type /\ Contains(p, q[m]))
             /\ p # <<>> => q # <<>> /\ q[1].type = p[1].type
<1> DEFINE n == Len(p)
           q == ProcessOption(p, o)
<1>1. /\ p \in Packets /\ Distinct(p) /\ LengthOf(p) <= OUTGOING_PACKET_BUFFER_SIZE
      /\ \A j \in 1..n : Len(p[j].data) = Lengths(l, p[j].type)
  BY DEF Requests
<1>2. n \in Nat /\ DOMAIN p = 1..n BY <1>1, InPacket
<1>3. p # <<>> => 1 \in 1..n BY <1>1, <1>2 DEF Packets
<1>4. \A t : t \in TypesIn(p) <=> \E j \in 1..n : p[j].type = t BY <1>2 DEF TypesIn
<1>5. CASE o.type \in TypesIn(p)
  <2>1. q = ChangeOption(p, o) BY <1>5, Zenon DEF ProcessOption, CheckForOption
  <2>2. /\ q \in Packets /\ Len(q) = n
        /\ \A m \in 1..n : q[m] = IF p[m].type = o.type THEN o ELSE p[m]
    BY <2>1, OptionChanged
  <2> HIDE DEF q
  <2>3. DOMAIN q = 1..n BY <2>2, InPacket
  <2>4. \A m \in 1..n : q[m].type = p[m].type /\ Len(q[m].data) = Len(p[m].data)
    BY <1>1, <2>2
  <2>5. Distinct(q)
    <3>1. \A j, k \in 1..n : p[j].type = p[k].type => j = k BY <1>1, <1>2, Zenon DEF Distinct
    <3>2. \A j, k \in DOMAIN q : q[j].type = q[k].type => j = k BY <2>3, <2>4, <3>1
    <3>. QED BY <3>2, Zenon DEF Distinct
  <2>6. LengthOf(q) = LengthOf(p) BY <1>1, <2>2, <2>4, LengthSame
  <2>7. q \in Requests(l) BY <1>1, <2>2, <2>4, <2>5, <2>6 DEF Requests
  <2>8. \A t : t \in TypesIn(q) <=> \E j \in 1..n : q[j].type = t BY <2>3 DEF TypesIn
  <2>9. TypesIn(p) \subseteq TypesIn(q) BY <1>4, <2>4, <2>8
  <2>10. \A m \in 1..n : q[m] = o \/ (q[m].type # o.type /\ Contains(p, q[m]))
    <3>1. ASSUME NEW m \in 1..n, q[m] # o PROVE q[m].type # o.type /\ Contains(p, q[m])
      <4>1. q[m] = p[m] /\ p[m].type # o.type BY <2>2, <3>1
      <4>2. Contains(p, p[m]) BY <1>2 DEF Contains
      <4>. QED BY <4>1, <4>2
    <3>. QED BY <3>1
  <2>11. p # <<>> => q # <<>> /\ q[1].type = p[1].type
    <3>1. q = <<>> => n = 0 BY <2>2
    <3>. QED BY <1>3, <2>4, <3>1
  <2>. QED BY <2>2, <2>7, <2>9, <2>10, <2>11 DEF q
<1>6. CASE o.type \notin TypesIn(p)
  <2>1. \A m \in 1..n : p[m].type # o.type /\ Contains(p, p[m])
    BY <1>2, <1>4, <1>6 DEF Contains
  <2> DEFINE large == LengthOf(p) + 2 + Len(o.data) > OUTGOING_PACKET_BUFFER_SIZE
  <2>2. q = IF large THEN p ELSE Append(p, o)
    BY <1>6, Zenon DEF ProcessOption, CheckForOption, AddOption
  <2>3. CASE large
    <3>1. q = p BY <2>2, <2>3
    <3>. QED BY <2>1, <3>1
  <2>4. CASE ~large
    <3>1. q = Append(p, o) BY <2>2, <2>4
    <3> HIDE DEF q
    <3>2. /\ q \in Packets /\ Len(q) = n + 1 /\ q[n + 1] = o
          /\ \A j \in 1..n : q[j] = p[j]
      BY <1>1, <3>1, Appended
    <3>3. Distinct(q) BY <1>1, <1>6, <3>1, DistinctAppended
    <3>4. LengthOf(p) \in Nat /\ LengthOf(q) = LengthOf(p) + 2 + Len(o.data)
      BY <1>1, <3>1, LengthAppended
    <3>5. Len(o.data) \in Nat /\ OUTGOING_PACKET_BUFFER_SIZE \in Nat
      BY OptionsAssumption DEF Option
    <3>6. LengthOf(q) <= OUTGOING_PACKET_BUFFER_SIZE BY <2>4, <3>4, <3>5
    <3>7. \A m \in 1..Len(q) : m \in 1..n \/ m = n + 1 BY <1>2, <3>2
    <3>8. \A m \in 1..Len(q) : Len(q[m].data) = Lengths(l, q[m].type)
      BY <1>1, <3>2, <3>7
    <3>9. q \in Requests(l) BY <3>2, <3>3, <3>6, <3>8 DEF Requests
    <3>10. TypesIn(p) \subseteq TypesIn(q) BY <1>1, <3>1, TypesAppended
    <3>11. \A m \in 1..Len(q) : q[m] = o \/ (q[m].type # o.type /\ Contains(p, q[m]))
      <4>1. ASSUME NEW m \in 1..Len(q), q[m] # o PROVE q[m].type # o.type /\ Contains(p, q[m])
        <5>1. m \in 1..n /\ q[m] = p[m] BY <3>2, <3>7, <4>1
        <5>. QED BY <2>1, <5>1
      <4>. QED BY <4>1
    <3>12. p # <<>> => q # <<>> /\ q[1].type = p[1].type
      <4>1. q = <<>> => Len(q) = 0 OBVIOUS
      <4>2. q # <<>> BY <1>2, <3>2, <4>1
      <4>. QED BY <1>3, <3>2, <4>2
    <3>. QED BY <3>9, <3>10, <3>11, <3>12 DEF q
  <2>. QED BY <2>3, <2>4
<1>. QED BY <1>5, <1>6

IsNAK(f, packet, nak) ==
  f = [j \in 0..Len(nak) |-> IF j = 0 THEN packet ELSE ProcessOption(f[j - 1], nak[j])]

\* How ProcessNAK goes through what is asked for
LEMMA ProcessNAKIs ==
  ASSUME NEW l \in Layers, NEW packet \in Requests(l), NEW nak \in Packets,
         \A j \in 1..Len(nak) : Len(nak[j].data) = Lengths(l, nak[j].type)
  PROVE  \E f : /\ f[0] = packet
                /\ \A j \in 1..Len(nak) : f[j] = ProcessOption(f[j - 1], nak[j])
                /\ ProcessNAK(packet, nak) = f[Len(nak)]
<1> DEFINE n == Len(nak)
           g == [jv \in (1..n) \X Requests(l) |-> ProcessOption(jv[2], nak[jv[1]])]
           c == CHOOSE f1 : IsNAK(f1, packet, nak)
<1>1. n \in Nat /\ \A j \in 1..n : nak[j] \in Option BY InPacket
<1>2. g \in [(1..n) \X Requests(l) -> Requests(l)]
  <2>1. ASSUME NEW jv \in (1..n) \X Requests(l)
        PROVE  ProcessOption(jv[2], nak[jv[1]]) \in Requests(l)
    <3>1. jv[1] \in 1..n /\ jv[2] \in Requests(l) OBVIOUS
    <3>. QED BY <1>1, <3>1, OptionProcessed
  <2>. QED BY <2>1
<1>0. \E f : Iteration(f, n, Requests(l), packet, g)
  <2> HIDE DEF g, n
  <2>. QED BY <1>1, <1>2, Iterated
<1>3. PICK f : /\ f \in [0..n -> Requests(l)] /\ f[0] = packet
               /\ \A j \in 1..n : f[j] = g[<<j, f[j - 1]>>]
  BY <1>0, Zenon DEF Iteration
<1>4. ASSUME NEW j \in 1..n PROVE f[j] = ProcessOption(f[j - 1], nak[j])
  <2>1. j - 1 \in 0..n BY <1>1
  <2>2. f[j - 1] \in Requests(l) BY <1>3, <2>1
  <2>. QED BY <1>3, <2>2
<1> HIDE DEF g
<1>5. IsNAK(f, packet, nak)
  <2>1. ASSUME NEW j \in 0..n
        PROVE  f[j] = IF j = 0 THEN packet ELSE ProcessOption(f[j - 1], nak[j])
    <3>1. j = 0 \/ j \in 1..n BY <1>1
    <3>. QED BY <1>3, <1>4, <3>1
  <2>. QED BY <1>3, <2>1, Zenon DEF IsNAK
<1>6. IsNAK(c, packet, nak) BY <1>5
<1>7. ProcessNAK(packet, nak) = c[n] BY DEF ProcessNAK, IsNAK
<1> HIDE DEF c
<1>8. \A j \in 0..n : c[j] = IF j = 0 THEN packet ELSE ProcessOption(c[j - 1], nak[j])
  BY <1>6, Zenon DEF IsNAK
<1>9. c[0] = packet /\ \A j \in 1..n : c[j] = ProcessOption(c[j - 1], nak[j]) BY <1>1, <1>8
<1>. QED BY <1>7, <1>9

\* DataByType is the data of the last option of a type.
LEMMA DataIs ==
  ASSUME NEW s \in Packets, NEW i \in 1..Len(s),
         \A k \in 1..Len(s) : s[k].type = s[i].type => k <= i
  PROVE  s[i].type \in TypesIn(s) /\ DataByType(s)[s[i].type] = s[i].data
<1> DEFINE t == s[i].type
           Last(j) == s[j].type = t /\ \A k \in DOMAIN s : s[k].type = t => k <= j
           c == CHOOSE j \in DOMAIN s : Last(j)
<1>1. Len(s) \in Nat /\ DOMAIN s = 1..Len(s) BY InPacket
<1>2. i \in DOMAIN s /\ Last(i) BY <1>1
<1>3. c \in DOMAIN s /\ Last(c)
  <2> HIDE DEF Last
  <2>. QED BY <1>2, Zenon
<1>4. c = i BY <1>1, <1>2, <1>3
<1>5. t \in TypesIn(s) BY <1>1 DEF TypesIn
<1>6. DataByType(s)[t] = s[c].data BY <1>5 DEF DataByType
<1>. QED BY <1>4, <1>5, <1>6

\* A NAK with options of the lengths we use leaves a request in order, with all options it
\* had and the same one first; what the NAK asks for is what it asked for last.
LEMMA RequestedOptions ==
  ASSUME NEW l \in Layers, NEW packet \in Requests(l), NEW nak \in Packets,
         \A j \in 1..Len(nak) : Len(nak[j].data) = Lengths(l, nak[j].type)
  PROVE  LET q == ProcessNAK(packet, nak)
         IN  /\ q \in Requests(l) /\ TypesIn(packet) \subseteq TypesIn(q)
             /\ packet # <<>> => q # <<>> /\ q[1].type = packet[1].type
             /\ \A m \in 1..Len(q) :
                  IF q[m].type \in TypesIn(nak)
                  THEN q[m].data = DataByType(nak)[q[m].type]
                  ELSE Contains(packet, q[m])
<1> DEFINE n == Len(nak)
           From(o, j) ==
             \/ Contains(packet, o) /\ \A i \in 1..j : nak[i].type # o.type
             \/ \E i \in 1..j : o = nak[i] /\ \A k \in 1..j : nak[k].type = o.type => k <= i
           Good(q, j) == /\ q \in Requests(l) /\ TypesIn(packet) \subseteq TypesIn(q)
                         /\ packet # <<>> => q # <<>> /\ q[1].type = packet[1].type
                         /\ \A m \in 1..Len(q) : From(q[m], j)
<1>1. n \in Nat /\ DOMAIN nak = 1..n /\ \A j \in 1..n : nak[j] \in Option BY InPacket
<1>2. PICK f : /\ f[0] = packet
               /\ \A j \in 1..n : f[j] = ProcessOption(f[j - 1], nak[j])
               /\ ProcessNAK(packet, nak) = f[n]
  BY ProcessNAKIs
<1>3. packet \in Packets BY DEF Requests
<1> DEFINE S == {j \in 0..n : Good(f[j], j)}
<1>4. 0 \in S
  <2>1. \A m \in 1..Len(packet) : Contains(packet, packet[m]) BY <1>3, InPacket DEF Contains
  <2>2. 1..0 = {} OBVIOUS
  <2>3. \A m \in 1..Len(packet) : From(packet[m], 0) BY <2>1, <2>2
  <2> HIDE DEF From
  <2>. QED BY <1>1, <1>2, <2>3
<1>5. ASSUME NEW j \in 0..n, j \in S, j < n PROVE j + 1 \in S
  <2> DEFINE o == nak[j + 1]
             p == f[j]
             q == f[j + 1]
  <2>1. j + 1 \in 1..n /\ (j + 1) - 1 = j /\ j + 1 \in 0..n BY <1>1, <1>5
  <2>2. o \in Option /\ Len(o.data) = Lengths(l, o.type) BY <1>1, <2>1
  <2>3. q = ProcessOption(p, o) BY <1>2, <2>1
  <2>4. Good(p, j) BY <1>5
  <2> HIDE DEF o, p, q
  <2>5. /\ q \in Requests(l) /\ TypesIn(p) \subseteq TypesIn(q)
        /\ \A m \in 1..Len(q) : q[m] = o \/ (q[m].type # o.type /\ Contains(p, q[m]))
        /\ p # <<>> => q # <<>> /\ q[1].type = p[1].type
    BY <2>2, <2>3, <2>4, OptionProcessed
  <2>6. \A i : i \in 1..(j + 1) <=> i \in 1..j \/ i = j + 1 BY <2>1
  <2>7. ASSUME NEW m \in 1..Len(q) PROVE From(q[m], j + 1)
    <3> DEFINE r == q[m]
    <3>1. CASE r = o
      <4>1. j + 1 \in 1..(j + 1) /\ r = nak[j + 1] BY <2>1, <3>1 DEF o
      <4>2. \A k \in 1..(j + 1) : k <= j + 1 BY <2>1
      <4>. QED BY <4>1, <4>2
    <3>2. CASE r.type # o.type /\ Contains(p, r)
      <4>1. From(r, j)
        <5>1. PICK k \in DOMAIN p : p[k] = r BY <3>2 DEF Contains
        <5>2. p \in Packets BY <2>4 DEF Requests
        <5>3. k \in 1..Len(p) BY <5>1, <5>2, InPacket
        <5> HIDE DEF From
        <5>. QED BY <2>4, <5>1, <5>3
      <4> HIDE DEF r
      <4>2. CASE Contains(packet, r) /\ \A i \in 1..j : nak[i].type # r.type
        <5>1. \A i \in 1..(j + 1) : nak[i].type # r.type BY <2>6, <3>2, <4>2 DEF o
        <5>2. From(r, j + 1) BY <4>2, <5>1
        <5>. QED BY <5>2 DEF r
      <4>3. CASE \E i \in 1..j : r = nak[i] /\ \A k \in 1..j : nak[k].type = r.type => k <= i
        <5>1. PICK i \in 1..j : r = nak[i] /\ \A k \in 1..j : nak[k].type = r.type => k <= i
          BY <4>3
        <5>2. \A k \in 1..(j + 1) : nak[k].type = r.type => k <= i
          BY <2>6, <3>2, <5>1 DEF o
        <5>3. i \in 1..(j + 1) BY <2>6
        <5>4. From(r, j + 1) BY <5>1, <5>2, <5>3
        <5>. QED BY <5>4 DEF r
      <4>. QED BY <4>1, <4>2, <4>3
    <3>. QED BY <2>5, <3>1, <3>2
  <2> HIDE DEF From
  <2>8. Good(q, j + 1) BY <2>4, <2>5, <2>7
  <2>. QED BY <2>1, <2>8 DEF q
<1> DEFINE q == ProcessNAK(packet, nak)
<1>6. Good(q, n)
  <2>1. n \in 0..n BY <1>1
  <2>2. n \in S
    <3> HIDE DEF S, n
    <3>. QED BY <1>1, <1>4, <1>5, <2>1, UpTo
  <2>3. Good(f[n], n) BY <2>2
  <2> HIDE DEF Good
  <2>. QED BY <1>2, <2>3
<1> HIDE DEF q
<1>7. ASSUME NEW m \in 1..Len(q)
      PROVE  IF q[m].type \in TypesIn(nak)
             THEN q[m].data = DataByType(nak)[q[m].type]
             ELSE Contains(packet, q[m])
  <2> DEFINE r == q[m]
  <2>1. From(r, n) BY <1>6
  <2> HIDE DEF r
  <2>2. \A t : t \in TypesIn(nak) <=> \E i \in 1..n : nak[i].type = t BY <1>1 DEF TypesIn
  <2>3. CASE Contains(packet, r) /\ \A i \in 1..n : nak[i].type # r.type
    <3>1. r.type \notin TypesIn(nak) BY <2>2, <2>3
    <3>. QED BY <2>3, <3>1 DEF r
  <2>4. CASE \E i \in 1..n : r = nak[i] /\ \A k \in 1..n : nak[k].type = r.type => k <= i
    <3>1. PICK i \in 1..n : r = nak[i] /\ \A k \in 1..n : nak[k].type = r.type => k <= i
      BY <2>4
    <3>2. nak[i].type \in TypesIn(nak) /\ DataByType(nak)[nak[i].type] = nak[i].data
      BY <3>1, DataIs
    <3>. QED BY <3>1, <3>2 DEF r
  <2>. QED BY <2>1, <2>3, <2>4
<1>. QED BY <1>6, <1>7 DEF q

----------------------------------------------------------------------------
(* The request at first, and after a REJ *)

\* Of a packet with each option once DataByType is the data of each.
LEMMA DataDistinct ==
  ASSUME NEW s \in Packets, Distinct(s)
  PROVE  /\ DataByType(s) = [t \in TypesIn(s) |-> DataByType(s)[t]]
         /\ \A m \in 1..Len(s) : DataByType(s)[s[m].type] = s[m].data
<1>1. DataByType(s) = [t \in TypesIn(s) |-> DataByType(s)[t]] BY DEF DataByType
<1>2. ASSUME NEW m \in 1..Len(s) PROVE DataByType(s)[s[m].type] = s[m].data
  <2>1. Len(s) \in Nat /\ DOMAIN s = 1..Len(s) BY InPacket
  <2>2. \A k \in 1..Len(s) : s[k].type = s[m].type => k = m BY <2>1 DEF Distinct
  <2>3. \A k \in 1..Len(s) : s[k].type = s[m].type => k <= m BY <2>1, <2>2
  <2>. QED BY <2>3, DataIs
<1>. QED BY <1>1, <1>2

IsNew(f, s) == f = [j \in 0..Len(s) |-> IF j = 0 THEN <<>> ELSE AddOption(f[j - 1], s[j])]

\* How NewRequest goes through the options
LEMMA NewRequestIs ==
  ASSUME NEW s \in Packets
  PROVE  \E f \in [0..Len(s) -> Packets] :
           /\ f[0] = <<>>
           /\ \A j \in 1..Len(s) : f[j] = AddOption(f[j - 1], s[j])
           /\ NewRequest(s) = f[Len(s)]
<1> DEFINE n == Len(s)
           g == [jv \in (1..n) \X Packets |-> AddOption(jv[2], s[jv[1]])]
           c == CHOOSE f1 : IsNew(f1, s)
<1>1. n \in Nat /\ \A j \in 1..n : s[j] \in Option BY InPacket
<1>2. g \in [(1..n) \X Packets -> Packets]
  <2>1. ASSUME NEW jv \in (1..n) \X Packets PROVE AddOption(jv[2], s[jv[1]]) \in Packets
    <3>1. jv[1] \in 1..n /\ jv[2] \in Packets OBVIOUS
    <3>. QED BY <1>1, <3>1, Appended DEF AddOption
  <2>. QED BY <2>1
<1>0. \E f : Iteration(f, n, Packets, <<>>, g)
  <2>1. <<>> \in Packets BY NoOption
  <2> HIDE DEF g, n
  <2>. QED BY <1>1, <1>2, <2>1, Iterated
<1>3. PICK f : f \in [0..n -> Packets] /\ f[0] = <<>> /\ \A j \in 1..n : f[j] = g[<<j, f[j - 1]>>]
  BY <1>0, Zenon DEF Iteration
<1>4. ASSUME NEW j \in 1..n PROVE f[j] = AddOption(f[j - 1], s[j])
  <2>1. j - 1 \in 0..n BY <1>1
  <2>2. f[j - 1] \in Packets BY <1>3, <2>1
  <2>. QED BY <1>3, <2>2
<1> HIDE DEF g
<1>5. IsNew(f, s)
  <2>1. ASSUME NEW j \in 0..n PROVE f[j] = IF j = 0 THEN <<>> ELSE AddOption(f[j - 1], s[j])
    <3>1. j = 0 \/ j \in 1..n BY <1>1
    <3>. QED BY <1>3, <1>4, <3>1
  <2>. QED BY <1>3, <2>1, Zenon DEF IsNew
<1>6. IsNew(c, s) BY <1>5
<1>7. NewRequest(s) = c[n] BY DEF NewRequest, IsNew
<1> HIDE DEF c
<1>8. \A j \in 0..n : c[j] = IF j = 0 THEN <<>> ELSE AddOption(c[j - 1], s[j])
  BY <1>6, Zenon DEF IsNew
<1>9. c[0] = <<>> /\ \A j \in 1..n : c[j] = AddOption(c[j - 1], s[j]) BY <1>1, <1>8
<1>10. \A j \in 0..n : c[j] = f[j]
  <2>1. \A j \in 1..n : c[j - 1] = f[j - 1] => c[j] = f[j] BY <1>4, <1>9
  <2>2. c[0] = f[0] BY <1>3, <1>9
  <2> HIDE DEF n
  <2>3. InStep(c, f, n) BY <2>1, <2>2, Zenon DEF InStep
  <2>. QED BY <1>1, <2>3, SameSteps
<1>11. NewRequest(s) = f[n] BY <1>1, <1>7, <1>10
<1>. QED BY <1>3, <1>4, <1>11

\* A new request takes one option after the other.
LEMMA NewRequestAppended ==
  ASSUME NEW s \in Packets, NEW e \in Option
  PROVE  NewRequest(Append(s, e)) = AddOption(NewRequest(s), e)
<1> DEFINE n == Len(s)
           a == Append(s, e)
<1>1. /\ a \in Packets /\ n \in Nat /\ Len(a) = n + 1 /\ a[n + 1] = e
      /\ \A j \in 1..n : a[j] = s[j]
  BY Appended
<1>2. PICK f \in [0..n -> Packets] : /\ f[0] = <<>>
                                     /\ \A j \in 1..n : f[j] = AddOption(f[j - 1], s[j])
                                     /\ NewRequest(s) = f[n]
  BY NewRequestIs
<1> HIDE DEF a
<1>3. PICK h \in [0..(n + 1) -> Packets] :
        /\ h[0] = <<>>
        /\ \A j \in 1..(n + 1) : h[j] = AddOption(h[j - 1], a[j])
        /\ NewRequest(a) = h[n + 1]
  BY <1>1, NewRequestIs
<1> HIDE DEF n
<1>4. \A j \in 0..n : f[j] = h[j]
  <2>1. ASSUME NEW j \in 1..n, f[j - 1] = h[j - 1] PROVE f[j] = h[j]
    <3>1. h[j] = AddOption(h[j - 1], a[j]) BY <1>1, <1>3
    <3>2. a[j] = s[j] BY <1>1
    <3>3. f[j] = AddOption(f[j - 1], s[j]) BY <1>2
    <3>. QED BY <2>1, <3>1, <3>2, <3>3
  <2>2. f[0] = h[0] BY <1>2, <1>3
  <2>3. InStep(f, h, n) BY <2>1, <2>2, Zenon DEF InStep
  <2>4. n \in Nat BY <1>1
  <2>. QED BY <2>3, <2>4, SameSteps
<1>5. h[n] = f[n] BY <1>1, <1>4
<1>6. h[n + 1] = AddOption(h[(n + 1) - 1], a[n + 1]) BY <1>1, <1>3
<1>7. (n + 1) - 1 = n BY <1>1
<1>. QED BY <1>1, <1>2, <1>3, <1>5, <1>6, <1>7 DEF a

\* Options that fit are all in it.
LEMMA NewRequestFits ==
  ASSUME NEW s \in Packets, LengthOf(s) <= OUTGOING_PACKET_BUFFER_SIZE
  PROVE  NewRequest(s) = s
<1> DEFINE B == OUTGOING_PACKET_BUFFER_SIZE
           S == {p \in Packets : LengthOf(p) <= B => NewRequest(p) = p}
<1>0. B \in Nat BY OptionsAssumption
<1>1. <<>> \in S BY NoOption, NewRequestIs
<1>2. ASSUME NEW p \in Packets, p \in S, NEW e \in Option PROVE Append(p, e) \in S
  <2>1. ASSUME LengthOf(Append(p, e)) <= B PROVE NewRequest(Append(p, e)) = Append(p, e)
    <3>1. LengthOf(p) \in Nat /\ LengthOf(Append(p, e)) = LengthOf(p) + 2 + Len(e.data)
      BY LengthAppended
    <3>2. Len(e.data) \in Nat BY DEF Option
    <3>3. LengthOf(p) <= B /\ ~(LengthOf(p) + 2 + Len(e.data) > B) BY <1>0, <2>1, <3>1, <3>2
    <3>4. NewRequest(p) = p BY <1>2, <3>3
    <3>5. AddOption(p, e) = Append(p, e) BY <3>3 DEF AddOption
    <3>. QED BY <3>4, <3>5, NewRequestAppended
  <2>. QED BY <2>1, Appended
<1>3. s \in S
  <2> HIDE DEF S
  <2>1. GrowsTo(S) BY <1>1, <1>2 DEF GrowsTo
  <2>. QED BY <2>1, ByPacket
<1>. QED BY <1>3

\* Our options fit, each is there once, with data of its length, and the address comes first.
LEMMA OurRequest ==
  ASSUME NEW l \in Layers
  PROVE  /\ OurOptions(l) \in Requests(l) /\ NewRequest(OurOptions(l)) = OurOptions(l)
         /\ l = "IPCP" => OurOptions(l) # <<>> /\ OurOptions(l)[1].type = 3
<1> DEFINE s == OurOptions(l)
           B == OUTGOING_PACKET_BUFFER_SIZE
<1>1. /\ Filled(0, 4) \in Seq(0..255) /\ Len(Filled(0, 4)) = 4
      /\ <<39, 245, 70, 161>> \in Seq(0..255) /\ Len(<<39, 245, 70, 161>>) = 4
      /\ <<6>> \in Seq(0..255) /\ Len(<<6>>) = 1
      /\ <<>> \in Seq(0..255) /\ Len(<<>>) = 0
  BY DEF Filled
<1> DEFINE none == Filled(0, 4)
           magic == <<39, 245, 70, 161>>
           six == <<6>>
           empty == <<>>
<1>2. /\ none \in Seq(0..255) /\ magic \in Seq(0..255) /\ six \in Seq(0..255)
      /\ empty \in Seq(0..255)
      /\ Len(none) = 4 /\ Len(magic) = 4 /\ Len(six) = 1 /\ Len(empty) = 0
  BY <1>1
<1>3. B >= 23 BY OptionsAssumption
<1>4. CASE l = "LCP"
  <2>1. s = <<[type |-> 2, data |-> none], [type |-> 5, data |-> magic],
              [type |-> 7, data |-> empty], [type |-> 8, data |-> empty],
              [type |-> 13, data |-> six]>>
    BY <1>4 DEF OurOptions
  <2> HIDE DEF s, none, magic, six, empty
  <2>2. s \in Packets /\ Len(s) = 5
    <3>1. /\ [type |-> 2, data |-> none] \in Option /\ [type |-> 5, data |-> magic] \in Option
          /\ [type |-> 7, data |-> empty] \in Option /\ [type |-> 8, data |-> empty] \in Option
          /\ [type |-> 13, data |-> six] \in Option
      BY <1>2 DEF Option
    <3> HIDE DEF Option
    <3>. QED BY <2>1, <3>1 DEF Packets
  <2>3. /\ s[1].type = 2 /\ s[2].type = 5 /\ s[3].type = 7 /\ s[4].type = 8 /\ s[5].type = 13
        /\ s[1].data = none /\ s[2].data = magic /\ s[3].data = empty /\ s[4].data = empty
        /\ s[5].data = six
    BY <2>1
  <2>4. DOMAIN s = 1..5 BY <2>2, InPacket
  <2>5. Distinct(s) BY <2>3, <2>4 DEF Distinct
  <2>6. /\ Lengths(l, 2) = 4 /\ Lengths(l, 5) = 4 /\ Lengths(l, 7) = 0 /\ Lengths(l, 8) = 0
        /\ Lengths(l, 13) = 1
    BY <1>4 DEF Lengths
  <2>12. /\ Len(s[1].data) = 4 /\ Len(s[2].data) = 4 /\ Len(s[3].data) = 0
         /\ Len(s[4].data) = 0 /\ Len(s[5].data) = 1
    BY <1>2, <2>3
  <2>7. ASSUME NEW j \in 1..5 PROVE Len(s[j].data) = Lengths(l, s[j].type)
    <3>1. j = 1 \/ j = 2 \/ j = 3 \/ j = 4 \/ j = 5 OBVIOUS
    <3>. QED BY <2>3, <2>6, <2>12, <3>1
  <2>8. LengthOf(s) = 23
    <3>1. PICK f \in [0..5 -> Nat] : /\ f[0] = 4
                                     /\ \A j \in 1..5 : f[j] = f[j - 1] + 2 + Len(s[j].data)
                                     /\ LengthOf(s) = f[5]
      BY <2>2, LengthOfIs
    <3>2. /\ f[1] = f[1 - 1] + 2 + 4 /\ f[2] = f[2 - 1] + 2 + 4 /\ f[3] = f[3 - 1] + 2 + 0
          /\ f[4] = f[4 - 1] + 2 + 0 /\ f[5] = f[5 - 1] + 2 + 1
      <4>1. 1 \in 1..5 /\ 2 \in 1..5 /\ 3 \in 1..5 /\ 4 \in 1..5 /\ 5 \in 1..5 OBVIOUS
      <4>2. f[1] = f[1 - 1] + 2 + 4 BY <2>12, <3>1, <4>1, Zenon
      <4>3. f[2] = f[2 - 1] + 2 + 4 BY <2>12, <3>1, <4>1, Zenon
      <4>4. f[3] = f[3 - 1] + 2 + 0 BY <2>12, <3>1, <4>1, Zenon
      <4>5. f[4] = f[4 - 1] + 2 + 0 BY <2>12, <3>1, <4>1, Zenon
      <4>6. f[5] = f[5 - 1] + 2 + 1 BY <2>12, <3>1, <4>1, Zenon
      <4>. QED BY <4>2, <4>3, <4>4, <4>5, <4>6
    <3>3. f[1] = 10 BY <3>1, <3>2
    <3>4. f[2] = 16 BY <3>2, <3>3
    <3>5. f[3] = 18 BY <3>2, <3>4
    <3>6. f[4] = 20 BY <3>2, <3>5
    <3>7. f[5] = 23 BY <3>2, <3>6
    <3>. QED BY <3>1, <3>7
  <2>9. LengthOf(s) <= B BY <1>3, <2>8, OptionsAssumption
  <2>10. s \in Requests(l) BY <2>2, <2>5, <2>7, <2>9 DEF Requests
  <2>11. NewRequest(s) = s BY <2>2, <2>9, NewRequestFits
  <2>. QED BY <1>4, <2>10, <2>11 DEF s
<1>5. CASE l = "IPCP"
  <2>1. s = <<[type |-> 3, data |-> none], [type |-> 129, data |-> none],
              [type |-> 131, data |-> none]>>
    BY <1>5 DEF OurOptions
  <2> HIDE DEF s, none, magic, six, empty
  <2>2. s \in Packets /\ Len(s) = 3
    <3>1. /\ [type |-> 3, data |-> none] \in Option /\ [type |-> 129, data |-> none] \in Option
          /\ [type |-> 131, data |-> none] \in Option
      BY <1>2 DEF Option
    <3> HIDE DEF Option
    <3>. QED BY <2>1, <3>1 DEF Packets
  <2>3. /\ s[1].type = 3 /\ s[2].type = 129 /\ s[3].type = 131
        /\ s[1].data = none /\ s[2].data = none /\ s[3].data = none
    BY <2>1
  <2>4. DOMAIN s = 1..3 BY <2>2, InPacket
  <2>5. Distinct(s) BY <2>3, <2>4 DEF Distinct
  <2>6. Lengths(l, 3) = 4 /\ Lengths(l, 129) = 4 /\ Lengths(l, 131) = 4
    BY <1>5 DEF Lengths
  <2>13. Len(s[1].data) = 4 /\ Len(s[2].data) = 4 /\ Len(s[3].data) = 4 BY <1>2, <2>3
  <2>7. ASSUME NEW j \in 1..3 PROVE Len(s[j].data) = Lengths(l, s[j].type)
    <3>1. /\ Len(s[1].data) = Lengths(l, s[1].type)
          /\ Len(s[2].data) = Lengths(l, s[2].type)
          /\ Len(s[3].data) = Lengths(l, s[3].type)
      BY <2>3, <2>6, <2>13, Zenon
    <3>2. j = 1 \/ j = 2 \/ j = 3 OBVIOUS
    <3>. QED BY <3>1, <3>2
  <2>8. LengthOf(s) = 22
    <3>1. PICK f \in [0..3 -> Nat] : /\ f[0] = 4
                                     /\ \A j \in 1..3 : f[j] = f[j - 1] + 2 + Len(s[j].data)
                                     /\ LengthOf(s) = f[3]
      BY <2>2, LengthOfIs
    <3>2. f[1] = f[1 - 1] + 2 + 4 /\ f[2] = f[2 - 1] + 2 + 4 /\ f[3] = f[3 - 1] + 2 + 4
      <4>1. 1 \in 1..3 /\ 2 \in 1..3 /\ 3 \in 1..3 OBVIOUS
      <4>. QED BY <2>13, <3>1, <4>1, Zenon
    <3>3. f[1] = 10 /\ f[2] = 16 /\ f[3] = 22 BY <3>1, <3>2
    <3>. QED BY <3>1, <3>3
  <2>9. LengthOf(s) <= B BY <1>3, <2>8, OptionsAssumption
  <2>10. s \in Requests(l) BY <2>2, <2>5, <2>7, <2>9 DEF Requests
  <2>11. NewRequest(s) = s BY <2>2, <2>9, NewRequestFits
  <2>12. s # <<>> BY <2>2
  <2>. QED BY <2>3, <2>10, <2>11, <2>12 DEF s
<1>. QED BY <1>4, <1>5 DEF Layers

\* A REJ of some of its options leaves a request in order, with the others.
LEMMA RequestLeft ==
  ASSUME NEW l \in Layers, NEW packet \in Requests(l), NEW T
  PROVE  LET q == ProcessREJ(packet, OfTypes(packet, T))
         IN  /\ q \in Requests(l) /\ TypesIn(q) = TypesIn(packet) \ T
             /\ \A m \in 1..Len(q) : Contains(packet, q[m])
             /\ packet # <<>> /\ packet[1].type \notin T => q # <<>> /\ q[1] = packet[1]
<1> DEFINE U == (1..255) \ T
           q == OfTypes(packet, U)
           B == OUTGOING_PACKET_BUFFER_SIZE
<1>1. /\ packet \in Packets /\ Distinct(packet) /\ LengthOf(packet) <= B
      /\ \A j \in 1..Len(packet) : Len(packet[j].data) = Lengths(l, packet[j].type)
  BY DEF Requests
<1>2. ProcessREJ(packet, OfTypes(packet, T)) = q BY <1>1, RejectedOptions
<1>3. TypesIn(packet) \subseteq 1..255 BY <1>1, TypesRange
<1> HIDE DEF U
<1>4. /\ q \in Packets /\ TypesIn(q) = TypesIn(packet) \cap U
      /\ \A o : Contains(q, o) <=> Contains(packet, o) /\ o.type \in U
      /\ packet # <<>> /\ packet[1].type \in U => q # <<>> /\ q[1] = packet[1]
  BY <1>1, OfTypesFrom
<1>5. Distinct(q) BY <1>1, OfTypesDistinct
<1>6. LengthOf(q) <= LengthOf(packet) BY <1>1, OfTypesShorter
<1>7. LengthOf(q) \in Nat /\ LengthOf(packet) \in Nat BY <1>1, <1>4, LengthNat
<1> HIDE DEF q
<1>8. \A m \in 1..Len(q) : Contains(packet, q[m])
  <2>1. ASSUME NEW m \in 1..Len(q) PROVE Contains(q, q[m]) BY <1>4, InPacket DEF Contains
  <2>. QED BY <1>4, <2>1
<1>9. ASSUME NEW m \in 1..Len(q) PROVE Len(q[m].data) = Lengths(l, q[m].type)
  <2>1. PICK j \in DOMAIN packet : packet[j] = q[m] BY <1>8 DEF Contains
  <2>2. j \in 1..Len(packet) BY <1>1, <2>1, InPacket
  <2>3. Len(packet[j].data) = Lengths(l, packet[j].type) BY <1>1, <2>2
  <2>. QED BY <2>1, <2>3
<1>10. LengthOf(q) <= B
  <2>1. B \in Nat BY OptionsAssumption
  <2> HIDE DEF B
  <2>. QED BY <1>1, <1>6, <1>7, <2>1
<1>11. q \in Requests(l) BY <1>4, <1>5, <1>9, <1>10 DEF Requests
<1>12. TypesIn(q) = TypesIn(packet) \ T BY <1>3, <1>4 DEF U
<1>13. packet # <<>> /\ packet[1].type \notin T => q # <<>> /\ q[1] = packet[1]
  <2>1. SUFFICES ASSUME packet # <<>>, packet[1].type \notin T PROVE q # <<>> /\ q[1] = packet[1]
    OBVIOUS
  <2>2. 1 \in 1..Len(packet) BY <1>1, <2>1 DEF Packets
  <2>3. packet[1].type \in 1..255 BY <1>1, <2>2, InPacket
  <2>. QED BY <1>4, <2>1, <2>3 DEF U
<1>. QED BY <1>2, <1>8, <1>11, <1>12, <1>13

----------------------------------------------------------------------------
(* The invariant *)

\* The request is in order, has the data that is wanted, and in IPCP begins with the address
\* until the peer has rejected that.
RequestInOrder(l, request, wants, rejects) ==
  /\ request \in Requests(l)
  /\ DataByType(request) = wants
  /\ l = "IPCP" /\ ~rejects => request # <<>> /\ request[1].type = 3

\* The answer is the one to the request received.
Answered(l, request, reply) == request \in PeerPackets(l) /\ reply = AnswerTo(l, request)

OptionsInv ==
  /\ layer \in Layers /\ rejected \in BOOLEAN /\ addressFrom \in {None} \cup (0..255)
  /\ outgoing # None => RequestInOrder(layer, outgoing, wanted, rejected)
  /\ answer # None => Answered(layer, received, answer)

\* What a NAK of the peer's makes of a request in order is one.
LEMMA NAKInOrder ==
  ASSUME NEW l \in Layers, NEW request, NEW wants, NEW rejects \in BOOLEAN,
         RequestInOrder(l, request, wants, rejects),
         NEW nak \in PeerPackets(l), \A j \in DOMAIN nak : nak[j] # CHAP
  PROVE  LET q == ProcessNAK(request, nak)
         IN  RequestInOrder(l, q,
                            [t \in DOMAIN wants \cup TypesIn(q) |->
                               IF t \in TypesIn(nak) THEN DataByType(nak)[t] ELSE wants[t]],
                            rejects)
<1> DEFINE q == ProcessNAK(request, nak)
           w == [t \in DOMAIN wants \cup TypesIn(q) |->
                   IF t \in TypesIn(nak) THEN DataByType(nak)[t] ELSE wants[t]]
<1>1. /\ request \in Requests(l) /\ DataByType(request) = wants
      /\ l = "IPCP" /\ ~rejects => request # <<>> /\ request[1].type = 3
  BY Zenon DEF RequestInOrder
<1>2. nak \in Packets /\ \A j \in DOMAIN nak : nak[j] \in PeerOptions(l) BY PeerPacketOf
<1>3. ASSUME NEW j \in 1..Len(nak) PROVE Len(nak[j].data) = Lengths(l, nak[j].type)
  <2>1. j \in DOMAIN nak BY <1>2, InPacket
  <2>2. nak[j] \in PeerOptions(l) /\ nak[j] # CHAP BY <1>2, <2>1
  <2>. QED BY <2>2, PeerOptionOf
<1>4. /\ q \in Requests(l) /\ TypesIn(request) \subseteq TypesIn(q)
      /\ request # <<>> => q # <<>> /\ q[1].type = request[1].type
      /\ \A m \in 1..Len(q) :
           IF q[m].type \in TypesIn(nak)
           THEN q[m].data = DataByType(nak)[q[m].type]
           ELSE Contains(request, q[m])
  BY <1>1, <1>2, <1>3, RequestedOptions
<1> HIDE DEF q
<1>5. q \in Packets /\ Distinct(q) /\ request \in Packets /\ Distinct(request)
  BY <1>1, <1>4 DEF Requests
<1>6. /\ DataByType(q) = [t \in TypesIn(q) |-> DataByType(q)[t]]
      /\ \A m \in 1..Len(q) : DataByType(q)[q[m].type] = q[m].data
  BY <1>5, DataDistinct
<1>7. \A m \in 1..Len(request) : wants[request[m].type] = request[m].data
  BY <1>1, <1>5, DataDistinct
<1>8. DOMAIN wants = TypesIn(request) BY <1>1 DEF DataByType
<1>9. DOMAIN wants \cup TypesIn(q) = TypesIn(q) BY <1>4, <1>8
<1>10. ASSUME NEW t \in TypesIn(q)
       PROVE  DataByType(q)[t] = IF t \in TypesIn(nak) THEN DataByType(nak)[t] ELSE wants[t]
  <2>1. PICK m \in 1..Len(q) : q[m].type = t BY <1>5, InPacket DEF TypesIn
  <2>2. DataByType(q)[t] = q[m].data BY <1>6, <2>1
  <2>3. CASE t \in TypesIn(nak) BY <1>4, <2>1, <2>2, <2>3
  <2>4. CASE t \notin TypesIn(nak)
    <3>1. PICK k \in DOMAIN request : request[k] = q[m] BY <1>4, <2>1, <2>4 DEF Contains
    <3>2. k \in 1..Len(request) BY <1>5, <3>1, InPacket
    <3>3. wants[t] = q[m].data BY <1>7, <2>1, <3>1, <3>2
    <3>. QED BY <2>2, <2>4, <3>3
  <2>. QED BY <2>3, <2>4
<1>11. DataByType(q) = w BY <1>6, <1>9, <1>10
<1> HIDE DEF w
<1>12. RequestInOrder(l, q, w, rejects) BY <1>1, <1>4, <1>11, Zenon DEF RequestInOrder
<1>. QED BY <1>12 DEF q, w

\* What a REJ of some of its options makes of a request in order is one.
LEMMA REJInOrder ==
  ASSUME NEW l \in Layers, NEW request, NEW wants, NEW rejects \in BOOLEAN,
         RequestInOrder(l, request, wants, rejects), NEW types,
         NEW r, r = (rejects \/ (l = "IPCP" /\ 3 \in types))
  PROVE  RequestInOrder(l, ProcessREJ(request, OfTypes(request, types)),
                        [t \in DOMAIN wants \ types |-> wants[t]], r)
<1> DEFINE q == ProcessREJ(request, OfTypes(request, types))
           w == [t \in DOMAIN wants \ types |-> wants[t]]
<1>1. /\ request \in Requests(l) /\ DataByType(request) = wants
      /\ l = "IPCP" /\ ~rejects => request # <<>> /\ request[1].type = 3
  BY Zenon DEF RequestInOrder
<1>2. /\ q \in Requests(l) /\ TypesIn(q) = TypesIn(request) \ types
      /\ \A m \in 1..Len(q) : Contains(request, q[m])
      /\ request # <<>> /\ request[1].type \notin types => q # <<>> /\ q[1] = request[1]
  BY <1>1, RequestLeft
<1> HIDE DEF q
<1>3. q \in Packets /\ Distinct(q) /\ request \in Packets /\ Distinct(request)
  BY <1>1, <1>2 DEF Requests
<1>4. /\ DataByType(q) = [t \in TypesIn(q) |-> DataByType(q)[t]]
      /\ \A m \in 1..Len(q) : DataByType(q)[q[m].type] = q[m].data
  BY <1>3, DataDistinct
<1>5. \A m \in 1..Len(request) : wants[request[m].type] = request[m].data
  BY <1>1, <1>3, DataDistinct
<1>6. DOMAIN wants \ types = TypesIn(q) BY <1>1, <1>2 DEF DataByType
<1>7. ASSUME NEW t \in TypesIn(q) PROVE DataByType(q)[t] = wants[t]
  <2>1. PICK m \in 1..Len(q) : q[m].type = t BY <1>3, InPacket DEF TypesIn
  <2>2. PICK k \in DOMAIN request : request[k] = q[m] BY <1>2 DEF Contains
  <2>3. k \in 1..Len(request) BY <1>3, <2>2, InPacket
  <2>4. wants[t] = q[m].data BY <1>5, <2>1, <2>2, <2>3
  <2>. QED BY <1>4, <2>1, <2>4
<1>8. DataByType(q) = w BY <1>4, <1>6, <1>7
<1>9. ASSUME l = "IPCP", ~r PROVE q # <<>> /\ q[1].type = 3
  <2>1. request # <<>> /\ request[1].type = 3 /\ 3 \notin types BY <1>1, <1>9
  <2>. QED BY <1>2, <2>1
<1> HIDE DEF w
<1>10. RequestInOrder(l, q, w, r) BY <1>2, <1>8, <1>9, Zenon DEF RequestInOrder
<1>. QED BY <1>10 DEF q, w

\* Our first request is in order.
LEMMA FirstInOrder ==
  ASSUME NEW l \in Layers, NEW rejects \in BOOLEAN
  PROVE  RequestInOrder(l, NewRequest(OurOptions(l)), DataByType(OurOptions(l)), rejects)
BY OurRequest, Zenon DEF RequestInOrder

\* Every step keeps the invariant.
LEMMA OptionsStep == OptionsInv /\ [OptionsNext]_optionsVars => OptionsInv'
<1> SUFFICES ASSUME OptionsInv, [OptionsNext]_optionsVars PROVE OptionsInv'
  OBVIOUS
<1>0. /\ layer \in Layers /\ rejected \in BOOLEAN /\ addressFrom \in {None} \cup (0..255)
      /\ outgoing # None => RequestInOrder(layer, outgoing, wanted, rejected)
      /\ answer # None => Answered(layer, received, answer)
  BY Zenon DEF OptionsInv
<1>1. ASSUME UNCHANGED optionsVars PROVE OptionsInv' 
  BY <1>0, <1>1, Zenon DEF optionsVars, OptionsInv
<1>2. ASSUME Answer PROVE OptionsInv'
  BY <1>0, <1>2, Zenon DEF Answer, OptionsInv
<1>3. ASSUME Send_Configure_Request PROVE OptionsInv'
  <2>1. /\ answer' = None /\ layer' = layer /\ rejected' = rejected /\ addressFrom' = addressFrom
        /\ outgoing' = NewRequest(OurOptions(layer)) /\ wanted' = DataByType(OurOptions(layer))
    BY <1>3, Zenon DEF Send_Configure_Request, NothingToAnswer
  <2>2. RequestInOrder(layer', outgoing', wanted', rejected')
    BY <1>0, <2>1, FirstInOrder, Zenon
  <2>. QED BY <1>0, <2>1, <2>2, Zenon DEF OptionsInv
<1>4. ASSUME NEW nak \in PeerPackets(layer), \A j \in DOMAIN nak : nak[j] # CHAP, ReceiveNAK(nak)
      PROVE  OptionsInv'
  <2>1. /\ answer' = None /\ layer' = layer /\ rejected' = rejected /\ addressFrom' = addressFrom
        /\ outgoing # None /\ outgoing' = ProcessNAK(outgoing, nak)
        /\ wanted' = [t \in DOMAIN wanted \cup TypesIn(outgoing') |->
                        IF t \in TypesIn(nak) THEN DataByType(nak)[t] ELSE wanted[t]]
    BY <1>4, Zenon DEF ReceiveNAK, NothingToAnswer
  <2>2. RequestInOrder(layer, outgoing, wanted, rejected) BY <1>0, <2>1, Zenon
  <2>3. RequestInOrder(layer, outgoing', wanted', rejected)
    BY <1>0, <1>4, <2>1, <2>2, NAKInOrder, Zenon
  <2>. QED BY <1>0, <2>1, <2>3, Zenon DEF OptionsInv
<1>5. ASSUME NEW types, ReceiveREJ(types) PROVE OptionsInv'
  <2>1. /\ answer' = None /\ layer' = layer /\ addressFrom' = addressFrom
        /\ outgoing # None /\ outgoing' = ProcessREJ(outgoing, OfTypes(outgoing, types))
        /\ wanted' = [t \in DOMAIN wanted \ types |-> wanted[t]]
        /\ rejected' = (rejected \/ (layer = "IPCP" /\ 3 \in types))
    BY <1>5, Zenon DEF ReceiveREJ, NothingToAnswer
  <2>2. RequestInOrder(layer, outgoing, wanted, rejected) BY <1>0, <2>1, Zenon
  <2>3. RequestInOrder(layer, outgoing', wanted', rejected')
    BY <1>0, <2>1, <2>2, REJInOrder, Zenon
  <2>4. rejected' \in BOOLEAN BY <1>0, <2>1
  <2>. QED BY <1>0, <2>1, <2>3, <2>4, Zenon DEF OptionsInv
<1>6. ASSUME NEW req \in PeerPackets(layer), ReceiveREQ(req) PROVE OptionsInv'
  <2>1. /\ received' = req /\ answer' = AnswerTo(layer, req)
        /\ layer' = layer /\ outgoing' = outgoing /\ wanted' = wanted
        /\ rejected' = rejected /\ addressFrom' = addressFrom
    BY <1>6, Zenon DEF ReceiveREQ
  <2>2. Answered(layer', received', answer') BY <1>6, <2>1, Zenon DEF Answered
  <2>. QED BY <1>0, <2>1, <2>2, Zenon DEF OptionsInv
<1>7. ASSUME ReceiveACK PROVE OptionsInv'
  <2>1. /\ answer' = None /\ layer' = layer /\ outgoing' = outgoing /\ wanted' = wanted
        /\ rejected' = rejected
        /\ outgoing \notin {None, <<>>} /\ addressFrom' = outgoing[1].type
    BY <1>7, Zenon DEF ReceiveACK, NothingToAnswer
  <2>2. RequestInOrder(layer, outgoing, wanted, rejected) BY <1>0, <2>1
  <2>3. outgoing \in Packets BY <2>2 DEF RequestInOrder, Requests
  <2>4. 1 \in 1..Len(outgoing) BY <2>1, <2>3 DEF Packets
  <2>5. outgoing[1].type \in 0..255
    <3>1. outgoing[1].type \in 1..255 BY <2>3, <2>4, InPacket
    <3>. QED BY <3>1
  <2>6. addressFrom' \in {None} \cup (0..255) BY <2>1, <2>5
  <2>. QED BY <1>0, <2>1, <2>2, <2>6, Zenon DEF OptionsInv
<1>8. ASSUME NEW l \in Layers, NextLayer(l) PROVE OptionsInv'
  <2>1. /\ answer' = None /\ layer' = l /\ outgoing' = None /\ rejected' = FALSE
        /\ addressFrom' = addressFrom
    BY <1>8, Zenon DEF NextLayer, NothingToAnswer
  <2>2. rejected' \in BOOLEAN BY <2>1
  <2>. QED BY <1>0, <1>8, <2>1, <2>2, Zenon DEF OptionsInv
<1>9. CASE OptionsNext
  BY <1>2, <1>3, <1>4, <1>5, <1>6, <1>7, <1>8, <1>9, Zenon DEF OptionsNext
<1>. QED BY <1>1, <1>9

\* The invariant of the options, for packets of any length: inductive.
THEOREM OptionsInvariant == OptionsSpec => []OptionsInv
<1>1. OptionsInit => OptionsInv
  <2>1. ASSUME OptionsInit PROVE OptionsInv
    <3>1. /\ layer = "LCP" /\ rejected = FALSE /\ addressFrom = None /\ outgoing = None
          /\ answer = None
      BY <2>1 DEF OptionsInit
    <3>2. layer \in Layers /\ rejected \in BOOLEAN /\ addressFrom \in {None} \cup (0..255)
      BY <3>1 DEF Layers
    <3>. QED BY <3>1, <3>2, Zenon DEF OptionsInv
  <2>. QED BY <2>1
<1>. QED BY <1>1, OptionsStep, PTL DEF OptionsSpec

\* OptionsTypeOK: our request fits its buffer, whatever the peer asks for or rejects
\* (AddOption in PPP.c).
THEOREM OptionsTypeCorrect == OptionsSpec => []OptionsTypeOK
<1>1. OptionsInv => OptionsTypeOK
  BY DEF OptionsInv, OptionsTypeOK, RequestInOrder, Requests
<1>. QED BY <1>1, OptionsInvariant, PTL

\* RequestFollowsPeer: after any NAKs and REJs each option is in the request once, with the
\* data the peer asked for last (PPP_ProcessNAK and PPP_ProcessREJ).
THEOREM RequestsFollowPeer == OptionsSpec => []RequestFollowsPeer
<1>1. OptionsInv => RequestFollowsPeer
  <2>1. ASSUME OptionsInv, outgoing # None
        PROVE  Distinct(outgoing) /\ DataByType(outgoing) = wanted
    BY <2>1 DEF OptionsInv, RequestInOrder, Requests
  <2>. QED BY <2>1, Zenon DEF RequestFollowsPeer, Distinct
<1>. QED BY <1>1, OptionsInvariant, PTL

\* AnswerExact: the answer to the peer's request names exactly what is wrong with it, however
\* many options that has (TestForREJ and TestForNAK).
THEOREM AnswersExact == OptionsSpec => []AnswerExact
<1>1. OptionsInv => AnswerExact
  <2>1. ASSUME OptionsInv, answer # None
        PROVE  /\ layer \in Layers /\ received \in PeerPackets(layer)
               /\ answer = AnswerTo(layer, received)
    BY <2>1 DEF OptionsInv, Answered
  <2>. QED BY <2>1, RequestAnswered, Zenon DEF AnswerExact
<1>. QED BY <1>1, OptionsInvariant, PTL

\* AddressStaysFirst: the option the address is taken from is the address option, until the
\* peer has rejected that (PPP_ReceiveACK).
THEOREM AddressIsFirst == OptionsSpec => AddressStaysFirst
<1> DEFINE Same == addressFrom' # addressFrom /\ ~rejected => addressFrom' = 3
<1>1. OptionsInv /\ [OptionsNext]_optionsVars => [Same]_optionsVars
  <2> SUFFICES ASSUME OptionsInv, OptionsNext PROVE Same
    BY Zenon
  <2>1. ASSUME ReceiveACK PROVE Same
    <3>1. layer = "IPCP" /\ outgoing # None /\ addressFrom' = outgoing[1].type
      BY <2>1 DEF ReceiveACK
    <3>2. RequestInOrder(layer, outgoing, wanted, rejected) BY <3>1 DEF OptionsInv
    <3>. QED BY <3>1, <3>2 DEF RequestInOrder
  <2>2. ASSUME ~ReceiveACK PROVE addressFrom' = addressFrom
    BY <2>2, Zenon DEF OptionsNext, Answer, Send_Configure_Request, ReceiveNAK, ReceiveREJ,
                       ReceiveREQ, NextLayer
  <2>. QED BY <2>1, <2>2
<1>. QED BY <1>1, OptionsInvariant, PTL DEF OptionsSpec, AddressStaysFirst

----------------------------------------------------------------------------
(* ModemEnumeration: the first of some indices *)

\* NextOf is the first of the indices it is given, or 0 if there is none.
LEMMA NextOfFirst ==
  ASSUME NEW S, S \subseteq Nat \ {0}
  PROVE  /\ NextOf(S) = 0 => S = {}
         /\ NextOf(S) # 0 => NextOf(S) \in S /\ \A k \in S : NextOf(S) <= k
<1>1. CASE S = {} BY <1>1 DEF NextOf
<1>2. CASE S # {}
  <2>1. \E j \in S : \A k \in S : j <= k BY <1>2, Least
  <2>2. NextOf(S) = CHOOSE j \in S : \A k \in S : j <= k BY <1>2, Zenon DEF NextOf
  <2>3. NextOf(S) \in S /\ \A k \in S : NextOf(S) <= k BY <2>1, <2>2, Zenon
  <2>. QED BY <1>2, <2>3
<1>. QED BY <1>1, <1>2

\* A search goes on behind the current descriptor and passes over nothing it looks for.
LEMMA NextFollowing ==
  ASSUME CurrConfigLocation \in Nat, Len(config) \in Nat, NEW kinds
  PROVE  LET next == NextOf(Following(kinds))
         IN  /\ next = 0 =>
                  \A j \in (CurrConfigLocation + 1)..Len(config) : config[j] \notin kinds
             /\ next # 0 =>
                  /\ next \in Nat /\ next > CurrConfigLocation /\ next <= Len(config)
                  /\ config[next] \in kinds
                  /\ \A j \in (CurrConfigLocation + 1)..(next - 1) : config[j] \notin kinds
<1> DEFINE S == Following(kinds)
           next == NextOf(S)
<1>1. \A j : j \in S <=> /\ j \in Nat /\ j > CurrConfigLocation /\ j <= Len(config)
                         /\ config[j] \in kinds
  BY DEF Following
<1> HIDE DEF S
<1>2. S \subseteq Nat \ {0} BY <1>1
<1>3. next = 0 => S = {} BY <1>2, NextOfFirst
<1>4. next # 0 => next \in S /\ \A k \in S : next <= k BY <1>2, NextOfFirst
<1> HIDE DEF next
<1>5. next = 0 => \A j \in (CurrConfigLocation + 1)..Len(config) : config[j] \notin kinds
  BY <1>1, <1>3
<1>6. ASSUME next # 0
      PROVE  /\ next \in Nat /\ next > CurrConfigLocation /\ next <= Len(config)
             /\ config[next] \in kinds
             /\ \A j \in (CurrConfigLocation + 1)..(next - 1) : config[j] \notin kinds
  <2>1. /\ next \in Nat /\ next > CurrConfigLocation /\ next <= Len(config)
        /\ config[next] \in kinds
    BY <1>1, <1>4, <1>6
  <2>2. ASSUME NEW j \in (CurrConfigLocation + 1)..(next - 1), config[j] \in kinds
        PROVE  FALSE
    <3>1. j \in S BY <1>1, <2>1, <2>2
    <3>. QED BY <1>4, <1>6, <2>1, <2>2, <3>1
  <2>. QED BY <2>1, <2>2
<1>. QED BY <1>5, <1>6 DEF next, S

----------------------------------------------------------------------------
(* Interfaces and what belongs to them *)

\* Descriptor j follows interface k, or is it, with no other interface in between.
Belongs(j, k) ==
  /\ k \in 1..j /\ config[k] \in Interfaces
  /\ \A l \in (k + 1)..j : config[l] \notin Interfaces

\* A descriptor belongs to one interface at most.
LEMMA BelongsOnce ==
  ASSUME NEW j \in Nat, NEW k, NEW l, Belongs(j, k), Belongs(j, l)
  PROVE  k = l
<1>1. k \in 1..j /\ l \in 1..j /\ config[k] \in Interfaces /\ config[l] \in Interfaces
  BY DEF Belongs
<1>2. ~(k < l) /\ ~(l < k) BY <1>1 DEF Belongs
<1>. QED BY <1>1, <1>2

\* And InterfaceOf says which.
LEMMA InterfaceFound ==
  ASSUME NEW j \in Nat
  PROVE  /\ \A k : Belongs(j, k) => InterfaceOf(j) = k
         /\ InterfaceOf(j) # 0 => Belongs(j, InterfaceOf(j))
<1> DEFINE Is(k) == /\ k # 0 => config[k] \in Interfaces
                    /\ \A l \in (k + 1)..j : config[l] \notin Interfaces
           i == CHOOSE k \in 0..j : Is(k)
<1>1. InterfaceOf(j) = i BY Zenon DEF InterfaceOf
<1>2. \E k \in 0..j : Is(k)
  <2> DEFINE D == {n \in 0..j : n = j \/ config[j - n] \in Interfaces}
  <2>1. D \subseteq Nat /\ D # {}
    <3>1. j \in D OBVIOUS
    <3>. QED BY <3>1
  <2>2. PICK n \in D : \A m \in D : n <= m
    <3> HIDE DEF D
    <3>. QED BY <2>1, Least
  <2> DEFINE k == j - n
  <2>3. k \in 0..j /\ (k # 0 => config[k] \in Interfaces) OBVIOUS
  <2>4. ASSUME NEW l \in (k + 1)..j, config[l] \in Interfaces
        PROVE  FALSE
    <3>1. j - l \in 0..j /\ j - (j - l) = l /\ j - l < n BY <2>3
    <3>2. j - l \in D BY <2>4, <3>1
    <3>. QED BY <2>2, <3>1, <3>2
  <2> HIDE DEF k
  <2>. QED BY <2>3, <2>4
<1>3. i \in 0..j /\ Is(i)
  <2> HIDE DEF Is
  <2>. QED BY <1>2, Zenon
<1> HIDE DEF i
<1>4. i # 0 => Belongs(j, i) BY <1>3 DEF Belongs
<1>5. ASSUME NEW k, Belongs(j, k) PROVE i = k
  <2>1. i # 0
    <3>1. k \in 1..j /\ config[k] \in Interfaces BY <1>5 DEF Belongs
    <3>. QED BY <1>3, <3>1
  <2>. QED BY <1>4, <1>5, <2>1, BelongsOnce
<1>. QED BY <1>1, <1>4, <1>5

----------------------------------------------------------------------------
(* The invariant of the search *)

\* An endpoint of its kind, of one of the modem's own interfaces
Placed(e, kind) ==
  /\ e \in 1..Len(config) /\ config[e] = kind
  /\ \E k \in 1..Len(config) : Belongs(e, k) /\ config[k] = "vendor"

AllPlaced ==
  /\ DataINEndpoint # 0 => Placed(DataINEndpoint, "bulkIn")
  /\ DataOUTEndpoint # 0 => Placed(DataOUTEndpoint, "bulkOut")
  /\ NotificationEndpoint # 0 => Placed(NotificationEndpoint, "interruptIn")

\* The interface has all three endpoints.
HasAll(i) == \A kind \in Searched : \E j \in 1..Len(config) : Belongs(j, i) /\ config[j] = kind

\* The search is before the first interface of the modem's, or in one of them.
Place ==
  \/ /\ CDCControlInterface = 0 /\ CurrConfigLocation = 0
     /\ DataINEndpoint = 0 /\ DataOUTEndpoint = 0 /\ NotificationEndpoint = 0
  \/ /\ CDCControlInterface # 0
     /\ \E k \in 1..Len(config) : Belongs(CurrConfigLocation, k) /\ config[k] = "vendor"

\* What the current interface has up to the current descriptor has been taken.
Taken ==
  \A k, j \in 1..Len(config) :
    Belongs(CurrConfigLocation, k) /\ k < j /\ j <= CurrConfigLocation
      => /\ config[j] = "bulkIn" => DataINEndpoint # 0
         /\ config[j] = "bulkOut" => DataOUTEndpoint # 0
         /\ config[j] = "interruptIn" => NotificationEndpoint # 0

\* No interface that the search has left has all three.
LeftRightly ==
  \A i \in 1..Len(config) :
    config[i] = "vendor" /\ i <= CurrConfigLocation /\ ~Belongs(CurrConfigLocation, i)
      => ~HasAll(i)

NoneHasAll == \A i \in 1..Len(config) : config[i] = "vendor" => ~HasAll(i)

Configured == Len(config) \in Nat /\ CurrConfigLocation \in Nat

ModemInv ==
  /\ Configured
  /\ phase = "searching" =>
       /\ CurrConfigLocation <= Len(config) /\ ErrorCode = "SuccessfulConfigRead"
       /\ AllPlaced /\ Place /\ Taken /\ LeftRightly
  /\ Enumerated => AllPlaced /\ Complete
  /\ ErrorCode = "NoCompatibleInterfaceFound" => NoneHasAll

\* When no endpoint is left in the current interface, and not all three have been found, the
\* interface does not have them.
LEMMA InterfaceLacks ==
  ASSUME Configured, Taken, Place, NoEndpoint,
         NEW i \in 1..Len(config), config[i] = "vendor", Belongs(CurrConfigLocation, i)
  PROVE  ~HasAll(i)
<1> DEFINE kinds == Searched \cup Interfaces
           next == NextOf(Following(kinds))
<1>1. Len(config) \in Nat /\ CurrConfigLocation \in Nat BY DEF Configured
<1>2. i \in Nat /\ 1 <= i /\ i <= CurrConfigLocation BY <1>1 DEF Belongs
<1>3. CDCControlInterface # 0 BY <1>2 DEF Place
<1>4. NextEndpoint = 0 BY <1>3 DEF NoEndpoint
<1>5. next = 0 \/ (next # 0 /\ config[next] \in Interfaces)
  BY <1>4, Zenon DEF NextEndpoint
<1>6. /\ next = 0 => \A j \in (CurrConfigLocation + 1)..Len(config) : config[j] \notin kinds
      /\ next # 0 => /\ next \in Nat /\ next > CurrConfigLocation /\ next <= Len(config)
                     /\ \A j \in (CurrConfigLocation + 1)..(next - 1) : config[j] \notin kinds
  <2> HIDE DEF kinds
  <2>. QED BY <1>1, NextFollowing
<1> HIDE DEF next
<1>7. ASSUME NEW j \in 1..Len(config), Belongs(j, i), config[j] \in Searched
      PROVE  i < j /\ j <= CurrConfigLocation
  <2>1. i # j BY <1>7 DEF Searched
  <2>2. i <= j /\ \A l \in (i + 1)..j : config[l] \notin Interfaces
    BY <1>1, <1>7 DEF Belongs
  <2>3. config[j] \in kinds BY <1>7
  <2> HIDE DEF kinds
  <2>4. ASSUME j > CurrConfigLocation PROVE FALSE
    <3>1. next # 0 BY <1>1, <1>6, <2>3, <2>4
    <3>2. config[next] \in Interfaces BY <1>5, <3>1
    <3>3. next <= j BY <1>1, <1>6, <2>3, <2>4, <3>1
    <3>. QED BY <1>1, <1>2, <1>6, <2>2, <3>1, <3>2, <3>3
  <2>. QED BY <1>1, <1>2, <2>1, <2>2, <2>4
<1>8. ASSUME HasAll(i) PROVE Complete
  <2>1. /\ "bulkIn" \in Searched /\ "bulkOut" \in Searched /\ "interruptIn" \in Searched
    BY DEF Searched
  <2>2. ASSUME NEW kind \in Searched
        PROVE  \E j \in 1..Len(config) : /\ config[j] = kind
                                         /\ i < j /\ j <= CurrConfigLocation
    <3>1. PICK j \in 1..Len(config) : Belongs(j, i) /\ config[j] = kind
      BY <1>8, <2>2, Zenon DEF HasAll
    <3>. QED BY <1>7, <3>1, Zenon
  <2>3. DataINEndpoint # 0 BY <2>1, <2>2 DEF Taken
  <2>4. DataOUTEndpoint # 0 BY <2>1, <2>2 DEF Taken
  <2>5. NotificationEndpoint # 0 BY <2>1, <2>2 DEF Taken
  <2>. QED BY <2>3, <2>4, <2>5 DEF Complete
<1>. QED BY <1>8 DEF NoEndpoint, Searching

\* So the search leaves no interface that has them.
LEMMA NoneBehind ==
  ASSUME Configured, Taken, Place, LeftRightly, NoEndpoint,
         NEW i \in 1..Len(config), config[i] = "vendor", i <= CurrConfigLocation
  PROVE  ~HasAll(i)
<1>1. CASE Belongs(CurrConfigLocation, i) BY <1>1, InterfaceLacks
<1>2. CASE ~Belongs(CurrConfigLocation, i) BY <1>2, Zenon DEF LeftRightly
<1>. QED BY <1>1, <1>2

\* Going on at the next interface of the modem's keeps the invariant, whatever is cleared.
LEMMA AtInterface ==
  ASSUME Configured, NEW k \in 1..Len(config), config[k] = "vendor",
         config' = config, CurrConfigLocation' = k, CDCControlInterface' # 0,
         AllPlaced', \A i \in 1..Len(config) : config[i] = "vendor" /\ i < k => ~HasAll(i)
  PROVE  /\ Configured' /\ (CurrConfigLocation <= Len(config))'
         /\ Place' /\ Taken' /\ LeftRightly'
<1>1. Len(config) \in Nat /\ k \in Nat BY DEF Configured
<1>2. \A j, l : Belongs(j, l)' <=> Belongs(j, l) BY Zenon DEF Belongs
<1>3. \A i : HasAll(i)' <=> HasAll(i) BY Zenon DEF HasAll, Belongs
<1>4. Belongs(k, k) BY <1>1 DEF Belongs, Interfaces
<1>5. Configured' /\ (CurrConfigLocation <= Len(config))' BY <1>1 DEF Configured
<1>6. Place' BY <1>2, <1>4 DEF Place, Belongs
<1>7. Taken'
  <2> SUFFICES ASSUME NEW l \in 1..Len(config), NEW j \in 1..Len(config),
                      Belongs(k, l), l < j, j <= k
               PROVE  FALSE
    BY DEF Taken, Belongs
  <2>1. l = k BY <1>1, <1>4, BelongsOnce
  <2>. QED BY <1>1, <2>1
<1>8. LeftRightly'
  <2> SUFFICES ASSUME NEW i \in 1..Len(config), config[i] = "vendor", i <= k, ~Belongs(k, i)
               PROVE  ~HasAll(i)
    BY <1>2, <1>3 DEF LeftRightly
  <2>1. i # k BY <1>4
  <2>. QED BY <1>1, <2>1
<1>. QED BY <1>5, <1>6, <1>7, <1>8

\* Taking an endpoint does.
LEMMA FoundKept ==
  ASSUME Configured, AllPlaced, Place, Taken, LeftRightly, FoundEndpoint
  PROVE  /\ Configured' /\ (CurrConfigLocation <= Len(config))'
         /\ AllPlaced' /\ Place' /\ Taken' /\ LeftRightly'
<1> DEFINE kinds == Searched \cup Interfaces
           next == NextOf(Following(kinds))
           loc == CurrConfigLocation
<1>1. Len(config) \in Nat /\ loc \in Nat BY DEF Configured
<1>2. CDCControlInterface # 0 /\ NextEndpoint # 0 BY Zenon DEF FoundEndpoint, NoEndpoint
<1>3. NextEndpoint = next /\ next # 0 /\ config[next] \notin Interfaces
  BY <1>2, Zenon DEF NextEndpoint
<1>4. /\ next \in Nat /\ next > loc /\ next <= Len(config) /\ config[next] \in kinds
      /\ \A j \in (loc + 1)..(next - 1) : config[j] \notin kinds
  <2> HIDE DEF kinds
  <2>. QED BY <1>1, <1>3, NextFollowing
<1>5. config[next] \in Searched
      /\ \A j \in (loc + 1)..(next - 1) : config[j] \notin Interfaces /\ config[j] \notin Searched
  <2>1. config[next] \in Searched BY <1>3, <1>4
  <2>2. \A j \in (loc + 1)..(next - 1) : config[j] \notin Interfaces /\ config[j] \notin Searched
    BY <1>4
  <2>. QED BY <2>1, <2>2
<1>6. /\ config' = config /\ CurrConfigLocation' = next
      /\ CDCControlInterface' = CDCControlInterface
      /\ NotificationEndpoint' =
           IF config[next] = "interruptIn" THEN next ELSE NotificationEndpoint
      /\ DataINEndpoint' = IF config[next] = "bulkIn" THEN next ELSE DataINEndpoint
      /\ DataOUTEndpoint' = IF config[next] = "bulkOut" THEN next ELSE DataOUTEndpoint
  BY <1>3, Zenon DEF FoundEndpoint
<1> HIDE DEF next, kinds
<1>7. PICK cur \in 1..Len(config) : Belongs(loc, cur) /\ config[cur] = "vendor"
  BY <1>2, Zenon DEF Place
<1>8. cur \in Nat /\ 1 <= cur /\ cur <= loc BY <1>1, <1>7 DEF Belongs
<1>9. Belongs(next, cur)
  <2>1. ASSUME NEW l \in (cur + 1)..next PROVE config[l] \notin Interfaces
    <3>1. CASE l <= loc BY <1>1, <1>7, <1>8, <2>1, <3>1 DEF Belongs
    <3>2. CASE l > loc /\ l < next BY <1>1, <1>4, <1>5, <1>8, <2>1, <3>2
    <3>3. CASE l = next BY <1>3, <3>3
    <3>. QED BY <1>1, <1>4, <1>8, <2>1, <3>1, <3>2, <3>3
  <2>. QED BY <1>1, <1>4, <1>7, <1>8, <2>1 DEF Belongs
<1>10. \A j, l : Belongs(j, l)' <=> Belongs(j, l) BY <1>6, Zenon DEF Belongs
<1>11. \A i : HasAll(i)' <=> HasAll(i) BY <1>6, Zenon DEF HasAll, Belongs
<1>12. Configured' /\ (CurrConfigLocation <= Len(config))' BY <1>1, <1>4, <1>6 DEF Configured
<1>13. AllPlaced'
  <2>1. \A e, kind : Placed(e, kind)' <=> Placed(e, kind) BY <1>6, Zenon DEF Placed, Belongs
  <2>2. Placed(next, config[next]) BY <1>1, <1>4, <1>7, <1>9 DEF Placed
  <2>. QED BY <1>6, <2>1, <2>2, Zenon DEF AllPlaced
<1>14. Place' BY <1>2, <1>6, <1>7, <1>9, <1>10 DEF Place
<1>15. Taken'
  <2> SUFFICES ASSUME NEW k \in 1..Len(config), NEW j \in 1..Len(config),
                      Belongs(next, k), k < j, j <= next
               PROVE  /\ config[j] = "bulkIn" => DataINEndpoint' # 0
                      /\ config[j] = "bulkOut" => DataOUTEndpoint' # 0
                      /\ config[j] = "interruptIn" => NotificationEndpoint' # 0
    BY <1>6, <1>10 DEF Taken
  <2>1. k = cur BY <1>4, <1>9, BelongsOnce
  <2>2. CASE j <= loc
    <3>1. /\ config[j] = "bulkIn" => DataINEndpoint # 0
          /\ config[j] = "bulkOut" => DataOUTEndpoint # 0
          /\ config[j] = "interruptIn" => NotificationEndpoint # 0
      BY <1>7, <2>1, <2>2 DEF Taken
    <3>. QED BY <1>3, <1>6, <3>1
  <2>3. CASE j > loc /\ j < next
    <3>1. config[j] \notin Searched BY <1>1, <1>4, <1>5, <2>3
    <3>. QED BY <3>1 DEF Searched
  <2>4. CASE j = next BY <1>3, <1>6, <2>4
  <2>. QED BY <1>1, <1>4, <2>2, <2>3, <2>4
<1>16. LeftRightly'
  <2> SUFFICES ASSUME NEW i \in 1..Len(config), config[i] = "vendor", i <= next,
                      ~Belongs(next, i)
               PROVE  ~HasAll(i)
    BY <1>6, <1>10, <1>11 DEF LeftRightly
  <2>1. config[i] \in Interfaces BY DEF Interfaces
  <2>2. i <= loc
    <3>1. i # next BY <1>3, <2>1
    <3>2. ~(i > loc /\ i < next) BY <1>1, <1>4, <1>5, <2>1
    <3>. QED BY <1>1, <1>4, <3>1, <3>2
  <2>3. i # cur BY <1>9
  <2>4. ~Belongs(loc, i) BY <1>1, <1>7, <2>3, BelongsOnce
  <2>. QED BY <2>2, <2>4 DEF LeftRightly
<1>. QED BY <1>12, <1>13, <1>14, <1>15, <1>16

----------------------------------------------------------------------------
(* The steps *)

\* A configuration is a sequence of descriptors that is not too long.
LEMMA ConfigurationTyped ==
  ASSUME NEW c \in Configurations
  PROVE  c \in Seq(Descriptors) /\ Len(c) \in Nat /\ Len(c) <= MaxDescriptors
<1>1. PICK n \in 0..MaxDescriptors : c \in [1..n -> Descriptors]
  BY Zenon DEF Configurations
<1>. QED BY <1>1, ModemAssumption

\* Every step of the search keeps the types.
LEMMA TypeKept == ModemTypeOK /\ [ModemNext]_modemVars => ModemTypeOK'
<1> SUFFICES ASSUME ModemTypeOK, [ModemNext]_modemVars PROVE ModemTypeOK'
  OBVIOUS
<1>1. /\ config \in Seq(Descriptors) /\ Len(config) \in Nat /\ Len(config) <= MaxDescriptors
      /\ CurrConfigLocation \in 0..MaxDescriptors
      /\ CDCControlInterface \in 0..MaxDescriptors
      /\ DataINEndpoint \in 0..MaxDescriptors /\ DataOUTEndpoint \in 0..MaxDescriptors
      /\ NotificationEndpoint \in 0..MaxDescriptors
      /\ phase \in Phases /\ ErrorCode \in ErrorCodes /\ leds \in Leds
      /\ attachments \in 0..MaxAttachments
      /\ phase = "searching" =>
           ErrorCode = "SuccessfulConfigRead" /\ CurrConfigLocation <= Len(config)
  BY DEF ModemTypeOK
<1>2. MaxDescriptors \in Nat /\ MaxAttachments \in Nat BY ModemAssumption
<1>3. 0 \in 0..MaxDescriptors BY <1>2
<1> DEFINE FoundTyped == /\ CurrConfigLocation \in 0..MaxDescriptors
                         /\ CDCControlInterface \in 0..MaxDescriptors
                         /\ DataINEndpoint \in 0..MaxDescriptors
                         /\ DataOUTEndpoint \in 0..MaxDescriptors
                         /\ NotificationEndpoint \in 0..MaxDescriptors
<1>4. ASSUME config' \in Seq(Descriptors), Len(config)' <= MaxDescriptors, FoundTyped',
             phase' \in Phases, ErrorCode' \in ErrorCodes, leds' \in Leds,
             attachments' \in 0..MaxAttachments,
             phase' = "searching" =>
               ErrorCode' = "SuccessfulConfigRead" /\ CurrConfigLocation' <= Len(config)'
      PROVE  ModemTypeOK'
  BY <1>4 DEF ModemTypeOK
<1>5. ASSUME NEW kinds, NextOf(Following(kinds)) # 0
      PROVE  /\ NextOf(Following(kinds)) \in 0..MaxDescriptors
             /\ NextOf(Following(kinds)) <= Len(config)
  <2>1. CurrConfigLocation \in Nat BY <1>1
  <2> DEFINE next == NextOf(Following(kinds))
  <2>2. next \in Nat /\ next <= Len(config) BY <1>1, <1>5, <2>1, NextFollowing
  <2> HIDE DEF next
  <2>3. next \in 0..MaxDescriptors BY <1>1, <1>2, <2>2
  <2>. QED BY <2>2, <2>3 DEF next
<1>6. CASE SetDeviceConfiguration
  <2>1. /\ config' = config /\ CurrConfigLocation' = CurrConfigLocation /\ found' = found
        /\ attachments' = attachments
        /\ \/ phase' = "reading" /\ leds' = leds /\ ErrorCode' = ErrorCode
           \/ phase' = "processed" /\ leds' = "ERROR" /\ ErrorCode' = "ControlError"
    BY <1>6, Zenon DEF SetDeviceConfiguration
  <2>2. /\ CurrConfigLocation' = CurrConfigLocation
        /\ CDCControlInterface' = CDCControlInterface
        /\ DataINEndpoint' = DataINEndpoint /\ DataOUTEndpoint' = DataOUTEndpoint
        /\ NotificationEndpoint' = NotificationEndpoint
    BY <2>1, Zenon DEF found
  <2>3. FoundTyped' BY <1>1, <2>2
  <2>4. phase' \in Phases /\ phase' # "searching" BY <2>1 DEF Phases
  <2>5. leds' \in Leds /\ ErrorCode' \in ErrorCodes BY <1>1, <2>1 DEF Leds, ErrorCodes, ReadCodes
  <2>6. config' \in Seq(Descriptors) /\ Len(config)' <= MaxDescriptors BY <1>1, <2>1
  <2>7. attachments' \in 0..MaxAttachments BY <1>1, <2>1
  <2> HIDE DEF FoundTyped
  <2>. QED BY <1>4, <2>3, <2>4, <2>5, <2>6, <2>7
<1>7. ASSUME NEW code \in ReadCodes, GetDeviceConfigDescriptor(code) PROVE ModemTypeOK'
  BY <1>1, <1>3, <1>4, <1>7 DEF GetDeviceConfigDescriptor, Phases, ErrorCodes
<1>8. CASE FoundEndpoint
  <2>1. /\ NextEndpoint # 0 /\ phase = "searching"
        /\ config' = config /\ CDCControlInterface' = CDCControlInterface /\ phase' = phase
        /\ ErrorCode' = ErrorCode /\ leds' = leds /\ attachments' = attachments
        /\ CurrConfigLocation' = NextEndpoint
        /\ NotificationEndpoint' \in {NextEndpoint, NotificationEndpoint}
        /\ DataINEndpoint' \in {NextEndpoint, DataINEndpoint}
        /\ DataOUTEndpoint' \in {NextEndpoint, DataOUTEndpoint}
    BY <1>8 DEF FoundEndpoint, NoEndpoint, Searching
  <2>2. NextEndpoint \in 0..MaxDescriptors /\ NextEndpoint <= Len(config)
    BY <1>5, <2>1, Zenon DEF NextEndpoint
  <2>3. FoundTyped' BY <1>1, <2>1, <2>2
  <2> HIDE DEF FoundTyped
  <2>. QED BY <1>1, <1>4, <2>1, <2>2, <2>3
<1>9. CASE NextDataInterface
  <2>1. NextInterface \in 0..MaxDescriptors /\ NextInterface <= Len(config)
    BY <1>5, <1>9, Zenon DEF NextInterface, NextDataInterface
  <2>. QED BY <1>1, <1>3, <1>4, <1>9, <2>1 DEF NextDataInterface
<1>10. CASE NextControlInterface
  <2>1. NextInterface \in 0..MaxDescriptors /\ NextInterface <= Len(config)
    BY <1>5, <1>10, Zenon DEF NextInterface, NextControlInterface
  <2>. QED BY <1>1, <1>4, <1>10, <2>1 DEF NextControlInterface
<1>11. CASE NoInterface
  BY <1>1, <1>4, <1>11 DEF NoInterface, found, Phases, ErrorCodes
<1>12. CASE ConfigurePipes
  BY <1>1, <1>4, <1>12 DEF ConfigurePipes, found, Phases
<1>13. CASE ProcessModemUSBStates
  BY <1>1, <1>4, <1>13 DEF ProcessModemUSBStates, found, Phases, Leds
<1>14. CASE EnumerationComplete
  BY <1>1, <1>4, <1>14 DEF EnumerationComplete, found, Phases, Leds
<1>15. CASE EnumerationFailed
  BY <1>1, <1>4, <1>15 DEF EnumerationFailed, found, Phases, Leds
<1>16. CASE DeviceUnattached
  BY <1>1, <1>4, <1>16 DEF DeviceUnattached, found, Phases, Leds
<1>17. CASE DeviceAttached
  <2>1. config' \in Seq(Descriptors) /\ Len(config') <= MaxDescriptors
    BY <1>17, ConfigurationTyped DEF DeviceAttached
  <2>2. attachments' \in 0..MaxAttachments BY <1>1, <1>2, <1>17 DEF DeviceAttached
  <2>. QED BY <1>1, <1>4, <1>17, <2>1, <2>2 DEF DeviceAttached, found, Phases, Leds, ErrorCodes
<1>18. CASE UNCHANGED modemVars BY <1>1, <1>4, <1>18 DEF modemVars, found
<1>. QED
  BY <1>6, <1>7, <1>8, <1>9, <1>10, <1>11, <1>12, <1>13, <1>14, <1>15, <1>16, <1>17, <1>18
  DEF ModemNext, Search

\* While nothing of the search changes, neither do the facts about it.
LEMMA SearchKept ==
  ASSUME ModemInv, UNCHANGED <<config, CurrConfigLocation, found>>,
         phase' = "searching" => phase = "searching" /\ ErrorCode' = ErrorCode,
         Enumerated' => Enumerated,
         ErrorCode' = "NoCompatibleInterfaceFound" => ErrorCode = ErrorCode'
  PROVE  ModemInv'
<1>1. /\ config' = config /\ CurrConfigLocation' = CurrConfigLocation
      /\ CDCControlInterface' = CDCControlInterface
      /\ DataINEndpoint' = DataINEndpoint /\ DataOUTEndpoint' = DataOUTEndpoint
      /\ NotificationEndpoint' = NotificationEndpoint
  BY DEF found
<1>2. \A j, k : Belongs(j, k)' <=> Belongs(j, k) BY <1>1, Zenon DEF Belongs
<1>3. \A i : HasAll(i)' <=> HasAll(i) BY <1>1, Zenon DEF HasAll, Belongs
<1>4. AllPlaced' <=> AllPlaced BY <1>1, Zenon DEF AllPlaced, Placed, Belongs
<1>5. Complete' <=> Complete BY <1>1, Zenon DEF Complete
<1>6. Configured' <=> Configured BY <1>1, Zenon DEF Configured
<1>7. Place' <=> Place BY <1>1, Zenon DEF Place, Belongs
<1>8. Taken' <=> Taken
  <2>1. \A k : Belongs(CurrConfigLocation, k)' <=> Belongs(CurrConfigLocation, k)
    BY <1>1, Zenon DEF Belongs
  <2> DEFINE P(k) == Belongs(CurrConfigLocation, k)
  <2>2. \A k : P(k)' <=> P(k) BY <2>1
  <2>3. Taken <=> \A k, j \in 1..Len(config) :
          P(k) /\ k < j /\ j <= CurrConfigLocation
            => /\ config[j] = "bulkIn" => DataINEndpoint # 0
               /\ config[j] = "bulkOut" => DataOUTEndpoint # 0
               /\ config[j] = "interruptIn" => NotificationEndpoint # 0
    BY Zenon DEF Taken
  <2>4. Taken' <=> \A k, j \in 1..Len(config') :
          P(k)' /\ k < j /\ j <= CurrConfigLocation'
            => /\ config'[j] = "bulkIn" => DataINEndpoint' # 0
               /\ config'[j] = "bulkOut" => DataOUTEndpoint' # 0
               /\ config'[j] = "interruptIn" => NotificationEndpoint' # 0
    BY Zenon DEF Taken
  <2> HIDE DEF P
  <2>. QED BY <1>1, <2>2, <2>3, <2>4
<1>9. LeftRightly' <=> LeftRightly
  <2> DEFINE P(k) == Belongs(CurrConfigLocation, k)
  <2>1. \A k : P(k)' <=> P(k) BY <1>1, Zenon DEF Belongs
  <2>3. LeftRightly <=> \A i \in 1..Len(config) :
          config[i] = "vendor" /\ i <= CurrConfigLocation /\ ~P(i) => ~HasAll(i)
    BY Zenon DEF LeftRightly
  <2>4. LeftRightly' <=> \A i \in 1..Len(config') :
          config'[i] = "vendor" /\ i <= CurrConfigLocation' /\ ~P(i)' => ~HasAll(i)'
    BY Zenon DEF LeftRightly
  <2> HIDE DEF P
  <2>. QED BY <1>1, <1>3, <2>1, <2>3, <2>4
<1>10. NoneHasAll' <=> NoneHasAll BY <1>1, <1>3 DEF NoneHasAll
<1>. QED BY <1>1, <1>4, <1>5, <1>6, <1>7, <1>8, <1>9, <1>10 DEF ModemInv

\* Every step of the search keeps the invariant.
LEMMA ModemKept == ModemTypeOK /\ ModemInv /\ [ModemNext]_modemVars => ModemInv'
<1> SUFFICES ASSUME ModemTypeOK, ModemInv, [ModemNext]_modemVars PROVE ModemInv'
  OBVIOUS
<1>1. Configured BY DEF ModemInv
<1>2. ASSUME phase = "searching"
      PROVE  /\ CurrConfigLocation <= Len(config) /\ ErrorCode = "SuccessfulConfigRead"
             /\ AllPlaced /\ Place /\ Taken /\ LeftRightly
  BY <1>2 DEF ModemInv
<1>3. ASSUME phase' = "searching", ErrorCode' = "SuccessfulConfigRead",
             Configured', (CurrConfigLocation <= Len(config))',
             AllPlaced', Place', Taken', LeftRightly'
      PROVE  ModemInv'
  BY <1>3 DEF ModemInv, Enumerated
<1>4. CASE SetDeviceConfiguration
  <2>1. /\ config' = config /\ CurrConfigLocation' = CurrConfigLocation /\ found' = found
        /\ phase = "attached"
        /\ \/ phase' = "reading" /\ ErrorCode' = ErrorCode
           \/ phase' = "processed" /\ ErrorCode' = "ControlError"
    BY <1>4, Zenon DEF SetDeviceConfiguration
  <2>. QED BY <2>1, SearchKept DEF Enumerated
<1>5. ASSUME NEW code \in ReadCodes, GetDeviceConfigDescriptor(code) PROVE ModemInv'
  <2>1. /\ config' = config /\ CurrConfigLocation' = 0 /\ CDCControlInterface' = 0
        /\ DataINEndpoint' = 0 /\ DataOUTEndpoint' = 0 /\ NotificationEndpoint' = 0
        /\ ErrorCode' = code
        /\ phase' = IF code = "SuccessfulConfigRead" THEN "searching" ELSE "returned"
    BY <1>5, Zenon DEF GetDeviceConfigDescriptor
  <2>2. Configured' BY <1>1, <2>1 DEF Configured
  <2>3. CASE code = "SuccessfulConfigRead"
    <3>1. (CurrConfigLocation <= Len(config))' BY <1>1, <2>1 DEF Configured
    <3>2. AllPlaced' /\ Place' BY <2>1 DEF AllPlaced, Place
    <3>3. Len(config) \in Nat BY <1>1 DEF Configured
    <3>4. Taken' /\ LeftRightly' BY <2>1, <3>3 DEF Taken, LeftRightly
    <3>. QED BY <1>3, <2>1, <2>2, <2>3, <3>1, <3>2, <3>4
  <2>4. CASE code # "SuccessfulConfigRead"
    <3>1. code # "NoCompatibleInterfaceFound" BY DEF ReadCodes
    <3>. QED BY <2>1, <2>2, <2>4, <3>1 DEF ModemInv, Enumerated
  <2>. QED BY <2>3, <2>4
<1>6. CASE FoundEndpoint
  <2>1. phase = "searching" /\ phase' = phase /\ ErrorCode' = ErrorCode
    BY <1>6, Zenon DEF FoundEndpoint, Searching
  <2>. QED BY <1>1, <1>2, <1>3, <1>6, <2>1, FoundKept
<1> DEFINE next == NextOf(Following({"vendor"}))
<1>7. ASSUME NoEndpoint, next # 0
      PROVE  /\ next \in 1..Len(config) /\ config[next] = "vendor"
             /\ \A i \in 1..Len(config) : config[i] = "vendor" /\ i < next => ~HasAll(i)
  <2>1. phase = "searching" BY <1>7, Zenon DEF NoEndpoint, Searching
  <2>2. Len(config) \in Nat /\ CurrConfigLocation \in Nat BY <1>1 DEF Configured
  <2>3. /\ next \in Nat /\ next > CurrConfigLocation /\ next <= Len(config)
        /\ config[next] \in {"vendor"}
        /\ \A j \in (CurrConfigLocation + 1)..(next - 1) : config[j] \notin {"vendor"}
    <3> DEFINE kinds == {"vendor"}
    <3> HIDE DEF kinds
    <3>1. NextOf(Following(kinds)) # 0 =>
            /\ NextOf(Following(kinds)) \in Nat
            /\ NextOf(Following(kinds)) > CurrConfigLocation
            /\ NextOf(Following(kinds)) <= Len(config)
            /\ config[NextOf(Following(kinds))] \in kinds
            /\ \A j \in (CurrConfigLocation + 1)..(NextOf(Following(kinds)) - 1) :
                 config[j] \notin kinds
      BY <2>2, NextFollowing
    <3>. QED BY <1>7, <3>1, Zenon DEF kinds
  <2> HIDE DEF next
  <2>4. ASSUME NEW i \in 1..Len(config), config[i] = "vendor", i < next
        PROVE  ~HasAll(i)
    <3>1. i <= CurrConfigLocation BY <2>2, <2>3, <2>4
    <3>. QED BY <1>1, <1>2, <1>7, <2>1, <2>4, <3>1, NoneBehind
  <2>. QED BY <2>2, <2>3, <2>4
<1>8. ASSUME NoEndpoint, next = 0 PROVE NoneHasAll
  <2>1. phase = "searching" BY <1>8, Zenon DEF NoEndpoint, Searching
  <2>2. Len(config) \in Nat /\ CurrConfigLocation \in Nat BY <1>1 DEF Configured
  <2>3. \A j \in (CurrConfigLocation + 1)..Len(config) : config[j] \notin {"vendor"}
    <3> DEFINE kinds == {"vendor"}
    <3> HIDE DEF kinds
    <3>1. NextOf(Following(kinds)) = 0 =>
            \A j \in (CurrConfigLocation + 1)..Len(config) : config[j] \notin kinds
      BY <2>2, NextFollowing
    <3>. QED BY <1>8, <3>1, Zenon DEF kinds
  <2> HIDE DEF next
  <2>4. ASSUME NEW i \in 1..Len(config), config[i] = "vendor"
        PROVE  ~HasAll(i)
    <3>1. i <= CurrConfigLocation BY <2>2, <2>3, <2>4
    <3>. QED BY <1>1, <1>2, <1>8, <2>1, <2>4, <3>1, NoneBehind
  <2>. QED BY <2>4 DEF NoneHasAll
<1>9. CASE NextDataInterface
  <2>1. /\ NoEndpoint /\ NotificationEndpoint # 0 /\ next # 0
        /\ config' = config /\ CurrConfigLocation' = next
        /\ DataINEndpoint' = 0 /\ DataOUTEndpoint' = 0
        /\ CDCControlInterface' = CDCControlInterface
        /\ NotificationEndpoint' = NotificationEndpoint
        /\ phase' = phase /\ ErrorCode' = ErrorCode /\ phase = "searching"
    BY <1>9, Zenon DEF NextDataInterface, NextInterface, NoEndpoint, Searching
  <2>2. CDCControlInterface # 0 BY <1>2, <2>1 DEF Place
  <2>3. AllPlaced'
    <3>1. Placed(NotificationEndpoint, "interruptIn") BY <1>2, <2>1 DEF AllPlaced
    <3>2. Placed(NotificationEndpoint, "interruptIn")'
      BY <2>1, <3>1, Zenon DEF Placed, Belongs
    <3>. QED BY <2>1, <3>2, Zenon DEF AllPlaced
  <2>4. /\ next \in 1..Len(config) /\ config[next] = "vendor"
        /\ \A i \in 1..Len(config) : config[i] = "vendor" /\ i < next => ~HasAll(i)
    BY <1>7, <2>1
  <2> HIDE DEF next
  <2>5. /\ Configured' /\ (CurrConfigLocation <= Len(config))'
        /\ Place' /\ Taken' /\ LeftRightly'
    BY <1>1, <2>1, <2>2, <2>3, <2>4, AtInterface
  <2>. QED BY <1>2, <1>3, <2>1, <2>3, <2>5
<1>10. CASE NextControlInterface
  <2>1. /\ NoEndpoint /\ NotificationEndpoint = 0 /\ next # 0
        /\ config' = config /\ CurrConfigLocation' = next
        /\ DataINEndpoint' = DataINEndpoint /\ DataOUTEndpoint' = DataOUTEndpoint
        /\ CDCControlInterface' = next
        /\ NotificationEndpoint' = NotificationEndpoint
        /\ phase' = phase /\ ErrorCode' = ErrorCode /\ phase = "searching"
    BY <1>10, Zenon DEF NextControlInterface, NextInterface, NoEndpoint, Searching
  <2>2. AllPlaced' BY <1>2, <2>1, Zenon DEF AllPlaced, Placed, Belongs
  <2>3. /\ next \in 1..Len(config) /\ config[next] = "vendor"
        /\ \A i \in 1..Len(config) : config[i] = "vendor" /\ i < next => ~HasAll(i)
    BY <1>7, <2>1
  <2> HIDE DEF next
  <2>4. /\ Configured' /\ (CurrConfigLocation <= Len(config))'
        /\ Place' /\ Taken' /\ LeftRightly'
    BY <1>1, <2>1, <2>2, <2>3, AtInterface
  <2>. QED BY <1>2, <1>3, <2>1, <2>2, <2>4
<1>11. CASE NoInterface
  <2>1. /\ NoEndpoint /\ next = 0 /\ ErrorCode' = "NoCompatibleInterfaceFound"
        /\ phase' = "returned" /\ config' = config
        /\ CurrConfigLocation' = CurrConfigLocation
    BY <1>11, Zenon DEF NoInterface, NextInterface
  <2>2. NoneHasAll BY <1>8, <2>1
  <2>3. \A i : HasAll(i)' <=> HasAll(i) BY <2>1, Zenon DEF HasAll, Belongs
  <2>5. NoneHasAll' BY <2>1, <2>2, <2>3 DEF NoneHasAll
  <2>4. Configured' BY <1>1, <2>1, Zenon DEF Configured
  <2>. QED BY <2>1, <2>4, <2>5 DEF ModemInv, Enumerated
<1>12. CASE ConfigurePipes
  <2>1. /\ phase = "searching" /\ Complete /\ phase' = "returned" /\ config' = config
        /\ CurrConfigLocation' = CurrConfigLocation /\ found' = found
        /\ ErrorCode' = ErrorCode
    BY <1>12, Zenon DEF ConfigurePipes
  <2>2. /\ CDCControlInterface' = CDCControlInterface
        /\ DataINEndpoint' = DataINEndpoint /\ DataOUTEndpoint' = DataOUTEndpoint
        /\ NotificationEndpoint' = NotificationEndpoint
    BY <2>1 DEF found
  <2>3. AllPlaced' /\ Complete'
    BY <1>2, <2>1, <2>2, Zenon DEF AllPlaced, Placed, Belongs, Complete
  <2>4. Configured' BY <1>1, <2>1, Zenon DEF Configured
  <2>. QED BY <1>2, <2>1, <2>3, <2>4 DEF ModemInv
<1>13. CASE ProcessModemUSBStates
  BY <1>13, SearchKept DEF ProcessModemUSBStates, Enumerated
<1>14. CASE EnumerationComplete
  BY <1>14, SearchKept DEF EnumerationComplete, Enumerated
<1>15. CASE EnumerationFailed
  BY <1>15, SearchKept DEF EnumerationFailed, Enumerated
<1>16. CASE DeviceUnattached
  BY <1>16, SearchKept DEF DeviceUnattached, Enumerated
<1>17. CASE DeviceAttached
  <2>1. /\ config' \in Configurations /\ phase' = "attached" /\ ErrorCode' = "None"
        /\ CurrConfigLocation' = CurrConfigLocation
    BY <1>17, Zenon DEF DeviceAttached
  <2>2. Configured' BY <1>1, <2>1, ConfigurationTyped DEF Configured
  <2>. QED BY <2>1, <2>2 DEF ModemInv, Enumerated
<1>18. CASE UNCHANGED modemVars
  BY <1>18, SearchKept DEF modemVars, Enumerated
<1>. QED
  BY <1>4, <1>5, <1>6, <1>9, <1>10, <1>11, <1>12, <1>13, <1>14, <1>15, <1>16, <1>17, <1>18
  DEF ModemNext, Search

\* The invariant holds when the program starts.
LEMMA ModemBegins == ModemInit => ModemTypeOK /\ ModemInv
<1> SUFFICES ASSUME ModemInit PROVE ModemTypeOK /\ ModemInv
  OBVIOUS
<1>1. Len(config) = 0 /\ config \in Seq(Descriptors) BY DEF ModemInit
<1>2. ModemTypeOK
  BY <1>1, ModemAssumption DEF ModemInit, ModemTypeOK, Phases, ErrorCodes, Leds
<1>3. ModemInv BY <1>1 DEF ModemInit, ModemInv, Configured, Enumerated
<1>. QED BY <1>2, <1>3

\* The invariant of the search holds in every reachable state.
THEOREM ModemInvariant == ModemSpec => [](ModemTypeOK /\ ModemInv)
BY ModemBegins, TypeKept, ModemKept, PTL DEF ModemSpec

----------------------------------------------------------------------------
(* The properties *)

\* The indices stay in the configuration, for configurations of any length.
THEOREM ModemTypeCorrect == ModemSpec => []ModemTypeOK
BY ModemInvariant, PTL

\* ProcessConfigurationDescriptor gives the three pipes endpoints of their kind, of the modem's
\* own interfaces, and finds none only if no interface of the modem's has all three.
THEOREM ModemIsFound == ModemSpec => []ModemFound
<1>1. ModemTypeOK /\ ModemInv => ModemFound
  <2> SUFFICES ASSUME ModemTypeOK, ModemInv PROVE ModemFound
    OBVIOUS
  <2>1. Len(config) \in Nat /\ config \in Seq(Descriptors) BY DEF ModemTypeOK
  <2>2. DOMAIN config = 1..Len(config) BY <2>1
  <2>3. ASSUME NEW e, NEW kind, Placed(e, kind)
        PROVE  config[e] = kind /\ config[InterfaceOf(e)] = "vendor"
    <3>1. PICK k \in 1..Len(config) : Belongs(e, k) /\ config[k] = "vendor"
      BY <2>3, Zenon DEF Placed
    <3>2. e \in Nat BY <2>1, <2>3 DEF Placed
    <3>3. InterfaceOf(e) = k BY <3>1, <3>2, InterfaceFound
    <3>. QED BY <2>3, <3>1, <3>3 DEF Placed
  <2>4. ASSUME Enumerated
        PROVE  /\ config[DataINEndpoint] = "bulkIn" /\ config[DataOUTEndpoint] = "bulkOut"
               /\ config[NotificationEndpoint] = "interruptIn"
               /\ \A e \in {DataINEndpoint, DataOUTEndpoint, NotificationEndpoint} :
                    config[InterfaceOf(e)] = "vendor"
    <3>1. /\ Placed(DataINEndpoint, "bulkIn") /\ Placed(DataOUTEndpoint, "bulkOut")
          /\ Placed(NotificationEndpoint, "interruptIn")
      BY <2>4 DEF ModemInv, AllPlaced, Complete
    <3>. QED BY <2>3, <3>1
  <2>5. ASSUME ErrorCode = "NoCompatibleInterfaceFound", NEW i \in DOMAIN config,
               config[i] = "vendor",
               Searched \subseteq {config[j] : j \in {k \in DOMAIN config : InterfaceOf(k) = i}}
        PROVE  FALSE
    <3>1. ~HasAll(i) BY <2>2, <2>5 DEF ModemInv, NoneHasAll
    <3>2. ASSUME NEW kind \in Searched
          PROVE  \E j \in 1..Len(config) : Belongs(j, i) /\ config[j] = kind
      <4>1. PICK j \in DOMAIN config : InterfaceOf(j) = i /\ config[j] = kind BY <2>5, <3>2
      <4>2. j \in Nat /\ i # 0 BY <2>1, <2>2
      <4>3. Belongs(j, i) BY <4>1, <4>2, InterfaceFound
      <4>. QED BY <2>2, <4>1, <4>3
    <3>. QED BY <3>1, <3>2 DEF HasAll
  <2>. QED BY <2>4, <2>5 DEF ModemFound
<1>. QED BY <1>1, ModemInvariant, PTL

\* Every step of the search that does not end it gets further on in the configuration, so it
\* ends on every one that a device may supply.
THEOREM SearchIsFinite == ModemSpec => SearchAdvances
<1>1. ModemTypeOK /\ ModemInv /\ [ModemNext]_modemVars
        => [phase = "searching" /\ phase' = "searching"
              => CurrConfigLocation' > CurrConfigLocation]_modemVars
  <2> SUFFICES ASSUME ModemTypeOK, ModemInv, ModemNext,
                      phase = "searching", phase' = "searching"
               PROVE  CurrConfigLocation' > CurrConfigLocation
    OBVIOUS
  <2>1. Len(config) \in Nat /\ CurrConfigLocation \in Nat BY DEF ModemInv, Configured
  <2>2. \A kinds : NextOf(Following(kinds)) # 0
                     => NextOf(Following(kinds)) > CurrConfigLocation
    BY <2>1, NextFollowing
  <2>3. FoundEndpoint \/ NextDataInterface \/ NextControlInterface
    BY DEF ModemNext, SetDeviceConfiguration, GetDeviceConfigDescriptor, Search, NoInterface,
           ConfigurePipes, ProcessModemUSBStates, EnumerationComplete, EnumerationFailed,
           DeviceUnattached, DeviceAttached
  <2>4. CASE FoundEndpoint
    <3>1. NextEndpoint # 0 /\ CurrConfigLocation' = NextEndpoint
      BY <2>4, Zenon DEF FoundEndpoint, NoEndpoint
    <3>2. NextEndpoint = NextOf(Following(Searched \cup Interfaces))
      BY <3>1, Zenon DEF NextEndpoint
    <3>. QED BY <2>2, <3>1, <3>2, Zenon
  <2>5. CASE NextDataInterface
    BY <2>2, <2>5, Zenon DEF NextDataInterface, NextInterface
  <2>6. CASE NextControlInterface
    BY <2>2, <2>6, Zenon DEF NextControlInterface, NextInterface
  <2>. QED BY <2>3, <2>4, <2>5, <2>6
<1>. QED BY <1>1, ModemInvariant, PTL DEF ModemSpec, SearchAdvances
----------------------------------------------------------------------------
(* What holds for a part holds for the whole *)

\* A behaviour of the whole is one of each part, some of them at rest.
LEMMA EachPart == Spec => FramingSpec /\ IPSpec /\ OptionsSpec /\ ModemSpec
<1>1. Init => FramingInit /\ IPInit /\ OptionsInit /\ ModemInit BY Zenon DEF Init
<1>2. ASSUME [Next]_vars
      PROVE  /\ [FramingNext]_framingVars /\ [IPNext]_ipVars
             /\ [OptionsNext]_optionsVars /\ [ModemNext]_modemVars
  <2>1. CASE UNCHANGED vars BY <2>1, Zenon DEF vars
  <2>2. CASE RunFraming BY <2>2, Zenon DEF RunFraming
  <2>3. CASE RunIP BY <2>3, Zenon DEF RunIP
  <2>4. CASE RunPacketOptions BY <2>4, Zenon DEF RunPacketOptions
  <2>5. CASE RunModemEnumeration BY <2>5, Zenon DEF RunModemEnumeration
  <2>. QED BY <1>2, <2>1, <2>2, <2>3, <2>4, <2>5, Zenon DEF Next
<1>. QED BY <1>1, <1>2, PTL DEF Spec, FramingSpec, IPSpec, OptionsSpec, ModemSpec

\* So the invariants and the action properties of IP, PacketOptions and ModemEnumeration are
\* those of the whole.
THEOREM PartsCorrect ==
  Spec => /\ [](IPTypeOK /\ OptionsTypeOK /\ ModemTypeOK)
          /\ [](ChecksumExact /\ DamageDropped /\ ReplyMirrorsPing)
          /\ [](RequestFollowsPeer /\ AnswerExact) /\ AddressStaysFirst
          /\ []ModemFound /\ SearchAdvances
<1>1. IPSpec => [](IPTypeOK /\ ChecksumExact /\ DamageDropped /\ ReplyMirrorsPing)
  BY IPTypeCorrect, ChecksumStaysExact, DamageIsDropped, AnswersMirror, PTL
<1>2. OptionsSpec => [](OptionsTypeOK /\ RequestFollowsPeer /\ AnswerExact)
  BY OptionsTypeCorrect, RequestsFollowPeer, AnswersExact, PTL
<1>3. ModemSpec => [](ModemTypeOK /\ ModemFound) BY ModemTypeCorrect, ModemIsFound, PTL
<1>. QED BY <1>1, <1>2, <1>3, EachPart, AddressIsFirst, SearchIsFinite, PTL
=============================================================================
