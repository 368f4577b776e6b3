------------------------------- MODULE IPProofs -------------------------------
(***************************************************************************)
(* Proofs about module IP, for packets of any bytes and any length an IP   *)
(* packet may have: the Internet checksum as uIP computes it, in 16-bit    *)
(* registers with the carry added back, is the one's complement sum; no    *)
(* ping with a damaged header is answered, and every whole one is; and an  *)
(* answer mirrors its ping.                                                *)
(*                                                                         *)
(* Sums are compared through Total, the sum of the words before it is      *)
(* reduced: adding a word with the carry keeps the total modulo 2^16 - 1;  *)
(* one byte of difference changes it by less than that; the complement of  *)
(* a sum makes it a multiple; and the adjusted checksum of an answer makes *)
(* up for its type.  What sequences of bytes lose or gain by a conversion  *)
(* is stated once (PartOf, PatchedOf, BytesOf, SendOf, EchoReplyOf).       *)
(***************************************************************************)
EXTENDS IP, TLAPS, SequenceTheorems, WellFoundedInduction

----------------------------------------------------------------------------
(* Running sums *)

\* A set of natural numbers has a least element.
LEMMA Least ==
  ASSUME NEW S, S \subseteq Nat, S # {}
  PROVE  \E m \in S : \A n \in S : m <= n
<1>1. PICK m \in S : \A n \in S : <<n, m>> \notin OpToRel(<, Nat)
  BY WFMin, NatLessThanWellFounded, Zenon
<1>2. ASSUME NEW n \in S PROVE m <= n
  <2>1. ~(n < m) BY <1>1, Zenon DEF OpToRel
  <2>. QED BY <2>1
<1>. QED BY <1>2

\* The running sums of some numbers
IsSum(s, w, n) == s = [j \in 0..n |-> IF j = 0 THEN 0 ELSE s[j - 1] + w[j]]
\* The same with the carry added back
IsCarrySum(s, w, n) == s = [j \in 0..n |-> IF j = 0 THEN 0 ELSE AddCarry(s[j - 1], w[j])]

\* There are running sums: of the numbers up to the first place without them, but for one.
LEMMA SumExists ==
  ASSUME NEW n \in Nat, NEW w
  PROVE  \E s : IsSum(s, w, n)
<1> DEFINE Lacking == {m \in Nat : ~\E s : IsSum(s, w, m)}
<1>1. ASSUME Lacking # {} PROVE FALSE
  <2>1. PICK m \in Lacking : \A k \in Lacking : m <= k
    BY <1>1, Least
  <2>2. m \in Nat /\ ~\E s : IsSum(s, w, m) BY <2>1
  <2>3. \A k \in Nat : k < m => \E s : IsSum(s, w, k) BY <2>1
  <2> HIDE DEF Lacking
  <2>4. CASE m = 0
    <3> DEFINE s == [j \in 0..m |-> 0]
    <3>1. IsSum(s, w, m) BY <2>4 DEF IsSum
    <3>. QED BY <2>2, <3>1
  <2>5. CASE m # 0
    <3>1. m - 1 \in Nat /\ m - 1 < m BY <2>2, <2>5
    <3>2. PICK r : IsSum(r, w, m - 1) BY <2>3, <3>1
    <3>3. \A j \in 0..(m - 1) : r[j] = IF j = 0 THEN 0 ELSE r[j - 1] + w[j]
      BY <3>2, Zenon DEF IsSum
    <3> DEFINE last == r[m - 1] + w[m]
               s == [j \in 0..m |-> IF j = m THEN last ELSE r[j]]
    <3> HIDE DEF last
    <3>4. ASSUME NEW j \in 0..m PROVE s[j] = IF j = 0 THEN 0 ELSE s[j - 1] + w[j]
      <4>1. CASE j = 0 BY <2>2, <2>5, <3>1, <3>3, <4>1
      <4>2. CASE j # 0 /\ j # m
        <5>1. s[j] = r[j] /\ s[j - 1] = r[j - 1] BY <2>2, <4>2
        <5>2. j \in 0..(m - 1) BY <2>2, <4>2
        <5>3. r[j] = r[j - 1] + w[j] BY <3>3, <4>2, <5>2
        <5>. QED BY <4>2, <5>1, <5>3
      <4>3. CASE j = m
        <5>1. s[j] = last /\ s[j - 1] = r[m - 1] BY <2>2, <2>5, <4>3
        <5>. QED BY <2>5, <4>3, <5>1 DEF last
      <4>. QED BY <4>1, <4>2, <4>3
    <3>5. IsSum(s, w, m) BY <3>4 DEF IsSum
    <3>. QED BY <2>2, <3>5
  <2>. QED BY <2>4, <2>5
<1>. QED BY <1>1

\* The running sums of words are natural numbers.
LEMMA SumNat ==
  ASSUME NEW n \in Nat, NEW w, NEW s, IsSum(s, w, n),
         \A j \in 1..n : w[j] \in Nat
  PROVE  \A j \in 0..n : s[j] \in Nat
<1>1. \A j \in 0..n : s[j] = IF j = 0 THEN 0 ELSE s[j - 1] + w[j]
  BY Zenon DEF IsSum
<1> DEFINE Lacking == {j \in 0..n : s[j] \notin Nat}
<1>2. ASSUME Lacking # {} PROVE FALSE
  <2>0. Lacking \subseteq Nat OBVIOUS
  <2>1. PICK m \in Lacking : \A k \in Lacking : m <= k
    <3> HIDE DEF Lacking
    <3>. QED BY <1>2, <2>0, Least
  <2>2. m \in 0..n /\ s[m] \notin Nat BY <2>1
  <2>3. m # 0 BY <1>1, <2>2
  <2>4. m - 1 \in 0..n /\ m \in 1..n BY <2>2, <2>3
  <2>5. s[m - 1] \in Nat BY <2>1, <2>4
  <2>. QED BY <1>1, <2>2, <2>3, <2>4, <2>5
<1>. QED BY <1>2

----------------------------------------------------------------------------
(* The carry *)

\* A sum modulo 2^16 - 1, zero only for zero
Reduced(total) == IF total = 0 THEN 0 ELSE ((total - 1) % MaxWord) + 1

\* A number is its rounds of 2^16 - 1 and what is left of them ...
LEMMA RoundsExist ==
  ASSUME NEW x \in Int
  PROVE  /\ x % MaxWord \in Int /\ 0 <= x % MaxWord /\ x % MaxWord < 65535
         /\ x \div MaxWord \in Int /\ x = (x % MaxWord) + 65535 * (x \div MaxWord)
BY SMT DEF MaxWord

\* ... in one way.
LEMMA RoundsUnique ==
  ASSUME NEW x \in Int, NEW k \in Int, NEW r \in Int, 0 <= r, r < 65535, x = r + 65535 * k
  PROVE  x % MaxWord = r
BY SMT DEF MaxWord

\* What a word is, without the interval.
LEMMA WordRange == \A t : t \in Word16 <=> t \in Int /\ 0 <= t /\ t <= 65535
<1>1. MaxWord \in Int BY DEF MaxWord
<1>2. \A t : t \in Word16 <=> t \in Int /\ 0 <= t /\ t <= MaxWord BY <1>1 DEF Word16
<1>. QED BY <1>2 DEF MaxWord

\* The largest word of 16 bits is 65535.
LEMMA LastWord == MaxWord \in Word16 /\ MaxWord = 65535
<1>1. MaxWord \in Word16 BY DEF Word16, MaxWord
<1>. QED BY <1>1 DEF MaxWord

\* A sum of two words loses 2^16 at most once.
LEMMA CarryOut ==
  ASSUME NEW x \in Int, 0 <= x, x < 131072
  PROVE  x % 65536 = IF x < 65536 THEN x ELSE x - 65536
BY SMT

\* The sum of two words and the carry
LEMMA CarryAdded ==
  ASSUME NEW a \in Word16, NEW t \in Word16
  PROVE  AddCarry(a, t) = IF a + t < 65536 THEN a + t ELSE a + t - 65535
<1>1. a \in Int /\ 0 <= a /\ a <= 65535 /\ t \in Int /\ 0 <= t /\ t <= 65535
  BY WordRange
<1>2. (a + t) % 65536 = IF a + t < 65536 THEN a + t ELSE a + t - 65536
  BY <1>1, CarryOut
<1> DEFINE s == (a + t) % 65536
<1>3. AddCarry(a, t) = IF s < t THEN (s + 1) % 65536 ELSE s BY DEF AddCarry
<1>4. s = IF a + t < 65536 THEN a + t ELSE a + t - 65536 BY <1>2
<1> HIDE DEF s
<1>5. s < t <=> a + t >= 65536 BY <1>1, <1>4
<1>6. a + t >= 65536 => (s + 1) % 65536 = s + 1
  <2>1. a + t >= 65536 => s + 1 \in Int /\ 0 <= s + 1 /\ s + 1 < 65536 BY <1>1, <1>4
  <2>2. a + t >= 65536 => (s + 1) % 65536 = IF s + 1 < 65536 THEN s + 1 ELSE s + 1 - 65536
    BY <2>1, CarryOut
  <2>. QED BY <2>1, <2>2
<1>. QED BY <1>1, <1>3, <1>4, <1>5, <1>6

\* A total modulo 2^16 - 1 is a word.
LEMMA ReducedWord ==
  ASSUME NEW total \in Nat
  PROVE  Reduced(total) \in Word16
<1> DEFINE r == (total - 1) % MaxWord
<1>1. r \in Int /\ 0 <= r /\ r < 65535 BY RoundsExist
<1> HIDE DEF r
<1>2. r + 1 \in Word16 /\ 0 \in Word16 BY <1>1, WordRange
<1>. QED BY <1>2, Zenon DEF Reduced, r

\* Only zero reduces to zero.
LEMMA ReducedNotZero ==
  ASSUME NEW total \in Nat, total # 0
  PROVE  Reduced(total) # 0
<1> DEFINE r == (total - 1) % MaxWord
<1>1. r \in Int /\ 0 <= r BY RoundsExist
<1> HIDE DEF r
<1>2. r + 1 # 0 BY <1>1
<1>. QED BY <1>2, Zenon DEF Reduced, r

\* Adding a word with the carry reduces the sum as it is by definition.
LEMMA CarryReduces ==
  ASSUME NEW total \in Nat, NEW t \in Word16
  PROVE  AddCarry(Reduced(total), t) = Reduced(total + t)
<1>1. t \in Int /\ 0 <= t /\ t <= 65535 BY WordRange
<1>2. CASE total = 0
  <2>1. Reduced(total) = 0 /\ 0 \in Word16 BY <1>2, WordRange DEF Reduced
  <2>2. AddCarry(0, t) = t BY <1>1, <2>1, CarryAdded
  <2>3. ASSUME t # 0 PROVE (t - 1) % MaxWord = t - 1
    <3> DEFINE x == t - 1
    <3>1. x \in Int /\ 0 <= x /\ x < 65535 BY <1>1, <2>3
    <3> HIDE DEF x
    <3>2. 0 \in Int /\ x = x + 65535 * 0 BY <3>1
    <3>3. x % MaxWord = x BY <3>1, <3>2, RoundsUnique
    <3>. QED BY <3>3 DEF x
  <2>4. Reduced(t) = t BY <1>1, <2>3 DEF Reduced
  <2>5. total + t = t BY <1>1, <1>2
  <2>. QED BY <2>1, <2>2, <2>4, <2>5
<1>3. CASE total # 0
  <2> DEFINE q == (total - 1) \div MaxWord
             r == (total - 1) % MaxWord
  <2>1. q \in Int /\ r \in Int /\ 0 <= r /\ r < 65535 /\ total - 1 = r + 65535 * q
    BY RoundsExist
  <2>2. Reduced(total) = r + 1 BY <1>3, Zenon DEF Reduced
  <2> HIDE DEF q, r
  <2> DEFINE sum == total + t
             x   == sum - 1
  <2>3. x = r + t + 65535 * q BY <1>1, <1>3, <2>1
  <2>9. x \in Int /\ q \in Int BY <1>1, <2>1
  <2>10. sum # 0 BY <1>1, <1>3
  <2>4. Reduced(sum) = (x % MaxWord) + 1
    <3> HIDE DEF sum
    <3>. QED BY <2>10, Zenon DEF Reduced
  <2> HIDE DEF x
  <2>5. r + 1 \in Word16 BY <2>1, WordRange
  <2>6. AddCarry(r + 1, t) = IF r + 1 + t < 65536 THEN r + 1 + t ELSE r + 1 + t - 65535
    BY <2>5, CarryAdded
  <2>7. CASE r + t < 65535
    <3> DEFINE left == r + t
    <3>1. left \in Int /\ 0 <= left /\ left < 65535 BY <1>1, <2>1, <2>7
    <3> HIDE DEF left
    <3>2. x = left + 65535 * q BY <2>3 DEF left
    <3>3. x % MaxWord = left BY <2>9, <3>1, <3>2, RoundsUnique
    <3>4. left = r + t BY DEF left
    <3>. QED BY <1>1, <2>1, <2>2, <2>4, <2>6, <2>7, <3>3, <3>4
  <2>8. CASE ~(r + t < 65535)
    <3> DEFINE left == r + t - 65535
               k    == q + 1
    <3>1. left \in Int /\ 0 <= left /\ left < 65535 /\ k \in Int BY <1>1, <2>1, <2>8
    <3>2. x = left + 65535 * k BY <1>1, <2>1, <2>3
    <3> HIDE DEF left, k
    <3>3. x % MaxWord = left BY <2>9, <3>1, <3>2, RoundsUnique
    <3>4. left = r + t - 65535 BY DEF left
    <3>. QED BY <1>1, <2>1, <2>2, <2>4, <2>6, <2>8, <3>3, <3>4
  <2>. QED BY <2>7, <2>8
<1>. QED BY <1>2, <1>3

\* The running sums with the carry exist: they are the reduced ones.
LEMMA CarrySumExists ==
  ASSUME NEW n \in Nat, NEW w, NEW s, IsSum(s, w, n),
         \A j \in 1..n : w[j] \in Word16
  PROVE  \E c : IsCarrySum(c, w, n)
<1> DEFINE c == [j \in 0..n |-> Reduced(s[j])]
<1>1. \A j \in 0..n : s[j] \in Nat
  <2>1. \A j \in 1..n : w[j] \in Nat BY WordRange
  <2>. QED BY <2>1, SumNat
<1>2. \A j \in 0..n : s[j] = IF j = 0 THEN 0 ELSE s[j - 1] + w[j]
  BY Zenon DEF IsSum
<1>3. ASSUME NEW j \in 0..n PROVE c[j] = IF j = 0 THEN 0 ELSE AddCarry(c[j - 1], w[j])
  <2>1. CASE j = 0 BY <1>2, <2>1 DEF Reduced
  <2>2. CASE j # 0
    <3>1. j - 1 \in 0..n /\ j \in 1..n BY <2>2
    <3>2. c[j - 1] = Reduced(s[j - 1]) /\ c[j] = Reduced(s[j]) BY <3>1
    <3>3. s[j - 1] \in Nat /\ w[j] \in Word16 /\ s[j] = s[j - 1] + w[j] BY <1>1, <1>2, <2>2, <3>1
    <3>4. AddCarry(Reduced(s[j - 1]), w[j]) = Reduced(s[j - 1] + w[j]) BY <3>3, CarryReduces
    <3> HIDE DEF c
    <3>. QED BY <2>2, <3>2, <3>3, <3>4
  <2>. QED BY <2>1, <2>2
<1>4. IsCarrySum(c, w, n) BY <1>3 DEF IsCarrySum
<1>. QED BY <1>4

\* Each running sum with the carry is the reduced one.
LEMMA CarrySumReduced ==
  ASSUME NEW n \in Nat, NEW w, NEW s, IsSum(s, w, n), NEW c, IsCarrySum(c, w, n),
         \A j \in 1..n : w[j] \in Word16
  PROVE  \A j \in 0..n : c[j] = Reduced(s[j])
<1>1. \A j \in 0..n : s[j] \in Nat
  <2>1. \A j \in 1..n : w[j] \in Nat BY WordRange
  <2>. QED BY <2>1, SumNat
<1>2. \A j \in 0..n : s[j] = IF j = 0 THEN 0 ELSE s[j - 1] + w[j]
  BY Zenon DEF IsSum
<1>3. \A j \in 0..n : c[j] = IF j = 0 THEN 0 ELSE AddCarry(c[j - 1], w[j])
  BY Zenon DEF IsCarrySum
<1> DEFINE Wrong == {j \in 0..n : c[j] # Reduced(s[j])}
<1>4. ASSUME Wrong # {} PROVE FALSE
  <2>0. Wrong \subseteq Nat OBVIOUS
  <2>1. PICK m \in Wrong : \A k \in Wrong : m <= k
    <3> HIDE DEF Wrong
    <3>. QED BY <1>4, <2>0, Least
  <2>2. m \in 0..n /\ c[m] # Reduced(s[m]) BY <2>1
  <2>3. m # 0 BY <1>2, <1>3, <2>2 DEF Reduced
  <2>4. m - 1 \in 0..n /\ m \in 1..n BY <2>2, <2>3
  <2>5. c[m - 1] = Reduced(s[m - 1]) BY <2>1, <2>4
  <2>6. s[m - 1] \in Nat /\ w[m] \in Word16 BY <1>1, <2>4
  <2>7. AddCarry(Reduced(s[m - 1]), w[m]) = Reduced(s[m - 1] + w[m]) BY <2>6, CarryReduces
  <2>8. s[m] = s[m - 1] + w[m] /\ c[m] = AddCarry(c[m - 1], w[m]) BY <1>2, <1>3, <2>3, <2>4
  <2>. QED BY <2>2, <2>5, <2>7, <2>8
<1>. QED BY <1>4

----------------------------------------------------------------------------
(* The checksum *)

\* What a byte is, without the interval.
LEMMA ByteRange == \A t : t \in Byte <=> t \in Int /\ 0 <= t /\ t <= 255
BY SMT DEF Byte

\* The byte a message is filled up with
LEMMA ZeroByte == 0 \in Byte
BY ByteRange

\* What a sequence has
LEMMA Elements ==
  ASSUME NEW S, NEW q \in Seq(S)
  PROVE  /\ DOMAIN q = 1..Len(q) /\ Len(q) \in Nat
         /\ \A i \in 1..Len(q) : q[i] \in S
OBVIOUS

\* A sequence of bytes has one word for two bytes, and a last one if there is a byte left.
LEMMA WordsOf ==
  ASSUME NEW data \in Seq(Byte)
  PROVE  /\ Len(Words(data)) \in Nat
         /\ \A j \in 1..Len(Words(data)) : Words(data)[j] \in Word16
<1> DEFINE n == (Len(data) + 1) \div 2
<1>1. n \in Nat /\ 2 * n <= Len(data) + 1 OBVIOUS
<1> HIDE DEF n
<1>2. Words(data) = [j \in 1..n |-> WordAt(data, j)] BY Zenon DEF Words, n
<1>3. Len(Words(data)) = n BY <1>1, <1>2
<1>4. ASSUME NEW j \in 1..n PROVE WordAt(data, j) \in Word16
  <2>0. DOMAIN data = 1..Len(data) /\ \A i \in 1..Len(data) : data[i] \in Byte
    BY Elements
  <2>1. 2 * j - 1 \in 1..Len(data) BY <1>1
  <2>2. data[2 * j - 1] \in Int /\ 0 <= data[2 * j - 1] /\ data[2 * j - 1] <= 255
    BY <2>0, <2>1, ByteRange
  <2> DEFINE low == IF 2 * j \in DOMAIN data THEN data[2 * j] ELSE 0
  <2>3. low \in Int /\ 0 <= low /\ low <= 255 BY <2>0, ByteRange
  <2>4. WordAt(data, j) = data[2 * j - 1] * 256 + low BY DEF WordAt, Word
  <2> HIDE DEF low
  <2>. QED BY <2>2, <2>3, <2>4, WordRange
<1>. QED BY <1>1, <1>2, <1>3, <1>4

\* The sum of the words of a sequence of bytes
Sums(data)  == CHOOSE s : IsSum(s, Words(data), Len(Words(data)))
Total(data) == Sums(data)[Len(Words(data))]

\* Any bytes have a sum of words, and the one's complement sum is that sum, reduced.
LEMMA TotalIsSum ==
  ASSUME NEW data \in Seq(Byte)
  PROVE  /\ IsSum(Sums(data), Words(data), Len(Words(data)))
         /\ Total(data) \in Nat
         /\ OnesComplementSum(data) = Reduced(Total(data))
         /\ OnesComplementSum(data) \in Word16
<1> DEFINE w == Words(data)
           n == Len(w)
           s == Sums(data)
<1>1. n \in Nat /\ \A j \in 1..n : w[j] \in Word16 BY WordsOf
<1>2. OnesComplementSum(data) = Reduced(s[n])
  BY DEF OnesComplementSum, Reduced, IsSum, MaxWord, Sums
<1> HIDE DEF w, n
<1>3. IsSum(s, w, n) BY <1>1, SumExists, Zenon DEF Sums, w, n
<1> HIDE DEF s
<1>4. s[n] \in Nat
  <2>1. \A j \in 1..n : w[j] \in Nat BY <1>1, WordRange
  <2>2. n \in 0..n BY <1>1
  <2>. QED BY <1>1, <1>3, <2>1, <2>2, SumNat
<1>. QED BY <1>2, <1>3, <1>4, ReducedWord DEF Total, s, n, w

\* The checksum is the one's complement sum.
THEOREM ChecksumIsSum ==
  ASSUME NEW data \in Seq(Byte)
  PROVE  chksum(0, data) = OnesComplementSum(data)
<1> DEFINE w == Words(data)
           n == Len(w)
           c == CHOOSE c : IsCarrySum(c, w, n)
           s == Sums(data)
<1>1. n \in Nat /\ \A j \in 1..n : w[j] \in Word16 BY WordsOf
<1>2. chksum(0, data) = c[n] BY DEF chksum, IsCarrySum
<1>3. OnesComplementSum(data) = Reduced(s[n]) /\ IsSum(s, w, n) BY TotalIsSum, Zenon DEF Total
<1> HIDE DEF w, n, s
<1>4. IsCarrySum(c, w, n)
  <2>1. \E x : IsCarrySum(x, w, n) BY <1>1, <1>3, CarrySumExists
  <2>. QED BY <2>1, Zenon
<1> HIDE DEF c
<1>5. n \in 0..n BY <1>1
<1>6. c[n] = Reduced(s[n]) BY <1>1, <1>3, <1>4, <1>5, CarrySumReduced
<1>. QED BY <1>2, <1>3, <1>6

----------------------------------------------------------------------------
(* Packets *)

\* Short sequences
LEMMA Tuples ==
  ASSUME NEW S, NEW a \in S, NEW b \in S, NEW c \in S, NEW d \in S
  PROVE  /\ <<a>> \in Seq(S) /\ <<a, b>> \in Seq(S) /\ <<a, b, c, d>> \in Seq(S)
         /\ Len(<<a>>) = 1 /\ Len(<<a, b>>) = 2 /\ Len(<<a, b, c, d>>) = 4
OBVIOUS

\* A part of a packet
LEMMA PartOf ==
  ASSUME NEW p \in Seq(Byte), NEW first \in Nat, NEW length \in Nat, first + length <= Len(p)
  PROVE  /\ Part(p, first, length) \in Seq(Byte) /\ Len(Part(p, first, length)) = length
         /\ \A i \in 1..length : Part(p, first, length)[i] = p[first + i]
<1> DEFINE m == first + 1
           n == first + length
<1>1. m \in Int /\ n \in Int /\ n - m + 1 = length /\ (m <= n <=> length > 0) OBVIOUS
<1>2. \A i \in m..n : p[i] \in Byte BY Elements
<1>3. Part(p, first, length) = SubSeq(p, m, n) BY Zenon DEF Part
<1>4. \A i \in 1..length : m + i - 1 = first + i OBVIOUS
<1> HIDE DEF m, n
<1>5. /\ SubSeq(p, m, n) \in Seq(Byte) /\ Len(SubSeq(p, m, n)) = IF m <= n THEN n - m + 1 ELSE 0
      /\ \A i \in 1..(n - m + 1) : SubSeq(p, m, n)[i] = p[m + i - 1]
  BY <1>1, <1>2, SubSeqProperties
<1>6. Len(Part(p, first, length)) = length BY <1>1, <1>3, <1>5
<1>. QED BY <1>1, <1>3, <1>4, <1>5, <1>6

\* A packet with some of its bytes put in the place of others
LEMMA PatchedOf ==
  ASSUME NEW p \in Seq(Byte), NEW offset \in Nat, NEW bytes \in Seq(Byte),
         offset + Len(bytes) <= Len(p)
  PROVE  /\ Patched(p, offset, bytes) \in Seq(Byte) /\ Len(Patched(p, offset, bytes)) = Len(p)
         /\ \A i \in 1..Len(p) :
              Patched(p, offset, bytes)[i] =
                IF offset < i /\ i <= offset + Len(bytes) THEN bytes[i - offset] ELSE p[i]
<1> DEFINE m == offset + Len(bytes)
           n == Len(p) - m
           head == Part(p, 0, offset)
           tail == Part(p, m, n)
<1>1. Len(bytes) \in Nat /\ Len(p) \in Nat BY Elements
<1>2. m \in Nat /\ n \in Nat /\ m + n = Len(p) /\ m <= Len(p) /\ offset <= Len(p) BY <1>1
<1>3. /\ head \in Seq(Byte) /\ Len(head) = offset
      /\ \A i \in 1..offset : head[i] = p[i]
  <2>1. 0 \in Nat /\ 0 + offset <= Len(p) /\ \A i \in 1..offset : 0 + i = i BY <1>2
  <2>2. /\ head \in Seq(Byte) /\ Len(head) = offset
        /\ \A i \in 1..offset : head[i] = p[0 + i]
    BY <2>1, PartOf
  <2>. QED BY <2>1, <2>2
<1>4. /\ tail \in Seq(Byte) /\ Len(tail) = n /\ \A i \in 1..n : tail[i] = p[m + i]
  <2> HIDE DEF m, n
  <2>. QED BY <1>2, PartOf
<1>5. Patched(p, offset, bytes) = head \o bytes \o tail
  <2>1. head = SubSeq(p, 1, offset) BY DEF Part
  <2>2. tail = SubSeq(p, m + 1, Len(p)) BY <1>2, Zenon DEF Part
  <2>. QED BY <2>1, <2>2, Zenon DEF Patched
<1> HIDE DEF head, tail
<1>6. /\ head \o bytes \in Seq(Byte) /\ Len(head \o bytes) = m
      /\ \A i \in 1..m : (head \o bytes)[i] = IF i <= offset THEN head[i] ELSE bytes[i - offset]
  BY <1>3, ConcatProperties
<1> DEFINE front == head \o bytes
           q == front \o tail
<1> HIDE DEF m, n
<1>10. front \in Seq(Byte) /\ Len(front) = m BY <1>6
<1>11. \A i \in 1..m : front[i] = IF i <= offset THEN head[i] ELSE bytes[i - offset] BY <1>6
<1> HIDE DEF front
<1>7. /\ q \in Seq(Byte) /\ Len(q) = m + n
      /\ \A i \in 1..(m + n) : q[i] = IF i <= m THEN front[i] ELSE tail[i - m]
  <2>1. front \in Seq(Byte) /\ tail \in Seq(Byte) /\ Len(front) = m /\ Len(tail) = n
    BY <1>4, <1>10
  <2>2. /\ q \in Seq(Byte) /\ Len(q) = Len(front) + Len(tail)
        /\ \A i \in 1..(Len(front) + Len(tail)) :
             q[i] = IF i <= Len(front) THEN front[i] ELSE tail[i - Len(front)]
    BY <2>1, ConcatProperties
  <2> HIDE DEF q
  <2>. QED BY <2>1, <2>2
<1>8. Patched(p, offset, bytes) = q BY <1>5 DEF front
<1> HIDE DEF q
<1>9. ASSUME NEW i \in 1..Len(p)
      PROVE  q[i] = IF offset < i /\ i <= offset + Len(bytes) THEN bytes[i - offset] ELSE p[i]
  <2>1. i \in Nat /\ 1 <= i /\ i <= m + n BY <1>1, <1>2
  <2>2. m = offset + Len(bytes) BY DEF m
  <2>6. i \in 1..(m + n) BY <1>2, <2>1
  <2>7. q[i] = IF i <= m THEN front[i] ELSE tail[i - m] BY <1>7, <2>6
  <2>3. CASE i <= offset
    <3>1. i \in 1..m /\ i \in 1..offset BY <1>1, <2>1, <2>2, <2>3
    <3>2. q[i] = front[i] BY <2>7, <3>1
    <3>3. front[i] = head[i] BY <1>11, <2>3, <3>1
    <3>4. q[i] = p[i] BY <1>3, <3>1, <3>2, <3>3
    <3>. QED BY <2>1, <2>3, <3>4
  <2>4. CASE offset < i /\ i <= m
    <3>1. i \in 1..m /\ ~(i <= offset) BY <1>2, <2>1, <2>4
    <3>2. q[i] = front[i] BY <2>7, <3>1
    <3>3. front[i] = bytes[i - offset] BY <1>11, <3>1
    <3>. QED BY <2>2, <2>4, <3>2, <3>3
  <2>5. CASE m < i
    <3>1. i - m \in 1..n /\ m + (i - m) = i /\ ~(i <= m) BY <1>2, <2>1, <2>5
    <3>2. q[i] = tail[i - m] BY <2>7, <3>1
    <3>3. tail[i - m] = p[i] BY <1>4, <3>1
    <3>. QED BY <2>2, <3>1, <3>2, <3>3
  <2>. QED BY <1>2, <2>1, <2>3, <2>4, <2>5
<1>. QED BY <1>2, <1>7, <1>8, <1>9

\* A word's bytes
LEMMA BytesOf ==
  ASSUME NEW w \in Word16
  PROVE  /\ Bytes(w) \in Seq(Byte) /\ Len(Bytes(w)) = 2
         /\ Bytes(w)[1] \in Byte /\ Bytes(w)[2] \in Byte
         /\ Word(Bytes(w)[1], Bytes(w)[2]) = w
<1> DEFINE high == w \div 256
           low  == w % 256
<1>1. w \in Int /\ 0 <= w /\ w <= 65535 BY WordRange
<1>2. /\ high \in Int /\ 0 <= high /\ high <= 255 /\ low \in Int /\ 0 <= low /\ low <= 255
      /\ Word(high, low) = w
  BY <1>1 DEF Word
<1>3. Bytes(w) = <<high, low>> BY Zenon DEF Bytes
<1> HIDE DEF high, low
<1>4. high \in Byte /\ low \in Byte BY <1>2, ByteRange
<1>5. <<high, low>> \in Seq(Byte) /\ Len(<<high, low>>) = 2 BY <1>4, Tuples
<1>. QED BY <1>2, <1>3, <1>4, <1>5

\* A packet with its checksum written into it
LEMMA WithChecksumOf ==
  ASSUME NEW p \in Seq(Byte), NEW offset \in Nat, offset + 2 <= Len(p),
         NEW q, q = WithChecksum(p, offset)
  PROVE  /\ q \in Seq(Byte) /\ Len(q) = Len(p)
         /\ \A i \in 1..Len(p) : i # offset + 1 /\ i # offset + 2 => q[i] = p[i]
         /\ Word(q[offset + 1], q[offset + 2]) = Complement(OnesComplementSum(p))
<1> DEFINE sum   == Complement(OnesComplementSum(p))
           bytes == Bytes(sum)
<1>1. sum \in Word16
  <2>1. OnesComplementSum(p) \in Word16 BY TotalIsSum
  <2>. QED BY <2>1, WordRange DEF Complement
<1> HIDE DEF sum
<1>2. bytes \in Seq(Byte) /\ Len(bytes) = 2 /\ Word(bytes[1], bytes[2]) = sum
  BY <1>1, BytesOf
<1>3. q = Patched(p, offset, bytes) BY Zenon DEF WithChecksum, sum
<1> HIDE DEF bytes
<1>4. Len(p) \in Nat BY Elements
<1>5. /\ q \in Seq(Byte) /\ Len(q) = Len(p)
      /\ \A i \in 1..Len(p) :
           q[i] = IF offset < i /\ i <= offset + 2 THEN bytes[i - offset] ELSE p[i]
  <2>1. offset + Len(bytes) <= Len(p) BY <1>2
  <2>2. /\ Patched(p, offset, bytes) \in Seq(Byte)
        /\ Len(Patched(p, offset, bytes)) = Len(p)
        /\ \A i \in 1..Len(p) :
             Patched(p, offset, bytes)[i] =
               IF offset < i /\ i <= offset + Len(bytes) THEN bytes[i - offset] ELSE p[i]
    BY <1>2, <2>1, PatchedOf
  <2>. QED BY <1>2, <1>3, <2>2
<1>6. q[offset + 1] = bytes[1] /\ q[offset + 2] = bytes[2]
  <2>1. offset + 1 \in 1..Len(p) /\ offset + 2 \in 1..Len(p) BY <1>4
  <2>2. q[offset + 1] = bytes[offset + 1 - offset] /\ q[offset + 2] = bytes[offset + 2 - offset]
    BY <1>5, <2>1
  <2>3. offset + 1 - offset = 1 /\ offset + 2 - offset = 2 OBVIOUS
  <2>. QED BY <2>2, <2>3
<1>7. \A i \in 1..Len(p) : i # offset + 1 /\ i # offset + 2 => q[i] = p[i] BY <1>5
<1>. QED BY <1>2, <1>5, <1>6, <1>7 DEF sum

\* The header of a ping without its checksum
Header(length) ==
  <<69, 0>> \o Bytes(length) \o <<0, 1, 0, 0, 9, 1, 0, 0>> \o PeerAddr \o uip_hostaddr

\* The header of the peer's ping byte by byte, its checksum left at zero.
LEMMA HeaderOf ==
  ASSUME NEW length \in Word16
  PROVE  LET h == Header(length)
         IN  /\ h \in Seq(Byte) /\ Len(h) = 20
             /\ h[1] = 69 /\ h[2] = 0 /\ Word(h[3], h[4]) = length
             /\ h[5] = 0 /\ h[6] = 1 /\ h[7] = 0 /\ h[8] = 0 /\ h[9] = 9 /\ h[10] = 1
             /\ h[11] = 0 /\ h[12] = 0
             /\ h[13] = 10 /\ h[14] = 0 /\ h[15] = 0 /\ h[16] = 1
             /\ h[17] = 10 /\ h[18] = 0 /\ h[19] = 0 /\ h[20] = 2
<1> DEFINE b == Bytes(length)
           m == <<0, 1, 0, 0, 9, 1, 0, 0>>
           v == <<69, 0>>
           h1 == v \o b
           h2 == h1 \o m
           h3 == h2 \o PeerAddr
           h4 == h3 \o uip_hostaddr
<1>1. Header(length) = h4 BY Zenon DEF Header
<1>2. b \in Seq(Byte) /\ Len(b) = 2 /\ Word(b[1], b[2]) = length BY BytesOf
<1>3. \A i \in {0, 1, 2, 9, 10, 69} : i \in Byte BY ByteRange
<1>4. v \in Seq(Byte) /\ Len(v) = 2 /\ v[1] = 69 /\ v[2] = 0 BY <1>3, Tuples
<1>5. /\ m \in Seq(Byte) /\ Len(m) = 8
      /\ m[1] = 0 /\ m[2] = 1 /\ m[3] = 0 /\ m[4] = 0 /\ m[5] = 9 /\ m[6] = 1 /\ m[7] = 0
      /\ m[8] = 0
  BY <1>3
<1>6. /\ PeerAddr \in Seq(Byte) /\ Len(PeerAddr) = 4
      /\ PeerAddr[1] = 10 /\ PeerAddr[2] = 0 /\ PeerAddr[3] = 0 /\ PeerAddr[4] = 1
  BY <1>3, Tuples DEF PeerAddr
<1>7. /\ uip_hostaddr \in Seq(Byte) /\ Len(uip_hostaddr) = 4
      /\ uip_hostaddr[1] = 10 /\ uip_hostaddr[2] = 0 /\ uip_hostaddr[3] = 0
      /\ uip_hostaddr[4] = 2
  BY <1>3, Tuples DEF uip_hostaddr
<1> HIDE DEF b, m, v
<1>8. /\ h1 \in Seq(Byte) /\ Len(h1) = 4
      /\ \A i \in 1..4 : h1[i] = IF i <= 2 THEN v[i] ELSE b[i - 2]
  <2>1. /\ v \in Seq(Byte) /\ b \in Seq(Byte)
        /\ Len(v) = 2 /\ Len(b) = 2 /\ 2 + 2 = 4
    BY <1>2, <1>4
  <2>2. /\ h1 \in Seq(Byte) /\ Len(h1) = Len(v) + Len(b)
        /\ \A i \in 1..(Len(v) + Len(b)) :
             h1[i] = IF i <= Len(v) THEN v[i] ELSE b[i - Len(v)]
    BY <2>1, ConcatProperties
  <2> HIDE DEF h1
  <2>. QED BY <2>1, <2>2
<1> HIDE DEF h1
<1>9. /\ h2 \in Seq(Byte) /\ Len(h2) = 12
      /\ \A i \in 1..12 : h2[i] = IF i <= 4 THEN h1[i] ELSE m[i - 4]
  <2>1. /\ h1 \in Seq(Byte) /\ m \in Seq(Byte)
        /\ Len(h1) = 4 /\ Len(m) = 8 /\ 4 + 8 = 12
    BY <1>5, <1>8
  <2>2. /\ h2 \in Seq(Byte) /\ Len(h2) = Len(h1) + Len(m)
        /\ \A i \in 1..(Len(h1) + Len(m)) :
             h2[i] = IF i <= Len(h1) THEN h1[i] ELSE m[i - Len(h1)]
    BY <2>1, ConcatProperties
  <2> HIDE DEF h2
  <2>. QED BY <2>1, <2>2
<1> HIDE DEF h2
<1>10. /\ h3 \in Seq(Byte) /\ Len(h3) = 16
       /\ \A i \in 1..16 : h3[i] = IF i <= 12 THEN h2[i] ELSE PeerAddr[i - 12]
  <2>1. /\ h2 \in Seq(Byte) /\ PeerAddr \in Seq(Byte)
        /\ Len(h2) = 12 /\ Len(PeerAddr) = 4 /\ 12 + 4 = 16
    BY <1>6, <1>9
  <2>2. /\ h3 \in Seq(Byte) /\ Len(h3) = Len(h2) + Len(PeerAddr)
        /\ \A i \in 1..(Len(h2) + Len(PeerAddr)) :
             h3[i] = IF i <= Len(h2) THEN h2[i] ELSE PeerAddr[i - Len(h2)]
    BY <2>1, ConcatProperties
  <2> HIDE DEF h3
  <2>. QED BY <2>1, <2>2
<1> HIDE DEF h3
<1>11. /\ h4 \in Seq(Byte) /\ Len(h4) = 20
       /\ \A i \in 1..20 : h4[i] = IF i <= 16 THEN h3[i] ELSE uip_hostaddr[i - 16]
  <2>1. /\ h3 \in Seq(Byte) /\ uip_hostaddr \in Seq(Byte)
        /\ Len(h3) = 16 /\ Len(uip_hostaddr) = 4 /\ 16 + 4 = 20
    BY <1>7, <1>10
  <2>2. /\ h4 \in Seq(Byte) /\ Len(h4) = Len(h3) + Len(uip_hostaddr)
        /\ \A i \in 1..(Len(h3) + Len(uip_hostaddr)) :
             h4[i] = IF i <= Len(h3) THEN h3[i] ELSE uip_hostaddr[i - Len(h3)]
    BY <2>1, ConcatProperties
  <2> HIDE DEF h4
  <2>. QED BY <2>1, <2>2
<1> HIDE DEF h4
<1>12. h1[1] = 69 /\ h1[2] = 0 /\ Word(h1[3], h1[4]) = length BY <1>2, <1>4, <1>8
<1>13. /\ h2[1] = 69 /\ h2[2] = 0 /\ Word(h2[3], h2[4]) = length
       /\ h2[5] = 0 /\ h2[6] = 1 /\ h2[7] = 0 /\ h2[8] = 0 /\ h2[9] = 9 /\ h2[10] = 1
       /\ h2[11] = 0 /\ h2[12] = 0
  BY <1>5, <1>9, <1>12
<1>14. /\ \A i \in 1..12 : h4[i] = h2[i]
       /\ \A i \in 13..16 : h4[i] = PeerAddr[i - 12]
       /\ \A i \in 17..20 : h4[i] = uip_hostaddr[i - 16]
  <2>1. ASSUME NEW i \in 1..12 PROVE h4[i] = h2[i]
    <3>1. i \in 1..20 /\ i \in 1..16 /\ i <= 16 /\ i <= 12 OBVIOUS
    <3>2. h4[i] = h3[i] BY <1>11, <3>1
    <3>3. h3[i] = h2[i] BY <1>10, <3>1
    <3>. QED BY <3>2, <3>3
  <2>2. ASSUME NEW i \in 13..16 PROVE h4[i] = PeerAddr[i - 12]
    <3>1. i \in 1..20 /\ i \in 1..16 /\ i <= 16 /\ ~(i <= 12) OBVIOUS
    <3>2. h4[i] = h3[i] BY <1>11, <3>1
    <3>3. h3[i] = PeerAddr[i - 12] BY <1>10, <3>1
    <3>. QED BY <3>2, <3>3
  <2>3. ASSUME NEW i \in 17..20 PROVE h4[i] = uip_hostaddr[i - 16]
    <3>1. i \in 1..20 /\ ~(i <= 16) OBVIOUS
    <3>. QED BY <1>11, <3>1
  <2>. QED BY <2>1, <2>2, <2>3
<1>15. /\ h4[13] = 10 /\ h4[14] = 0 /\ h4[15] = 0 /\ h4[16] = 1
       /\ h4[17] = 10 /\ h4[18] = 0 /\ h4[19] = 0 /\ h4[20] = 2
  <2>1. /\ h4[13] = PeerAddr[1] /\ h4[14] = PeerAddr[2] /\ h4[15] = PeerAddr[3]
        /\ h4[16] = PeerAddr[4]
    BY <1>14
  <2>2. /\ h4[17] = uip_hostaddr[1] /\ h4[18] = uip_hostaddr[2]
        /\ h4[19] = uip_hostaddr[3] /\ h4[20] = uip_hostaddr[4]
    BY <1>14
  <2>. QED BY <1>6, <1>7, <2>1, <2>2, Zenon
<1>16. /\ h4[1] = 69 /\ h4[2] = 0 /\ Word(h4[3], h4[4]) = length
       /\ h4[5] = 0 /\ h4[6] = 1 /\ h4[7] = 0 /\ h4[8] = 0 /\ h4[9] = 9 /\ h4[10] = 1
       /\ h4[11] = 0 /\ h4[12] = 0
  BY <1>13, <1>14
<1>. QED BY <1>1, <1>11, <1>15, <1>16, Zenon

\* The data of a ping
LEMMA DataOf ==
  ASSUME NEW data \in Datas
  PROVE  data \in Seq(Byte) /\ Len(data) \in Nat /\ 24 + Len(data) <= 65535
<1>1. PICK n \in DataLengths : data \in [1..n -> PingBytes] BY Zenon DEF Datas
<1>2. PingBytes \subseteq Byte BY IPAssumption, Zenon
<1>3. n \in Nat /\ 24 + n <= MaxWord BY IPAssumption
<1>4. data \in Seq(Byte) /\ Len(data) = n BY <1>1, <1>2, <1>3
<1>. QED BY <1>3, <1>4 DEF MaxWord

\* The ICMP part of a ping without its checksum
Unchecked(data) == <<ICMP_ECHO, 0, 0, 0>> \o data
PingHeader(data) == WithChecksum(Header(24 + Len(data)), 10)
PingMessage(data) == WithChecksum(Unchecked(data), 2)

\* A ping is a header of 20 bytes and a message of four and the data.
LEMMA PingOf ==
  ASSUME NEW data \in Datas
  PROVE  /\ Ping(data) = PingHeader(data) \o PingMessage(data)
         /\ PingHeader(data) \in Seq(Byte) /\ Len(PingHeader(data)) = 20
         /\ PingMessage(data) \in Seq(Byte) /\ Len(PingMessage(data)) = 4 + Len(data)
         /\ Ping(data) \in Seq(Byte) /\ Len(Ping(data)) = 24 + Len(data)
         /\ \A i \in 1..20 : Ping(data)[i] = PingHeader(data)[i]
         /\ \A i \in 1..(4 + Len(data)) : Ping(data)[20 + i] = PingMessage(data)[i]
         /\ PingMessage(data)[1] = ICMP_ECHO /\ PingMessage(data)[2] = 0
         /\ \A i \in 1..Len(data) : PingMessage(data)[4 + i] = data[i]
         /\ Word(PingMessage(data)[3], PingMessage(data)[4])
              = Complement(OnesComplementSum(Unchecked(data)))
<1> DEFINE first   == <<ICMP_ECHO, 0, 0, 0>>
           message == Unchecked(data)
           icmp    == PingMessage(data)
           h       == Header(24 + Len(data))
           header  == PingHeader(data)
           p       == header \o icmp
<1>1. data \in Seq(Byte) /\ Len(data) \in Nat /\ 24 + Len(data) <= 65535 BY DataOf
<1>2. /\ first \in Seq(Byte) /\ Len(first) = 4
      /\ first[1] = ICMP_ECHO /\ first[2] = 0 /\ first[3] = 0 /\ first[4] = 0
  <2>1. ICMP_ECHO \in Byte /\ 0 \in Byte BY ByteRange DEF ICMP_ECHO
  <2>. QED BY <2>1, Tuples
<1>3. /\ message \in Seq(Byte) /\ Len(message) = Len(first) + Len(data)
      /\ \A i \in 1..(Len(first) + Len(data)) :
           message[i] = IF i <= Len(first) THEN first[i] ELSE data[i - Len(first)]
  <2>1. message = first \o data BY Zenon DEF Unchecked
  <2>2. first \in Seq(Byte) /\ data \in Seq(Byte) BY <1>1, <1>2
  <2> HIDE DEF first, message
  <2>. QED BY <2>1, <2>2, ConcatProperties
<1>4. /\ Len(message) = 4 + Len(data)
      /\ message[1] = ICMP_ECHO /\ message[2] = 0
      /\ \A i \in 1..Len(data) : message[4 + i] = data[i]
  <2> HIDE DEF first, message
  <2>1. Len(message) = 4 + Len(data) BY <1>1, <1>2, <1>3
  <2>2. message[1] = first[1] /\ message[2] = first[2] BY <1>1, <1>2, <1>3
  <2>3. ASSUME NEW i \in 1..Len(data) PROVE message[4 + i] = data[i]
    <3>1. 4 + i \in 1..(4 + Len(data)) /\ ~(4 + i <= 4) /\ 4 + i - 4 = i BY <1>1
    <3>. QED BY <1>2, <1>3, <3>1
  <2>. QED BY <1>2, <2>1, <2>2, <2>3
<1>5. 2 \in Nat /\ 2 + 2 <= Len(message) BY <1>1, <1>4
<1>6. /\ icmp \in Seq(Byte) /\ Len(icmp) = Len(message)
      /\ \A i \in 1..Len(message) : i # 2 + 1 /\ i # 2 + 2 => icmp[i] = message[i]
      /\ Word(icmp[2 + 1], icmp[2 + 2]) = Complement(OnesComplementSum(message))
  <2>1. icmp = WithChecksum(message, 2) BY Zenon DEF PingMessage
  <2> HIDE DEF icmp, message
  <2>. QED BY <1>3, <1>5, <2>1, WithChecksumOf
<1>7. /\ icmp \in Seq(Byte) /\ Len(icmp) = 4 + Len(data)
      /\ icmp[1] = ICMP_ECHO /\ icmp[2] = 0
      /\ \A i \in 1..Len(data) : icmp[4 + i] = data[i]
  <2> HIDE DEF icmp, message
  <2>1. icmp \in Seq(Byte) /\ Len(icmp) = 4 + Len(data) BY <1>4, <1>6
  <2>2. \A i \in 1..Len(message) : i # 3 /\ i # 4 => icmp[i] = message[i] BY <1>6
  <2>3. 1 \in 1..Len(message) /\ 2 \in 1..Len(message) BY <1>1, <1>4
  <2>4. icmp[1] = ICMP_ECHO /\ icmp[2] = 0 BY <1>4, <2>2, <2>3
  <2>5. ASSUME NEW i \in 1..Len(data) PROVE icmp[4 + i] = data[i]
    <3>1. 4 + i \in 1..Len(message) /\ 4 + i # 3 /\ 4 + i # 4 BY <1>1, <1>4
    <3>. QED BY <1>4, <2>2, <3>1
  <2>. QED BY <2>1, <2>4, <2>5
<1>8. h \in Seq(Byte) /\ Len(h) = 20
  <2>1. 24 + Len(data) \in Word16 BY <1>1, WordRange
  <2> DEFINE length == 24 + Len(data)
  <2>2. length \in Word16 BY <2>1
  <2> HIDE DEF length
  <2>3. Header(length) \in Seq(Byte) /\ Len(Header(length)) = 20 BY <2>2, HeaderOf
  <2>. QED BY <2>3 DEF length
<1>9. header \in Seq(Byte) /\ Len(header) = 20
  <2>2. header = WithChecksum(h, 10) BY Zenon DEF PingHeader
  <2> HIDE DEF h, header
  <2>1. 10 \in Nat /\ 10 + 2 <= Len(h) BY <1>8
  <2>3. /\ header \in Seq(Byte) /\ Len(header) = Len(h)
        /\ \A i \in 1..Len(h) : i # 10 + 1 /\ i # 10 + 2 => header[i] = h[i]
        /\ Word(header[10 + 1], header[10 + 2]) = Complement(OnesComplementSum(h))
    <3>1. h \in Seq(Byte) BY <1>8
    <3>. QED BY <2>1, <2>2, <3>1, WithChecksumOf
  <2>. QED BY <1>8, <2>3
<1>10. Ping(data) = p
  <2>1. UIP_IPH_LEN + Len(icmp) = 24 + Len(data)
    <3> HIDE DEF icmp
    <3>. QED BY <1>1, <1>7 DEF UIP_IPH_LEN
  <2>. QED BY <2>1, Zenon DEF Ping, PingHeader, PingMessage, Unchecked, Header
<1>11. /\ p \in Seq(Byte) /\ Len(p) = Len(header) + Len(icmp)
       /\ \A i \in 1..(Len(header) + Len(icmp)) :
            p[i] = IF i <= Len(header) THEN header[i] ELSE icmp[i - Len(header)]
  <2>1. header \in Seq(Byte) /\ icmp \in Seq(Byte) BY <1>7, <1>9
  <2> HIDE DEF header, icmp
  <2>. QED BY <2>1, ConcatProperties
<1>12. /\ p \in Seq(Byte) /\ Len(p) = 24 + Len(data)
       /\ \A i \in 1..20 : p[i] = header[i]
       /\ \A i \in 1..(4 + Len(data)) : p[20 + i] = icmp[i]
  <2> HIDE DEF header, icmp, p
  <2>1. Len(header) + Len(icmp) = 24 + Len(data) BY <1>1, <1>7, <1>9
  <2>2. \A i \in 1..(24 + Len(data)) : p[i] = IF i <= 20 THEN header[i] ELSE icmp[i - 20]
    BY <1>9, <1>11, <2>1
  <2>3. ASSUME NEW i \in 1..20 PROVE p[i] = header[i]
    <3>1. i \in 1..(24 + Len(data)) /\ i <= 20 BY <1>1
    <3>. QED BY <2>2, <3>1
  <2>4. ASSUME NEW i \in 1..(4 + Len(data)) PROVE p[20 + i] = icmp[i]
    <3>1. 20 + i \in 1..(24 + Len(data)) /\ ~(20 + i <= 20) /\ 20 + i - 20 = i BY <1>1
    <3>. QED BY <2>2, <3>1
  <2>. QED BY <1>11, <2>1, <2>3, <2>4
<1> HIDE DEF header, icmp, p, message
<1>13. /\ Ping(data) \in Seq(Byte) /\ Len(Ping(data)) = 24 + Len(data)
       /\ \A i \in 1..20 : Ping(data)[i] = header[i]
       /\ \A i \in 1..(4 + Len(data)) : Ping(data)[20 + i] = icmp[i]
  BY <1>10, <1>12, Zenon
<1>14. Word(icmp[3], icmp[4]) = Complement(OnesComplementSum(Unchecked(data)))
  <2>1. Word(icmp[2 + 1], icmp[2 + 2]) = Complement(OnesComplementSum(message)) BY <1>6, Zenon
  <2>2. 2 + 1 = 3 /\ 2 + 2 = 4 OBVIOUS
  <2>. QED BY <2>1, <2>2 DEF message
<1>. QED BY <1>7, <1>9, <1>10, <1>13, <1>14 DEF header, icmp, p

\* The bytes of a ping's header
LEMMA PingHeaderOf ==
  ASSUME NEW data \in Datas
  PROVE  LET h == PingHeader(data)
         IN  /\ h[1] = 69 /\ h[2] = 0 /\ Word(h[3], h[4]) = 24 + Len(data)
             /\ h[5] = 0 /\ h[6] = 1 /\ h[7] = 0 /\ h[8] = 0 /\ h[9] = 9 /\ h[10] = 1
             /\ Word(h[11], h[12]) = Complement(OnesComplementSum(Header(24 + Len(data))))
             /\ h[13] = 10 /\ h[14] = 0 /\ h[15] = 0 /\ h[16] = 1
             /\ h[17] = 10 /\ h[18] = 0 /\ h[19] = 0 /\ h[20] = 2
<1> DEFINE length == 24 + Len(data)
           h == Header(length)
           q == PingHeader(data)
<1>1. length \in Word16
  <2>1. Len(data) \in Nat /\ 24 + Len(data) <= 65535 BY DataOf
  <2>. QED BY <2>1, WordRange
<1>2. q = WithChecksum(h, 10) BY Zenon DEF PingHeader
<1> HIDE DEF length, q
<1>3. h \in Seq(Byte) /\ Len(h) = 20 BY <1>1, HeaderOf
<1>4. /\ h[1] = 69 /\ h[2] = 0 /\ Word(h[3], h[4]) = length
      /\ h[5] = 0 /\ h[6] = 1 /\ h[7] = 0 /\ h[8] = 0 /\ h[9] = 9 /\ h[10] = 1
      /\ h[13] = 10 /\ h[14] = 0 /\ h[15] = 0 /\ h[16] = 1
      /\ h[17] = 10 /\ h[18] = 0 /\ h[19] = 0 /\ h[20] = 2
  BY <1>1, HeaderOf, Zenon
<1> HIDE DEF h
<1>5. 10 \in Nat /\ 10 + 2 <= Len(h) BY <1>3
<1>6. /\ \A i \in 1..Len(h) : i # 10 + 1 /\ i # 10 + 2 => q[i] = h[i]
      /\ Word(q[10 + 1], q[10 + 2]) = Complement(OnesComplementSum(h))
  <2>1. h \in Seq(Byte) BY <1>3
  <2>. QED BY <1>2, <1>5, <2>1, WithChecksumOf
<1>7. \A i \in 1..20 : i # 11 /\ i # 12 => q[i] = h[i]
  <2>1. \A i \in 1..Len(h) : i # 10 + 1 /\ i # 10 + 2 => q[i] = h[i] BY <1>6, Zenon
  <2>2. Len(h) = 20 /\ 10 + 1 = 11 /\ 10 + 2 = 12 BY <1>3
  <2>. QED BY <2>1, <2>2
<1>8. /\ q[1] = h[1] /\ q[2] = h[2] /\ q[3] = h[3] /\ q[4] = h[4] /\ q[5] = h[5]
      /\ q[6] = h[6] /\ q[7] = h[7] /\ q[8] = h[8] /\ q[9] = h[9] /\ q[10] = h[10]
      /\ q[13] = h[13] /\ q[14] = h[14] /\ q[15] = h[15] /\ q[16] = h[16]
      /\ q[17] = h[17] /\ q[18] = h[18] /\ q[19] = h[19] /\ q[20] = h[20]
  BY <1>7
<1>9. Word(q[11], q[12]) = Complement(OnesComplementSum(h))
  <2>1. 10 + 1 = 11 /\ 10 + 2 = 12 OBVIOUS
  <2>. QED BY <1>6, <2>1
<1>. QED BY <1>4, <1>8, <1>9, Zenon DEF q, h, length

----------------------------------------------------------------------------
(* Sums of packets *)

\* The word of two bytes
LEMMA WordOf ==
  ASSUME NEW a \in Byte, NEW b \in Byte
  PROVE  Word(a, b) \in Word16 /\ Word(a, b) \in Nat
<1>1. a \in Int /\ 0 <= a /\ a <= 255 /\ b \in Int /\ 0 <= b /\ b <= 255 BY ByteRange
<1>2. Word(a, b) \in Int /\ 0 <= Word(a, b) /\ Word(a, b) <= 65535 BY <1>1 DEF Word
<1>. QED BY <1>2, WordRange

Multiple(total) == \E k \in Nat : k >= 1 /\ total = 65535 * k

\* A sum near a multiple of 2^16 - 1 is good only if it is that.
LEMMA NearMultiple ==
  ASSUME NEW base, Multiple(base), NEW d \in Int, -65280 <= d, d <= 65280,
         NEW total \in Nat, total = base + d
  PROVE  total # 0 /\ Reduced(total) # 0 /\ (Reduced(total) = 65535 <=> d = 0)
<1>0. PICK k \in Nat : k >= 1 /\ base = 65535 * k BY DEF Multiple
<1> DEFINE x == total - 1
           j == k - 1
<1>1. total # 0 BY <1>0
<1>2. x \in Int /\ j \in Int /\ x = d + 65535 * k - 1 /\ x = d + 65534 + 65535 * j BY <1>0
<1> HIDE DEF x, j
<1>3. Reduced(total) = (x % MaxWord) + 1 BY <1>1 DEF Reduced, x
<1>4. CASE d > 0
  <2> DEFINE r == d - 1
  <2>1. r \in Int /\ 0 <= r /\ r < 65535 BY <1>4
  <2>2. x = r + 65535 * k BY <1>2
  <2> HIDE DEF r
  <2>3. k \in Int /\ x \in Int BY <1>2
  <2>4. x % MaxWord = r BY <2>1, <2>2, <2>3, RoundsUnique
  <2>. QED BY <1>1, <1>3, <1>4, <2>4 DEF r
<1>5. CASE d <= 0
  <2> DEFINE r == d + 65534
  <2>1. r \in Int /\ 0 <= r /\ r < 65535 BY <1>5
  <2>2. x = r + 65535 * j BY <1>2
  <2> HIDE DEF r
  <2>3. j \in Int /\ x \in Int BY <1>2
  <2>4. x % MaxWord = r BY <2>1, <2>2, <2>3, RoundsUnique
  <2>. QED BY <1>1, <1>3, <1>5, <2>4 DEF r
<1>. QED BY <1>4, <1>5

\* The checksum of such a sum is good.
LEMMA MultipleChecks ==
  ASSUME NEW p \in Seq(Byte), Multiple(Total(p))
  PROVE  Checks(p)
<1> DEFINE total == Total(p)
<1>1. total \in Nat /\ Multiple(total) /\ OnesComplementSum(p) = Reduced(total) BY TotalIsSum
<1> HIDE DEF total
<1>2. 0 \in Int /\ -65280 <= 0 /\ 0 <= 65280 /\ total = total + 0 BY <1>1
<1>3. Reduced(total) = 65535 BY <1>1, <1>2, NearMultiple
<1>. QED BY <1>1, <1>3 DEF Checks

\* A sum and the complement of its checksum are a multiple of 2^16 - 1.
LEMMA ComplementAdded ==
  ASSUME NEW total \in Nat, total # 0
  PROVE  Multiple(total + Complement(Reduced(total)))
<1> DEFINE x == total - 1
           r == x % MaxWord
           q == x \div MaxWord
<1>1. x \in Int /\ 0 <= x /\ total = x + 1 OBVIOUS
<1> HIDE DEF x
<1>2. r \in Int /\ 0 <= r /\ r < 65535 /\ q \in Int /\ x = r + 65535 * q BY <1>1, RoundsExist
<1>3. Reduced(total) = r + 1 BY DEF Reduced, x
<1> HIDE DEF r, q
<1>4. q >= 0 BY <1>1, <1>2
<1>5. Complement(Reduced(total)) = 65535 - (r + 1) BY <1>3 DEF Complement
<1>6. total + Complement(Reduced(total)) = 65535 * (q + 1) BY <1>1, <1>2, <1>5
<1>7. q + 1 \in Nat /\ q + 1 >= 1 BY <1>2, <1>4
<1>. QED BY <1>6, <1>7 DEF Multiple

\* s and t are the sums of n numbers w and v, which are the same but for the m-th.
SumsBut(m, n, w, v, s, t) ==
  /\ n \in Nat /\ m \in 1..n
  /\ IsSum(s, w, n) /\ IsSum(t, v, n)
  /\ \A j \in 1..n : w[j] \in Nat /\ v[j] \in Nat
  /\ \A j \in 1..n : j # m => v[j] = w[j]

\* Sums of numbers that differ in one place differ by that.
LEMMA SumDiffers ==
  ASSUME NEW m, NEW n, NEW w, NEW v, NEW s, NEW t, SumsBut(m, n, w, v, s, t)
  PROVE  t[n] = s[n] + v[m] - w[m]
<1>0. /\ n \in Nat /\ m \in 1..n
      /\ IsSum(s, w, n) /\ IsSum(t, v, n)
      /\ \A j \in 1..n : w[j] \in Nat /\ v[j] \in Nat
      /\ \A j \in 1..n : j # m => v[j] = w[j]
  BY Zenon DEF SumsBut
<1>1. (\A j \in 0..n : s[j] \in Nat) /\ \A j \in 0..n : t[j] \in Nat BY <1>0, SumNat
<1>2. \A j \in 0..n : s[j] = IF j = 0 THEN 0 ELSE s[j - 1] + w[j] BY <1>0, Zenon DEF IsSum
<1>3. \A j \in 0..n : t[j] = IF j = 0 THEN 0 ELSE t[j - 1] + v[j] BY <1>0, Zenon DEF IsSum
<1> DEFINE Right(j) == t[j] = IF j < m THEN s[j] ELSE s[j] + v[m] - w[m]
           Wrong == {j \in 0..n : ~Right(j)}
<1>4. ASSUME Wrong # {} PROVE FALSE
  <2>0. Wrong \subseteq Nat BY <1>0
  <2>1. PICK i \in Wrong : \A k \in Wrong : i <= k
    <3> HIDE DEF Wrong
    <3>. QED BY <1>4, <2>0, Least
  <2>2. i \in 0..n /\ ~Right(i) BY <2>1
  <2>3. i # 0 BY <1>0, <1>2, <1>3, <2>2
  <2>4. i - 1 \in 0..n /\ i \in 1..n /\ i - 1 \in Nat BY <1>0, <2>2, <2>3
  <2>5. Right(i - 1) BY <2>1, <2>4
  <2>6. s[i] = s[i - 1] + w[i] /\ t[i] = t[i - 1] + v[i] BY <1>2, <1>3, <2>3, <2>4
  <2>7. /\ s[i - 1] \in Nat /\ t[i - 1] \in Nat /\ w[i] \in Nat /\ v[i] \in Nat
        /\ w[m] \in Nat /\ v[m] \in Nat
    BY <1>0, <1>1, <2>4
  <2>8. CASE i = m
    <3>1. t[i - 1] = s[i - 1] BY <1>0, <2>4, <2>5, <2>8
    <3>2. t[i] = s[i] + v[m] - w[m] BY <2>6, <2>7, <2>8, <3>1
    <3>. QED BY <2>2, <2>4, <2>8, <3>2
  <2>9. CASE i # m
    <3>1. v[i] = w[i] BY <1>0, <2>4, <2>9
    <3>2. i < m <=> i - 1 < m BY <1>0, <2>4, <2>9
    <3>. QED BY <2>2, <2>5, <2>6, <2>7, <3>1, <3>2
  <2>. QED BY <2>8, <2>9
<1>5. Right(n) BY <1>0, <1>4
<1>6. ~(n < m) BY <1>0
<1>. QED BY <1>5, <1>6

\* A packet changed in one word has a sum that is changed by as much.
LEMMA TotalChanged ==
  ASSUME NEW p \in Seq(Byte), NEW q \in Seq(Byte), Len(q) = Len(p), NEW m \in Nat,
         1 <= m, 2 * m - 1 <= Len(p),
         \A i \in 1..Len(p) : i # 2 * m - 1 /\ i # 2 * m => q[i] = p[i]
  PROVE  /\ Total(q) = Total(p) + WordAt(q, m) - WordAt(p, m)
         /\ WordAt(q, m) \in Nat /\ WordAt(p, m) \in Nat
<1> DEFINE n == (Len(p) + 1) \div 2
<1>1. /\ Len(p) \in Nat /\ DOMAIN p = 1..Len(p) /\ DOMAIN q = 1..Len(p)
  BY Elements
<1>2. n \in Nat /\ 2 * n <= Len(p) + 1 /\ m <= n BY <1>1
<1>3. Len(Words(p)) = n /\ Len(Words(q)) = n
  <2>1. Words(p) = [j \in 1..n |-> WordAt(p, j)] BY Zenon DEF Words
  <2>2. Words(q) = [j \in 1..n |-> WordAt(q, j)] BY Zenon DEF Words
  <2> HIDE DEF n
  <2>. QED BY <1>2, <2>1, <2>2
<1>4. /\ \A j \in 1..n : Words(p)[j] = WordAt(p, j)
      /\ \A j \in 1..n : Words(q)[j] = WordAt(q, j)
  BY Zenon DEF Words
<1> HIDE DEF n
<1>5. \A j \in 1..n : Words(p)[j] \in Nat /\ Words(q)[j] \in Nat BY <1>3, WordsOf, WordRange
<1>6. ASSUME NEW j \in 1..n, j # m PROVE Words(q)[j] = Words(p)[j]
  <2>1. /\ 2 * j - 1 \in 1..Len(p) /\ 2 * j - 1 # 2 * m - 1 /\ 2 * j - 1 # 2 * m
    BY <1>1, <1>2, <1>6
  <2>2. q[2 * j - 1] = p[2 * j - 1] BY <2>1
  <2>3. 2 * j # 2 * m - 1 /\ 2 * j # 2 * m BY <1>6
  <2>4. 2 * j \in 1..Len(p) => q[2 * j] = p[2 * j] BY <2>3
  <2>5. WordAt(q, j) = WordAt(p, j) BY <1>1, <2>2, <2>4, Zenon DEF WordAt
  <2>. QED BY <1>4, <2>5
<1>7. IsSum(Sums(p), Words(p), n) /\ IsSum(Sums(q), Words(q), n) BY <1>3, TotalIsSum
<1>8. m \in 1..n BY <1>2
<1>9. Sums(q)[n] = Sums(p)[n] + Words(q)[m] - Words(p)[m]
  <2> DEFINE v == Words(q)
             w == Words(p)
             s == Sums(p)
             t == Sums(q)
  <2>1. \A j \in 1..n : w[j] \in Nat /\ v[j] \in Nat BY <1>5
  <2>2. \A j \in 1..n : j # m => v[j] = w[j] BY <1>6
  <2>3. IsSum(s, w, n) /\ IsSum(t, v, n) BY <1>7
  <2> HIDE DEF v, w, s, t
  <2>5. SumsBut(m, n, w, v, s, t) BY <1>2, <1>8, <2>1, <2>2, <2>3, Zenon DEF SumsBut
  <2>4. t[n] = s[n] + v[m] - w[m] BY <2>5, SumDiffers
  <2>. QED BY <2>4 DEF v, w, s, t
<1>. QED BY <1>3, <1>4, <1>5, <1>8, <1>9 DEF Total

\* A packet that does not begin with a zero has a sum.
LEMMA TotalNotZero ==
  ASSUME NEW p \in Seq(Byte), 2 <= Len(p), p[1] # 0
  PROVE  Total(p) # 0
<1> DEFINE q == Patched(p, 0, <<0, 0>>)
<1>1. <<0, 0>> \in Seq(Byte) /\ Len(<<0, 0>>) = 2
  <2>1. 0 \in Byte BY ByteRange
  <2>. QED BY <2>1, Tuples
<1>2. Len(p) \in Nat /\ DOMAIN p = 1..Len(p) /\ \A i \in 1..Len(p) : p[i] \in Byte BY Elements
<1>3. /\ q \in Seq(Byte) /\ Len(q) = Len(p)
      /\ \A i \in 1..Len(p) : q[i] = IF i <= 2 THEN <<0, 0>>[i] ELSE p[i]
  <2> DEFINE zeros == <<0, 0>>
  <2>1. zeros \in Seq(Byte) /\ Len(zeros) = 2 BY <1>1
  <2> HIDE DEF zeros
  <2>2. 0 \in Nat /\ 0 + Len(zeros) <= Len(p) BY <1>2, <2>1
  <2>3. /\ Patched(p, 0, zeros) \in Seq(Byte) /\ Len(Patched(p, 0, zeros)) = Len(p)
        /\ \A i \in 1..Len(p) :
             Patched(p, 0, zeros)[i] =
               IF 0 < i /\ i <= 0 + Len(zeros) THEN zeros[i - 0] ELSE p[i]
    BY <2>1, <2>2, PatchedOf
  <2>4. \A i \in 1..Len(p) : 0 < i /\ i - 0 = i /\ (i <= 0 + Len(zeros) <=> i <= 2)
    BY <1>2, <2>1
  <2>. QED BY <2>3, <2>4 DEF zeros
<1> HIDE DEF q
<1>4. DOMAIN q = 1..Len(p) /\ q[1] = 0 /\ q[2] = 0
  <2>1. DOMAIN q = 1..Len(q) BY <1>3, Elements
  <2>. QED BY <1>2, <1>3, <2>1
<1>5. /\ Total(q) = Total(p) + WordAt(q, 1) - WordAt(p, 1)
      /\ WordAt(q, 1) \in Nat /\ WordAt(p, 1) \in Nat
  <2>1. 1 \in Nat /\ 1 <= 1 /\ 2 * 1 - 1 <= Len(p) BY <1>2
  <2>2. \A i \in 1..Len(p) : i # 2 * 1 - 1 /\ i # 2 * 1 => q[i] = p[i] BY <1>2, <1>3
  <2>. QED BY <1>3, <2>1, <2>2, TotalChanged
<1>6. WordAt(q, 1) = 0
  <2>1. 2 * 1 \in DOMAIN q /\ q[2 * 1 - 1] = 0 /\ q[2 * 1] = 0 BY <1>2, <1>4
  <2>2. WordAt(q, 1) = Word(0, 0) BY <2>1, Zenon DEF WordAt
  <2>. QED BY <2>2 DEF Word
<1>7. WordAt(p, 1) # 0
  <2>1. 2 * 1 \in DOMAIN p /\ 2 * 1 - 1 = 1 /\ 2 * 1 = 2 BY <1>2
  <2>2. WordAt(p, 1) = Word(p[1], p[2]) BY <2>1 DEF WordAt
  <2>3. p[1] \in Int /\ 0 <= p[1] /\ p[2] \in Int /\ 0 <= p[2] BY <1>2, ByteRange
  <2>. QED BY <2>2, <2>3 DEF Word
<1>8. Total(p) \in Nat /\ Total(q) \in Nat BY <1>3, TotalIsSum
<1>. QED BY <1>5, <1>6, <1>7, <1>8

\* What has its checksum written into it has a sum that is a multiple of 2^16 - 1.
LEMMA WithChecksumGood ==
  ASSUME NEW p \in Seq(Byte), NEW m \in Nat, 1 <= m, 2 * m <= Len(p),
         p[2 * m - 1] = 0, p[2 * m] = 0, Total(p) # 0,
         NEW q, q = WithChecksum(p, 2 * m - 2)
  PROVE  Multiple(Total(q))
<1> DEFINE offset == 2 * m - 2
<1>1. Len(p) \in Nat /\ DOMAIN p = 1..Len(p) BY Elements
<1>2. offset \in Nat /\ offset + 2 <= Len(p) /\ offset + 1 = 2 * m - 1 /\ offset + 2 = 2 * m
  BY <1>1
<1>3. q = WithChecksum(p, offset) OBVIOUS
<1> HIDE DEF offset
<1>4. /\ q \in Seq(Byte) /\ Len(q) = Len(p)
      /\ \A i \in 1..Len(p) : i # offset + 1 /\ i # offset + 2 => q[i] = p[i]
      /\ Word(q[offset + 1], q[offset + 2]) = Complement(OnesComplementSum(p))
  BY <1>2, <1>3, WithChecksumOf
<1>5. \A i \in 1..Len(p) : i # 2 * m - 1 /\ i # 2 * m => q[i] = p[i] BY <1>2, <1>4
<1>6. Word(q[2 * m - 1], q[2 * m]) = Complement(OnesComplementSum(p)) BY <1>2, <1>4
<1>7. q \in Seq(Byte) /\ Len(q) = Len(p) BY <1>4, Zenon
<1>8. DOMAIN q = 1..Len(q) BY <1>7, Elements
<1>9. 2 * m - 1 <= Len(p) /\ 2 * m \in 1..Len(p) BY <1>1
<1>10. Total(q) = Total(p) + WordAt(q, m) - WordAt(p, m) BY <1>5, <1>7, <1>9, TotalChanged
<1>11. WordAt(p, m) = 0
  <2>1. WordAt(p, m) = Word(0, 0) BY <1>1, <1>9, Zenon DEF WordAt
  <2>. QED BY <2>1 DEF Word
<1>12. WordAt(q, m) = Complement(OnesComplementSum(p))
  BY <1>6, <1>7, <1>8, <1>9, Zenon DEF WordAt
<1>13. Total(p) \in Nat /\ OnesComplementSum(p) = Reduced(Total(p)) BY TotalIsSum
<1>14. Multiple(Total(p) + Complement(Reduced(Total(p)))) BY <1>13, ComplementAdded
<1>15. Complement(Reduced(Total(p))) \in Int
  <2>1. Reduced(Total(p)) \in Word16 BY <1>13, ReducedWord
  <2>. QED BY <2>1, WordRange DEF Complement
<1>16. Total(q) = Total(p) + Complement(Reduced(Total(p)))
  BY <1>10, <1>11, <1>12, <1>13, <1>15
<1>. QED BY <1>14, <1>16

StartsWith(p, h) == Len(h) = 20 /\ 20 <= Len(p) /\ \A i \in 1..20 : p[i] = h[i]

\* The checksum of the first twenty bytes
LEMMA HeaderChecksum ==
  ASSUME NEW p \in Seq(Byte), NEW h \in Seq(Byte), StartsWith(p, h)
  PROVE  /\ Part(p, 0, 20) = h
         /\ OnesComplementSum(h) # 0 => uip_ipchksum(p) = OnesComplementSum(h)
         /\ OnesComplementSum(h) = 0 => uip_ipchksum(p) = MaxWord
         /\ uip_ipchksum(p) \in Word16
<1>0. Len(h) = 20 /\ 20 <= Len(p) /\ \A i \in 1..20 : p[i] = h[i] BY DEF StartsWith
<1> DEFINE t == Part(p, 0, 20)
<1>1. t \in Seq(Byte) /\ Len(t) = 20 /\ \A i \in 1..20 : t[i] = p[0 + i]
  <2>1. 0 \in Nat /\ 20 \in Nat /\ 0 + 20 <= Len(p) BY <1>0
  <2>. QED BY <2>1, PartOf
<1> HIDE DEF t
<1>2. \A i \in 1..Len(t) : t[i] = h[i]
  <2>1. \A i \in 1..20 : 0 + i = i OBVIOUS
  <2>2. \A i \in 1..20 : t[i] = p[i] BY <1>1, <2>1
  <2>3. Len(t) = 20 BY <1>1
  <2>. QED BY <1>0, <2>2, <2>3
<1>3. t = h
  <2>1. Len(t) = Len(h) BY <1>0, <1>1
  <2>2. t \in Seq(Byte) BY <1>1
  <2>. QED BY <1>2, <2>1, <2>2, SeqEqual
<1>4. chksum(0, t) = OnesComplementSum(h) BY <1>1, <1>3, ChecksumIsSum
<1>5. uip_ipchksum(p) = IF chksum(0, t) = 0 THEN 65535 ELSE chksum(0, t)
  BY DEF uip_ipchksum, UIP_IPH_LEN, t
<1>6. OnesComplementSum(h) \in Word16 BY TotalIsSum
<1>7. uip_ipchksum(p) \in Word16
  <2>1. MaxWord \in Word16 /\ MaxWord = 65535 BY LastWord
  <2>. QED BY <1>4, <1>5, <1>6, <2>1
<1>8. MaxWord = 65535 BY LastWord
<1>. QED BY <1>3, <1>4, <1>5, <1>7, <1>8 DEF t

----------------------------------------------------------------------------
(* Pings that have come through and pings that have not *)

\* The header of a ping has a good checksum.
LEMMA PingHeaderGood ==
  ASSUME NEW data \in Datas
  PROVE  Multiple(Total(PingHeader(data)))
<1> DEFINE length == 24 + Len(data)
           h == Header(length)
           q == PingHeader(data)
<1>1. length \in Word16
  <2>1. Len(data) \in Nat /\ 24 + Len(data) <= 65535 BY DataOf
  <2>. QED BY <2>1, WordRange
<1>2. q = WithChecksum(h, 10) BY Zenon DEF PingHeader
<1> HIDE DEF length, q
<1>3. h \in Seq(Byte) /\ Len(h) = 20 BY <1>1, HeaderOf
<1>4. h[1] = 69 /\ h[11] = 0 /\ h[12] = 0 BY <1>1, HeaderOf, Zenon
<1> HIDE DEF h
<1>5. Total(h) # 0
  <2>1. h \in Seq(Byte) /\ 2 <= Len(h) BY <1>3
  <2>2. h[1] # 0 BY <1>4
  <2>. QED BY <2>1, <2>2, TotalNotZero
<1>6. /\ 6 \in Nat /\ 1 <= 6 /\ 2 * 6 <= Len(h) /\ h[2 * 6 - 1] = 0 /\ h[2 * 6] = 0
      /\ q = WithChecksum(h, 2 * 6 - 2)
  BY <1>2, <1>3, <1>4
<1>7. h \in Seq(Byte) BY <1>3
<1>8. Multiple(Total(q)) BY <1>5, <1>6, <1>7, WithChecksumGood
<1>. QED BY <1>8 DEF q

\* A changed byte changes the sum, by less than 2^16 - 1.
LEMMA ByteChanged ==
  ASSUME NEW p \in Seq(Byte), NEW q \in Seq(Byte), Len(q) = Len(p),
         NEW o \in Nat, o < Len(p), q[o + 1] # p[o + 1],
         \A i \in 1..Len(p) : i # o + 1 => q[i] = p[i]
  PROVE  \E d \in Int : /\ -65280 <= d /\ d <= 65280 /\ d # 0
                        /\ Total(q) = Total(p) + d
<1> DEFINE m == (o \div 2) + 1
           a == p[2 * m - 1]
           b == IF 2 * m \in DOMAIN p THEN p[2 * m] ELSE 0
           c == q[2 * m - 1]
           e == IF 2 * m \in DOMAIN q THEN q[2 * m] ELSE 0
           d == WordAt(q, m) - WordAt(p, m)
<1>0. Len(p) \in Nat BY Elements
<1>1. /\ m \in Nat /\ 1 <= m /\ (o + 1 = 2 * m - 1 \/ o + 1 = 2 * m)
      /\ 2 * m - 1 \in 1..Len(p) /\ 2 * m - 1 # 2 * m
  BY <1>0
<1> HIDE DEF m
<1>2. /\ DOMAIN p = 1..Len(p) /\ DOMAIN q = 1..Len(p)
      /\ (\A i \in 1..Len(p) : p[i] \in Byte) /\ \A i \in 1..Len(p) : q[i] \in Byte
  <2>1. DOMAIN p = 1..Len(p) /\ \A i \in 1..Len(p) : p[i] \in Byte BY Elements
  <2>2. DOMAIN q = 1..Len(q) /\ \A i \in 1..Len(q) : q[i] \in Byte BY Elements
  <2>. QED BY <2>1, <2>2
<1>3. a \in Byte /\ b \in Byte /\ c \in Byte /\ e \in Byte
  <2>1. 0 \in Byte BY ZeroByte, Zenon
  <2>2. a \in Byte /\ c \in Byte BY <1>1, <1>2
  <2>3. b \in Byte
    <3>1. 2 * m \in 1..Len(p) => p[2 * m] \in Byte BY <1>2
    <3>. QED BY <1>2, <2>1, <3>1, Zenon
  <2>4. e \in Byte
    <3>1. 2 * m \in 1..Len(p) => q[2 * m] \in Byte BY <1>2
    <3>. QED BY <1>2, <2>1, <3>1, Zenon
  <2>. QED BY <2>2, <2>3, <2>4, Zenon
<1>4. WordAt(p, m) = Word(a, b) /\ WordAt(q, m) = Word(c, e) BY Zenon DEF WordAt
<1>5. (c = a /\ e # b) \/ (c # a /\ e = b)
  <2>1. CASE o + 1 = 2 * m - 1
    <3>1. c # a BY <2>1
    <3>2. 2 * m # o + 1 BY <1>1, <2>1
    <3>3. e = b
      <4>1. CASE 2 * m \in 1..Len(p)
        <5>1. q[2 * m] = p[2 * m] BY <3>2, <4>1
        <5>. QED BY <1>2, <4>1, <5>1
      <4>2. CASE 2 * m \notin 1..Len(p) BY <1>2, <4>2
      <4>. QED BY <4>1, <4>2
    <3>. QED BY <3>1, <3>3
  <2>2. CASE o + 1 = 2 * m
    <3>1. 2 * m \in 1..Len(p) BY <1>0, <2>2
    <3>2. e = q[2 * m] /\ b = p[2 * m] BY <1>2, <3>1
    <3>3. e # b BY <2>2, <3>2
    <3>4. 2 * m - 1 # o + 1 BY <1>1, <2>2
    <3>5. c = a BY <1>1, <3>4
    <3>. QED BY <3>3, <3>5
  <2>. QED BY <1>1, <2>1, <2>2
<1>6. /\ Total(q) = Total(p) + WordAt(q, m) - WordAt(p, m)
      /\ WordAt(q, m) \in Nat /\ WordAt(p, m) \in Nat
  <2>1. m \in Nat /\ 1 <= m /\ 2 * m - 1 <= Len(p) BY <1>0, <1>1
  <2>2. ASSUME NEW i \in 1..Len(p), i # 2 * m - 1, i # 2 * m PROVE q[i] = p[i]
    <3>1. i # o + 1 BY <1>1, <2>2
    <3>. QED BY <3>1
  <2>. QED BY <2>1, <2>2, TotalChanged
<1> HIDE DEF a, b, c, e
<1>7. d \in Int /\ -65280 <= d /\ d <= 65280 /\ d # 0
  <2>1. /\ a \in Int /\ 0 <= a /\ a <= 255 /\ b \in Int /\ 0 <= b /\ b <= 255
        /\ c \in Int /\ 0 <= c /\ c <= 255 /\ e \in Int /\ 0 <= e /\ e <= 255
    BY <1>3, ByteRange
  <2>2. d = (c * 256 + e) - (a * 256 + b) BY <1>4 DEF Word
  <2> HIDE DEF d
  <2>. QED BY <1>5, <2>1, <2>2
<1>8. Total(q) \in Nat /\ Total(p) \in Nat BY TotalIsSum
<1>9. Total(q) = Total(p) + d BY <1>6, <1>8
<1> HIDE DEF d
<1>. QED BY <1>7, <1>9

\* A changed byte spoils the sum of a good header.
LEMMA DamagedSum ==
  ASSUME NEW h \in Seq(Byte), Multiple(Total(h)),
         NEW q \in Seq(Byte), Len(q) = Len(h),
         NEW o \in Nat, o < Len(h), q[o + 1] # h[o + 1],
         \A i \in 1..Len(h) : i # o + 1 => q[i] = h[i]
  PROVE  Reduced(Total(q)) # 65535 /\ Reduced(Total(q)) # 0
<1>1. PICK d \in Int : -65280 <= d /\ d <= 65280 /\ d # 0 /\ Total(q) = Total(h) + d
  BY ByteChanged
<1>2. Total(q) \in Nat BY TotalIsSum
<1>. QED BY <1>1, <1>2, NearMultiple

\* The rest of a packet and what has been put into it
LEMMA PutInto ==
  ASSUME NEW p \in Seq(Byte), NEW offset \in Nat, NEW bytes \in Seq(Byte),
         offset + Len(bytes) <= Len(p)
  PROVE  LET q == Patched(p, offset, bytes)
         IN  /\ q \in Seq(Byte) /\ Len(q) = Len(p)
             /\ \A i \in 1..Len(p) : i <= offset \/ offset + Len(bytes) < i => q[i] = p[i]
             /\ \A i \in 1..Len(bytes) : q[offset + i] = bytes[i]
<1> DEFINE q == Patched(p, offset, bytes)
<1>1. Len(bytes) \in Nat /\ Len(p) \in Nat BY Elements
<1>2. /\ q \in Seq(Byte) /\ Len(q) = Len(p)
      /\ \A i \in 1..Len(p) :
           q[i] = IF offset < i /\ i <= offset + Len(bytes) THEN bytes[i - offset] ELSE p[i]
  BY PatchedOf
<1> HIDE DEF q
<1>3. ASSUME NEW i \in 1..Len(bytes) PROVE q[offset + i] = bytes[i]
  <2>1. /\ offset + i \in 1..Len(p) /\ offset < offset + i /\ offset + i <= offset + Len(bytes)
        /\ offset + i - offset = i
    BY <1>1
  <2>. QED BY <1>2, <2>1
<1>4. ASSUME NEW i \in 1..Len(p), i <= offset \/ offset + Len(bytes) < i PROVE q[i] = p[i]
  BY <1>1, <1>2, <1>4
<1>. QED BY <1>2, <1>3, <1>4 DEF q

\* A packet with one byte changed
LEMMA OnePut ==
  ASSUME NEW p \in Seq(Byte), NEW o \in Nat, o < Len(p), NEW v \in Byte,
         NEW q, q = Patched(p, o, <<v>>)
  PROVE  /\ q \in Seq(Byte) /\ Len(q) = Len(p) /\ q[o + 1] = v
         /\ \A i \in 1..Len(p) : i # o + 1 => q[i] = p[i]
<1>1. <<v>> \in Seq(Byte) /\ Len(<<v>>) = 1 /\ <<v>>[1] = v BY Tuples
<1> DEFINE bytes == <<v>>
<1>2. bytes \in Seq(Byte) /\ Len(bytes) = 1 /\ bytes[1] = v /\ q = Patched(p, o, bytes)
  BY <1>1
<1> HIDE DEF bytes
<1>3. o + 1 <= Len(p) /\ Len(p) \in Nat BY Elements
<1>4. /\ q \in Seq(Byte) /\ Len(q) = Len(p)
      /\ \A i \in 1..Len(p) : i <= o \/ o + 1 < i => q[i] = p[i]
      /\ \A i \in 1..1 : q[o + i] = bytes[i]
  <2> DEFINE r == Patched(p, o, bytes)
  <2>1. o + Len(bytes) <= Len(p) BY <1>2, <1>3
  <2>2. /\ r \in Seq(Byte) /\ Len(r) = Len(p)
        /\ \A i \in 1..Len(p) : i <= o \/ o + Len(bytes) < i => r[i] = p[i]
        /\ \A i \in 1..Len(bytes) : r[o + i] = bytes[i]
    BY <1>2, <2>1, PutInto
  <2>3. q = r /\ Len(bytes) = 1 BY <1>2
  <2> HIDE DEF r
  <2>. QED BY <2>2, <2>3
<1>5. q[o + 1] = v
  <2>1. 1 \in 1..1 OBVIOUS
  <2>. QED BY <1>2, <1>4, <2>1
<1>6. ASSUME NEW i \in 1..Len(p), i # o + 1 PROVE q[i] = p[i] BY <1>3, <1>4, <1>6
<1>. QED BY <1>4, <1>5, <1>6

\* A packet with two bytes changed
LEMMA TwoPut ==
  ASSUME NEW p \in Seq(Byte), NEW o \in Nat, o + 2 <= Len(p), NEW bytes \in Seq(Byte),
         Len(bytes) = 2
  PROVE  LET q == Patched(p, o, bytes)
         IN  /\ q \in Seq(Byte) /\ Len(q) = Len(p)
             /\ q[o + 1] = bytes[1] /\ q[o + 2] = bytes[2]
             /\ \A i \in 1..Len(p) : i # o + 1 /\ i # o + 2 => q[i] = p[i]
<1> DEFINE q == Patched(p, o, bytes)
<1>1. o + Len(bytes) <= Len(p) /\ Len(p) \in Nat BY Elements
<1>2. /\ q \in Seq(Byte) /\ Len(q) = Len(p)
      /\ \A i \in 1..Len(p) : i <= o \/ o + Len(bytes) < i => q[i] = p[i]
      /\ \A i \in 1..Len(bytes) : q[o + i] = bytes[i]
  BY <1>1, PutInto
<1> HIDE DEF q
<1>3. q[o + 1] = bytes[1] /\ q[o + 2] = bytes[2]
  <2>1. 1 \in 1..Len(bytes) /\ 2 \in 1..Len(bytes) OBVIOUS
  <2>. QED BY <1>2, <2>1
<1>4. ASSUME NEW i \in 1..Len(p), i # o + 1, i # o + 2 PROVE q[i] = p[i]
  <2>1. i <= o \/ o + Len(bytes) < i BY <1>1, <1>4
  <2>. QED BY <1>2, <2>1
<1>. QED BY <1>2, <1>3, <1>4 DEF q

\* What ip_send_nolen leaves of the packet and that its checksum is good
LEMMA SendOf ==
  ASSUME NEW p \in Seq(Byte), 24 <= Len(p), NEW id \in Word16
  PROVE  LET q == Send(p, id)
         IN  /\ q \in Seq(Byte) /\ Len(q) = Len(p)
             /\ q[3] = p[3] /\ q[4] = p[4]
             /\ \A i \in 1..Len(p) : i > 12 => q[i] = p[i]
             /\ Checks(Part(q, 0, 20))
<1> DEFINE first  == <<69, 0>>
           zeros  == <<0, 0>>
           four   == Bytes(id) \o zeros
           r      == Patched(p, 0, first)
           header == Patched(r, 4, four)
           blank  == Patched(header, 10, zeros)
           sum    == uip_ipchksum(blank)
           bytes  == Bytes(Complement(sum))
           q      == Patched(blank, 10, bytes)
<1>0. Len(p) \in Nat BY Elements
<1>1. q = Send(p, id) BY Zenon DEF Send
<1>2. first \in Seq(Byte) /\ Len(first) = 2 /\ first[1] = 69 /\ first[2] = 0
  <2>1. 69 \in Byte /\ 0 \in Byte BY ByteRange
  <2>. QED BY <2>1, Tuples
<1>3. zeros \in Seq(Byte) /\ Len(zeros) = 2 /\ zeros[1] = 0 /\ zeros[2] = 0
  <2>1. 0 \in Byte BY ByteRange
  <2>. QED BY <2>1, Tuples
<1> HIDE DEF first, zeros
<1>4. four \in Seq(Byte) /\ Len(four) = 4
  <2>1. Bytes(id) \in Seq(Byte) /\ Len(Bytes(id)) = 2 BY BytesOf
  <2> DEFINE x == Bytes(id)
  <2>2. x \in Seq(Byte) /\ zeros \in Seq(Byte) BY <1>3, <2>1
  <2>3. Len(x) = 2 /\ Len(zeros) = 2 BY <1>3, <2>1
  <2> HIDE DEF x
  <2>4. x \o zeros \in Seq(Byte) /\ Len(x \o zeros) = Len(x) + Len(zeros)
    BY <2>2, ConcatProperties
  <2>5. four = x \o zeros BY Zenon DEF x
  <2> HIDE DEF four
  <2>. QED BY <2>3, <2>4, <2>5
<1> HIDE DEF four
<1>5. /\ r \in Seq(Byte) /\ Len(r) = Len(p) /\ r[1] = 69
      /\ \A i \in 1..Len(p) : i > 2 => r[i] = p[i]
  <2>1. 0 \in Nat /\ 0 + 2 <= Len(p) BY <1>0
  <2>2. /\ r \in Seq(Byte) /\ Len(r) = Len(p) /\ r[0 + 1] = first[1]
        /\ \A i \in 1..Len(p) : i # 0 + 1 /\ i # 0 + 2 => r[i] = p[i]
    BY <1>2, <2>1, TwoPut
  <2> HIDE DEF r
  <2>. QED BY <1>0, <1>2, <2>2
<1> HIDE DEF r
<1>6. /\ header \in Seq(Byte) /\ Len(header) = Len(p) /\ header[1] = 69
      /\ header[3] = p[3] /\ header[4] = p[4]
      /\ \A i \in 1..Len(p) : i > 8 => header[i] = p[i]
  <2>1. 4 \in Nat /\ 4 + Len(four) <= Len(r) BY <1>0, <1>4, <1>5
  <2>8. r \in Seq(Byte) /\ four \in Seq(Byte) BY <1>4, <1>5
  <2>2. /\ header \in Seq(Byte) /\ Len(header) = Len(r)
        /\ \A i \in 1..Len(r) : i <= 4 \/ 4 + Len(four) < i => header[i] = r[i]
    BY <2>8, <2>1, PutInto
  <2> HIDE DEF header
  <2>3. \A i \in 1..Len(p) : i <= 4 \/ 8 < i => header[i] = r[i] BY <1>4, <1>5, <2>2
  <2>4. 1 \in 1..Len(p) /\ 3 \in 1..Len(p) /\ 4 \in 1..Len(p) BY <1>0
  <2>5. header[1] = r[1] /\ header[3] = r[3] /\ header[4] = r[4] BY <2>3, <2>4
  <2>6. r[3] = p[3] /\ r[4] = p[4] BY <1>5, <2>4
  <2>7. ASSUME NEW i \in 1..Len(p), i > 8 PROVE header[i] = p[i]
    <3>1. header[i] = r[i] BY <2>3, <2>7
    <3>2. r[i] = p[i] BY <1>5, <2>7
    <3>. QED BY <3>1, <3>2
  <2>. QED BY <1>5, <2>2, <2>5, <2>6, <2>7
<1> HIDE DEF header
<1>7. /\ blank \in Seq(Byte) /\ Len(blank) = Len(p) /\ blank[1] = 69
      /\ blank[3] = p[3] /\ blank[4] = p[4] /\ blank[11] = 0 /\ blank[12] = 0
      /\ \A i \in 1..Len(p) : i > 12 => blank[i] = p[i]
  <2>1. 10 \in Nat /\ 10 + 2 <= Len(header) BY <1>0, <1>6
  <2>2. /\ blank \in Seq(Byte) /\ Len(blank) = Len(header)
        /\ blank[10 + 1] = zeros[1] /\ blank[10 + 2] = zeros[2]
        /\ \A i \in 1..Len(header) : i # 10 + 1 /\ i # 10 + 2 => blank[i] = header[i]
    BY <1>3, <1>6, <2>1, TwoPut
  <2> HIDE DEF blank
  <2>3. \A i \in 1..Len(p) : i # 11 /\ i # 12 => blank[i] = header[i] BY <1>6, <2>2
  <2>4. 1 \in 1..Len(p) /\ 3 \in 1..Len(p) /\ 4 \in 1..Len(p) BY <1>0
  <2>5. blank[1] = header[1] /\ blank[3] = header[3] /\ blank[4] = header[4] BY <2>3, <2>4
  <2>6. blank[11] = 0 /\ blank[12] = 0 BY <1>3, <2>2
  <2>7. ASSUME NEW i \in 1..Len(p), i > 12 PROVE blank[i] = p[i]
    <3>1. blank[i] = header[i] BY <2>3, <2>7
    <3>2. header[i] = p[i] BY <1>6, <2>7
    <3>. QED BY <3>1, <3>2
  <2>. QED BY <1>6, <2>2, <2>5, <2>6, <2>7
<1> HIDE DEF blank
<1> DEFINE b == Part(blank, 0, 20)
<1>8. b \in Seq(Byte) /\ Len(b) = 20 /\ \A i \in 1..20 : b[i] = blank[i]
  <2>1. 0 \in Nat /\ 20 \in Nat /\ 0 + 20 <= Len(blank) BY <1>0, <1>7
  <2>2. /\ b \in Seq(Byte) /\ Len(b) = 20
        /\ \A i \in 1..20 : b[i] = blank[0 + i]
    BY <1>7, <2>1, PartOf
  <2> HIDE DEF b
  <2>3. \A i \in 1..20 : 0 + i = i OBVIOUS
  <2>. QED BY <2>2, <2>3
<1> HIDE DEF b
<1>9. b[1] # 0 /\ b[11] = 0 /\ b[12] = 0
  <2>1. b[1] = blank[1] /\ b[11] = blank[11] /\ b[12] = blank[12] BY <1>8
  <2>2. blank[1] = 69 /\ blank[11] = 0 /\ blank[12] = 0 BY <1>7
  <2>. QED BY <2>1, <2>2
<1>10. Total(b) # 0 /\ Total(b) \in Nat
  <2>1. b \in Seq(Byte) BY <1>8
  <2>2. 2 <= Len(b) /\ b[1] # 0 BY <1>8, <1>9
  <2>3. Total(b) # 0 BY <2>1, <2>2, TotalNotZero
  <2>4. Total(b) \in Nat BY <2>1, TotalIsSum
  <2>. QED BY <2>3, <2>4
<1>11. sum = OnesComplementSum(b) /\ sum \in Word16
  <2>1. StartsWith(blank, b)
    <3>1. 20 <= Len(blank) BY <1>0, <1>7
    <3>2. Len(b) = 20 /\ \A i \in 1..20 : blank[i] = b[i] BY <1>8
    <3>. QED BY <3>1, <3>2 DEF StartsWith
  <2>2. blank \in Seq(Byte) /\ b \in Seq(Byte) BY <1>7, <1>8
  <2>5. /\ OnesComplementSum(b) # 0 => uip_ipchksum(blank) = OnesComplementSum(b)
        /\ uip_ipchksum(blank) \in Word16
    BY <2>1, <2>2, HeaderChecksum
  <2>3. OnesComplementSum(b) = Reduced(Total(b)) BY <1>8, TotalIsSum
  <2>4. Reduced(Total(b)) # 0 BY <1>10, ReducedNotZero
  <2>. QED BY <2>3, <2>4, <2>5, Zenon
<1>12. bytes = Bytes(Complement(OnesComplementSum(b))) BY <1>11, Zenon
<1>13. bytes \in Seq(Byte) /\ Len(bytes) = 2
  <2>1. Complement(sum) \in Word16 BY <1>11, WordRange DEF Complement
  <2> DEFINE c == Complement(sum)
  <2> HIDE DEF c
  <2>2. Bytes(c) \in Seq(Byte) /\ Len(Bytes(c)) = 2 BY <2>1, BytesOf DEF c
  <2>. QED BY <2>2 DEF c
<1> HIDE DEF bytes, sum
<1>14. /\ q \in Seq(Byte) /\ Len(q) = Len(p)
       /\ q[11] = bytes[1] /\ q[12] = bytes[2]
       /\ \A i \in 1..Len(p) : i # 11 /\ i # 12 => q[i] = blank[i]
  <2>1. 10 \in Nat /\ 10 + 2 <= Len(blank) BY <1>0, <1>7
  <2>2. /\ q \in Seq(Byte) /\ Len(q) = Len(blank)
        /\ q[10 + 1] = bytes[1] /\ q[10 + 2] = bytes[2]
        /\ \A i \in 1..Len(blank) : i # 10 + 1 /\ i # 10 + 2 => q[i] = blank[i]
    BY <1>7, <1>13, <2>1, TwoPut
  <2> HIDE DEF q
  <2>. QED BY <1>7, <2>2
<1> HIDE DEF q
<1> DEFINE w == WithChecksum(b, 10)
<1>15. /\ w \in Seq(Byte) /\ Len(w) = 20
       /\ w[11] = bytes[1] /\ w[12] = bytes[2]
       /\ \A i \in 1..20 : i # 11 /\ i # 12 => w[i] = b[i]
  <2> DEFINE u == Patched(b, 10, bytes)
  <2>0. w = u BY <1>12, Zenon DEF WithChecksum
  <2>1. 10 \in Nat /\ 10 + 2 <= Len(b) BY <1>8
  <2>2. /\ u \in Seq(Byte) /\ Len(u) = Len(b)
        /\ u[10 + 1] = bytes[1] /\ u[10 + 2] = bytes[2]
        /\ \A i \in 1..Len(b) : i # 10 + 1 /\ i # 10 + 2 => u[i] = b[i]
    BY <1>8, <1>13, <2>1, TwoPut
  <2> HIDE DEF w, u
  <2>. QED BY <1>8, <2>0, <2>2
<1>16. Multiple(Total(w))
  <2>1. /\ 6 \in Nat /\ 1 <= 6 /\ 2 * 6 <= Len(b) /\ b[2 * 6 - 1] = 0 /\ b[2 * 6] = 0
        /\ w = WithChecksum(b, 2 * 6 - 2)
    BY <1>8, <1>9
  <2>2. b \in Seq(Byte) BY <1>8
  <2> HIDE DEF w
  <2>. QED BY <1>10, <2>1, <2>2, WithChecksumGood
<1> HIDE DEF w
<1>17. ASSUME NEW i \in 1..20 PROVE q[i] = w[i]
  <2>1. CASE i = 11 \/ i = 12 BY <1>14, <1>15, <2>1
  <2>2. CASE i # 11 /\ i # 12
    <3>1. i \in 1..Len(p) BY <1>0
    <3>. QED BY <1>8, <1>14, <1>15, <2>2, <3>1
  <2>. QED BY <2>1, <2>2
<1>18. Part(q, 0, 20) = w
  <2>1. 20 <= Len(q) BY <1>0, <1>14
  <2>2. q \in Seq(Byte) /\ w \in Seq(Byte) BY <1>14, <1>15
  <2>3. Len(w) = 20 BY <1>15
  <2>4. StartsWith(q, w) BY <1>17, <2>1, <2>3 DEF StartsWith
  <2>. QED BY <2>2, <2>4, HeaderChecksum
<1>19. Checks(Part(q, 0, 20)) BY <1>15, <1>16, <1>18, MultipleChecks
<1>20. ASSUME NEW i \in 1..Len(p), i > 12 PROVE q[i] = p[i]
  <2>1. q[i] = blank[i] BY <1>14, <1>20
  <2>2. blank[i] = p[i] BY <1>7, <1>20
  <2>. QED BY <2>1, <2>2
<1>21. q[3] = p[3] /\ q[4] = p[4]
  <2>1. 3 \in 1..Len(p) /\ 4 \in 1..Len(p) BY <1>0
  <2>2. q[3] = blank[3] /\ q[4] = blank[4] BY <1>14, <2>1
  <2>. QED BY <1>7, <2>2
<1>. QED BY <1>1, <1>14, <1>19, <1>20, <1>21

\* The checksum of the answer, whose bytes the machine reads and writes low byte first, is
\* the checksum of the ping and 2048, modulo 2^16 - 1.
LEMMA AdjustedOf ==
  ASSUME NEW high \in Byte, NEW low \in Byte
  PROVE  LET a == Adjusted(Word(low, high))
             w == Word(a % 256, a \div 256)
         IN  /\ a % 256 \in Byte /\ a \div 256 \in Byte
             /\ w = Word(high, low) + 2048 \/ w = Word(high, low) + 2048 - 65535
<1> DEFINE read == low * 256 + high
           a == Adjusted(Word(low, high))
<1>1. /\ high \in Int /\ 0 <= high /\ high <= 255
      /\ low \in Int /\ 0 <= low /\ low <= 255
  BY ByteRange
<1>2. uip_htons(65535 - ICMP_ECHO * 256) = 65527 /\ uip_htons(ICMP_ECHO * 256) = 8
  BY DEF uip_htons, Word, ICMP_ECHO
<1>3. a = IF read >= 65527 THEN (read + 9) % 65536 ELSE (read + 8) % 65536
  <2>1. Word(low, high) = read BY DEF Word
  <2>2. read + 8 + 1 = read + 9 BY <1>1
  <2>3. Adjusted(read) = IF read >= 65527 THEN (read + 8 + 1) % 65536 ELSE (read + 8) % 65536
    BY <1>2 DEF Adjusted
  <2> HIDE DEF read
  <2>. QED BY <2>1, <2>2, <2>3
<1> HIDE DEF a
<1> DEFINE x == IF high <= 247 /\ (low # 255 \/ high # 247) THEN high + 8
                ELSE IF low = 255 THEN high - 247 ELSE high - 248
           y == IF high <= 247 /\ (low # 255 \/ high # 247) THEN low
                ELSE IF low = 255 THEN 0 ELSE low + 1
<1>4. /\ x \in Int /\ 0 <= x /\ x <= 255 /\ y \in Int /\ 0 <= y /\ y <= 255
      /\ a = y * 256 + x
  BY <1>1, <1>3
<1>5. /\ x * 256 + y = high * 256 + low + 2048
         \/ x * 256 + y = high * 256 + low + 2048 - 65535
  BY <1>1
<1> HIDE DEF x, y
<1>6. a % 256 = x /\ a \div 256 = y BY <1>4
<1>7. x \in Byte /\ y \in Byte BY <1>4, ByteRange
<1>8. Word(x, y) = x * 256 + y /\ Word(high, low) = high * 256 + low BY DEF Word
<1>. QED BY <1>5, <1>6, <1>7, <1>8 DEF a

\* What uip_process makes of a ping before it sends it back
LEMMA EchoReplyOf ==
  ASSUME NEW p \in Seq(Byte), 24 <= Len(p)
  PROVE  LET q == EchoReply(p)
         IN  /\ q \in Seq(Byte) /\ Len(q) = Len(p)
             /\ q[3] = p[3] /\ q[4] = p[4]
             /\ \A i \in 1..4 : q[12 + i] = uip_hostaddr[i] /\ q[16 + i] = p[12 + i]
             /\ q[21] = 0 /\ q[22] = p[22]
             /\ \/ Word(q[23], q[24]) = Word(p[23], p[24]) + 2048
                \/ Word(q[23], q[24]) = Word(p[23], p[24]) + 2048 - 65535
             /\ \A i \in 1..Len(p) : i > 24 => q[i] = p[i]
<1> DEFINE adjusted == Adjusted(Word(p[24], p[23]))
           bytes == <<adjusted % 256, adjusted \div 256>>
           source == Part(p, 12, 4)
           eight == uip_hostaddr \o source
           icmp == Patched(p, 20, <<0>>)
           sum == Patched(icmp, 22, bytes)
           addresses == Patched(sum, 12, eight)
           q == Patched(addresses, 8, <<UIP_TTL>>)
<1>1. q = EchoReply(p)
  <2>1. At(p, 23) = p[24] /\ At(p, 22) = p[23] BY DEF At
  <2>. QED BY <2>1, Zenon DEF EchoReply, ICMP_ECHO_REPLY
<1>2. Len(p) \in Nat /\ \A i \in 1..Len(p) : p[i] \in Byte BY Elements
<1>3. p[23] \in Byte /\ p[24] \in Byte BY <1>2
<1>4. /\ bytes \in Seq(Byte) /\ Len(bytes) = 2
      /\ \/ Word(bytes[1], bytes[2]) = Word(p[23], p[24]) + 2048
         \/ Word(bytes[1], bytes[2]) = Word(p[23], p[24]) + 2048 - 65535
  <2> DEFINE x == adjusted % 256
             y == adjusted \div 256
  <2>1. /\ x \in Byte /\ y \in Byte
        /\ Word(x, y) = Word(p[23], p[24]) + 2048 \/ Word(x, y) = Word(p[23], p[24]) + 2048 - 65535
    BY <1>3, AdjustedOf
  <2> HIDE DEF x, y
  <2>2. <<x, y>> \in Seq(Byte) /\ Len(<<x, y>>) = 2 BY <2>1, Tuples
  <2>3. bytes = <<x, y>> BY DEF x, y
  <2> HIDE DEF bytes
  <2>4. bytes[1] = x /\ bytes[2] = y BY <2>3
  <2>. QED BY <2>1, <2>2, <2>3, <2>4
<1> HIDE DEF adjusted, bytes
<1>5. /\ source \in Seq(Byte) /\ Len(source) = 4
      /\ \A i \in 1..4 : source[i] = p[12 + i]
  <2>1. 12 \in Nat /\ 4 \in Nat /\ 12 + 4 <= Len(p) BY <1>2
  <2>. QED BY <2>1, PartOf
<1> HIDE DEF source
<1>6. /\ eight \in Seq(Byte) /\ Len(eight) = 8
      /\ \A i \in 1..4 : eight[i] = uip_hostaddr[i] /\ eight[4 + i] = p[12 + i]
  <2>1. uip_hostaddr \in Seq(Byte) /\ Len(uip_hostaddr) = 4
    <3>1. 10 \in Byte BY ByteRange
    <3>2. 0 \in Byte BY ByteRange
    <3>3. 2 \in Byte BY ByteRange
    <3>. QED BY <3>1, <3>2, <3>3, Tuples DEF uip_hostaddr
  <2> DEFINE host == uip_hostaddr
  <2>2. host \in Seq(Byte) /\ source \in Seq(Byte) BY <1>5, <2>1
  <2>3. Len(host) = 4 /\ Len(source) = 4 BY <1>5, <2>1
  <2> HIDE DEF host
  <2>4. /\ host \o source \in Seq(Byte) /\ Len(host \o source) = Len(host) + Len(source)
        /\ \A i \in 1..(Len(host) + Len(source)) :
             (host \o source)[i] = IF i <= Len(host) THEN host[i] ELSE source[i - Len(host)]
    BY <2>2, ConcatProperties
  <2>5. eight = host \o source BY DEF host
  <2> HIDE DEF eight
  <2>6. eight \in Seq(Byte) /\ Len(eight) = 8 BY <2>3, <2>4, <2>5
  <2>7. ASSUME NEW i \in 1..4 PROVE eight[i] = host[i] /\ eight[4 + i] = source[i]
    BY <2>3, <2>4, <2>5
  <2>. QED BY <1>5, <2>6, <2>7 DEF host
<1> HIDE DEF eight
<1>7. /\ icmp \in Seq(Byte) /\ Len(icmp) = Len(p) /\ icmp[21] = 0
      /\ \A i \in 1..Len(p) : i # 21 => icmp[i] = p[i]
  <2>1. 20 \in Nat /\ 20 < Len(p) BY <1>2
  <2>2. 0 \in Byte BY ByteRange
  <2>3. /\ icmp \in Seq(Byte) /\ Len(icmp) = Len(p) /\ icmp[20 + 1] = 0
        /\ \A i \in 1..Len(p) : i # 20 + 1 => icmp[i] = p[i]
    BY <2>1, <2>2, OnePut
  <2> HIDE DEF icmp
  <2>. QED BY <2>3
<1> HIDE DEF icmp
<1>8. /\ sum \in Seq(Byte) /\ Len(sum) = Len(p) /\ sum[23] = bytes[1] /\ sum[24] = bytes[2]
      /\ \A i \in 1..Len(p) : i # 23 /\ i # 24 => sum[i] = icmp[i]
  <2>1. 22 \in Nat /\ 22 + 2 <= Len(icmp) BY <1>2, <1>7
  <2>2. icmp \in Seq(Byte) /\ bytes \in Seq(Byte) /\ Len(bytes) = 2 BY <1>4, <1>7
  <2>3. /\ sum \in Seq(Byte) /\ Len(sum) = Len(icmp)
        /\ sum[22 + 1] = bytes[1] /\ sum[22 + 2] = bytes[2]
        /\ \A i \in 1..Len(icmp) : i # 22 + 1 /\ i # 22 + 2 => sum[i] = icmp[i]
    BY <2>1, <2>2, TwoPut
  <2>4. Len(icmp) = Len(p) BY <1>7
  <2> HIDE DEF sum
  <2>. QED BY <2>3, <2>4
<1> HIDE DEF sum
<1>9. /\ addresses \in Seq(Byte) /\ Len(addresses) = Len(p)
      /\ \A i \in 1..Len(p) : i <= 12 \/ 20 < i => addresses[i] = sum[i]
      /\ \A i \in 1..8 : addresses[12 + i] = eight[i]
  <2>1. 12 \in Nat /\ 12 + Len(eight) <= Len(sum) BY <1>2, <1>6, <1>8
  <2>2. sum \in Seq(Byte) /\ eight \in Seq(Byte) BY <1>6, <1>8
  <2>3. /\ addresses \in Seq(Byte) /\ Len(addresses) = Len(sum)
        /\ \A i \in 1..Len(sum) : i <= 12 \/ 12 + Len(eight) < i => addresses[i] = sum[i]
        /\ \A i \in 1..Len(eight) : addresses[12 + i] = eight[i]
    BY <2>1, <2>2, PutInto
  <2>4. Len(sum) = Len(p) /\ Len(eight) = 8 BY <1>6, <1>8
  <2> HIDE DEF addresses
  <2>. QED BY <2>3, <2>4
<1> HIDE DEF addresses
<1>10. /\ q \in Seq(Byte) /\ Len(q) = Len(p)
       /\ \A i \in 1..Len(p) : i # 9 => q[i] = addresses[i]
  <2>1. 8 \in Nat /\ 8 < Len(addresses) BY <1>2, <1>9
  <2>2. UIP_TTL \in Byte BY ByteRange DEF UIP_TTL
  <2>3. addresses \in Seq(Byte) BY <1>9
  <2>4. /\ q \in Seq(Byte) /\ Len(q) = Len(addresses)
        /\ \A i \in 1..Len(addresses) : i # 8 + 1 => q[i] = addresses[i]
    BY <2>1, <2>2, <2>3, OnePut
  <2>5. Len(addresses) = Len(p) BY <1>9
  <2> HIDE DEF q
  <2>. QED BY <2>4, <2>5
<1> HIDE DEF q
<1>11. ASSUME NEW i \in 1..Len(p), i <= 8 \/ i > 20, i # 21, i # 23, i # 24 PROVE q[i] = p[i]
  <2>1. q[i] = addresses[i] BY <1>10, <1>11
  <2>2. addresses[i] = sum[i] BY <1>9, <1>11
  <2>3. sum[i] = icmp[i] BY <1>8, <1>11
  <2>4. icmp[i] = p[i] BY <1>7, <1>11
  <2>. QED BY <2>1, <2>2, <2>3, <2>4
<1>12. q[3] = p[3] /\ q[4] = p[4] /\ q[22] = p[22]
  <2>1. 3 \in 1..Len(p) /\ 4 \in 1..Len(p) /\ 22 \in 1..Len(p) BY <1>2
  <2>. QED BY <1>11, <2>1
<1>13. q[21] = 0 /\ q[23] = bytes[1] /\ q[24] = bytes[2]
  <2>1. 21 \in 1..Len(p) /\ 23 \in 1..Len(p) /\ 24 \in 1..Len(p) BY <1>2
  <2>2. q[21] = sum[21] /\ q[23] = sum[23] /\ q[24] = sum[24] BY <1>9, <1>10, <2>1
  <2>3. sum[21] = 0 BY <1>7, <1>8, <2>1
  <2>. QED BY <1>8, <2>2, <2>3
<1>14. ASSUME NEW i \in 1..4 PROVE q[12 + i] = uip_hostaddr[i] /\ q[16 + i] = p[12 + i]
  <2>1. /\ 12 + i \in 1..Len(p) /\ 12 + i # 9 /\ 16 + i \in 1..Len(p) /\ 16 + i # 9
        /\ i \in 1..8 /\ 4 + i \in 1..8 /\ 12 + (4 + i) = 16 + i
    BY <1>2
  <2>2. q[12 + i] = eight[i] BY <1>9, <1>10, <2>1
  <2>3. q[16 + i] = eight[4 + i]
    <3>1. addresses[12 + (4 + i)] = eight[4 + i] BY <1>9, <2>1
    <3>2. q[16 + i] = addresses[16 + i] BY <1>10, <2>1
    <3>. QED BY <2>1, <3>1, <3>2
  <2>. QED BY <1>6, <2>2, <2>3
<1>15. \/ Word(q[23], q[24]) = Word(p[23], p[24]) + 2048
       \/ Word(q[23], q[24]) = Word(p[23], p[24]) + 2048 - 65535
  BY <1>4, <1>13
<1>16. ASSUME NEW i \in 1..Len(p), i > 24 PROVE q[i] = p[i] BY <1>11, <1>16
<1>. QED BY <1>1, <1>10, <1>12, <1>13, <1>14, <1>15, <1>16

----------------------------------------------------------------------------
(* The checksum of the answer *)

\* The type and the checksum that change leave the sum what it was, modulo 2^16 - 1.
LEMMA AnswerSum ==
  ASSUME NEW p \in Seq(Byte), NEW q \in Seq(Byte), Len(q) = Len(p), 4 <= Len(p),
         p[1] = ICMP_ECHO, q[1] = 0, q[2] = p[2],
         \/ Word(q[3], q[4]) = Word(p[3], p[4]) + 2048
         \/ Word(q[3], q[4]) = Word(p[3], p[4]) + 2048 - 65535,
         \A i \in 1..Len(p) : i > 4 => q[i] = p[i]
  PROVE  Total(q) = Total(p) \/ Total(q) = Total(p) - 65535
<1> DEFINE z == Patched(p, 0, <<0>>)
<1>1. /\ Len(p) \in Nat /\ DOMAIN p = 1..Len(p) /\ DOMAIN q = 1..Len(p)
      /\ \A i \in 1..Len(p) : p[i] \in Byte
  BY Elements
<1>2. /\ z \in Seq(Byte) /\ Len(z) = Len(p) /\ z[1] = 0
      /\ \A i \in 1..Len(p) : i # 1 => z[i] = p[i]
  <2>1. 0 \in Nat /\ 0 < Len(p) BY <1>1
  <2>2. 0 \in Byte BY ZeroByte
  <2>3. /\ z \in Seq(Byte) /\ Len(z) = Len(p) /\ z[0 + 1] = 0
        /\ \A i \in 1..Len(p) : i # 0 + 1 => z[i] = p[i]
    BY <2>1, <2>2, OnePut
  <2> HIDE DEF z
  <2>. QED BY <2>3
<1> HIDE DEF z
<1>3. DOMAIN z = 1..Len(p) BY <1>2, Elements
<1>4. 1 \in 1..Len(p) /\ 2 \in 1..Len(p) /\ 3 \in 1..Len(p) /\ 4 \in 1..Len(p) BY <1>1
<1>5. z[2] = p[2] /\ z[3] = p[3] /\ z[4] = p[4] BY <1>2, <1>4
<1>6. ASSUME NEW x \in Seq(Byte), Len(x) = Len(p)
      PROVE  WordAt(x, 1) = Word(x[1], x[2]) /\ WordAt(x, 2) = Word(x[3], x[4])
  <2>1. DOMAIN x = 1..Len(p) BY <1>6, Elements
  <2>2. 2 * 1 = 2 /\ 2 * 1 - 1 = 1 /\ 2 * 2 = 4 /\ 2 * 2 - 1 = 3 OBVIOUS
  <2>. QED BY <1>4, <2>1, <2>2 DEF WordAt
<1>7. /\ Total(z) = Total(p) + WordAt(z, 1) - WordAt(p, 1)
      /\ WordAt(z, 1) \in Nat /\ WordAt(p, 1) \in Nat
  <2>1. 1 \in Nat /\ 1 <= 1 /\ 2 * 1 - 1 <= Len(p) OBVIOUS
  <2>2. \A i \in 1..Len(p) : i # 2 * 1 - 1 /\ i # 2 * 1 => z[i] = p[i] BY <1>2
  <2>3. z \in Seq(Byte) /\ Len(z) = Len(p) BY <1>2
  <2>. QED BY <2>1, <2>2, <2>3, TotalChanged
<1>8. /\ Total(q) = Total(z) + WordAt(q, 2) - WordAt(z, 2)
      /\ WordAt(q, 2) \in Nat /\ WordAt(z, 2) \in Nat
  <2>1. 2 \in Nat /\ 1 <= 2 /\ 2 * 2 - 1 <= Len(z) BY <1>2
  <2>2. ASSUME NEW i \in 1..Len(z), i # 2 * 2 - 1, i # 2 * 2 PROVE q[i] = z[i]
    <3>1. i \in 1..Len(p) /\ (i = 1 \/ i = 2 \/ i > 4) BY <1>2, <2>2
    <3>2. i = 1 => q[i] = z[i] BY <1>2
    <3>3. i = 2 => q[i] = z[i] BY <1>5
    <3>4. i > 4 => q[i] = p[i] /\ z[i] = p[i] BY <1>2, <3>1
    <3>. QED BY <3>1, <3>2, <3>3, <3>4
  <2>3. z \in Seq(Byte) /\ Len(q) = Len(z) BY <1>2
  <2>. QED BY <2>1, <2>2, <2>3, TotalChanged
<1>9. WordAt(p, 1) = WordAt(z, 1) + 2048
  <2>1. WordAt(p, 1) = Word(8, p[2]) /\ WordAt(z, 1) = Word(0, p[2])
    BY <1>2, <1>5, <1>6 DEF ICMP_ECHO
  <2>2. p[2] \in Int BY <1>1, <1>4, ByteRange
  <2>. QED BY <2>1, <2>2 DEF Word
<1>10. WordAt(q, 2) = Word(q[3], q[4]) /\ WordAt(z, 2) = Word(p[3], p[4])
  BY <1>2, <1>5, <1>6
<1>11. Total(p) \in Nat /\ Total(q) \in Nat /\ Total(z) \in Nat BY <1>2, TotalIsSum
<1> DEFINE a == WordAt(q, 2)
           c == WordAt(z, 2)
           e == WordAt(z, 1)
           f == WordAt(p, 1)
           t == Total(p)
           u == Total(z)
           v == Total(q)
<1>12. a = c + 2048 \/ a = c + 2048 - 65535 BY <1>10
<1>13. /\ u = t + e - f /\ v = u + a - c /\ f = e + 2048
       /\ a \in Nat /\ c \in Nat /\ e \in Nat /\ f \in Nat /\ t \in Nat /\ u \in Nat /\ v \in Nat
  BY <1>7, <1>8, <1>9, <1>11
<1> HIDE DEF a, c, e, f, t, u, v
<1>14. v = t \/ v = t - 65535 BY <1>12, <1>13
<1>. QED BY <1>14 DEF v, t

\* The answer's checksum is as good as the ping's.
LEMMA AnswerGood ==
  ASSUME NEW base, Multiple(base), NEW p \in Seq(Byte), NEW q \in Seq(Byte),
         NEW d \in Int, -65280 <= d, d <= 65280, Total(p) = base + d,
         Total(q) = Total(p) \/ Total(q) = Total(p) - 65535
  PROVE  /\ d = 0 => OnesComplementSum(q) \in {0, 65535}
         /\ d # 0 => OnesComplementSum(q) \notin {0, 65535}
<1> DEFINE t == Total(q)
<1>1. t \in Nat /\ OnesComplementSum(q) = Reduced(t) /\ Total(p) \in Nat BY TotalIsSum
<1>2. PICK k \in Nat : k >= 1 /\ base = 65535 * k BY DEF Multiple
<1>3. t = base + d \/ t = (base - 65535) + d
  BY <1>1, <1>2
<1> HIDE DEF t
<1>4. CASE t = base + d
  <2>1. Reduced(t) # 0 /\ (Reduced(t) = 65535 <=> d = 0) BY <1>1, <1>4, NearMultiple
  <2>. QED BY <1>1, <2>1
<1>5. CASE t = (base - 65535) + d /\ k > 1
  <2> DEFINE j == k - 1
             less == base - 65535
  <2>1. j \in Nat /\ j >= 1 /\ less = 65535 * j BY <1>2, <1>5
  <2>2. t = less + d BY <1>5
  <2> HIDE DEF j, less
  <2>3. Multiple(less) BY <2>1 DEF Multiple
  <2>4. Reduced(t) # 0 /\ (Reduced(t) = 65535 <=> d = 0) BY <1>1, <2>2, <2>3, NearMultiple
  <2>. QED BY <1>1, <2>4
<1>6. CASE t = (base - 65535) + d /\ k = 1
  <2>1. t = d BY <1>2, <1>6
  <2>2. CASE d = 0
    <3>1. Reduced(t) = 0 BY <2>1, <2>2 DEF Reduced
    <3>. QED BY <1>1, <2>2, <3>1
  <2>3. CASE d # 0
    <3> DEFINE x == t - 1
    <3>1. x \in Int /\ 0 <= x /\ x < 65535 /\ x = x + 65535 * 0 /\ 0 \in Int
      BY <1>1, <2>1, <2>3
    <3>2. x + 1 = d BY <1>1, <2>1
    <3>3. Reduced(t) = (x % MaxWord) + 1 BY <2>1, <2>3 DEF Reduced
    <3> HIDE DEF x
    <3>4. x % MaxWord = x BY <3>1 DEF MaxWord
    <3>5. Reduced(t) = d BY <3>2, <3>3, <3>4
    <3>. QED BY <1>1, <2>3, <3>5
  <2>. QED BY <2>2, <2>3
<1>. QED BY <1>2, <1>3, <1>4, <1>5, <1>6

\* The message of a ping has a good checksum.
LEMMA PingMessageGood ==
  ASSUME NEW data \in Datas
  PROVE  Multiple(Total(PingMessage(data)))
<1> DEFINE p == Unchecked(data)
           q == PingMessage(data)
           first == <<ICMP_ECHO, 0, 0, 0>>
<1>1. data \in Seq(Byte) /\ Len(data) \in Nat BY DataOf
<1>2. first \in Seq(Byte) /\ Len(first) = 4 /\ first[1] = 8 /\ first[3] = 0 /\ first[4] = 0
  <2>1. ICMP_ECHO \in Byte BY ByteRange DEF ICMP_ECHO
  <2>2. 0 \in Byte BY ByteRange
  <2>. QED BY <2>1, <2>2, Tuples DEF ICMP_ECHO
<1> HIDE DEF first
<1>3. /\ p \in Seq(Byte) /\ Len(p) = 4 + Len(data) /\ p[1] = 8 /\ p[3] = 0 /\ p[4] = 0
  <2>1. p = first \o data BY Zenon DEF Unchecked, first
  <2>2. first \in Seq(Byte) BY <1>2
  <2> HIDE DEF p
  <2>3. /\ first \o data \in Seq(Byte) /\ Len(first \o data) = Len(first) + Len(data)
        /\ \A i \in 1..(Len(first) + Len(data)) :
             (first \o data)[i] = IF i <= Len(first) THEN first[i] ELSE data[i - Len(first)]
    BY <1>1, <2>2, ConcatProperties
  <2>4. \A i \in 1..4 : p[i] = first[i] BY <1>1, <1>2, <2>1, <2>3
  <2>5. p[1] = first[1] /\ p[3] = first[3] /\ p[4] = first[4] BY <2>4
  <2>. QED BY <1>2, <2>1, <2>3, <2>5
<1>4. q = WithChecksum(p, 2) BY Zenon DEF PingMessage
<1> HIDE DEF p, q
<1>5. p \in Seq(Byte) BY <1>3
<1>6. Total(p) # 0
  <2>1. 2 <= Len(p) /\ p[1] # 0 BY <1>1, <1>3
  <2>. QED BY <1>5, <2>1, TotalNotZero
<1>7. /\ 2 \in Nat /\ 1 <= 2 /\ 2 * 2 <= Len(p) /\ p[2 * 2 - 1] = 0 /\ p[2 * 2] = 0
      /\ q = WithChecksum(p, 2 * 2 - 2)
  BY <1>1, <1>3, <1>4
<1>8. Multiple(Total(q)) BY <1>5, <1>6, <1>7, WithChecksumGood
<1>. QED BY <1>8 DEF q

----------------------------------------------------------------------------
(* The steps *)

\* What has come for the ping with these data: all of it, and at most one byte changed
Came(data) ==
  /\ ping = Ping(data)
  /\ Len(ping) <= Len(uip_buf) /\ uip_len = Len(uip_buf)
  /\ damage = -1 \/ (damage \in Nat /\ damage < Len(ping))
  /\ damage # -1 => uip_buf[damage + 1] # ping[damage + 1]
  /\ \A i \in 1..Len(ping) : i # damage + 1 => uip_buf[i] = ping[i]

\* What is received is a ping with at most one byte changed, and an answer mirrors its ping.
IPInv ==
  /\ IPTypeOK
  /\ state = "received" => \E data \in Datas : Came(data)
  /\ DamageDropped
  /\ ReplyMirrorsPing

\* A ping whose header has come through is one.
LEMMA HeaderCame ==
  ASSUME uip_buf \in Seq(Byte), NEW data \in Datas, Came(data), damage = -1 \/ damage >= 20
  PROVE  /\ StartsWith(uip_buf, PingHeader(data))
         /\ HeaderGood
         /\ BUF_len = Len(ping)
         /\ At(uip_buf, 9) = 1
         /\ uip_buf[13] = 10 /\ uip_buf[14] = 0 /\ uip_buf[15] = 0 /\ uip_buf[16] = 1
<1> DEFINE h == PingHeader(data)
           p == uip_buf
<1>1. /\ Len(data) \in Nat /\ h \in Seq(Byte) /\ Len(h) = 20
      /\ Len(Ping(data)) = 24 + Len(data)
      /\ \A i \in 1..20 : Ping(data)[i] = h[i]
  BY DataOf, PingOf
<1>2. /\ h[1] = 69 /\ h[2] = 0 /\ Word(h[3], h[4]) = 24 + Len(data)
      /\ h[7] = 0 /\ h[8] = 0 /\ h[10] = 1
      /\ h[13] = 10 /\ h[14] = 0 /\ h[15] = 0 /\ h[16] = 1
      /\ h[17] = 10 /\ h[18] = 0 /\ h[19] = 0 /\ h[20] = 2
  BY PingHeaderOf, Zenon
<1>3. Multiple(Total(h)) BY PingHeaderGood
<1> HIDE DEF h
<1>4. /\ ping = Ping(data) /\ Len(ping) = 24 + Len(data)
      /\ 24 + Len(data) <= Len(p) /\ uip_len = Len(p)
      /\ damage = -1 \/ damage \in Nat
      /\ \A i \in 1..(24 + Len(data)) : i # damage + 1 => p[i] = Ping(data)[i]
  BY <1>1 DEF Came
<1>5. ASSUME NEW i \in 1..20 PROVE p[i] = h[i]
  <2>3. Len(data) \in Nat /\ (damage = -1 \/ damage \in Nat) BY <1>1, <1>4
  <2>1. i \in 1..(24 + Len(data)) /\ i # damage + 1 BY <2>3
  <2>2. p[i] = Ping(data)[i] BY <1>4, <2>1
  <2>. QED BY <1>1, <2>2
<1>6. /\ p[1] = 69 /\ p[2] = 0 /\ Word(p[3], p[4]) = 24 + Len(data)
      /\ p[7] = 0 /\ p[8] = 0 /\ p[10] = 1
      /\ p[13] = 10 /\ p[14] = 0 /\ p[15] = 0 /\ p[16] = 1
      /\ p[17] = 10 /\ p[18] = 0 /\ p[19] = 0 /\ p[20] = 2
  <2>1. /\ p[1] = h[1] /\ p[2] = h[2] /\ p[3] = h[3] /\ p[4] = h[4]
        /\ p[7] = h[7] /\ p[8] = h[8] /\ p[10] = h[10]
        /\ p[13] = h[13] /\ p[14] = h[14] /\ p[15] = h[15] /\ p[16] = h[16]
        /\ p[17] = h[17] /\ p[18] = h[18] /\ p[19] = h[19] /\ p[20] = h[20]
    BY <1>5
  <2>. QED BY <1>2, <2>1, Zenon
<1>7. StartsWith(p, h) BY <1>1, <1>4, <1>5 DEF StartsWith
<1>8. uip_ipchksum(p) = 65535
  <2>1. h \in Seq(Byte) BY <1>1
  <2>2. OnesComplementSum(h) = 65535 BY <1>3, <2>1, MultipleChecks DEF Checks
  <2>3. OnesComplementSum(h) # 0 BY <2>2
  <2>4. uip_ipchksum(p) = OnesComplementSum(h) BY <1>7, <2>1, <2>3, HeaderChecksum
  <2>. QED BY <2>2, <2>4
<1>9. Part(p, 16, 4) = uip_hostaddr
  <2> DEFINE a == Part(p, 16, 4)
  <2>1. 16 \in Nat /\ 4 \in Nat /\ 16 + 4 <= Len(p) BY <1>1, <1>4
  <2>2. a \in Seq(Byte) /\ Len(a) = 4 /\ \A i \in 1..4 : a[i] = p[16 + i] BY <2>1, PartOf
  <2> HIDE DEF a
  <2>3. a[1] = p[17] /\ a[2] = p[18] /\ a[3] = p[19] /\ a[4] = p[20] BY <2>2
  <2>4. a[1] = 10 /\ a[2] = 0 /\ a[3] = 0 /\ a[4] = 2 BY <1>6, <2>3
  <2>5. a = <<10, 0, 0, 2>> BY <2>2, <2>4
  <2>. QED BY <2>5 DEF uip_hostaddr, a
<1>10. /\ At(p, 0) = 69 /\ At(p, 6) = 0 /\ At(p, 7) = 0 /\ At(p, 9) = 1
       /\ At(p, 2) = p[3] /\ At(p, 3) = p[4]
  BY <1>6 DEF At
<1>11. BUF_len = 24 + Len(data) BY <1>6, <1>10, Zenon DEF BUF_len
<1>12. BUF_len = Len(ping) /\ BUF_len <= uip_len BY <1>4, <1>11
<1>13. At(p, 6) % 64 = 0 BY <1>10
<1>14. HeaderGood BY <1>8, <1>9, <1>10, <1>12, <1>13 DEF HeaderGood
<1>. QED BY <1>6, <1>7, <1>10, <1>12, <1>14, Zenon DEF h

\* A ping whose header has not come through has no good header.
LEMMA HeaderSpoiled ==
  ASSUME uip_buf \in Seq(Byte), NEW data \in Datas, Came(data), HeaderGood
  PROVE  damage = -1 \/ damage >= 20
<1> DEFINE h == PingHeader(data)
           p == uip_buf
           b == Part(p, 0, 20)
<1>1. /\ Len(data) \in Nat /\ h \in Seq(Byte) /\ Len(h) = 20
      /\ Len(Ping(data)) = 24 + Len(data)
      /\ \A i \in 1..20 : Ping(data)[i] = h[i]
  BY DataOf, PingOf
<1>2. Multiple(Total(h)) BY PingHeaderGood
<1> HIDE DEF h
<1>3. /\ damage = -1 \/ damage \in Nat
      /\ 24 + Len(data) <= Len(p)
      /\ damage # -1 => p[damage + 1] # Ping(data)[damage + 1]
      /\ \A i \in 1..(24 + Len(data)) : i # damage + 1 => p[i] = Ping(data)[i]
  BY <1>1 DEF Came
<1>4. SUFFICES ASSUME damage \in Nat, damage < 20 PROVE FALSE
  BY <1>3
<1>5. b \in Seq(Byte) /\ Len(b) = 20 /\ \A i \in 1..20 : b[i] = p[i]
  <2>1. 0 \in Nat /\ 20 \in Nat /\ 0 + 20 <= Len(p) BY <1>1, <1>3
  <2>2. b \in Seq(Byte) /\ Len(b) = 20 /\ \A i \in 1..20 : b[i] = p[0 + i] BY <2>1, PartOf
  <2> HIDE DEF b
  <2>3. \A i \in 1..20 : 0 + i = i OBVIOUS
  <2>. QED BY <2>2, <2>3
<1> HIDE DEF b
<1>6. b[damage + 1] # h[damage + 1]
  <2>1. damage + 1 \in 1..20 /\ damage # -1 BY <1>4
  <2>. QED BY <1>1, <1>3, <1>5, <2>1
<1>7. ASSUME NEW i \in 1..20, i # damage + 1 PROVE b[i] = h[i]
  <2>3. Len(data) \in Nat BY <1>1
  <2>1. i \in 1..(24 + Len(data)) BY <2>3
  <2>2. p[i] = Ping(data)[i] BY <1>3, <1>7, <2>1
  <2>. QED BY <1>1, <1>5, <2>2
<1>8. Reduced(Total(b)) # 65535 /\ Reduced(Total(b)) # 0
  <2>1. h \in Seq(Byte) /\ b \in Seq(Byte) BY <1>1, <1>5
  <2>2. Len(b) = Len(h) /\ damage < Len(h) BY <1>1, <1>4, <1>5
  <2>3. \A i \in 1..Len(h) : i # damage + 1 => b[i] = h[i] BY <1>1, <1>7
  <2>. QED BY <1>2, <1>4, <1>6, <2>1, <2>2, <2>3, DamagedSum
<1>9. b \in Seq(Byte) BY <1>5
<1>10. OnesComplementSum(b) = Reduced(Total(b)) BY <1>9, TotalIsSum
<1>11. StartsWith(p, b)
  <2>1. 20 <= Len(p)
    <3>1. Len(data) \in Nat /\ Len(p) \in Nat /\ 24 + Len(data) <= Len(p) BY <1>1, <1>3, Elements
    <3>. QED BY <3>1
  <2>2. Len(b) = 20 /\ \A i \in 1..20 : p[i] = b[i] BY <1>5
  <2>. QED BY <2>1, <2>2 DEF StartsWith
<1>12. OnesComplementSum(b) # 0 BY <1>8, <1>10
<1>13. uip_ipchksum(p) = OnesComplementSum(b) BY <1>9, <1>11, <1>12, HeaderChecksum
<1>14. uip_ipchksum(p) = 65535 BY DEF HeaderGood
<1>. QED BY <1>8, <1>10, <1>13, <1>14

\* The packet q goes from us to where p came from.
Returns(q, p) == \A i \in 1..4 : q[12 + i] = uip_hostaddr[i] /\ q[16 + i] = p[12 + i]

\* The answer to a packet, with its header
LEMMA AnswerOf ==
  ASSUME NEW p \in Seq(Byte), 24 <= Len(p), NEW id \in Word16
  PROVE  LET q == Send(EchoReply(p), id)
         IN  /\ q \in Seq(Byte) /\ Len(q) = Len(p)
             /\ Checks(Part(q, 0, 20))
             /\ Returns(q, p)
             /\ q[21] = 0 /\ q[22] = p[22]
             /\ \/ Word(q[23], q[24]) = Word(p[23], p[24]) + 2048
                \/ Word(q[23], q[24]) = Word(p[23], p[24]) + 2048 - 65535
             /\ \A i \in 1..Len(p) : i > 24 => q[i] = p[i]
<1> DEFINE e == EchoReply(p)
           q == Send(e, id)
<1>0. Len(p) \in Nat BY Elements
<1>e. /\ e \in Seq(Byte) /\ Len(e) = Len(p)
      /\ \A i \in 1..4 : e[12 + i] = uip_hostaddr[i] /\ e[16 + i] = p[12 + i]
      /\ e[21] = 0 /\ e[22] = p[22]
      /\ \/ Word(e[23], e[24]) = Word(p[23], p[24]) + 2048
         \/ Word(e[23], e[24]) = Word(p[23], p[24]) + 2048 - 65535
      /\ \A i \in 1..Len(p) : i > 24 => e[i] = p[i]
  BY EchoReplyOf
<1> HIDE DEF e
<1>1. e \in Seq(Byte) /\ Len(e) = Len(p) BY <1>e
<1>2. \A i \in 1..4 : e[12 + i] = uip_hostaddr[i] /\ e[16 + i] = p[12 + i] BY <1>e
<1>3. e[21] = 0 /\ e[22] = p[22] BY <1>e
<1>4. \/ Word(e[23], e[24]) = Word(p[23], p[24]) + 2048
      \/ Word(e[23], e[24]) = Word(p[23], p[24]) + 2048 - 65535
  BY <1>e
<1>5. \A i \in 1..Len(p) : i > 24 => e[i] = p[i] BY <1>e
<1>6. /\ q \in Seq(Byte) /\ Len(q) = Len(e)
      /\ \A i \in 1..Len(e) : i > 12 => q[i] = e[i]
      /\ Checks(Part(q, 0, 20))
  <2>1. e \in Seq(Byte) /\ 24 <= Len(e) BY <1>1
  <2>. QED BY <2>1, SendOf
<1> HIDE DEF q
<1>7. ASSUME NEW i \in 1..Len(p), i > 12 PROVE q[i] = e[i] BY <1>1, <1>6, <1>7
<1>8. ASSUME NEW i \in 1..4 PROVE q[12 + i] = uip_hostaddr[i] /\ q[16 + i] = p[12 + i]
  <2>1. 12 + i \in 1..Len(p) /\ 12 + i > 12 /\ 16 + i \in 1..Len(p) /\ 16 + i > 12 BY <1>0
  <2>2. q[12 + i] = e[12 + i] /\ q[16 + i] = e[16 + i] BY <1>7, <2>1
  <2>. QED BY <1>2, <2>2
<1>9. q[21] = e[21] /\ q[22] = e[22] /\ q[23] = e[23] /\ q[24] = e[24]
  <2>1. 21 \in 1..Len(p) /\ 22 \in 1..Len(p) /\ 23 \in 1..Len(p) /\ 24 \in 1..Len(p) BY <1>0
  <2>. QED BY <1>7, <2>1
<1>10. ASSUME NEW i \in 1..Len(p), i > 24 PROVE q[i] = p[i]
  <2>1. i > 12 BY <1>10
  <2>2. q[i] = e[i] BY <1>7, <2>1
  <2>3. e[i] = p[i] BY <1>5, <1>10
  <2>. QED BY <2>2, <2>3
<1>11. q \in Seq(Byte) /\ Len(q) = Len(p) /\ Checks(Part(q, 0, 20)) BY <1>1, <1>6
<1>12. q[21] = 0 /\ q[22] = p[22] BY <1>3, <1>9
<1>13. \/ Word(q[23], q[24]) = Word(p[23], p[24]) + 2048
       \/ Word(q[23], q[24]) = Word(p[23], p[24]) + 2048 - 65535
  BY <1>4, <1>9
<1>14. Returns(q, p) BY <1>8 DEF Returns
<1>. QED BY <1>10, <1>11, <1>12, <1>13, <1>14 DEF q, e

\* A message of so many bytes is the answer to that in the packet.
Answers(icmp, p, n) ==
  /\ Len(icmp) = n /\ icmp[1] = 0 /\ icmp[2] = p[22]
  /\ \/ Word(icmp[3], icmp[4]) = Word(p[23], p[24]) + 2048
     \/ Word(icmp[3], icmp[4]) = Word(p[23], p[24]) + 2048 - 65535
  /\ \A i \in 1..n : i > 4 => icmp[i] = p[20 + i]

\* The checksum of a message is as good or bad as that of the message that came.
AsGood(icmp, p, o) ==
  /\ o \notin 20..(Len(p) - 1) => OnesComplementSum(icmp) \in {0, 65535}
  /\ o \in 24..(Len(p) - 1) => OnesComplementSum(icmp) \notin {0, 65535}

\* The checksum of the answer's message is as good or bad as that of the message that came.
LEMMA MessageAnswered ==
  ASSUME uip_buf \in Seq(Byte), NEW data \in Datas, Came(data), damage = -1 \/ damage >= 20,
         At(uip_buf, 20) = ICMP_ECHO,
         NEW icmp \in Seq(Byte), Answers(icmp, uip_buf, 4 + Len(data))
  PROVE  AsGood(icmp, ping, damage)
<1> DEFINE m == PingMessage(data)
           p == uip_buf
           n == 4 + Len(data)
           x == Part(p, 20, n)
<1>1. /\ Len(data) \in Nat /\ m \in Seq(Byte) /\ Len(m) = n
      /\ Len(Ping(data)) = 20 + n
      /\ \A i \in 1..n : Ping(data)[20 + i] = m[i]
  <2>1. Len(data) \in Nat BY DataOf
  <2>2. /\ m \in Seq(Byte) /\ Len(m) = 4 + Len(data) /\ Len(Ping(data)) = 24 + Len(data)
        /\ \A i \in 1..(4 + Len(data)) : Ping(data)[20 + i] = m[i]
    BY PingOf
  <2>. QED BY <2>1, <2>2
<1>2. Multiple(Total(m)) BY PingMessageGood
<1> HIDE DEF m
<1>3. n \in Nat /\ 4 <= n BY <1>1
<1>4. /\ Len(icmp) = n /\ icmp[1] = 0 /\ icmp[2] = p[22]
      /\ \/ Word(icmp[3], icmp[4]) = Word(p[23], p[24]) + 2048
         \/ Word(icmp[3], icmp[4]) = Word(p[23], p[24]) + 2048 - 65535
      /\ \A i \in 1..n : i > 4 => icmp[i] = p[20 + i]
  BY DEF Answers
<1> HIDE DEF n
<1>5. /\ damage = -1 \/ (damage \in Nat /\ damage < 20 + n)
      /\ Len(ping) = 20 + n /\ 20 + n <= Len(p)
      /\ damage # -1 => p[damage + 1] # Ping(data)[damage + 1]
      /\ \A i \in 1..(20 + n) : i # damage + 1 => p[i] = Ping(data)[i]
  BY <1>1 DEF Came
<1>6. x \in Seq(Byte) /\ Len(x) = n /\ \A i \in 1..n : x[i] = p[20 + i]
  <2>1. 20 \in Nat /\ 20 + n <= Len(p) BY <1>5
  <2>. QED BY <1>3, <2>1, PartOf
<1> HIDE DEF x
<1>7. Total(icmp) = Total(x) \/ Total(icmp) = Total(x) - 65535
  <2>1. 1 \in 1..n /\ 2 \in 1..n /\ 3 \in 1..n /\ 4 \in 1..n BY <1>3
  <2>2. x[1] = p[20 + 1] /\ x[2] = p[20 + 2] /\ x[3] = p[20 + 3] /\ x[4] = p[20 + 4]
    BY <1>6, <2>1
  <2>3. x[1] = p[21] /\ x[2] = p[22] /\ x[3] = p[23] /\ x[4] = p[24] BY <2>2
  <2>4. x[1] = ICMP_ECHO
    <3>1. p[20 + 1] = ICMP_ECHO BY DEF At
    <3>. QED BY <2>2, <3>1
  <2>5. icmp[1] = 0 /\ icmp[2] = x[2] BY <1>4, <2>3
  <2>6. \/ Word(icmp[3], icmp[4]) = Word(x[3], x[4]) + 2048
        \/ Word(icmp[3], icmp[4]) = Word(x[3], x[4]) + 2048 - 65535
    BY <1>4, <2>3
  <2>7. ASSUME NEW i \in 1..Len(x), i > 4 PROVE icmp[i] = x[i]
    <3>1. i \in 1..n BY <1>6
    <3>2. x[i] = p[20 + i] BY <1>6, <3>1
    <3>3. icmp[i] = p[20 + i] BY <1>4, <2>7, <3>1
    <3>. QED BY <3>2, <3>3
  <2>8. x \in Seq(Byte) /\ Len(icmp) = Len(x) /\ 4 <= Len(x) BY <1>3, <1>4, <1>6
  <2>. QED BY <2>4, <2>5, <2>6, <2>7, <2>8, AnswerSum
<1>8. ASSUME NEW i \in 1..n, 20 + i # damage + 1 PROVE x[i] = m[i]
  <2>1. 20 + i \in 1..(20 + n) BY <1>3
  <2>2. p[20 + i] = Ping(data)[20 + i] BY <1>5, <1>8, <2>1
  <2>. QED BY <1>1, <1>6, <2>2
<1>9. ASSUME damage \notin 20..(Len(ping) - 1) PROVE OnesComplementSum(icmp) \in {0, 65535}
  <2>1. damage = -1 BY <1>3, <1>5, <1>9
  <2>2. ASSUME NEW i \in 1..Len(x) PROVE x[i] = m[i] BY <1>6, <1>8, <2>1
  <2>3. x \in Seq(Byte) /\ m \in Seq(Byte) /\ Len(x) = Len(m) BY <1>1, <1>6
  <2>4. x = m BY <2>2, <2>3, SeqEqual
  <2>5. 0 \in Int /\ -65280 <= 0 /\ 0 <= 65280 /\ Total(x) = Total(m) + 0
    BY <2>3, <2>4, TotalIsSum
  <2>. QED BY <1>2, <1>7, <2>3, <2>5, AnswerGood
<1>10. ASSUME damage \in 24..(Len(ping) - 1) PROVE OnesComplementSum(icmp) \notin {0, 65535}
  <2> DEFINE o == damage - 20
  <2>1. o \in Nat /\ o < n /\ o + 1 \in 1..n /\ 20 + (o + 1) = damage + 1 /\ damage # -1
    BY <1>3, <1>5, <1>10
  <2> HIDE DEF o
  <2>2. x[o + 1] # m[o + 1]
    <3>3. o + 1 \in 1..n BY <2>1
    <3>1. x[o + 1] = p[20 + (o + 1)] /\ Ping(data)[20 + (o + 1)] = m[o + 1]
      BY <1>1, <1>6, <3>3
    <3>2. p[damage + 1] # Ping(data)[damage + 1] BY <1>5, <2>1
    <3>. QED BY <2>1, <3>1, <3>2
  <2>3. x \in Seq(Byte) /\ m \in Seq(Byte) /\ Len(x) = Len(m) /\ o < Len(m)
    BY <1>1, <1>6, <2>1
  <2>4. ASSUME NEW i \in 1..Len(m), i # o + 1 PROVE x[i] = m[i]
    <3>1. i \in 1..n /\ 20 + i # damage + 1 BY <1>1, <2>1, <2>4
    <3>. QED BY <1>8, <3>1
  <2>5. PICK d \in Int : -65280 <= d /\ d <= 65280 /\ d # 0 /\ Total(x) = Total(m) + d
    BY <2>1, <2>2, <2>3, <2>4, ByteChanged
  <2>. QED BY <1>2, <1>7, <2>3, <2>5, AnswerGood
<1>. QED BY <1>9, <1>10 DEF AsGood

\* What the answer q of n bytes has to be to the ping p whose byte at o has changed
Mirrors(q, n, p, o) ==
  LET reply == Part(q, 0, n)
      icmp  == Part(reply, 20, n - 20)
      sent  == IF o = -1 THEN p ELSE Patched(p, o, <<At(q, o)>>)
  IN  /\ n = Len(p)
      /\ Part(reply, 12, 8) = uip_hostaddr \o PeerAddr
      /\ Checks(Part(reply, 0, 20))
      /\ At(icmp, 0) = ICMP_ECHO_REPLY
      /\ Part(icmp, 4, Len(icmp) - 4) = Part(sent, 24, Len(sent) - 24)
      /\ AsGood(icmp, p, o)

\* The answer of uip.c:990 to a ping that came with a good header, whether or not a byte of
\* its data has changed.
LEMMA AnswerMirrors ==
  ASSUME uip_buf \in Seq(Byte), NEW data \in Datas, Came(data), damage = -1 \/ damage >= 20,
         At(uip_buf, 20) = ICMP_ECHO, NEW id \in Word16
  PROVE  LET q == Send(EchoReply(uip_buf), id)
         IN  q \in Seq(Byte) /\ Len(q) = Len(uip_buf) /\ Mirrors(q, Len(ping), ping, damage)
<1> DEFINE p == uip_buf
           q == Send(EchoReply(p), id)
           l == Len(data)
           n == 24 + l
           reply == Part(q, 0, n)
           icmp == Part(reply, 20, n - 20)
           sent == IF damage = -1 THEN ping ELSE Patched(ping, damage, <<At(q, damage)>>)
<1>1. l \in Nat /\ Ping(data) \in Seq(Byte) /\ Len(Ping(data)) = n BY DataOf, PingOf
<1>2. /\ ping = Ping(data) /\ Len(ping) = n /\ n <= Len(p)
      /\ damage = -1 \/ (damage \in Nat /\ damage < n)
      /\ \A i \in 1..n : i # damage + 1 => p[i] = ping[i]
  BY <1>1 DEF Came
<1>3. p[13] = 10 /\ p[14] = 0 /\ p[15] = 0 /\ p[16] = 1 BY HeaderCame
<1>4. n \in Nat /\ n = 24 + l /\ 24 <= n /\ Len(p) \in Nat /\ 24 <= Len(p)
  <2>1. Len(p) \in Nat BY Elements
  <2>. QED BY <1>1, <1>2, <2>1
<1>5. /\ q \in Seq(Byte) /\ Len(q) = Len(p)
      /\ Checks(Part(q, 0, 20))
      /\ Returns(q, p)
      /\ q[21] = 0 /\ q[22] = p[22]
      /\ \/ Word(q[23], q[24]) = Word(p[23], p[24]) + 2048
         \/ Word(q[23], q[24]) = Word(p[23], p[24]) + 2048 - 65535
      /\ \A i \in 1..Len(p) : i > 24 => q[i] = p[i]
  BY <1>4, AnswerOf
<1> HIDE DEF q, n, l
<1>6. reply \in Seq(Byte) /\ Len(reply) = n /\ \A i \in 1..n : reply[i] = q[i]
  <2>1. 0 \in Nat /\ n \in Nat /\ 0 + n <= Len(q) BY <1>2, <1>4, <1>5
  <2>2. q \in Seq(Byte) BY <1>5
  <2>3. reply \in Seq(Byte) /\ Len(reply) = n /\ \A i \in 1..n : reply[i] = q[0 + i]
    BY <2>1, <2>2, PartOf
  <2> HIDE DEF reply
  <2>4. \A i \in 1..n : 0 + i = i BY <1>4
  <2>. QED BY <2>3, <2>4
<1> HIDE DEF reply
<1>7. icmp \in Seq(Byte) /\ Len(icmp) = n - 20 /\ \A i \in 1..(n - 20) : icmp[i] = q[20 + i]
  <2> DEFINE m == n - 20
  <2>1. m \in Nat /\ 20 \in Nat /\ 20 + m <= Len(reply) BY <1>4, <1>6
  <2>2. reply \in Seq(Byte) BY <1>6
  <2>5. icmp = Part(reply, 20, m) OBVIOUS
  <2>6. \A i \in 1..m : 20 + i \in 1..n BY <1>4
  <2> HIDE DEF m, icmp
  <2>3. icmp \in Seq(Byte) /\ Len(icmp) = m /\ \A i \in 1..m : icmp[i] = reply[20 + i]
    BY <2>1, <2>2, <2>5, PartOf
  <2>4. \A i \in 1..m : reply[20 + i] = q[20 + i] BY <1>6, <2>6
  <2>. QED BY <2>3, <2>4 DEF m
<1> HIDE DEF icmp
<1>8. Part(reply, 12, 8) = uip_hostaddr \o PeerAddr
  <2> DEFINE a == Part(reply, 12, 8)
  <2>1. 12 \in Nat /\ 8 \in Nat /\ 12 + 8 <= Len(reply) BY <1>4, <1>6
  <2>2. reply \in Seq(Byte) BY <1>6
  <2>3. a \in Seq(Byte) /\ Len(a) = 8 /\ \A i \in 1..8 : a[i] = reply[12 + i]
    BY <2>1, <2>2, PartOf
  <2> HIDE DEF a
  <2>4. \A i \in 1..8 : 12 + i \in 1..n BY <1>4
  <2>5. \A i \in 1..8 : a[i] = q[12 + i] BY <1>6, <2>3, <2>4
  <2>13. Returns(q, p) BY <1>5
  <2>14. \A i \in 1..4 : q[12 + i] = uip_hostaddr[i] /\ q[16 + i] = p[12 + i]
    BY <2>13, Zenon DEF Returns
  <2>6. ASSUME NEW i \in 1..4 PROVE a[i] = uip_hostaddr[i] /\ a[4 + i] = p[12 + i]
    <3>1. i \in 1..8 /\ 4 + i \in 1..8 /\ 12 + (4 + i) = 16 + i OBVIOUS
    <3>2. a[i] = q[12 + i] /\ a[4 + i] = q[12 + (4 + i)] BY <2>5, <3>1
    <3>3. q[12 + i] = uip_hostaddr[i] /\ q[16 + i] = p[12 + i] BY <2>14
    <3>. QED BY <3>1, <3>2, <3>3
  <2>7. ASSUME NEW i \in 1..4 PROVE p[12 + i] = PeerAddr[i]
    <3>1. /\ p[12 + 1] = PeerAddr[1] /\ p[12 + 2] = PeerAddr[2]
          /\ p[12 + 3] = PeerAddr[3] /\ p[12 + 4] = PeerAddr[4]
      BY <1>3 DEF PeerAddr
    <3>2. i = 1 \/ i = 2 \/ i = 3 \/ i = 4 OBVIOUS
    <3>. QED BY <3>1, <3>2
  <2> DEFINE host == uip_hostaddr
             peer == PeerAddr
             c == host \o peer
  <2>8. host \in Seq(Byte) /\ peer \in Seq(Byte) /\ Len(host) = 4 /\ Len(peer) = 4
    <3>1. 10 \in Byte BY ByteRange
    <3>2. 0 \in Byte BY ByteRange
    <3>3. 1 \in Byte /\ 2 \in Byte BY ByteRange
    <3>. QED BY <3>1, <3>2, <3>3, Tuples DEF uip_hostaddr, PeerAddr
  <2> HIDE DEF host, peer
  <2>9. /\ c \in Seq(Byte) /\ Len(c) = Len(host) + Len(peer)
        /\ \A i \in 1..(Len(host) + Len(peer)) :
             c[i] = IF i <= Len(host) THEN host[i] ELSE peer[i - Len(host)]
    <3>1. host \in Seq(Byte) /\ peer \in Seq(Byte) BY <2>8
    <3>. QED BY <3>1, ConcatProperties
  <2> HIDE DEF c
  <2>10. ASSUME NEW i \in 1..8 PROVE c[i] = a[i]
    <3>1. CASE i <= 4
      <4>1. i \in 1..4 /\ c[i] = host[i] BY <2>8, <2>9, <3>1
      <4>. QED BY <2>6, <4>1 DEF host
    <3>2. CASE i > 4
      <4> DEFINE k == i - 4
      <4>1. k \in 1..4 /\ i = 4 + k /\ c[i] = peer[k] BY <2>8, <2>9, <3>2
      <4> HIDE DEF k
      <4>2. a[4 + k] = p[12 + k] /\ p[12 + k] = peer[k] BY <2>6, <2>7, <4>1 DEF peer
      <4>. QED BY <4>1, <4>2
    <3>. QED BY <3>1, <3>2
  <2>11. c \in Seq(Byte) /\ a \in Seq(Byte) BY <2>3, <2>9
  <2>12. Len(c) = Len(a) /\ \A i \in 1..Len(c) : c[i] = a[i] BY <2>3, <2>8, <2>9, <2>10
  <2>15. c = a BY <2>11, <2>12, SeqEqual
  <2>. QED BY <2>15 DEF a, c, host, peer
<1>9. Checks(Part(reply, 0, 20))
  <2> DEFINE a == Part(reply, 0, 20)
             b == Part(q, 0, 20)
  <2>0. Len(reply) = n /\ Len(q) = Len(p) BY <1>5, <1>6
  <2>1. 0 \in Nat /\ 20 \in Nat /\ 0 + 20 <= Len(reply) /\ 0 + 20 <= Len(q)
    BY <1>4, <2>0
  <2>2. reply \in Seq(Byte) /\ q \in Seq(Byte) BY <1>5, <1>6
  <2>3. a \in Seq(Byte) /\ Len(a) = 20 /\ \A i \in 1..20 : a[i] = reply[0 + i]
    BY <2>1, <2>2, PartOf
  <2>4. b \in Seq(Byte) /\ Len(b) = 20 /\ \A i \in 1..20 : b[i] = q[0 + i]
    BY <2>1, <2>2, PartOf
  <2> HIDE DEF a, b
  <2>5. \A i \in 1..20 : 0 + i \in 1..n BY <1>4
  <2>6. \A i \in 1..20 : a[i] = b[i] BY <1>6, <2>3, <2>4, <2>5
  <2>7. Len(a) = Len(b) /\ \A i \in 1..Len(a) : a[i] = b[i] BY <2>3, <2>4, <2>6
  <2>8. a \in Seq(Byte) /\ b \in Seq(Byte) BY <2>3, <2>4
  <2>9. a = b BY <2>7, <2>8, SeqEqual
  <2>10. Checks(b) BY <1>5 DEF b
  <2>. QED BY <2>9, <2>10 DEF a
<1>10. icmp[1] = 0 /\ icmp[2] = p[22] /\ icmp[3] = q[23] /\ icmp[4] = q[24]
  <2>1. 1 \in 1..(n - 20) /\ 2 \in 1..(n - 20) /\ 3 \in 1..(n - 20) /\ 4 \in 1..(n - 20)
    BY <1>4
  <2>2. icmp[1] = q[20 + 1] /\ icmp[2] = q[20 + 2] /\ icmp[3] = q[20 + 3] /\ icmp[4] = q[20 + 4]
    BY <1>7, <2>1
  <2>3. icmp[1] = q[21] /\ icmp[2] = q[22] /\ icmp[3] = q[23] /\ icmp[4] = q[24] BY <2>2
  <2>. QED BY <1>5, <2>3
<1>11. ASSUME NEW i \in 1..(n - 20), i > 4 PROVE icmp[i] = p[20 + i]
  <2>1. 20 + i \in 1..Len(p) /\ 20 + i > 24 BY <1>2, <1>4, <1>11
  <2>2. q[20 + i] = p[20 + i] BY <1>5, <2>1
  <2>. QED BY <1>7, <2>2
<1>12. At(icmp, 0) = ICMP_ECHO_REPLY BY <1>10 DEF At, ICMP_ECHO_REPLY
<1>13. Answers(icmp, p, 4 + Len(data))
  <2>1. n - 20 = 4 + Len(data) BY <1>4 DEF l
  <2>2. \/ Word(icmp[3], icmp[4]) = Word(p[23], p[24]) + 2048
        \/ Word(icmp[3], icmp[4]) = Word(p[23], p[24]) + 2048 - 65535
    BY <1>5, <1>10
  <2>3. Len(icmp) = n - 20 BY <1>7
  <2>4. Answers(icmp, p, n - 20) BY <1>10, <1>11, <2>2, <2>3 DEF Answers
  <2>. QED BY <2>1, <2>4
<1>14. AsGood(icmp, ping, damage)
  <2>1. icmp \in Seq(Byte) BY <1>7
  <2>. QED BY <1>13, <2>1, MessageAnswered
<1>15. /\ sent \in Seq(Byte) /\ Len(sent) = n
       /\ \A i \in 1..n : i > 24 => sent[i] = p[i]
  <2>1. CASE damage = -1
    <3>1. sent = ping BY <2>1
    <3> HIDE DEF sent
    <3>2. ASSUME NEW i \in 1..n, i > 24 PROVE sent[i] = p[i]
      <4>1. i # damage + 1 BY <2>1
      <4>. QED BY <1>2, <3>1, <4>1
    <3>. QED BY <1>1, <1>2, <3>1, <3>2
  <2>2. CASE damage # -1
    <3> DEFINE v == q[damage + 1]
    <3>1. damage \in Nat /\ damage < Len(ping) BY <1>2, <2>2
    <3>2. v \in Byte
      <4>1. damage + 1 \in 1..Len(q) BY <1>2, <1>4, <1>5, <3>1
      <4>2. q \in Seq(Byte) BY <1>5
      <4>. QED BY <4>1, <4>2, Elements
    <3>3. sent = Patched(ping, damage, <<v>>) BY <2>2 DEF At
    <3> HIDE DEF v, sent
    <3>4. ping \in Seq(Byte) BY <1>1, <1>2
    <3>5. /\ sent \in Seq(Byte) /\ Len(sent) = Len(ping) /\ sent[damage + 1] = v
          /\ \A i \in 1..Len(ping) : i # damage + 1 => sent[i] = ping[i]
      BY <3>1, <3>2, <3>3, <3>4, OnePut
    <3>6. ASSUME NEW i \in 1..n, i > 24 PROVE sent[i] = p[i]
      <4>1. CASE i = damage + 1
        <5>1. i \in 1..Len(p) BY <1>2, <1>4
        <5>2. q[i] = p[i] BY <1>5, <3>6, <5>1
        <5>. QED BY <3>5, <4>1, <5>2 DEF v
      <4>2. CASE i # damage + 1
        <5>1. sent[i] = ping[i] BY <1>2, <3>5, <4>2
        <5>2. p[i] = ping[i] BY <1>2, <4>2
        <5>. QED BY <5>1, <5>2
      <4>. QED BY <4>1, <4>2
    <3>. QED BY <1>2, <3>5, <3>6
  <2>. QED BY <2>1, <2>2
<1> HIDE DEF sent
<1>16. Part(icmp, 4, Len(icmp) - 4) = Part(sent, 24, Len(sent) - 24)
  <2> DEFINE a == Part(icmp, 4, l)
             b == Part(sent, 24, l)
  <2>1. Len(icmp) - 4 = l /\ Len(sent) - 24 = l BY <1>1, <1>4, <1>7, <1>15
  <2>2. /\ 4 \in Nat /\ 24 \in Nat /\ l \in Nat
        /\ 4 + l <= Len(icmp) /\ 24 + l <= Len(sent)
    BY <1>1, <1>4, <1>7, <1>15
  <2>3. icmp \in Seq(Byte) /\ sent \in Seq(Byte) BY <1>7, <1>15
  <2>4. a \in Seq(Byte) /\ Len(a) = l /\ \A i \in 1..l : a[i] = icmp[4 + i]
    BY <2>2, <2>3, PartOf
  <2>5. b \in Seq(Byte) /\ Len(b) = l /\ \A i \in 1..l : b[i] = sent[24 + i]
    BY <2>2, <2>3, PartOf
  <2> HIDE DEF a, b
  <2>6. ASSUME NEW i \in 1..l PROVE a[i] = b[i]
    <3>1. /\ 4 + i \in 1..(n - 20) /\ 4 + i > 4 /\ 20 + (4 + i) = 24 + i
          /\ 24 + i \in 1..n /\ 24 + i > 24
      BY <1>1, <1>4
    <3>2. icmp[4 + i] = p[24 + i] BY <1>11, <3>1
    <3>3. sent[24 + i] = p[24 + i] BY <1>15, <3>1
    <3>. QED BY <2>4, <2>5, <3>2, <3>3
  <2>7. Len(a) = Len(b) /\ \A i \in 1..Len(a) : a[i] = b[i] BY <2>4, <2>5, <2>6
  <2>8. a \in Seq(Byte) /\ b \in Seq(Byte) BY <2>4, <2>5
  <2>9. a = b BY <2>7, <2>8, SeqEqual
  <2>. QED BY <2>1, <2>9 DEF a, b
<1>17. Len(ping) = n BY <1>2
<1>18. Mirrors(q, Len(ping), ping, damage)
  <2>1. Mirrors(q, n, ping, damage)
    BY <1>8, <1>9, <1>12, <1>14, <1>16, <1>17, Zenon DEF Mirrors, sent, icmp, reply
  <2>. QED BY <1>17, <2>1
<1>. QED BY <1>5, <1>18 DEF q

\* A packet that comes as it was sent, and what is added to it
LEMMA CameWhole ==
  ASSUME NEW data \in Datas, NEW padding \in Nat, Receive(Ping(data), padding)
  PROVE  /\ uip_buf' \in Seq(Byte) /\ uip_len' \in Nat /\ uip_len' <= Len(uip_buf')
         /\ Came(data)'
<1> DEFINE p == Ping(data)
           zeros == [j \in 1..padding |-> 0]
           q == p \o zeros
<1>1. p \in Seq(Byte) BY PingOf
<1> HIDE DEF p
<1>2. zeros \in Seq(Byte) /\ Len(zeros) = padding
  <2>1. 0 \in Byte BY ZeroByte, Zenon
  <2>. QED BY <2>1
<1> HIDE DEF zeros
<1>3. /\ q \in Seq(Byte) /\ Len(q) = Len(p) + Len(zeros)
      /\ \A i \in 1..(Len(p) + Len(zeros)) :
           q[i] = IF i <= Len(p) THEN p[i] ELSE zeros[i - Len(p)]
  <2>1. p \in Seq(Byte) /\ zeros \in Seq(Byte) BY <1>1, <1>2
  <2>. QED BY <2>1, ConcatProperties
<1>4. ping' = p /\ damage' = -1 /\ uip_buf' = q /\ uip_len' = Len(q)
  BY Zenon DEF Receive, p, zeros
<1> HIDE DEF q
<1>5. Len(p) \in Nat /\ Len(q) \in Nat /\ Len(p) <= Len(q)
  <2>1. Len(p) \in Nat BY <1>1, Elements
  <2>. QED BY <1>2, <1>3, <2>1
<1>6. \A i \in 1..Len(p) : q[i] = p[i] BY <1>2, <1>3, <1>5
<1>7. Came(data)'
  <2>1. /\ Len(ping') <= Len(uip_buf') /\ uip_len' = Len(uip_buf')
        /\ damage' = -1
        /\ \A i \in 1..Len(ping') : uip_buf'[i] = ping'[i]
    BY <1>4, <1>5, <1>6
  <2>2. ping' = Ping(data) BY <1>4 DEF p
  <2>. QED BY <2>1, <2>2 DEF Came
<1>. QED BY <1>3, <1>4, <1>5, <1>7

\* A packet that comes with one byte changed
LEMMA CameDamaged ==
  ASSUME NEW data \in Datas, NEW offset \in Nat, NEW value \in Byte,
         ReceiveDamaged(Ping(data), offset, value)
  PROVE  /\ uip_buf' \in Seq(Byte) /\ uip_len' \in Nat /\ uip_len' <= Len(uip_buf')
         /\ Came(data)'
<1> DEFINE p == Ping(data)
           q == Patched(p, offset, <<value>>)
<1>1. p \in Seq(Byte) BY PingOf
<1> HIDE DEF p
<1>2. offset < Len(p) /\ p[offset + 1] # value BY DEF ReceiveDamaged, At, p
<1>3. ping' = p /\ damage' = offset /\ uip_buf' = q /\ uip_len' = Len(p)
  BY Zenon DEF ReceiveDamaged, p
<1>4. /\ q \in Seq(Byte) /\ Len(q) = Len(p) /\ q[offset + 1] = value
      /\ \A i \in 1..Len(p) : i # offset + 1 => q[i] = p[i]
  BY <1>1, <1>2, OnePut
<1> HIDE DEF q
<1>5. Len(p) \in Nat BY <1>1, Elements
<1>6. Came(data)'
  <2>1. /\ Len(ping') <= Len(uip_buf') /\ uip_len' = Len(uip_buf')
        /\ damage' \in Nat /\ damage' < Len(ping')
        /\ uip_buf'[damage' + 1] # ping'[damage' + 1]
        /\ \A i \in 1..Len(ping') : i # damage' + 1 => uip_buf'[i] = ping'[i]
    BY <1>2, <1>3, <1>4, <1>5
  <2>2. ping' = Ping(data) BY <1>3 DEF p
  <2>. QED BY <2>1, <2>2 DEF Came
<1>. QED BY <1>3, <1>4, <1>5, <1>6

\* A ping that is answered
LEMMA AnswerStep ==
  ASSUME IPTypeOK, NEW data \in Datas, Came(data), HeaderGood, IsPing, uip_input
  PROVE  IPInv'
<1>1. uip_buf \in Seq(Byte) /\ uip_len = Len(uip_buf) /\ ping = Ping(data)
  BY DEF IPTypeOK, Came
<1>2. damage = -1 \/ damage >= 20 BY <1>1, HeaderSpoiled
<1>3. BUF_len = Len(ping) BY <1>1, <1>2, HeaderCame
<1>4. Len(ping) \in Nat /\ Len(ping) <= Len(uip_buf)
  <2>1. ping \in Seq(Byte) BY <1>1, PingOf
  <2>. QED BY <2>1, Elements DEF Came
<1>5. /\ state' = "answered" /\ uip_len' = BUF_len
      /\ ipid' = (ipid + 1) % 65536 /\ uip_buf' = Send(EchoReply(uip_buf), ipid')
      /\ ping' = ping /\ damage' = damage
  BY DEF uip_input
<1>6. ipid' \in Word16
  <2>1. ipid \in Int BY WordRange DEF IPTypeOK
  <2>2. ipid' \in Int /\ 0 <= ipid' /\ ipid' <= 65535 BY <1>5, <2>1
  <2>. QED BY <2>2, WordRange
<1>7. uip_buf' \in Seq(Byte) /\ Len(uip_buf') = Len(uip_buf) /\ Mirrors(uip_buf', Len(ping), ping, damage)
  <2> DEFINE q == Send(EchoReply(uip_buf), ipid')
  <2>1. At(uip_buf, 20) = ICMP_ECHO BY Zenon DEF IsPing
  <2>2. q \in Seq(Byte) /\ Len(q) = Len(uip_buf) /\ Mirrors(q, Len(ping), ping, damage)
    BY <1>1, <1>2, <1>6, <2>1, AnswerMirrors
  <2>3. uip_buf' = q BY <1>5
  <2> HIDE DEF q
  <2>. QED BY <2>2, <2>3
<1>8. IPTypeOK'
  <2>1. uip_len' \in Nat /\ uip_len' <= Len(uip_buf') BY <1>3, <1>4, <1>5, <1>7
  <2>. QED BY <1>5, <1>6, <1>7, <2>1 DEF IPTypeOK
<1>9. DamageDropped' BY <1>2, <1>5 DEF DamageDropped, UIP_IPH_LEN
<1>10. ReplyMirrorsPing'
  <2>1. uip_len' = Len(ping) BY <1>3, <1>5
  <2>2. Mirrors(uip_buf', uip_len', ping', damage') BY <1>5, <1>7, <2>1
  <2>. QED BY <2>2 DEF Mirrors, AsGood, ReplyMirrorsPing, Reply
<1>. QED BY <1>5, <1>8, <1>9, <1>10 DEF IPInv

\* A packet that is dropped
LEMMA DropStep ==
  ASSUME IPTypeOK, NEW data \in Datas, Came(data), ~(HeaderGood /\ IsPing), uip_input
  PROVE  IPInv'
<1>1. /\ state' = "dropped" /\ uip_len' = 0 /\ ipid' = ipid /\ uip_buf' = uip_buf
      /\ damage' = damage
  BY DEF uip_input
<1>2. damage # -1
  <2>1. SUFFICES ASSUME damage = -1 PROVE FALSE OBVIOUS
  <2>2. uip_buf \in Seq(Byte) BY DEF IPTypeOK
  <2>3. HeaderGood /\ At(uip_buf, 9) = 1 BY <2>1, <2>2, HeaderCame
  <2>4. At(uip_buf, 20) = ICMP_ECHO
    <3> DEFINE l == Len(data)
               m == PingMessage(data)
    <3>1. /\ l \in Nat /\ Len(Ping(data)) = 24 + l /\ m[1] = ICMP_ECHO
          /\ \A i \in 1..(4 + l) : Ping(data)[20 + i] = m[i]
      BY DataOf, PingOf
    <3> HIDE DEF l, m
    <3>2. 1 \in 1..(4 + l) /\ 21 \in 1..(24 + l) /\ 20 + 1 = 21 BY <3>1
    <3>3. Ping(data)[20 + 1] = ICMP_ECHO BY <3>1, <3>2
    <3>4. /\ ping = Ping(data)
          /\ \A i \in 1..Len(ping) : i # damage + 1 => uip_buf[i] = ping[i]
      BY Zenon DEF Came
    <3>5. 21 \in 1..Len(ping) /\ 21 # damage + 1 BY <2>1, <3>1, <3>2, <3>4
    <3>6. uip_buf[21] = ICMP_ECHO BY <3>2, <3>3, <3>4, <3>5
    <3>. QED BY <3>2, <3>6 DEF At
  <2>. QED BY <2>3, <2>4 DEF IsPing
<1>3. IPTypeOK'
  <2>1. uip_buf \in Seq(Byte) /\ ipid \in Word16 BY DEF IPTypeOK
  <2>2. Len(uip_buf) \in Nat BY <2>1, Elements
  <2>. QED BY <1>1, <2>1, <2>2 DEF IPTypeOK
<1>. QED BY <1>1, <1>2, <1>3 DEF IPInv, DamageDropped, ReplyMirrorsPing

\* Every step keeps the invariant.
LEMMA IPStep ==
  ASSUME IPInv, [IPNext]_ipVars
  PROVE  IPInv'
<1>1. ASSUME NEW data \in Datas, NEW padding \in Paddings, Receive(Ping(data), padding)
      PROVE  IPInv'
  <2>1. padding \in Nat BY IPAssumption
  <2>2. /\ uip_buf' \in Seq(Byte) /\ uip_len' \in Nat /\ uip_len' <= Len(uip_buf')
        /\ Came(data)'
    BY <1>1, <2>1, CameWhole
  <2>3. state' = "received" /\ ipid' = ipid BY <1>1 DEF Receive
  <2>4. IPTypeOK' BY <2>2, <2>3 DEF IPInv, IPTypeOK
  <2>. QED BY <2>2, <2>3, <2>4 DEF IPInv, DamageDropped, ReplyMirrorsPing
<1>2. ASSUME NEW data \in Datas, NEW offset \in Damaged, NEW value \in PingBytes,
             ReceiveDamaged(Ping(data), offset, value)
      PROVE  IPInv'
  <2>1. offset \in Nat /\ value \in Byte BY IPAssumption
  <2>2. /\ uip_buf' \in Seq(Byte) /\ uip_len' \in Nat /\ uip_len' <= Len(uip_buf')
        /\ Came(data)'
    BY <1>2, <2>1, CameDamaged
  <2>3. state' = "received" /\ ipid' = ipid BY <1>2 DEF ReceiveDamaged
  <2>4. IPTypeOK' BY <2>2, <2>3 DEF IPInv, IPTypeOK
  <2>. QED BY <2>2, <2>3, <2>4 DEF IPInv, DamageDropped, ReplyMirrorsPing
<1>3. ASSUME uip_input PROVE IPInv'
  <2>1. state = "received" /\ IPTypeOK BY <1>3 DEF uip_input, IPInv
  <2>2. PICK data \in Datas : Came(data) BY <2>1 DEF IPInv
  <2>3. CASE HeaderGood /\ IsPing BY <1>3, <2>1, <2>2, <2>3, AnswerStep
  <2>4. CASE ~(HeaderGood /\ IsPing) BY <1>3, <2>1, <2>2, <2>4, DropStep
  <2>. QED BY <2>3, <2>4
<1>4. ASSUME UNCHANGED ipVars PROVE IPInv'
  <2>1. /\ state' = state /\ ping' = ping /\ damage' = damage
        /\ uip_buf' = uip_buf /\ uip_len' = uip_len /\ ipid' = ipid
    BY <1>4 DEF ipVars
  <2>2. IPTypeOK' BY <2>1 DEF IPInv, IPTypeOK
  <2>3. state' = "received" => \E data \in Datas : Came(data)'
    BY <2>1, Zenon DEF IPInv, Came
  <2>4. DamageDropped' BY <2>1 DEF IPInv, DamageDropped
  <2>5. ReplyMirrorsPing' BY <2>1 DEF IPInv, ReplyMirrorsPing, Reply
  <2>. QED BY <2>2, <2>3, <2>4, <2>5 DEF IPInv
<1>. QED BY <1>1, <1>2, <1>3, <1>4, Zenon DEF IPNext

\* What is received is a ping with at most one byte changed: the induction the theorems below
\* share (uip_process, src/uIP-Contiki/uip.c).
THEOREM IPInvariant == IPSpec => []IPInv
<1>1. IPInit => IPInv
  <2> SUFFICES ASSUME IPInit PROVE IPInv OBVIOUS
  <2>1. ipid \in Word16 BY IPAssumption DEF IPInit
  <2>2. uip_buf \in Seq(Byte) /\ uip_len \in Nat /\ uip_len <= Len(uip_buf) /\ state = "none"
    BY DEF IPInit
  <2>. QED BY <2>1, <2>2 DEF IPInv, IPTypeOK, DamageDropped, ReplyMirrorsPing
<1>2. IPInv /\ [IPNext]_ipVars => IPInv' BY IPStep
<1>. QED BY <1>1, <1>2, PTL DEF IPSpec

\* The registers have 16 bits and the length is that of bytes there are.
THEOREM IPTypeCorrect == IPSpec => []IPTypeOK
<1>1. IPInv => IPTypeOK BY DEF IPInv
<1>. QED BY <1>1, IPInvariant, PTL

\* Whatever is in the buffer, the 16-bit sum with its carry (chksum) is the one's complement
\* sum of all its bytes.
THEOREM ChecksumStaysExact == IPSpec => []ChecksumExact
<1>1. IPTypeOK => ChecksumExact BY ChecksumIsSum DEF IPTypeOK, ChecksumExact
<1>. QED BY <1>1, IPTypeCorrect, PTL

\* No ping whose header has a changed byte is answered (the checks at the start of
\* uip_process), and every ping that comes as it was sent is.
THEOREM DamageIsDropped == IPSpec => []DamageDropped
<1>1. IPInv => DamageDropped BY DEF IPInv
<1>. QED BY <1>1, IPInvariant, PTL

\* An answer goes back to the sender with its data and a good header, and the ICMP checksum
\* that is only adjusted is as good or bad as the ping's.
THEOREM AnswersMirror == IPSpec => []ReplyMirrorsPing
<1>1. IPInv => ReplyMirrorsPing BY DEF IPInv
<1>. QED BY <1>1, IPInvariant, PTL

===============================================================================
