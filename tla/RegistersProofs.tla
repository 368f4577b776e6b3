---------------------------- MODULE RegistersProofs ----------------------------
(***************************************************************************)
(* Proofs about the counts of Registers, part by part.  Timers: every      *)
(* lateness of the loop below a round of the clock, and no bound on time.  *)
(* SequenceNumbers: uIP's byte by byte arithmetic is addition modulo 2^32, *)
(* from any number and by any length of 16 bits.  RoundTrip: every         *)
(* timeout, every number of retransmissions, and any amount of the peer's  *)
(* data.  SystemTicks: any wait.                                           *)
(***************************************************************************)
EXTENDS Registers, TLAPS

----------------------------------------------------------------------------
(* Timers: the clock and the timer over it *)

\* The readings are those of the times, and the periods served end where this one began.
TimersInv ==
  /\ now \in Nat /\ began \in Nat /\ armed \in Nat /\ served \in Nat
  /\ began <= now
  /\ now - began <= MaxTicksLate
  /\ clock_datetime = Clock(now)
  /\ start = Clock(began)
  /\ began = armed + served * 50

----------------------------------------------------------------------------
(* Timers: readings of a clock that goes round *)

\* A reading fits the register.
LEMMA ClockReading == \A t \in Nat : Clock(t) \in Readings
BY SMT DEF Clock, Readings

\* Counting on from a reading gives the reading of the later time.
LEMMA ClockCounts == \A t \in Nat, n \in Nat : Clock(Clock(t) + n) = Clock(t + n)
BY SMT DEF Clock

\* The difference of two readings, taken in the register, is the time between them when
\* that is less than a round of the clock.
LEMMA ClockDifference ==
  \A t \in Nat, u \in Nat :
    t <= u /\ u - t < 65536 => Clock(Clock(u) - Clock(t)) = u - t
BY SMT DEF Clock

\* The timer expires exactly when its period is over, whenever the invariant holds.
LEMMA Expiry == TimersInv => (TimerExpired <=> now - began >= 50)
<1> SUFFICES ASSUME TimersInv PROVE TimerExpired <=> now - began >= 50
  OBVIOUS
<1>1. now - began < 65536
  BY TimersAssumption DEF TimersInv
<1>2. Clock(clock_datetime - start) = now - began
  BY <1>1, ClockDifference DEF TimersInv
<1> QED
  BY <1>2 DEF TimerExpired, Interval, CLOCK_SECOND

----------------------------------------------------------------------------
(* Timers: the invariant *)

\* The invariant of the clock holds when the program starts.
LEMMA TimersBegin == TimersInit => TimersInv
BY TimersAssumption DEF TimersInit, TimersInv

\* Ticks and turns of the loop keep the invariant of the clock.
LEMMA TimersKept == TimersInv /\ [TimersNext]_timersVars => TimersInv'
<1> SUFFICES ASSUME TimersInv, [TimersNext]_timersVars PROVE TimersInv'
  OBVIOUS
<1>1. CASE Tick
  <2>1. clock_datetime' = Clock(now')
    BY <1>1, ClockCounts DEF Tick, TimersInv
  <2> QED
    BY <1>1, <2>1, TimersAssumption DEF Tick, TimersInv
<1>2. CASE SetPeriodicTimer
  BY <1>2, TimersAssumption DEF SetPeriodicTimer, TimersInv
<1>3. CASE TCPIP_TCPIPTask
  <2>1. now - began >= 50
    BY <1>3, Expiry DEF TCPIP_TCPIPTask
  <2>2. start' = Clock(began')
    BY <1>3, ClockCounts DEF TCPIP_TCPIPTask, TimerReset, Interval, CLOCK_SECOND, TimersInv
  <2>3. began' = armed' + served' * 50
    BY <1>3 DEF TCPIP_TCPIPTask, Interval, CLOCK_SECOND, TimersInv
  <2> QED
    BY <1>3, <2>1, <2>2, <2>3, TimersAssumption
    DEF TCPIP_TCPIPTask, Interval, CLOCK_SECOND, TimersInv
<1>4. CASE UNCHANGED timersVars
  BY <1>4 DEF timersVars, TimersInv
<1> QED
  BY <1>1, <1>2, <1>3, <1>4 DEF TimersNext

\* The invariant holds in every reachable state.
THEOREM TimersInvariant == TimersSpec => []TimersInv
BY TimersBegin, TimersKept, PTL DEF TimersSpec

----------------------------------------------------------------------------
(* Timers: the properties *)

\* TimersTypeOK: the registers keep to their widths and no period begins in the future.
THEOREM TimersTypeCorrect == TimersSpec => []TimersTypeOK
<1>1. TimersInv => TimersTypeOK
  <2> SUFFICES ASSUME TimersInv PROVE TimersTypeOK
    OBVIOUS
  <2>1. clock_datetime \in Readings /\ start \in Readings
    BY ClockReading DEF TimersInv
  <2>2. began \in armed..now
    BY DEF TimersInv
  <2> QED
    BY <2>1, <2>2 DEF TimersInv, TimersTypeOK
<1> QED
  BY <1>1, TimersInvariant, PTL

\* ExpiredExact: the timer expires when its period is over, wherever the clock stands and
\* however often it has gone round, if the loop is never late by a round.
THEOREM ExpiryIsExact == TimersSpec => []ExpiredExact
<1>1. TimersInv => ExpiredExact
  BY Expiry DEF ExpiredExact, Interval, CLOCK_SECOND
<1> QED
  BY <1>1, TimersInvariant, PTL

\* PeriodsCounted: a loop that has caught up has served every period that has passed.
THEOREM EveryPeriodServed == TimersSpec => []PeriodsCounted
<1>1. TimersInv => PeriodsCounted
  <2> SUFFICES ASSUME TimersInv, ~TimerExpired PROVE served = (now - armed) \div 50
    BY DEF PeriodsCounted, Interval, CLOCK_SECOND
  <2>1. now - began < 50
    BY Expiry DEF TimersInv
  <2> QED
    BY <2>1 DEF TimersInv
<1> QED
  BY <1>1, TimersInvariant, PTL

----------------------------------------------------------------------------
(* SequenceNumbers: numbers modulo 2^8 and 2^16 *)

\* What a byte is, without the interval.
LEMMA ByteRange == \A b : b \in Byte <=> b \in Int /\ 0 <= b /\ b <= 255
BY SMT DEF Byte

\* What is added to a byte is what the byte gains and a carry of 256.
LEMMA CarryFound ==
  ASSUME NEW a \in Byte, NEW n \in Byte
  PROVE  /\ Wrapped(a + n) \in Byte
         /\ Carry(Wrapped(a + n), n) \in {0, 1}
         /\ Carry(Wrapped(a + n), n) \in Byte
         /\ a + n = Wrapped(a + n) + 256 * Carry(Wrapped(a + n), n)
<1>1. a \in Int /\ 0 <= a /\ a <= 255 /\ n \in Int /\ 0 <= n /\ n <= 255
  BY ByteRange
<1>2. Wrapped(a + n) = IF a + n >= 256 THEN a + n - 256 ELSE a + n
  BY <1>1, SMT DEF Wrapped
<1>3. Wrapped(a + n) \in Int /\ 0 <= Wrapped(a + n) /\ Wrapped(a + n) <= 255
  BY <1>1, <1>2, SMT
<1>4. Carry(Wrapped(a + n), n) = IF a + n >= 256 THEN 1 ELSE 0
  BY <1>1, <1>2, SMT DEF Carry
<1>5. a + n = Wrapped(a + n) + 256 * Carry(Wrapped(a + n), n)
  BY <1>1, <1>2, <1>4, SMT
<1> QED
  BY <1>3, <1>4, <1>5, ByteRange

\* A length is its two bytes.
LEMMA LengthBytes ==
  ASSUME NEW n \in Int, 0 <= n, n <= 65535
  PROVE  Wrapped(n) \in Byte /\ HighByte(n) \in Byte /\ n = HighByte(n) * 256 + Wrapped(n)
<1>1. /\ Wrapped(n) \in Int /\ 0 <= Wrapped(n) /\ Wrapped(n) <= 255
      /\ HighByte(n) \in Int /\ 0 <= HighByte(n) /\ HighByte(n) <= 255
      /\ n = HighByte(n) * 256 + Wrapped(n)
  BY SMT DEF Wrapped, HighByte
<1> QED
  BY <1>1, ByteRange

\* Rounds of 2^16: the number of rounds and what is left of them are unique.
LEMMA Rounds ==
  ASSUME NEW x \in Int, NEW k \in Int, NEW r \in Int, 0 <= r, r < 65536, x = r + 65536 * k
  PROVE  x % 65536 = r /\ x \div 65536 = k
BY SMT

\* A number is moved on by n when it can be written with the carries of its halves.
LEMMA CarriesMoveOn ==
  ASSUME NEW from \in Number, NEW to \in Number, NEW n \in Nat, NEW k \in Int, NEW j \in Int,
         Low(from) + n = Low(to) + 65536 * k,
         High(from) + k = High(to) + 65536 * j
  PROVE  MovedOn(from, to, n)
<1>1. /\ Low(to) \in Int /\ 0 <= Low(to) /\ Low(to) < 65536
      /\ High(to) \in Int /\ 0 <= High(to) /\ High(to) < 65536
      /\ Low(from) \in Int /\ High(from) \in Int
  <2>1. \A i \in 1..4 : /\ to[i] \in Int /\ 0 <= to[i] /\ to[i] <= 255
                        /\ from[i] \in Int
    BY ByteRange DEF Number
  <2> QED
    BY <2>1, SMT DEF Low, High
<1>2. (Low(from) + n) % 65536 = Low(to) /\ (Low(from) + n) \div 65536 = k
  BY <1>1, Rounds
<1>3. (High(from) + k) % 65536 = High(to) /\ (High(from) + k) \div 65536 = j
  BY <1>1, Rounds
<1> QED
  BY <1>2, <1>3 DEF MovedOn

\* And the other way round.
LEMMA MovedOnCarries ==
  ASSUME NEW from \in Number, NEW to \in Number, NEW n \in Nat, MovedOn(from, to, n)
  PROVE  \E k \in Int, j \in Int : /\ Low(from) + n = Low(to) + 65536 * k
                                   /\ High(from) + k = High(to) + 65536 * j
<1>1. Low(from) \in Int /\ High(from) \in Int
  <2>1. \A i \in 1..4 : from[i] \in Int
    BY ByteRange DEF Number
  <2> QED
    BY <2>1, SMT DEF Low, High
<1> DEFINE k == (Low(from) + n) \div 65536
           j == (High(from) + k) \div 65536
<1>2. k \in Int /\ Low(from) + n = ((Low(from) + n) % 65536) + 65536 * k
  BY <1>1, SMT
<1>3. j \in Int /\ High(from) + k = ((High(from) + k) % 65536) + 65536 * j
  <2> HIDE DEF k
  <2> QED
    BY <1>1, <1>2, SMT
<1> QED
  BY <1>2, <1>3 DEF MovedOn

\* Moving on twice is moving on by the sum.
LEMMA MovedOnTwice ==
  ASSUME NEW a \in Number, NEW b \in Number, NEW c \in Number, NEW m \in Nat, NEW n \in Nat,
         MovedOn(a, b, m), MovedOn(b, c, n)
  PROVE  MovedOn(a, c, m + n)
<1>1. PICK k1 \in Int, j1 \in Int : /\ Low(a) + m = Low(b) + 65536 * k1
                                    /\ High(a) + k1 = High(b) + 65536 * j1
  BY MovedOnCarries
<1>2. PICK k2 \in Int, j2 \in Int : /\ Low(b) + n = Low(c) + 65536 * k2
                                    /\ High(b) + k2 = High(c) + 65536 * j2
  BY MovedOnCarries
<1>3. \A i \in 1..4 : a[i] \in Int /\ b[i] \in Int /\ c[i] \in Int
  BY ByteRange DEF Number
<1>4. /\ Low(a) \in Int /\ Low(b) \in Int /\ Low(c) \in Int
      /\ High(a) \in Int /\ High(b) \in Int /\ High(c) \in Int
  BY <1>3, SMT DEF Low, High
<1>5. /\ Low(a) + (m + n) = Low(c) + 65536 * (k1 + k2)
      /\ High(a) + (k1 + k2) = High(c) + 65536 * (j1 + j2)
  BY <1>1, <1>2, <1>4, SMT
<1>6. m + n \in Nat /\ k1 + k2 \in Int /\ j1 + j2 \in Int
  OBVIOUS
<1> QED
  BY <1>5, <1>6, CarriesMoveOn

----------------------------------------------------------------------------
(* SequenceNumbers: the arithmetic of the code *)

\* uip_add32 adds any length of 16 bits to any number of 32 bits.
LEMMA AddExact ==
  ASSUME NEW op \in Number, NEW n \in Int, 0 <= n, n <= 65535
  PROVE  uip_add32(op, n) \in Number /\ MovedOn(op, uip_add32(op, n), n)
<1> DEFINE lo == Wrapped(n)
           hi == HighByte(n)
           b4 == Wrapped(op[4] + lo)
           b3 == Wrapped(op[3] + hi)
           c3 == Carry(b3, hi)
           b2 == Wrapped(op[2] + c3)
           c2 == Carry(b2, c3)
           b1 == Wrapped(op[1] + c2)
           c4 == Carry(b4, lo)
           d3 == Wrapped(b3 + c4)
           e3 == Carry(d3, c4)
           d2 == Wrapped(b2 + e3)
           e2 == Carry(d2, e3)
           d1 == Wrapped(b1 + e2)
           to == <<d1, d2, d3, b4>>
<1>1. op[1] \in Byte /\ op[2] \in Byte /\ op[3] \in Byte /\ op[4] \in Byte
  BY DEF Number
<1>2. lo \in Byte /\ hi \in Byte /\ n = hi * 256 + lo
  BY LengthBytes
<1>3. uip_add32(op, n) = to
  BY DEF uip_add32
<1> HIDE DEF lo, hi
<1>4. b4 \in Byte /\ c4 \in Byte /\ op[4] + lo = b4 + 256 * c4
  BY <1>1, <1>2, CarryFound
<1>5. b3 \in Byte /\ c3 \in Byte /\ op[3] + hi = b3 + 256 * c3
  BY <1>1, <1>2, CarryFound
<1> HIDE DEF b4, b3, c4, c3
<1>6. b2 \in Byte /\ c2 \in Byte /\ op[2] + c3 = b2 + 256 * c2
  BY <1>1, <1>5, CarryFound
<1>7. d3 \in Byte /\ e3 \in Byte /\ b3 + c4 = d3 + 256 * e3
  BY <1>4, <1>5, CarryFound
<1> HIDE DEF b2, c2, d3, e3
<1>8. b1 \in Byte /\ Carry(b1, c2) \in Byte /\ op[1] + c2 = b1 + 256 * Carry(b1, c2)
  BY <1>1, <1>6, CarryFound
<1>9. d2 \in Byte /\ e2 \in Byte /\ b2 + e3 = d2 + 256 * e2
  BY <1>6, <1>7, CarryFound
<1> HIDE DEF b1, d2, e2
<1>10. d1 \in Byte /\ Carry(d1, e2) \in Byte /\ b1 + e2 = d1 + 256 * Carry(d1, e2)
  BY <1>8, <1>9, CarryFound
<1> DEFINE k == c3 + e3
           j == Carry(b1, c2) + Carry(d1, e2)
<1> HIDE DEF d1
<1>11. to \in Number
  BY <1>4, <1>7, <1>9, <1>10 DEF Number
<1>12. /\ k \in Int /\ j \in Int
       /\ Low(op) + n = Low(to) + 65536 * k
       /\ High(op) + k = High(to) + 65536 * j
  <2>1. /\ op[1] \in Int /\ op[2] \in Int /\ op[3] \in Int /\ op[4] \in Int
        /\ lo \in Int /\ hi \in Int
        /\ b1 \in Int /\ b2 \in Int /\ b3 \in Int /\ b4 \in Int
        /\ d1 \in Int /\ d2 \in Int /\ d3 \in Int
        /\ c2 \in Int /\ c3 \in Int /\ c4 \in Int /\ e2 \in Int /\ e3 \in Int
        /\ Carry(b1, c2) \in Int /\ Carry(d1, e2) \in Int
    BY <1>1, <1>2, <1>4, <1>5, <1>6, <1>7, <1>8, <1>9, <1>10, ByteRange
  <2>2. k \in Int /\ j \in Int
    BY <2>1
  <2>3. (op[3] * 256 + op[4]) + n = (d3 * 256 + b4) + 65536 * k
    BY <2>1, <1>2, <1>4, <1>5, <1>7
  <2>4. (op[1] * 256 + op[2]) + k = (d1 * 256 + d2) + 65536 * j
    BY <2>1, <1>6, <1>8, <1>9, <1>10
  <2>5. Low(to) = d3 * 256 + b4 /\ High(to) = d1 * 256 + d2
    BY DEF Low, High
  <2> QED
    BY <2>2, <2>3, <2>4, <2>5 DEF Low, High
<1> HIDE DEF to, k, j
<1>13. MovedOn(op, to, n)
  <2>1. n \in Nat
    OBVIOUS
  <2> QED
    BY <2>1, <1>11, <1>12, CarriesMoveOn
<1> QED
  BY <1>3, <1>11, <1>13
\* The increment of iss adds one to any number of 32 bits.
LEMMA IncrementExact ==
  ASSUME NEW op \in Number
  PROVE  Increment32(op) \in Number /\ MovedOn(op, Increment32(op), 1)
<1> DEFINE b4 == Wrapped(op[4] + 1)
           c4 == Carry(b4, 1)
           b3 == Wrapped(op[3] + c4)
           c3 == Carry(b3, c4)
           b2 == Wrapped(op[2] + c3)
           c2 == Carry(b2, c3)
           b1 == Wrapped(op[1] + c2)
           to == <<b1, b2, b3, b4>>
<1>1. op[1] \in Byte /\ op[2] \in Byte /\ op[3] \in Byte /\ op[4] \in Byte /\ 1 \in Byte
  BY ByteRange DEF Number
<1>2. Increment32(op) = to
  BY DEF Increment32
<1>3. b4 \in Byte /\ c4 \in Byte /\ op[4] + 1 = b4 + 256 * c4
  BY <1>1, CarryFound
<1> HIDE DEF b4, c4
<1>4. b3 \in Byte /\ c3 \in Byte /\ op[3] + c4 = b3 + 256 * c3
  BY <1>1, <1>3, CarryFound
<1> HIDE DEF b3, c3
<1>5. b2 \in Byte /\ c2 \in Byte /\ op[2] + c3 = b2 + 256 * c2
  BY <1>1, <1>4, CarryFound
<1> HIDE DEF b2, c2
<1>6. b1 \in Byte /\ Carry(b1, c2) \in Byte /\ op[1] + c2 = b1 + 256 * Carry(b1, c2)
  BY <1>1, <1>5, CarryFound
<1> DEFINE j == Carry(b1, c2)
<1> HIDE DEF b1
<1>7. to \in Number
  BY <1>3, <1>4, <1>5, <1>6 DEF Number
<1>8. /\ c3 \in Int /\ j \in Int
      /\ Low(op) + 1 = Low(to) + 65536 * c3
      /\ High(op) + c3 = High(to) + 65536 * j
  <2>1. /\ op[1] \in Int /\ op[2] \in Int /\ op[3] \in Int /\ op[4] \in Int
        /\ b1 \in Int /\ b2 \in Int /\ b3 \in Int /\ b4 \in Int
        /\ c2 \in Int /\ c3 \in Int /\ c4 \in Int /\ j \in Int
    BY <1>1, <1>3, <1>4, <1>5, <1>6, ByteRange
  <2>2. (op[3] * 256 + op[4]) + 1 = (b3 * 256 + b4) + 65536 * c3
    <3>1. op[4] + 1 = b4 + 256 * c4 /\ op[3] + c4 = b3 + 256 * c3
      BY <1>3, <1>4
    <3> QED
      BY <2>1, <3>1, SMTT(30)
  <2>3. (op[1] * 256 + op[2]) + c3 = (b1 * 256 + b2) + 65536 * j
    BY <2>1, <1>5, <1>6
  <2>4. Low(to) = b3 * 256 + b4 /\ High(to) = b1 * 256 + b2
    BY DEF Low, High
  <2> QED
    BY <2>1, <2>2, <2>3, <2>4 DEF Low, High
<1> HIDE DEF to, j
<1>9. MovedOn(op, to, 1)
  BY <1>7, <1>8, CarriesMoveOn
<1> QED
  BY <1>2, <1>7, <1>9

----------------------------------------------------------------------------
(* SequenceNumbers: the invariant and the properties *)

SequenceInv == SequenceTypeOK /\ NumbersCounted

\* A number has moved on by nothing from itself.
LEMMA Unmoved == ASSUME NEW op \in Number PROVE MovedOn(op, op, 0)
<1>1. Low(op) \in Int /\ High(op) \in Int
  <2>1. \A i \in 1..4 : op[i] \in Int
    BY ByteRange DEF Number
  <2> QED
    BY <2>1, SMT DEF Low, High
<1>2. Low(op) + 0 = Low(op) + 65536 * 0 /\ High(op) + 0 = High(op) + 65536 * 0
  BY <1>1
<1> QED
  BY <1>2, CarriesMoveOn

\* The invariant of the numbers holds when the program starts.
LEMMA SequenceBegins == SequenceInit => SequenceInv
<1> SUFFICES ASSUME SequenceInit PROVE SequenceInv
  OBVIOUS
<1>1. first \in Number /\ rcv_nxt = first /\ iss = first /\ received = 0 /\ periods = 0
  BY SequenceAssumption DEF SequenceInit, Number
<1> QED
  BY <1>1, Unmoved DEF SequenceInv, SequenceTypeOK, NumbersCounted

\* Segments received and periods keep the invariant of the numbers.
LEMMA SequenceKept == SequenceInv /\ [SequenceNext]_sequenceVars => SequenceInv'
<1> SUFFICES ASSUME SequenceInv, [SequenceNext]_sequenceVars PROVE SequenceInv'
  OBVIOUS
<1> USE DEF SequenceInv, SequenceTypeOK, NumbersCounted
<1>1. CASE uip_periodic
  <2>1. iss' \in Number /\ MovedOn(iss, iss', 1)
    BY <1>1, IncrementExact DEF uip_periodic
  <2>2. MovedOn(first, iss', periods + 1)
    BY <2>1, MovedOnTwice
  <2> QED
    BY <1>1, <2>1, <2>2 DEF uip_periodic
<1>2. ASSUME NEW n \in Lengths, uip_add_rcv_nxt(n) PROVE SequenceInv'
  <2>1. n \in Int /\ 0 <= n /\ n <= 65535
    BY SequenceAssumption
  <2>2. rcv_nxt' \in Number /\ MovedOn(rcv_nxt, rcv_nxt', n)
    BY <1>2, <2>1, AddExact DEF uip_add_rcv_nxt
  <2>3. MovedOn(first, rcv_nxt', received + n)
    BY <2>1, <2>2, MovedOnTwice
  <2> QED
    BY <1>2, <2>1, <2>2, <2>3 DEF uip_add_rcv_nxt
<1>3. CASE UNCHANGED sequenceVars
  BY <1>3 DEF sequenceVars
<1> QED
  BY <1>1, <1>2, <1>3 DEF SequenceNext

\* Both in every reachable state: an invariant that is inductive as it stands.
THEOREM SequenceInvariant == SequenceSpec => []SequenceInv
BY SequenceBegins, SequenceKept, PTL DEF SequenceSpec

\* SequenceTypeOK: no byte leaves its width.
THEOREM SequenceTypeCorrect == SequenceSpec => []SequenceTypeOK
<1>1. SequenceInv => SequenceTypeOK
  BY DEF SequenceInv
<1> QED
  BY <1>1, SequenceInvariant, PTL

\* NumbersCounted: the number expected next is the first one and all that was received,
\* and the initial number counts the calls of uip_periodic, modulo 2^32, for any lengths
\* and any first number.
THEOREM NumbersAreCounted == SequenceSpec => []NumbersCounted
<1>1. SequenceInv => NumbersCounted
  BY DEF SequenceInv
<1> QED
  BY <1>1, SequenceInvariant, PTL

----------------------------------------------------------------------------
(* RoundTrip: the registers *)

Conn == [tcpstate : {"CLOSED", "SYN_SENT", "ESTABLISHED"}, len : {0, 1},
         nrtx : Bytes, timer : Bytes, rto : Bytes, sa : Bytes, sv : Bytes]

\* A byte is a byte.
LEMMA ByteIsByte == \A n \in Int : AsByte(n) \in Bytes
BY SMT DEF AsByte, Bytes

\* The timeout of a retransmission fits its byte: the shift stops at four places.
LEMMA BackoffBound ==
  ASSUME NEW nrtx \in Nat
  PROVE  Backoff(nrtx) \in Bytes /\ Backoff(nrtx) <= UIP_RTO * 16
<1> DEFINE k == IF nrtx > 4 THEN 4 ELSE nrtx
<1>1. k \in 0..4 OBVIOUS
<1>2. Backoff(nrtx) = AsByte(UIP_RTO * 2 ^ k) BY DEF Backoff
<1> HIDE DEF k
<1>3. k = 0 \/ k = 1 \/ k = 2 \/ k = 3 \/ k = 4 BY <1>1
<1>4. 2 ^ 0 = 1 /\ 2 ^ 1 = 2 /\ 2 ^ 2 = 4 /\ 2 ^ 3 = 8 /\ 2 ^ 4 = 16 OBVIOUS
<1> DEFINE p == 2 ^ k
<1>5. p \in {1, 2, 4, 8, 16} BY <1>3, <1>4
<1>6. Backoff(nrtx) = AsByte(UIP_RTO * p) BY <1>2
<1> HIDE DEF p
<1>7. UIP_RTO \in Int /\ 1 <= UIP_RTO /\ UIP_RTO <= 15 BY RoundTripAssumption
<1> DEFINE product == UIP_RTO * p
<1>8. product \in Int /\ 0 <= product /\ product <= UIP_RTO * 16 /\ product <= 240
  <2>1. p = 1 \/ p = 2 \/ p = 4 \/ p = 8 \/ p = 16 BY <1>5
  <2>2. \/ product = UIP_RTO * 1 \/ product = UIP_RTO * 2 \/ product = UIP_RTO * 4
        \/ product = UIP_RTO * 8 \/ product = UIP_RTO * 16
    BY <2>1, Zenon
  <2> HIDE DEF product
  <2>. QED BY <1>7, <2>2
<1>9. Backoff(nrtx) = AsByte(product) BY <1>6
<1> HIDE DEF product
<1>10. AsByte(product) = product BY <1>8 DEF AsByte
<1>. QED BY <1>8, <1>9, <1>10 DEF Bytes

\* The estimator changes sa, sv and rto, and keeps them bytes.
LEMMA EstimateTyped ==
  ASSUME NEW c \in Conn
  PROVE  /\ Estimate(c) \in Conn
         /\ Estimate(c).tcpstate = c.tcpstate /\ Estimate(c).len = c.len
         /\ Estimate(c).nrtx = c.nrtx /\ Estimate(c).timer = c.timer
<1> DEFINE m1 == SignedChar(SignedChar(c.rto - c.timer) - (c.sa \div 8))
           m2 == SignedChar(SignedChar(Magnitude(m1)) - (c.sv \div 4))
           sa == AsByte(c.sa + m1)
           sv == AsByte(c.sv + m2)
           rto == AsByte((sa \div 8) + sv)
<1>1. /\ c.rto \in Int /\ c.timer \in Int /\ c.sa \in Int /\ c.sv \in Int
  BY DEF Conn, Bytes
<1>2. \A n \in Int : SignedChar(n) \in Int /\ Magnitude(n) \in Int
  BY SMT DEF SignedChar, Magnitude
<1>3. m1 \in Int /\ m2 \in Int
  <2>1. c.rto - c.timer \in Int /\ c.sa \div 8 \in Int /\ c.sv \div 4 \in Int BY <1>1
  <2>2. SignedChar(c.rto - c.timer) - (c.sa \div 8) \in Int BY <1>2, <2>1
  <2>3. m1 \in Int BY <1>2, <2>2
  <2> HIDE DEF m1
  <2>4. SignedChar(Magnitude(m1)) - (c.sv \div 4) \in Int BY <1>2, <2>1, <2>3
  <2>. QED BY <1>2, <2>3, <2>4
<1>4. Estimate(c) = [c EXCEPT !.sa = sa, !.sv = sv, !.rto = rto] BY DEF Estimate
<1> HIDE DEF m1, m2
<1>5. sa \in Bytes /\ sv \in Bytes
  <2>1. c.sa + m1 \in Int /\ c.sv + m2 \in Int BY <1>1, <1>3
  <2>. QED BY <2>1, ByteIsByte
<1> HIDE DEF sa, sv
<1>6. rto \in Bytes
  <2>1. (sa \div 8) + sv \in Int BY <1>5 DEF Bytes
  <2>. QED BY <2>1, ByteIsByte
<1> HIDE DEF rto
<1>. QED BY <1>4, <1>5, <1>6 DEF Conn

\* An acknowledgement makes the connection established, restarts the timer from the timeout
\* and lets the estimator change sa and sv if the segment was sent once.
LEMMA AcknowledgedEffect ==
  ASSUME NEW c \in Conn
  PROVE  LET a == Acknowledged(c)
             e == IF c.nrtx = 0 THEN Estimate(c) ELSE c
         IN  /\ a \in Conn /\ a.tcpstate = "ESTABLISHED" /\ a.len = 0
             /\ a.timer = a.rto /\ a.nrtx = c.nrtx
             /\ a.sa = e.sa /\ a.sv = e.sv
<1> DEFINE e == IF c.nrtx = 0 THEN Estimate(c) ELSE c
           a == [e EXCEPT !.timer = e.rto, !.len = 0, !.tcpstate = "ESTABLISHED"]
<1>1. e \in Conn /\ e.nrtx = c.nrtx BY EstimateTyped
<1>2. Acknowledged(c) = a BY DEF Acknowledged
<1> HIDE DEF e
<1>3. /\ a \in Conn /\ a.tcpstate = "ESTABLISHED" /\ a.len = 0
      /\ a.timer = a.rto /\ a.nrtx = e.nrtx /\ a.sa = e.sa /\ a.sv = e.sv
  BY <1>1 DEF Conn
<1> HIDE DEF a
<1>. QED BY <1>1, <1>2, <1>3 DEF e

\* The estimator is Van Jacobson's as long as a round trip takes no more than 31 periods:
\* eight times 31 and 7 more fit the byte of sa, four times 31 and 3 more that of sv, and no
\* difference leaves a signed char.
LEMMA EstimateIsVanJacobson ==
  ASSUME NEW c \in Conn, NEW d \in Nat, d <= 31,
         NEW w \in Nat, w <= d, c.rto - c.timer = w,
         c.sa <= 8 * d + 7, c.sv <= 16 \/ c.sv <= 4 * d + 3
  PROVE  LET j == VanJacobson([sa |-> c.sa, sv |-> c.sv], w)
         IN  /\ Estimate(c).sa = j.sa /\ Estimate(c).sv = j.sv
             /\ j.sa <= 8 * d + 7
             /\ j.sv <= 16 \/ j.sv <= 4 * d + 3
<1> DEFINE x == c.sa \div 8
           y == c.sv \div 4
           s1 == SignedChar(c.rto - c.timer)
           m1 == SignedChar(s1 - x)
           a1 == Magnitude(m1)
           s2 == SignedChar(a1)
           m2 == SignedChar(s2 - y)
           sa == AsByte(c.sa + m1)
           sv == AsByte(c.sv + m2)
           rto == AsByte((sa \div 8) + sv)
<1>1. c.sa \in Int /\ 0 <= c.sa /\ c.sv \in Int /\ 0 <= c.sv BY DEF Conn, Bytes
<1>2. x \in Int /\ 0 <= x /\ x <= d /\ 8 * x <= c.sa /\ c.sa <= 8 * x + 7 BY <1>1
<1>3. y \in Int /\ 0 <= y /\ 4 * y <= c.sv /\ c.sv <= 4 * y + 3 /\ (y <= 4 \/ y <= d)
  BY <1>1
<1>4. \A n \in Int : -128 <= n /\ n <= 127 => SignedChar(n) = n BY SMT DEF SignedChar
<1>5. \A n \in Int : 0 <= n /\ n <= 255 => AsByte(n) = n BY SMT DEF AsByte
<1>6. Estimate(c) = [c EXCEPT !.sa = sa, !.sv = sv, !.rto = rto] BY DEF Estimate
<1> HIDE DEF x, y
<1>7. s1 = w BY <1>4
<1> HIDE DEF s1
<1>8. m1 = w - x BY <1>2, <1>4, <1>7
<1> HIDE DEF m1
<1>9. a1 = Magnitude(w - x) /\ a1 \in Int /\ 0 <= a1 /\ a1 <= d
  BY <1>2, <1>8 DEF Magnitude
<1> HIDE DEF a1
<1>10. s2 = a1 BY <1>4, <1>9
<1> HIDE DEF s2
<1>11. m2 = a1 - y BY <1>3, <1>4, <1>9, <1>10
<1> HIDE DEF m2
<1>12. sa = c.sa + (w - x) /\ sa <= 8 * d + 7
  <2>1. c.sa + (w - x) <= 8 * d + 7 /\ 0 <= c.sa + (w - x) /\ c.sa + (w - x) \in Int
    BY <1>1, <1>2
  <2>. QED BY <1>1, <1>2, <1>5, <1>8, <2>1
<1>13. sv = c.sv + a1 - y /\ (sv <= 16 \/ sv <= 4 * d + 3)
  <2>1. /\ c.sv + a1 - y <= 16 \/ c.sv + a1 - y <= 4 * d + 3
        /\ 0 <= c.sv + a1 - y /\ c.sv + a1 - y \in Int
    BY <1>1, <1>3, <1>9
  <2>2. c.sv + m2 = c.sv + a1 - y BY <1>1, <1>3, <1>9, <1>11
  <2>. QED BY <1>5, <2>1, <2>2
<1> HIDE DEF sa, sv, rto
<1>14. Estimate(c).sa = sa /\ Estimate(c).sv = sv BY <1>6 DEF Conn
<1> DEFINE j == VanJacobson([sa |-> c.sa, sv |-> c.sv], w)
<1>15. j.sa = c.sa + (w - x) /\ j.sv = c.sv + Magnitude(w - x) - y
  BY DEF VanJacobson, x, y
<1>. QED BY <1>9, <1>12, <1>13, <1>14, <1>15

\* What a round trip is made of: the timer counts down from the timeout while the segment
\* has been sent once, and no period is counted otherwise.
RoundTripInv ==
  /\ RoundTripTypeOK
  /\ (Established /\ ~rexmitted) => waited + conn.timer = conn.rto
  /\ (~Established \/ rexmitted) => waited = 0
  /\ uip_outstanding \/ (waited = 0 /\ ~rexmitted)
  /\ conn.nrtx <= UIP_MAXRTX
  /\ SentAgain

\* While no data of the peer's has cleared it, nrtx tells a segment sent once from one sent
\* again, and the estimates of round trips of up to MaxDelay periods are bounded.
EstimateInv ==
  meanwhile = 0 =>
    /\ rexmitted => conn.nrtx > 0
    /\ (Established /\ uip_outstanding /\ ~rexmitted) => conn.nrtx = 0
    /\ conn.sa = ideal.sa /\ conn.sv = ideal.sv
    /\ conn.sa <= 8 * MaxDelay + 7
    /\ (conn.sv <= 16 \/ conn.sv <= 4 * MaxDelay + 3)

\* A connection that has been asked for satisfies both.
LEMMA Connecting ==
  /\ uip_connect \in Conn
  /\ uip_connect.tcpstate = "SYN_SENT" /\ uip_connect.len = 1 /\ uip_connect.nrtx = 0
  /\ uip_connect.timer = 1 /\ uip_connect.rto = UIP_RTO
  /\ uip_connect.sa = 0 /\ uip_connect.sv = 16
BY RoundTripAssumption DEF uip_connect, Conn, Bytes

\* The invariants of the estimator and the timer hold when a connection starts.
LEMMA RoundTripBegins == RoundTripInit => RoundTripInv /\ EstimateInv
<1> SUFFICES ASSUME RoundTripInit PROVE RoundTripInv /\ EstimateInv
  OBVIOUS
<1> DEFINE u == uip_connect
<1>1. /\ conn = u /\ waited = 0 /\ rexmitted = FALSE /\ meanwhile = 0
      /\ ideal = [sa |-> 0, sv |-> 16]
  BY DEF RoundTripInit
<1>2. ideal.sa = 0 /\ ideal.sv = 16 /\ ideal \in [sa : Int, sv : Int] BY <1>1
<1>3. /\ u \in Conn /\ u.tcpstate = "SYN_SENT" /\ u.len = 1 /\ u.nrtx = 0
      /\ u.timer = 1 /\ u.rto = UIP_RTO /\ u.sa = 0 /\ u.sv = 16
  BY Connecting
<1> HIDE DEF u
<1>4. RoundTripTypeOK
  <2>1. conn \in Conn /\ ~Established BY <1>1, <1>3 DEF Established
  <2>2. waited \in Bytes BY <1>1, SMT DEF Bytes
  <2>3. rexmitted \in BOOLEAN BY <1>1, Zenon
  <2>4. meanwhile \in 0..MaxMeanwhile BY <1>1, RoundTripAssumption, SMT
  <2>. QED BY <1>2, <2>1, <2>2, <2>3, <2>4, Zenon DEF RoundTripTypeOK, Conn
<1>5. RoundTripInv
  <2>1. /\ conn.tcpstate = "SYN_SENT" /\ conn.len = 1 /\ conn.nrtx = 0
        /\ conn.timer = 1 /\ conn.rto = UIP_RTO
    BY <1>1, <1>3
  <2>2. /\ UIP_RTO \in Int /\ 1 <= UIP_RTO /\ UIP_MAXRTX \in Int /\ 0 <= UIP_MAXRTX
    BY RoundTripAssumption
  <2>3. SentAgain /\ uip_outstanding /\ ~Established /\ conn.nrtx <= UIP_MAXRTX
    BY <2>1, <2>2 DEF SentAgain, uip_outstanding, Established
  <2>. QED BY <1>1, <1>4, <2>3 DEF RoundTripInv
<1>6. EstimateInv
  BY <1>1, <1>2, <1>3, RoundTripAssumption DEF EstimateInv, Established
<1>. QED BY <1>5, <1>6

\* Every step of the connection keeps the first.
LEMMA RoundTripKept == RoundTripInv /\ [RoundTripNext]_roundTripVars => RoundTripInv'
<1> SUFFICES ASSUME RoundTripInv, [RoundTripNext]_roundTripVars PROVE RoundTripInv'
  OBVIOUS
<1>1. /\ conn \in Conn /\ waited \in Bytes /\ rexmitted \in BOOLEAN
      /\ meanwhile \in 0..MaxMeanwhile /\ ideal \in [sa : Int, sv : Int]
      /\ Established /\ ~uip_outstanding => conn.timer = conn.rto
  BY Zenon DEF RoundTripInv, RoundTripTypeOK, Conn
<1>2. /\ (Established /\ ~rexmitted) => waited + conn.timer = conn.rto
      /\ (~Established \/ rexmitted) => waited = 0
      /\ uip_outstanding \/ (waited = 0 /\ ~rexmitted)
      /\ conn.nrtx <= UIP_MAXRTX
      /\ conn.timer <= conn.rto \/ conn.timer <= UIP_RTO * 16
  BY DEF RoundTripInv, SentAgain
<1>3. /\ conn.nrtx \in Int /\ 0 <= conn.nrtx /\ conn.nrtx <= 255
      /\ conn.timer \in Int /\ 0 <= conn.timer /\ conn.timer <= 255
      /\ conn.rto \in Int /\ 0 <= conn.rto /\ conn.rto <= 255
      /\ waited \in Int /\ 0 <= waited
      /\ conn.len \in {0, 1}
  BY <1>1 DEF Conn, Bytes
<1>4. /\ UIP_RTO \in Int /\ 1 <= UIP_RTO
      /\ UIP_MAXRTX \in Int /\ 0 <= UIP_MAXRTX /\ UIP_MAXRTX <= 254
      /\ MaxMeanwhile \in Nat
  BY RoundTripAssumption
<1>5. ASSUME NEW c \in Conn, conn' = c, waited' \in Bytes, rexmitted' \in BOOLEAN,
             meanwhile' \in 0..MaxMeanwhile, ideal' \in [sa : Int, sv : Int],
             (c.tcpstate = "ESTABLISHED" /\ ~(c.len > 0)) => c.timer = c.rto,
             (c.tcpstate = "ESTABLISHED" /\ ~rexmitted') => waited' + c.timer = c.rto,
             (c.tcpstate # "ESTABLISHED" \/ rexmitted') => waited' = 0,
             c.len > 0 \/ (waited' = 0 /\ ~rexmitted'),
             c.nrtx <= UIP_MAXRTX,
             c.timer <= c.rto \/ c.timer <= UIP_RTO * 16
      PROVE  RoundTripInv'
  <2>1. RoundTripTypeOK'
    BY <1>5, Zenon DEF RoundTripTypeOK, Conn, Established, uip_outstanding
  <2>2. SentAgain' BY <1>5, Zenon DEF SentAgain
  <2>. QED BY <1>5, <2>1, <2>2, Zenon DEF RoundTripInv, Established, uip_outstanding
<1>6. CASE Connect
  <2> DEFINE c == uip_connect
  <2>1. /\ conn' = c /\ waited' = 0 /\ rexmitted' = FALSE /\ meanwhile' = meanwhile
        /\ ideal' = [sa |-> 0, sv |-> 16]
    BY <1>6 DEF Connect
  <2>2. /\ c \in Conn /\ c.tcpstate = "SYN_SENT" /\ c.len = 1 /\ c.nrtx = 0
        /\ c.timer = 1 /\ c.rto = UIP_RTO
    BY Connecting
  <2> HIDE DEF c
  <2>3. waited' \in Bytes /\ ideal' \in [sa : Int, sv : Int] BY <2>1 DEF Bytes
  <2>4. rexmitted' \in BOOLEAN /\ meanwhile' \in 0..MaxMeanwhile BY <1>1, <2>1, Zenon
  <2>5. /\ c.len > 0 /\ c.nrtx <= UIP_MAXRTX /\ c.timer <= c.rto BY <1>4, <2>2
  <2>6. c.tcpstate # "ESTABLISHED" BY <2>2
  <2>. QED BY <1>5, <2>1, <2>2, <2>3, <2>4, <2>5, <2>6, Zenon
<1>7. CASE Send
  <2> DEFINE c == [conn EXCEPT !.len = 1, !.nrtx = 0]
  <2>1. conn' = c /\ waited' = 0 /\ meanwhile' = meanwhile /\ ideal' = ideal
    BY <1>7, Zenon DEF Send
  <2>9. rexmitted' = FALSE BY <1>7, Zenon DEF Send
  <2>2. /\ c \in Conn /\ c.tcpstate = conn.tcpstate /\ c.len = 1 /\ c.nrtx = 0
        /\ c.timer = conn.timer /\ c.rto = conn.rto
    <3>1. conn \in Conn /\ 0 \in Bytes BY <1>1 DEF Bytes
    <3>. QED BY <3>1 DEF Conn
  <2>3. waited' \in Bytes BY <2>1 DEF Bytes
  <2>4. rexmitted' \in BOOLEAN BY <2>9, Zenon
  <2>5. conn.timer = conn.rto BY <1>1, <1>7 DEF Send
  <2> HIDE DEF c
  <2>6. /\ c.len > 0 /\ c.nrtx <= UIP_MAXRTX /\ c.timer <= c.rto
        /\ waited' + c.timer = c.rto
    BY <1>3, <1>4, <2>1, <2>2, <2>5
  <2>. QED BY <1>1, <1>5, <2>1, <2>9, <2>2, <2>3, <2>4, <2>6
<1>8. CASE Count
  <2> DEFINE k == conn.timer - 1
             c == [conn EXCEPT !.timer = k]
  <2>1. /\ conn' = c /\ conn.timer > 0 /\ uip_outstanding
        /\ waited' = IF rexmitted \/ ~Established THEN 0 ELSE waited + 1
        /\ rexmitted' = rexmitted /\ meanwhile' = meanwhile /\ ideal' = ideal
    BY <1>8 DEF Count
  <2>2. k \in Bytes /\ k \in Int /\ k < conn.timer BY <1>3, <2>1 DEF Bytes
  <2>3. (Established /\ ~rexmitted) => waited' + k = conn.rto
    BY <1>2, <1>3, <2>1
  <2>4. (~Established \/ rexmitted) => waited' = 0 BY <2>1
  <2>5. waited' \in Bytes BY <1>2, <1>3, <2>1 DEF Bytes
  <2>6. k <= conn.rto \/ k <= UIP_RTO * 16 BY <1>2, <1>3, <1>4, <2>2
  <2> HIDE DEF k
  <2>7. /\ c \in Conn /\ c.tcpstate = conn.tcpstate /\ c.len = conn.len /\ c.nrtx = conn.nrtx
        /\ c.timer = k /\ c.rto = conn.rto
    BY <1>1, <2>2 DEF Conn
  <2> HIDE DEF c
  <2>8. c.len > 0 BY <2>1, <2>7 DEF uip_outstanding
  <2>. QED
    BY <1>1, <1>2, <1>5, <2>1, <2>3, <2>4, <2>5, <2>6, <2>7, <2>8 DEF Established
<1>9. CASE Retransmit
  <2> DEFINE k == Backoff(conn.nrtx)
             n == AsByte(conn.nrtx + 1)
             c == [conn EXCEPT !.timer = k, !.nrtx = n]
  <2>1. /\ conn' = c /\ waited' = 0 /\ uip_outstanding
        /\ rexmitted' = (Established \/ conn.nrtx > 0)
        /\ meanwhile' = meanwhile /\ ideal' = ideal /\ conn.nrtx # UIP_MAXRTX
    BY <1>9 DEF Retransmit, GivenUp
  <2>2. k \in Bytes /\ k <= UIP_RTO * 16 BY <1>3, BackoffBound
  <2>3. n = conn.nrtx + 1 /\ n \in Bytes /\ n <= UIP_MAXRTX
    BY <1>2, <1>3, <1>4, <2>1 DEF AsByte, Bytes
  <2> HIDE DEF k, n
  <2>4. /\ c \in Conn /\ c.tcpstate = conn.tcpstate /\ c.len = conn.len /\ c.nrtx = n
        /\ c.timer = k /\ c.rto = conn.rto
    BY <1>1, <2>2, <2>3 DEF Conn
  <2> HIDE DEF c
  <2>5. c.len > 0 BY <2>1, <2>4 DEF uip_outstanding
  <2>6. waited' \in Bytes BY <2>1 DEF Bytes
  <2>7. rexmitted' \in BOOLEAN BY <2>1, Zenon
  <2>8. c.tcpstate = "ESTABLISHED" => rexmitted' BY <2>1, <2>4 DEF Established
  <2>. QED BY <1>1, <1>5, <2>1, <2>2, <2>3, <2>4, <2>5, <2>6, <2>7, <2>8
<1>10. CASE TimeOut
  <2> DEFINE c == [conn EXCEPT !.tcpstate = "CLOSED", !.len = 0, !.timer = 0]
  <2>1. conn' = c /\ waited' = 0 /\ meanwhile' = meanwhile /\ ideal' = ideal
    BY <1>10, Zenon DEF TimeOut
  <2>9. rexmitted' = FALSE BY <1>10, Zenon DEF TimeOut
  <2>2. /\ c \in Conn /\ c.tcpstate = "CLOSED" /\ c.len = 0 /\ c.nrtx = conn.nrtx
        /\ c.timer = 0 /\ c.rto = conn.rto
    <3>1. conn \in Conn /\ 0 \in Bytes BY <1>1 DEF Bytes
    <3>. QED BY <3>1 DEF Conn
  <2>3. waited' \in Bytes BY <2>1 DEF Bytes
  <2>4. rexmitted' \in BOOLEAN BY <2>9, Zenon
  <2> HIDE DEF c
  <2>5. c.nrtx <= UIP_MAXRTX /\ c.timer <= c.rto BY <1>2, <1>3, <2>2
  <2>. QED BY <1>1, <1>5, <2>1, <2>9, <2>2, <2>3, <2>4, <2>5
<1>11. CASE Acked
  <2> DEFINE c == Acknowledged(conn)
  <2>1. /\ conn' = c /\ waited' = 0 /\ rexmitted' = FALSE /\ meanwhile' = meanwhile
        /\ ideal' = IF Established /\ ~rexmitted /\ meanwhile = 0
                    THEN VanJacobson(ideal, waited) ELSE ideal
    BY <1>11 DEF Acked
  <2>2. /\ c \in Conn /\ c.tcpstate = "ESTABLISHED" /\ c.len = 0
        /\ c.timer = c.rto /\ c.nrtx = conn.nrtx
    BY <1>1, AcknowledgedEffect
  <2>3. waited' \in Bytes BY <2>1 DEF Bytes
  <2>4. rexmitted' \in BOOLEAN BY <2>1, Zenon
  <2>5. VanJacobson(ideal, waited) \in [sa : Int, sv : Int]
    BY <1>1, <1>3 DEF VanJacobson, Magnitude
  <2>6. ideal' \in [sa : Int, sv : Int] BY <1>1, <2>1, <2>5
  <2> HIDE DEF c
  <2>7. c.timer \in Int /\ c.timer <= c.rto /\ 0 + c.timer = c.rto
    BY <2>2 DEF Conn, Bytes
  <2>. QED BY <1>1, <1>2, <1>5, <2>1, <2>2, <2>3, <2>4, <2>6, <2>7
<1>12. CASE Data
  <2> DEFINE c == [conn EXCEPT !.nrtx = 0]
  <2>1. /\ conn' = c /\ meanwhile < MaxMeanwhile /\ meanwhile' = meanwhile + 1
        /\ ideal' = [sa |-> 0, sv |-> 16] /\ waited' = waited /\ rexmitted' = rexmitted
    BY <1>12 DEF Data
  <2>2. /\ c \in Conn /\ c.tcpstate = conn.tcpstate /\ c.len = conn.len /\ c.nrtx = 0
        /\ c.timer = conn.timer /\ c.rto = conn.rto
    BY <1>1 DEF Conn, Bytes
  <2>3. meanwhile' \in 0..MaxMeanwhile /\ ideal' \in [sa : Int, sv : Int]
    BY <1>1, <1>4, <2>1
  <2> HIDE DEF c
  <2>. QED
    BY <1>1, <1>2, <1>4, <1>5, <2>1, <2>2, <2>3 DEF Established, uip_outstanding
<1>13. CASE UNCHANGED roundTripVars
  <2>1. /\ conn' = conn /\ waited' = waited /\ rexmitted' = rexmitted
        /\ meanwhile' = meanwhile /\ ideal' = ideal
    BY <1>13 DEF roundTripVars
  <2>. QED BY <1>1, <1>2, <1>5, <2>1 DEF Established, uip_outstanding
<1>. QED BY <1>6, <1>7, <1>8, <1>9, <1>10, <1>11, <1>12, <1>13 DEF RoundTripNext

\* And the second, if the peer takes no more than 31 periods to acknowledge a segment.
LEMMA EstimateKept ==
  ASSUME MaxDelay <= 31, RoundTripInv, EstimateInv, [RoundTripNext]_roundTripVars
  PROVE  EstimateInv'
<1>1. conn \in Conn /\ meanwhile \in 0..MaxMeanwhile /\ ideal \in [sa : Int, sv : Int]
  BY Zenon DEF RoundTripInv, RoundTripTypeOK, Conn
<1>2. /\ conn.nrtx \in Int /\ 0 <= conn.nrtx /\ conn.nrtx <= UIP_MAXRTX
      /\ conn.timer \in Int /\ conn.rto \in Int
      /\ waited \in Int /\ 0 <= waited
      /\ conn.sa \in Int /\ conn.sv \in Int
  <2>1. conn.nrtx \in Bytes /\ conn.timer \in Bytes /\ conn.rto \in Bytes
        /\ conn.sa \in Bytes /\ conn.sv \in Bytes
    BY <1>1 DEF Conn
  <2>2. waited \in Bytes /\ conn.nrtx <= UIP_MAXRTX
    BY Zenon DEF RoundTripInv, RoundTripTypeOK
  <2>. QED BY <2>1, <2>2 DEF Bytes
<1>3. /\ MaxDelay \in Nat /\ MaxMeanwhile \in Nat
      /\ UIP_MAXRTX \in Int /\ UIP_MAXRTX <= 254
  BY RoundTripAssumption
<1> DEFINE Exact == /\ conn.sa = ideal.sa /\ conn.sv = ideal.sv
                    /\ conn.sa <= 8 * MaxDelay + 7
                    /\ (conn.sv <= 16 \/ conn.sv <= 4 * MaxDelay + 3)
<1>4. meanwhile = 0 => /\ rexmitted => conn.nrtx > 0
                       /\ (Established /\ uip_outstanding /\ ~rexmitted) => conn.nrtx = 0
                       /\ Exact
  BY Zenon DEF EstimateInv
<1>5. ASSUME NEW c \in Conn, conn' = c, meanwhile' = meanwhile, ideal' = ideal,
             c.sa = conn.sa, c.sv = conn.sv,
             meanwhile = 0 => (rexmitted' => c.nrtx > 0),
             meanwhile = 0 => ((c.tcpstate = "ESTABLISHED" /\ c.len > 0 /\ ~rexmitted')
                                => c.nrtx = 0)
      PROVE  EstimateInv'
  <2>1. meanwhile = 0 => Exact' BY <1>4, <1>5
  <2> HIDE DEF Exact
  <2>. QED BY <1>5, <2>1, Zenon DEF EstimateInv, Established, uip_outstanding, Exact
<1> HIDE DEF Exact
<1>6. CASE Connect
  <2> DEFINE c == uip_connect
  <2>1. /\ conn' = c /\ ideal' = [sa |-> 0, sv |-> 16]
    BY <1>6, Zenon DEF Connect
  <2>2. rexmitted' = FALSE BY <1>6, Zenon DEF Connect
  <2>3. c.tcpstate = "SYN_SENT" /\ c.sa = 0 /\ c.sv = 16 BY Connecting
  <2> HIDE DEF c
  <2>4. ~Established' BY <2>1, <2>3 DEF Established
  <2>5. /\ conn'.sa = ideal'.sa /\ conn'.sv = ideal'.sv
        /\ conn'.sa <= 8 * MaxDelay + 7
        /\ (conn'.sv <= 16 \/ conn'.sv <= 4 * MaxDelay + 3)
    BY <1>3, <2>1, <2>3
  <2>. QED BY <2>2, <2>4, <2>5, Zenon DEF EstimateInv
<1>7. CASE Send
  <2> DEFINE c == [conn EXCEPT !.len = 1, !.nrtx = 0]
  <2>1. conn' = c /\ meanwhile' = meanwhile /\ ideal' = ideal
    BY <1>7, Zenon DEF Send
  <2>2. rexmitted' = FALSE BY <1>7, Zenon DEF Send
  <2>3. c \in Conn /\ c.nrtx = 0 /\ c.sa = conn.sa /\ c.sv = conn.sv
    <3>1. conn \in Conn /\ 0 \in Bytes BY <1>1 DEF Bytes
    <3>. QED BY <3>1 DEF Conn
  <2> HIDE DEF c
  <2>. QED BY <1>5, <2>1, <2>2, <2>3, Zenon
<1>8. CASE Count
  <2> DEFINE k == conn.timer - 1
             c == [conn EXCEPT !.timer = k]
  <2>1. conn' = c /\ meanwhile' = meanwhile /\ ideal' = ideal /\ uip_outstanding
    BY <1>8, Zenon DEF Count
  <2>2. rexmitted' = rexmitted BY <1>8, Zenon DEF Count
  <2>3. k \in Bytes
    <3>1. conn.timer \in Bytes /\ conn.timer > 0 BY <1>1, <1>8 DEF Count, Conn
    <3>. QED BY <3>1 DEF Bytes
  <2> HIDE DEF k
  <2>4. /\ c \in Conn /\ c.tcpstate = conn.tcpstate /\ c.len = conn.len
        /\ c.nrtx = conn.nrtx /\ c.sa = conn.sa /\ c.sv = conn.sv
    BY <1>1, <2>3 DEF Conn
  <2> HIDE DEF c
  <2>. QED BY <1>4, <1>5, <2>1, <2>2, <2>4, Zenon DEF Established
<1>9. CASE Retransmit
  <2> DEFINE k == Backoff(conn.nrtx)
             n == AsByte(conn.nrtx + 1)
             c == [conn EXCEPT !.timer = k, !.nrtx = n]
  <2>1. conn' = c /\ meanwhile' = meanwhile /\ ideal' = ideal /\ conn.nrtx # UIP_MAXRTX
    BY <1>9, Zenon DEF Retransmit, GivenUp
  <2>2. Established => rexmitted' BY <1>9 DEF Retransmit
  <2>3. k \in Bytes BY <1>2, BackoffBound
  <2>4. n = conn.nrtx + 1 /\ n \in Bytes /\ n > 0
    BY <1>2, <1>3, <2>1 DEF AsByte, Bytes
  <2> HIDE DEF k, n
  <2>5. /\ c \in Conn /\ c.tcpstate = conn.tcpstate /\ c.nrtx = n
        /\ c.sa = conn.sa /\ c.sv = conn.sv
    BY <1>1, <2>3, <2>4 DEF Conn
  <2> HIDE DEF c
  <2>. QED BY <1>5, <2>1, <2>2, <2>4, <2>5, Zenon DEF Established
<1>10. CASE TimeOut
  <2> DEFINE c == [conn EXCEPT !.tcpstate = "CLOSED", !.len = 0, !.timer = 0]
  <2>1. conn' = c /\ meanwhile' = meanwhile /\ ideal' = ideal
    BY <1>10, Zenon DEF TimeOut
  <2>2. rexmitted' = FALSE BY <1>10, Zenon DEF TimeOut
  <2>3. c \in Conn /\ c.tcpstate = "CLOSED" /\ c.sa = conn.sa /\ c.sv = conn.sv
    <3>1. conn \in Conn /\ 0 \in Bytes BY <1>1 DEF Bytes
    <3>. QED BY <3>1 DEF Conn
  <2>4. c.tcpstate # "ESTABLISHED" BY <2>3
  <2> HIDE DEF c
  <2>. QED BY <1>5, <2>1, <2>2, <2>3, <2>4, Zenon
<1>11. CASE Acked
  <2> DEFINE c == Acknowledged(conn)
             e == IF conn.nrtx = 0 THEN Estimate(conn) ELSE conn
  <2>1. /\ conn' = c /\ meanwhile' = meanwhile
        /\ ideal' = IF Established /\ ~rexmitted /\ meanwhile = 0
                    THEN VanJacobson(ideal, waited) ELSE ideal
        /\ Established \/ conn.nrtx > 0
        /\ rexmitted \/ waited <= MaxDelay
        /\ uip_outstanding
    BY <1>11, Zenon DEF Acked
  <2>2. rexmitted' = FALSE BY <1>11, Zenon DEF Acked
  <2>3. c \in Conn /\ c.len = 0 /\ c.sa = e.sa /\ c.sv = e.sv BY <1>1, AcknowledgedEffect
  <2> HIDE DEF c
  <2>4. ~uip_outstanding' BY <2>1, <2>3 DEF uip_outstanding
  <2>5. ASSUME meanwhile = 0, Established, ~rexmitted
        PROVE  Exact'
    <3>1. conn.nrtx = 0 BY <1>4, <2>1, <2>5, Zenon
    <3>2. e = Estimate(conn) BY <3>1
    <3>3. waited + conn.timer = conn.rto BY <2>5, Zenon DEF RoundTripInv
    <3>4. waited \in Nat /\ waited <= MaxDelay /\ conn.rto - conn.timer = waited
      BY <1>2, <2>1, <2>5, <3>3
    <3>5. Exact BY <1>4, <2>5, Zenon
    <3> DEFINE j == VanJacobson([sa |-> conn.sa, sv |-> conn.sv], waited)
    <3>6. /\ Estimate(conn).sa = j.sa /\ Estimate(conn).sv = j.sv
          /\ j.sa <= 8 * MaxDelay + 7
          /\ (j.sv <= 16 \/ j.sv <= 4 * MaxDelay + 3)
      BY <1>1, <1>3, <3>4, <3>5, EstimateIsVanJacobson DEF Exact
    <3>7. [sa |-> conn.sa, sv |-> conn.sv] = ideal BY <1>1, <3>5 DEF Exact
    <3>8. ideal' = j BY <2>1, <2>5, <3>7, Zenon
    <3> HIDE DEF j, e
    <3>9. conn'.sa = j.sa /\ conn'.sv = j.sv BY <2>1, <2>3, <3>2, <3>6, Zenon
    <3>. QED BY <3>6, <3>8, <3>9, Zenon DEF Exact
  <2>6. ASSUME meanwhile = 0, ~Established \/ rexmitted
        PROVE  Exact'
    <3>1. conn.nrtx > 0 BY <1>4, <2>1, <2>6, Zenon
    <3>2. e = conn BY <1>2, <3>1
    <3>3. ideal' = ideal BY <2>1, <2>6, Zenon
    <3> HIDE DEF e
    <3>4. conn'.sa = conn.sa /\ conn'.sv = conn.sv BY <2>1, <2>3, <3>2, Zenon
    <3>5. Exact BY <1>4, <2>6, Zenon
    <3>. QED BY <3>3, <3>4, <3>5, Zenon DEF Exact
  <2> HIDE DEF e
  <2>7. meanwhile' = 0 => Exact' BY <2>1, <2>5, <2>6, Zenon
  <2>. QED BY <2>2, <2>4, <2>7, Zenon DEF EstimateInv, Exact
<1>12. CASE Data
  <2>1. meanwhile' = meanwhile + 1 BY <1>12 DEF Data
  <2>2. meanwhile' # 0 BY <1>1, <1>3, <2>1
  <2>. QED BY <2>2, Zenon DEF EstimateInv
<1>13. CASE UNCHANGED roundTripVars
  <2>1. /\ conn' = conn /\ rexmitted' = rexmitted
        /\ meanwhile' = meanwhile /\ ideal' = ideal
    BY <1>13, Zenon DEF roundTripVars
  <2>. QED BY <1>1, <1>4, <1>5, <2>1, Zenon DEF Established, uip_outstanding
<1>. QED BY <1>6, <1>7, <1>8, <1>9, <1>10, <1>11, <1>12, <1>13 DEF RoundTripNext

\* Whatever part runs, the connection takes its own steps or none.
LEMMA RoundTripRuns == Spec => RoundTripSpec
<1>1. Init => RoundTripInit BY DEF Init
<1>2. [Next]_vars => [RoundTripNext]_roundTripVars
  BY DEF vars, Next, RunTimers, RunSequenceNumbers, RunRoundTrip, RunSystemTicks
<1>. QED BY <1>1, <1>2, PTL DEF Spec, RoundTripSpec

\* The invariant of the retransmission timer holds in every reachable state.
LEMMA RoundTripInvariant == RoundTripSpec => []RoundTripInv
BY RoundTripBegins, RoundTripKept, PTL DEF RoundTripSpec

\* What is outstanding is sent again within the timeout or the longest backoff, for every
\* first timeout and every number of retransmissions that uip.c can be built with, and for
\* every sequence of segments of the peer's (uip_process, UIP_TIMER).
THEOREM SentAgainInTime == Spec => []SentAgain
<1>1. RoundTripInv => SentAgain BY DEF RoundTripInv
<1>. QED BY <1>1, RoundTripRuns, RoundTripInvariant, PTL

\* The estimator of uip.c, which reckons in bytes and in a signed char, is Van Jacobson's as
\* long as the peer acknowledges within 31 periods what it gets the first time: 15 seconds
\* and a half.  One period more and the estimate leaves its byte.
THEOREM EstimatorIsExact ==
  ASSUME MaxDelay <= 31
  PROVE  Spec => []EstimateExact
<1>1. RoundTripInv /\ EstimateInv /\ [RoundTripNext]_roundTripVars
        => (RoundTripInv /\ EstimateInv)'
  BY EstimateKept, RoundTripKept
<1>2. RoundTripInv /\ EstimateInv => EstimateExact BY Zenon DEF EstimateInv, EstimateExact
<1>3. RoundTripSpec => [](RoundTripInv /\ EstimateInv)
  BY <1>1, RoundTripBegins, PTL DEF RoundTripSpec
<1>. QED BY <1>2, <1>3, RoundTripRuns, PTL

----------------------------------------------------------------------------
(* SystemTicks: the counter and its two bytes *)

\* Ticks since the main loop began to move the counter
Late == IF ticked THEN 1 ELSE 0

\* What the program sets the counter to
Settings == {0, 2000, 3001}

\* A value being set is exact but for the tick that may fall between its bytes: the byte
\* moved first has counted it, or has carried it into the byte moved second.
Setting == pc = "write" =>
  /\ value \in Settings /\ exact = value + Late
  /\ byte = "low" => low = (value % 256) + Late
  /\ byte = "high" => high = value \div 256 \/ (Late = 1 /\ high = value \div 256 + 1)
  /\ next = "Dial" => value = 0 /\ (stage # "Dial" => commands = 0)
  /\ stage = "Dial" => /\ next = "Dial"
                       /\ byte = "high" => high = 0 /\ low <= DialDelay + 150 + Late

\* The dialler never meets a carry: the low byte does not reach 255, and after the first
\* command the high byte is 0.
Dialling == (stage = "Dial" /\ pc # "write") =>
  /\ low <= exact /\ low <= DialDelay + 149 + Late
  /\ (pc = "read" /\ byte = "low") => low <= value + Late
  /\ commands > 0 => /\ high = 0
                     /\ (pc = "read" /\ byte = "low") => value <= exact
                     /\ (pc = "read" /\ byte = "high") => value = 0

\* The counter runs ahead of the ticks by one carry, and a reading of it by another.
Ahead ==
  /\ pc = "run" => Late = 0
  /\ pc # "write" => SystemTicks <= exact + 255
  /\ pc = "read" => /\ value <= 255
                    /\ Late = 0 => Reading = SystemTicks
                    /\ Reading <= exact + 255 + 255 * Late

TicksInv == TicksTypeOK /\ Setting /\ Dialling /\ Ahead

\* What the proofs below use of the types.
LEMMA TicksTypes ==
  ASSUME TicksTypeOK
  PROVE  /\ high \in Int /\ 0 <= high /\ high <= 255
         /\ low \in Int /\ 0 <= low /\ low <= 255
         /\ stage \in Stages /\ next \in Stages
         /\ pc \in {"run", "read", "write"} /\ byte \in {"low", "high"}
         /\ value \in Int /\ 0 <= value /\ value <= 3001
         /\ exact \in Int /\ 0 <= exact
         /\ commands \in {0, 1, 2}
         /\ Late \in {0, 1}
<1>1. /\ high \in 0..255 /\ low \in 0..255
      /\ stage \in Stages /\ next \in Stages
      /\ pc \in {"run", "read", "write"} /\ byte \in {"low", "high"}
      /\ value \in Values /\ exact \in Nat /\ commands \in 0..2
  BY Zenon DEF TicksTypeOK
<1>2. Late = 0 \/ Late = 1 BY Zenon DEF Late
<1>3. commands = 0 \/ commands = 1 \/ commands = 2 BY <1>1
<1>. QED BY <1>1, <1>2, <1>3 DEF Values

\* The parts of the type invariant, gathered.
LEMMA TicksTyped ==
  ASSUME high' \in 0..255, low' \in 0..255, stage' \in Stages, next' \in Stages,
         pc' \in {"run", "read", "write"}, ticked' \in BOOLEAN, byte' \in {"low", "high"},
         value' \in Values, exact' \in Nat, commands' \in 0..2
  PROVE  TicksTypeOK'
BY Zenon DEF TicksTypeOK

\* The bytes of what the program sets the counter to.
LEMMA BytesSet ==
  /\ 0 % 256 = 0 /\ 0 \div 256 = 0
  /\ 2000 % 256 = 208 /\ 2000 \div 256 = 7
  /\ 3001 % 256 = 185 /\ 3001 \div 256 = 11
OBVIOUS

\* The bytes of the values the main loop assigns.
LEMMA SetBytes ==
  ASSUME NEW v \in Settings
  PROVE  /\ v % 256 \in Int /\ 0 <= v % 256 /\ v % 256 <= 208
         /\ v \div 256 \in Int /\ 0 <= v \div 256 /\ v \div 256 <= 11
         /\ v = 256 * (v \div 256) + (v % 256)
         /\ v \in Values
<1>1. v = 0 \/ v = 2000 \/ v = 3001 BY DEF Settings
<1>. QED BY <1>1, BytesSet DEF Values

\* Going on after a reading, or without one, keeps the invariant: the dialler only goes on
\* to dial when the counter is still low.
LEMMA RunKept ==
  ASSUME TicksInv, NEW then \in Stages, Run(then), pc # "write",
         UNCHANGED <<high, low, exact, commands>>,
         then = "Dial" => stage = "Dial" /\ low <= DialDelay + 149
  PROVE  TicksInv'
<1>1. TicksTypeOK /\ Dialling /\ Ahead BY Zenon DEF TicksInv
<1>2. /\ high' = high /\ low' = low /\ exact' = exact /\ commands' = commands
      /\ pc' = "run" /\ stage' = then /\ byte' = "low" /\ value' = 0 /\ next' = then
  BY Zenon DEF Run
<1>3. ticked' = FALSE BY Zenon DEF Run
<1>4. Late' = 0 BY <1>3, Zenon DEF Late
<1>5. TicksTypeOK'
  <2>1. /\ high' \in 0..255 /\ low' \in 0..255 /\ exact' \in Nat /\ commands' \in 0..2
        /\ byte' \in {"low", "high"} /\ pc' \in {"run", "read", "write"}
    BY <1>1, <1>2, Zenon DEF TicksTypeOK
  <2>2. value' \in Values BY <1>2 DEF Values
  <2>3. ticked' \in BOOLEAN BY <1>3, Zenon
  <2>. QED BY <1>2, <2>1, <2>2, <2>3, TicksTyped, Zenon
<1>6. Setting' BY <1>2 DEF Setting
<1>7. Dialling'
  <2> SUFFICES ASSUME then = "Dial"
      PROVE  /\ low <= exact /\ low <= DialDelay + 149 + 0
             /\ commands > 0 => high = 0
    BY <1>2, <1>4 DEF Dialling
  <2>. QED BY <1>1, TicksTypes DEF Dialling, DialDelay
<1>8. Ahead' BY <1>1, <1>2, <1>4 DEF Ahead, SystemTicks
<1>. QED BY <1>5, <1>6, <1>7, <1>8 DEF TicksInv

\* So does the first half of a setting.
LEMMA SetKept ==
  ASSUME TicksInv, NEW v \in Settings, NEW then \in Stages, Set(v, then),
         pc # "write", commands' \in 0..2,
         then = "Dial" => v = 0 /\ (stage # "Dial" => commands' = 0),
         stage = "Dial" => then = "Dial"
  PROVE  TicksInv'
<1>1. TicksTypeOK /\ Dialling BY Zenon DEF TicksInv
<1>2. PICK b \in {"low", "high"} : Store(b, v) /\ byte' = b BY Zenon DEF Set
<1>3. /\ pc' = "write" /\ value' = v /\ next' = then /\ exact' = v /\ stage' = stage
  BY Zenon DEF Set
<1>4. ticked' = FALSE BY Zenon DEF Set
<1>5. Late' = 0 BY <1>4, Zenon DEF Late
<1>6. /\ b = "low" => low' = v % 256 /\ high' = high
      /\ b = "high" => high' = v \div 256 /\ low' = low
  BY <1>2 DEF Store, ByteOf
<1> DEFINE vl == v % 256
           vh == v \div 256
<1>7. /\ vl \in Int /\ 0 <= vl /\ vl <= 208 /\ vh \in Int /\ 0 <= vh /\ vh <= 11
      /\ v \in Values /\ v \in Nat /\ (v = 0 => vl = 0 /\ vh = 0)
  <2>1. v \in Values /\ v \in Nat BY SetBytes DEF Values
  <2>2. vl \in Int /\ 0 <= vl /\ vl <= 208 /\ vh \in Int /\ 0 <= vh /\ vh <= 11
    BY SetBytes
  <2>3. v = 0 => vl = 0 /\ vh = 0 BY BytesSet
  <2>. QED BY <2>1, <2>2, <2>3
<1>8. /\ b = "low" => low' = vl /\ high' = high
      /\ b = "high" => high' = vh /\ low' = low
  BY <1>6
<1>9. TicksTypeOK'
  <2> HIDE DEF vl, vh
  <2>1. high' \in 0..255 /\ low' \in 0..255 BY <1>1, <1>2, <1>7, <1>8, TicksTypes
  <2>2. /\ stage' \in Stages /\ byte' \in {"low", "high"} /\ next' \in Stages
    BY <1>1, <1>2, <1>3, Zenon DEF TicksTypeOK
  <2>3. pc' \in {"run", "read", "write"} BY <1>3
  <2>4. value' \in Values /\ exact' \in Nat BY <1>3, <1>7 DEF Values
  <2>5. ticked' \in BOOLEAN BY <1>4, Zenon
  <2>. QED BY <2>1, <2>2, <2>3, <2>4, <2>5, TicksTyped, Zenon
<1>10. Setting'
  <2>1. value' \in Settings /\ exact' = value' + Late' BY <1>3, <1>5, <1>7
  <2>2. byte' = "low" => low' = (value' % 256) + Late' BY <1>2, <1>3, <1>5, <1>7, <1>8
  <2>3. byte' = "high" => high' = value' \div 256 BY <1>2, <1>3, <1>8
  <2>4. next' = "Dial" => value' = 0 /\ (stage' # "Dial" => commands' = 0) BY <1>3
  <2>5. stage' = "Dial" =>
          /\ next' = "Dial"
          /\ byte' = "high" => high' = 0 /\ low' <= DialDelay + 150 + Late'
    <3> HIDE DEF vl, vh
    <3> SUFFICES ASSUME stage = "Dial"
        PROVE  /\ next' = "Dial"
               /\ byte' = "high" => high' = 0 /\ low' <= DialDelay + 150 + Late'
      BY <1>3
    <3>1. then = "Dial" /\ v = 0 OBVIOUS
    <3>2. low <= DialDelay + 150 BY <1>1, TicksTypes DEF Dialling, DialDelay
    <3>. QED BY <1>1, <1>2, <1>3, <1>5, <1>7, <1>8, <3>1, <3>2, TicksTypes DEF DialDelay
  <2>. QED BY <2>1, <2>2, <2>3, <2>4, <2>5, Zenon DEF Setting
<1>11. Dialling' /\ Ahead' BY <1>3 DEF Dialling, Ahead
<1>. QED BY <1>9, <1>10, <1>11 DEF TicksInv

\* And the second half, which moves the byte that is left.
LEMMA FinishKept ==
  ASSUME TicksInv, FinishSetting
  PROVE  TicksInv'
<1>1. TicksTypeOK /\ Setting BY Zenon DEF TicksInv
<1>2. /\ pc = "write" /\ Store(Other(byte), value) /\ exact' = exact /\ commands' = commands
      /\ pc' = "run" /\ stage' = next /\ byte' = "low" /\ value' = 0 /\ next' = next
  BY Zenon DEF FinishSetting, Run
<1>3. ticked' = FALSE BY Zenon DEF FinishSetting, Run
<1>4. Late' = 0 BY <1>3, Zenon DEF Late
<1> DEFINE vl == value % 256
           vh == value \div 256
<1>5. /\ byte = "low" => high' = vh /\ low' = low
      /\ byte = "high" => low' = vl /\ high' = high
  BY <1>2 DEF Store, ByteOf, Other
<1>6. /\ value \in Settings /\ exact = value + Late
      /\ byte = "low" => low = vl + Late
      /\ byte = "high" => high = vh \/ (Late = 1 /\ high = vh + 1)
      /\ next = "Dial" => value = 0 /\ (stage # "Dial" => commands = 0)
      /\ stage = "Dial" => /\ next = "Dial"
                           /\ byte = "high" => high = 0
  BY <1>1, <1>2 DEF Setting
<1>7. /\ vl \in Int /\ 0 <= vl /\ vl <= 208 /\ vh \in Int /\ 0 <= vh /\ vh <= 11
      /\ value = 256 * vh + vl
  BY <1>6, SetBytes
<1>8. value = 0 => vl = 0 /\ vh = 0 BY BytesSet
<1> HIDE DEF vl, vh
<1>9. TicksTypeOK'
  <2>1. high' \in 0..255 /\ low' \in 0..255 BY <1>1, <1>5, <1>6, <1>7, TicksTypes
  <2>2. /\ stage' \in Stages /\ next' \in Stages /\ exact' \in Nat /\ commands' \in 0..2
    BY <1>1, <1>2, Zenon DEF TicksTypeOK
  <2>3. pc' \in {"run", "read", "write"} /\ byte' \in {"low", "high"} BY <1>2
  <2>4. value' \in Values BY <1>2 DEF Values
  <2>5. ticked' \in BOOLEAN BY <1>3, Zenon
  <2>. QED BY <2>1, <2>2, <2>3, <2>4, <2>5, TicksTyped, Zenon
<1>10. Setting' BY <1>2 DEF Setting
<1>11. Dialling'
  <2> SUFFICES ASSUME next = "Dial"
      PROVE  /\ low' <= exact /\ low' <= DialDelay + 149 + 0
             /\ commands > 0 => high' = 0
    BY <1>2, <1>4 DEF Dialling
  <2>1. value = 0 /\ vl = 0 /\ vh = 0 BY <1>6, <1>8
  <2>2. low' \in Int /\ low' <= exact /\ low' <= 1 /\ (byte = "low" => high' = 0)
    BY <1>1, <1>5, <1>6, <2>1, TicksTypes
  <2>3. (commands > 0 /\ byte = "high") => high' = 0
    BY <1>1, <1>5, <1>6, TicksTypes
  <2>. QED BY <1>1, <1>5, <2>2, <2>3, TicksTypes DEF DialDelay
<1>12. Ahead'
  <2>1. high' * 256 + low' <= exact + 255
    BY <1>1, <1>5, <1>6, <1>7, TicksTypes
  <2>. QED BY <1>2, <1>4, <2>1 DEF Ahead, SystemTicks
<1>. QED BY <1>9, <1>10, <1>11, <1>12 DEF TicksInv

\* A tick in the middle of a reading or of a setting is the only one, and it puts the counter
\* ahead by no more than a carry.
LEMMA TickKept ==
  ASSUME TicksInv, TIMER1_COMPA_vect
  PROVE  TicksInv'
<1>1. TicksTypeOK /\ Setting /\ Dialling /\ Ahead BY Zenon DEF TicksInv
<1>2. /\ low' = (low + 1) % 256
      /\ high' = IF low = 255 THEN (high + 1) % 256 ELSE high
      /\ exact' = exact + 1
      /\ stage' = stage /\ pc' = pc /\ byte' = byte /\ value' = value /\ next' = next
      /\ commands' = commands
  BY Zenon DEF TIMER1_COMPA_vect
<1>3. Late = 0
  <2>1. ~ticked BY Zenon DEF TIMER1_COMPA_vect
  <2>. QED BY <2>1, Zenon DEF Late
<1>4. pc = "run" => Late' = 0
  <2>1. pc = "run" => ~ticked' BY DEF TIMER1_COMPA_vect
  <2>. QED BY <2>1, Zenon DEF Late
<1>5. pc # "run" => Late' = 1
  <2>1. pc # "run" => ticked' BY DEF TIMER1_COMPA_vect
  <2>. QED BY <2>1, Zenon DEF Late
<1>6. /\ high \in Int /\ 0 <= high /\ high <= 255
      /\ low \in Int /\ 0 <= low /\ low <= 255
      /\ exact \in Int /\ 0 <= exact /\ value \in Int /\ 0 <= value
      /\ pc \in {"run", "read", "write"} /\ byte \in {"low", "high"}
  BY <1>1, TicksTypes
<1>7. /\ low < 255 => low' = low + 1 /\ high' = high
      /\ low = 255 => low' = 0 /\ (high < 255 => high' = high + 1) /\ (high = 255 => high' = 0)
  BY <1>2, <1>6
<1>8. TicksTypeOK'
  <2>1. high' \in 0..255 /\ low' \in 0..255 BY <1>6, <1>7
  <2>2. exact' \in Nat BY <1>2, <1>6
  <2>3. /\ stage' \in Stages /\ next' \in Stages /\ commands' \in 0..2 /\ value' \in Values
        /\ pc' \in {"run", "read", "write"} /\ byte' \in {"low", "high"}
    BY <1>1, <1>2, Zenon DEF TicksTypeOK
  <2>4. ticked' \in BOOLEAN
    <3>1. ticked' = (pc # "run") BY Zenon DEF TIMER1_COMPA_vect
    <3>. QED BY <3>1, Zenon
  <2>. QED BY <2>1, <2>2, <2>3, <2>4, TicksTyped, Zenon
<1>9. Setting'
  <2> DEFINE vl == value % 256
             vh == value \div 256
  <2> SUFFICES ASSUME pc = "write"
      PROVE  /\ value \in Settings /\ exact' = value + 1
             /\ byte = "low" => low' = vl + 1
             /\ byte = "high" => high' = vh \/ high' = vh + 1
             /\ next = "Dial" => value = 0 /\ (stage # "Dial" => commands = 0)
             /\ stage = "Dial" => /\ next = "Dial"
                                  /\ byte = "high" => high' = 0 /\ low' <= DialDelay + 150 + 1
    BY <1>2, <1>5 DEF Setting
  <2>1. /\ value \in Settings /\ exact = value
        /\ byte = "low" => low = vl
        /\ byte = "high" => high = vh
        /\ next = "Dial" => value = 0 /\ (stage # "Dial" => commands = 0)
        /\ stage = "Dial" => /\ next = "Dial"
                             /\ byte = "high" => high = 0 /\ low <= DialDelay + 150
    BY <1>1, <1>3, <1>6 DEF Setting, DialDelay
  <2>2. /\ vl \in Int /\ 0 <= vl /\ vl <= 208 /\ vh \in Int /\ 0 <= vh /\ vh <= 11
    BY <2>1, SetBytes
  <2> HIDE DEF vl, vh
  <2>. QED BY <1>2, <1>6, <1>7, <2>1, <2>2 DEF DialDelay
<1>10. Dialling'
  <2> SUFFICES ASSUME stage = "Dial", pc # "write"
      PROVE  Dialling'
    BY <1>2 DEF Dialling
  <2>1. /\ low <= exact /\ low <= DialDelay + 149
        /\ (pc = "read" /\ byte = "low") => low <= value
        /\ commands > 0 => /\ high = 0
                           /\ (pc = "read" /\ byte = "low") => value <= exact
                           /\ (pc = "read" /\ byte = "high") => value = 0
    BY <1>1, <1>3, <1>6 DEF Dialling, DialDelay
  <2>2. low' = low + 1 /\ high' = high BY <1>6, <1>7, <2>1 DEF DialDelay
  <2>3. pc = "run" => low' <= DialDelay + 149
    <3>1. pc = "run" => exact < Limit[stage] BY DEF TIMER1_COMPA_vect
    <3>2. Limit["Dial"] = DialDelay + MaxLate BY DEF Limit
    <3>. QED BY <1>6, <2>1, <2>2, <3>1, <3>2, TicksAssumption DEF DialDelay
  <2>4. pc = "read" => low' <= DialDelay + 149 + 1 BY <1>6, <2>1, <2>2 DEF DialDelay
  <2>5. low' <= exact' BY <1>2, <1>6, <2>1, <2>2
  <2>6. low' <= DialDelay + 149 + Late'
    BY <1>4, <1>5, <1>6, <2>2, <2>3, <2>4 DEF DialDelay
  <2>7. (pc = "read" /\ byte = "low") => low' <= value + Late' BY <1>5, <1>6, <2>1, <2>2
  <2>8. commands > 0 => /\ high' = 0
                        /\ (pc = "read" /\ byte = "low") => value <= exact'
                        /\ (pc = "read" /\ byte = "high") => value = 0
    BY <1>2, <1>6, <2>1, <2>2
  <2>. QED BY <1>2, <2>5, <2>6, <2>7, <2>8 DEF Dialling
<1>11. Ahead'
  <2>1. pc # "write" => high' * 256 + low' <= exact' + 255
    BY <1>1, <1>2, <1>6, <1>7 DEF Ahead, SystemTicks
  <2>2. (pc = "read" /\ byte = "low") => high' * 256 + value <= exact' + 510
    BY <1>1, <1>2, <1>3, <1>6, <1>7 DEF Ahead, SystemTicks, Reading
  <2>3. (pc = "read" /\ byte = "high") => value * 256 + low' <= exact' + 510
    BY <1>1, <1>2, <1>3, <1>6, <1>7 DEF Ahead, SystemTicks, Reading
  <2>4. pc = "read" => value <= 255 BY <1>1 DEF Ahead
  <2>5. pc = "read" => Reading' <= exact' + 510
    BY <1>2, <1>6, <2>2, <2>3 DEF Reading
  <2>. QED BY <1>2, <1>4, <1>5, <1>6, <2>1, <2>4, <2>5 DEF Ahead, SystemTicks
<1>. QED BY <1>8, <1>9, <1>10, <1>11 DEF TicksInv

\* Beginning a reading takes one byte as it is.
LEMMA BeginReadingKept ==
  ASSUME TicksInv, BeginReading
  PROVE  TicksInv'
<1>1. TicksTypeOK /\ Dialling /\ Ahead BY Zenon DEF TicksInv
<1>2. PICK b \in {"low", "high"} : byte' = b /\ value' = ByteOf(SystemTicks, b)
  BY Zenon DEF BeginReading
<1>3. /\ pc = "run" /\ pc' = "read" /\ high' = high /\ low' = low /\ stage' = stage
      /\ next' = next /\ exact' = exact /\ commands' = commands
  BY Zenon DEF BeginReading
<1>4. ticked' = FALSE BY Zenon DEF BeginReading
<1>5. Late' = 0 BY <1>4, Zenon DEF Late
<1>6. /\ high \in Int /\ 0 <= high /\ high <= 255
      /\ low \in Int /\ 0 <= low /\ low <= 255
      /\ exact \in Int /\ 0 <= exact
  BY <1>1, TicksTypes
<1>7. SystemTicks % 256 = low /\ SystemTicks \div 256 = high BY <1>6 DEF SystemTicks
<1>8. value' = IF b = "low" THEN low ELSE high BY <1>2, <1>7 DEF ByteOf
<1>9. Late = 0 /\ SystemTicks <= exact + 255 BY <1>1, <1>3 DEF Ahead
<1>10. TicksTypeOK'
  <2>1. /\ high' \in 0..255 /\ low' \in 0..255 /\ stage' \in Stages /\ next' \in Stages
        /\ exact' \in Nat /\ commands' \in 0..2 /\ byte' \in {"low", "high"}
    BY <1>1, <1>2, <1>3, Zenon DEF TicksTypeOK
  <2>2. pc' \in {"run", "read", "write"} BY <1>3
  <2>3. value' \in Values BY <1>6, <1>8 DEF Values
  <2>4. ticked' \in BOOLEAN BY <1>4, Zenon
  <2>. QED BY <2>1, <2>2, <2>3, <2>4, TicksTyped, Zenon
<1>11. Setting' BY <1>3 DEF Setting
<1>12. Dialling'
  <2> SUFFICES ASSUME stage = "Dial"
      PROVE  Dialling'
    BY <1>3 DEF Dialling
  <2>1. /\ low <= exact /\ low <= DialDelay + 149
        /\ commands > 0 => high = 0
    BY <1>1, <1>3, <1>6, <1>9 DEF Dialling, DialDelay
  <2>2. /\ low' <= exact' /\ low' <= DialDelay + 149 + Late'
        /\ byte' = "low" => low' <= value' + Late'
        /\ commands' > 0 => /\ high' = 0
                            /\ byte' = "low" => value' <= exact'
                            /\ byte' = "high" => value' = 0
    BY <1>2, <1>3, <1>5, <1>6, <1>8, <2>1 DEF DialDelay
  <2>. QED BY <2>2 DEF Dialling
<1>13. Ahead'
  <2>1. Reading' = SystemTicks' BY <1>2, <1>3, <1>8 DEF Reading, SystemTicks
  <2>2. SystemTicks' = SystemTicks /\ SystemTicks \in Int BY <1>3, <1>6 DEF SystemTicks
  <2>3. value' <= 255 BY <1>6, <1>8
  <2>. QED BY <1>3, <1>5, <1>6, <1>9, <2>1, <2>2, <2>3 DEF Ahead
<1>. QED BY <1>10, <1>11, <1>12, <1>13 DEF TicksInv

\* Every step of the interrupt and of the main loop keeps it.
LEMMA TicksKept == TicksInv /\ [TicksNext]_ticksVars => TicksInv'
<1> SUFFICES ASSUME TicksInv, [TicksNext]_ticksVars PROVE TicksInv'
  OBVIOUS
<1>1. TicksTypeOK /\ Dialling BY Zenon DEF TicksInv
<1>2. /\ 0 \in Settings /\ 2000 \in Settings /\ 3001 \in Settings BY DEF Settings
<1>3. commands \in 0..2 BY <1>1, Zenon DEF TicksTypeOK
<1>4. Above => pc # "write" BY DEF Above
<1>5. CASE TIMER1_COMPA_vect BY <1>5, TickKept
<1>6. CASE FinishSetting BY <1>6, FinishKept
<1>7. CASE BeginReading BY <1>7, BeginReadingKept
<1>8. CASE NotYet
  <2>1. /\ pc = "read" /\ ~Above /\ Run(stage) /\ UNCHANGED <<high, low, exact, commands>>
    BY <1>8, Zenon DEF NotYet
  <2>2. stage = "Dial" => low <= DialDelay + 149
    <3> SUFFICES ASSUME stage = "Dial" PROVE low <= DialDelay + 149
      OBVIOUS
    <3>1. ~(Reading > DialDelay) BY <2>1 DEF Above, Delay
    <3>2. /\ high \in Int /\ 0 <= high /\ low \in Int /\ 0 <= low /\ Late \in {0, 1}
          /\ byte \in {"low", "high"} /\ value \in Int /\ 0 <= value
      BY <1>1, TicksTypes
    <3>3. byte = "low" => low <= value + Late BY <1>1, <2>1 DEF Dialling
    <3>. QED BY <3>1, <3>2, <3>3 DEF Reading, DialDelay
  <2>3. stage \in Stages /\ pc # "write" BY <1>1, <2>1, TicksTypes
  <2>. QED BY <2>1, <2>2, <2>3, RunKept
<1>9. CASE Idle
  <2>1. pc = "run" /\ stage = "Idle" /\ Set(0, "Dial") /\ commands' = 0
    BY <1>9, Zenon DEF Idle
  <2>2. commands' \in 0..2 BY <2>1
  <2>. QED BY <1>2, <2>1, <2>2, SetKept DEF Stages
<1>10. CASE SendCommand
  <2>1. /\ stage = "Dial" /\ Above /\ Set(0, "Dial")
        /\ commands' = IF commands < 2 THEN commands + 1 ELSE 2
    BY <1>10, Zenon DEF SendCommand
  <2>2. commands' \in 0..2 BY <1>3, <2>1
  <2>. QED BY <1>2, <1>4, <2>1, <2>2, SetKept DEF Stages
<1>11. CASE FinishDialling
  <2>1. Above /\ Run("WaitForLink") /\ UNCHANGED <<high, low, exact, commands>>
    BY <1>11, Zenon DEF FinishDialling
  <2>. QED BY <1>4, <2>1, RunKept DEF Stages
<1>12. CASE TCPIP_InitializeTCPStack
  <2>1. /\ pc = "run" /\ stage = "WaitForLink" /\ Set(2000, "Connect")
        /\ commands' = commands
    BY <1>12 DEF TCPIP_InitializeTCPStack
  <2>. QED BY <1>2, <1>3, <2>1, SetKept DEF Stages
<1>13. CASE TCPIP_ConnectToRemoteHost
  <2>1. /\ stage = "Connect" /\ Above /\ commands' = commands
        /\ Set(0, "Connect") \/ Set(0, "Connected")
    BY <1>13, Zenon DEF TCPIP_ConnectToRemoteHost
  <2>2. CASE Set(0, "Connect") BY <1>2, <1>3, <1>4, <2>1, <2>2, SetKept DEF Stages
  <2>3. CASE Set(0, "Connected") BY <1>2, <1>3, <1>4, <2>1, <2>3, SetKept DEF Stages
  <2>. QED BY <2>1, <2>2, <2>3
<1>14. CASE Connected
  <2>1. pc = "run" /\ stage = "Connected" /\ Set(3001, "Manage") /\ commands' = commands
    BY <1>14 DEF Connected
  <2>. QED BY <1>2, <1>3, <2>1, SetKept DEF Stages
<1>15. CASE SendGET
  <2>1. stage = "Manage" /\ Above /\ Set(0, "Manage") /\ commands' = commands
    BY <1>15, Zenon DEF SendGET
  <2>. QED BY <1>2, <1>3, <1>4, <2>1, SetKept DEF Stages
<1>16. CASE Reconnect
  <2>1. pc = "run" /\ Run("Connect") /\ UNCHANGED <<high, low, exact, commands>>
    BY <1>16, Zenon DEF Reconnect
  <2>. QED BY <2>1, RunKept DEF Stages
<1>17. CASE EVENT_USB_Host_DeviceUnattached
  <2>1. pc = "run" /\ Run("Idle") /\ UNCHANGED <<high, low, exact, commands>>
    BY <1>17, Zenon DEF EVENT_USB_Host_DeviceUnattached
  <2>. QED BY <2>1, RunKept DEF Stages
<1>18. CASE UNCHANGED ticksVars
  <2>1. /\ high' = high /\ low' = low /\ stage' = stage /\ pc' = pc
        /\ byte' = byte /\ value' = value /\ next' = next
        /\ exact' = exact /\ commands' = commands
    BY <1>18, Zenon DEF ticksVars
  <2>2. ticked' = ticked BY <1>18, Zenon DEF ticksVars
  <2>3. Late' = Late BY <2>2, Zenon DEF Late
  <2>4. TicksTypeOK' BY <1>1, <2>1, <2>2, Zenon DEF TicksTypeOK
  <2>5. Setting /\ Ahead BY Zenon DEF TicksInv
  <2>6. Setting' BY <2>1, <2>3, <2>5, Zenon DEF Setting
  <2>7. Dialling' BY <1>1, <2>1, <2>3, Zenon DEF Dialling
  <2>8. SystemTicks' = SystemTicks /\ Reading' = Reading
    BY <2>1, Zenon DEF SystemTicks, Reading
  <2>9. Ahead' BY <2>1, <2>3, <2>5, <2>8, Zenon DEF Ahead
  <2>. QED BY <2>4, <2>6, <2>7, <2>9 DEF TicksInv
<1>. QED
  BY <1>5, <1>6, <1>7, <1>8, <1>9, <1>10, <1>11, <1>12, <1>13, <1>14, <1>15, <1>16, <1>17,
     <1>18, Zenon
  DEF TicksNext

\* The invariant of the counter holds when the program starts.
LEMMA TicksBegin == TicksInit => TicksInv
<1> SUFFICES ASSUME TicksInit PROVE TicksInv
  OBVIOUS
<1>1. /\ high = 0 /\ low = 0 /\ stage = "Idle" /\ pc = "run" /\ byte = "low" /\ value = 0
      /\ next = "Idle" /\ exact = 0 /\ commands = 0
  BY Zenon DEF TicksInit
<1>2. ticked = FALSE BY Zenon DEF TicksInit
<1>3. Late = 0 BY <1>2, Zenon DEF Late
<1>4. TicksTypeOK
  <2>1. /\ high \in 0..255 /\ low \in 0..255 /\ stage \in Stages /\ next \in Stages
        /\ pc \in {"run", "read", "write"} /\ byte \in {"low", "high"}
        /\ value \in Values /\ exact \in Nat /\ commands \in 0..2
    BY <1>1 DEF Stages, Values
  <2>2. ticked \in BOOLEAN BY <1>2, Zenon
  <2>. QED BY <2>1, <2>2, Zenon DEF TicksTypeOK
<1>5. Setting /\ Dialling /\ Ahead
  BY <1>1, <1>3 DEF Setting, Dialling, Ahead, SystemTicks
<1>. QED BY <1>4, <1>5 DEF TicksInv

\* What a step lets through has been waited for.
LEMMA TicksSpacing ==
  ASSUME TicksInv, [TicksNext]_ticksVars, NEW s \in {"Dial", "Connect", "Manage"}, Passes(s)
  PROVE  /\ s = "Dial" /\ commands > 0 => exact > DialDelay
         /\ s \in {"Connect", "Manage"} => exact > Delay[s] - 511
<1>1. stage = s /\ pc = "read" /\ pc' = "write" BY DEF Passes
<1>2. Above
  <2>1. pc # pc' /\ pc # "run" /\ pc # "write" BY <1>1
  <2>2. TicksNext BY <2>1 DEF ticksVars
  <2>. QED
    BY <1>1, <2>2
    DEF TicksNext, TIMER1_COMPA_vect, FinishSetting, BeginReading, NotYet, Run, Idle,
        SendCommand, FinishDialling, TCPIP_InitializeTCPStack, TCPIP_ConnectToRemoteHost,
        Connected, SendGET, Reconnect, EVENT_USB_Host_DeviceUnattached
<1>3. Reading > Delay[s] BY <1>1, <1>2, Zenon DEF Above
<1>4. TicksTypeOK /\ Dialling /\ Ahead BY Zenon DEF TicksInv
<1>5. /\ high \in Int /\ 0 <= high /\ low \in Int /\ 0 <= low /\ Late \in {0, 1}
      /\ byte \in {"low", "high"} /\ value \in Int /\ 0 <= value /\ exact \in Int
  BY <1>4, TicksTypes
<1>6. Delay["Dial"] = 100 /\ Delay["Connect"] = 1000 /\ Delay["Manage"] = 3000
  BY DEF Delay, DialDelay, ConnectDelay, GetDelay
<1>7. Reading \in Int BY <1>5 DEF Reading
<1>8. (s = "Dial" /\ commands > 0) => exact > DialDelay
  <2> SUFFICES ASSUME s = "Dial", commands > 0 PROVE exact > DialDelay
    OBVIOUS
  <2>1. /\ low <= exact /\ high = 0
        /\ byte = "low" => value <= exact
        /\ byte = "high" => value = 0
    BY <1>1, <1>4 DEF Dialling
  <2>. QED BY <1>3, <1>5, <1>6, <2>1 DEF Reading, DialDelay
<1>9. s \in {"Connect", "Manage"} => exact > Delay[s] - 511
  <2>1. Reading <= exact + 510 BY <1>1, <1>4, <1>5, <1>7 DEF Ahead
  <2>. QED BY <1>3, <1>5, <1>6, <1>7, <2>1
<1>. QED BY <1>8, <1>9

\* The counter's part of a behaviour of Registers is a behaviour of the counter alone.
LEMMA TicksRun == Spec => TicksSpec
<1>1. Init => TicksInit BY DEF Init
<1>2. [Next]_vars => [TicksNext]_ticksVars
  BY DEF vars, Next, RunTimers, RunSequenceNumbers, RunRoundTrip, RunSystemTicks
<1>. QED BY <1>1, <1>2, PTL DEF Spec, TicksSpec

\* The invariant of the counter holds in every reachable state.
LEMMA TicksInvariant == TicksSpec => []TicksInv
BY TicksBegin, TicksKept, PTL DEF TicksSpec

\* Two commands of the dialler to the modem are a second apart, and an attempt to connect or a
\* request comes early by less than two carries, wherever the ticks fall between the bytes
\* that the main loop moves and however long it waits (LinkManagement_DialConnection,
\* TCPIP_ConnectToRemoteHost, TCPIP_TCPCallback), as long as it is late with a comparison by
\* less than a second and a half.
THEOREM CommandsSpaced == Spec => Spaced
<1>1. TicksInv /\ [TicksNext]_ticksVars
        => [/\ Passes("Dial") /\ commands > 0 => exact > DialDelay
            /\ \A s \in {"Connect", "Manage"} : Passes(s) => exact > Delay[s] - 511]_ticksVars
  <2> SUFFICES ASSUME TicksInv, [TicksNext]_ticksVars
      PROVE  /\ Passes("Dial") /\ commands > 0 => exact > DialDelay
             /\ \A s \in {"Connect", "Manage"} : Passes(s) => exact > Delay[s] - 511
    OBVIOUS
  <2>1. Passes("Dial") /\ commands > 0 => exact > DialDelay BY TicksSpacing
  <2>2. ASSUME NEW s \in {"Connect", "Manage"}, Passes(s)
        PROVE  exact > Delay[s] - 511
    BY <2>2, TicksSpacing
  <2>. QED BY <2>1, <2>2
<1>. QED BY <1>1, TicksRun, TicksInvariant, PTL DEF TicksSpec, Spaced

----------------------------------------------------------------------------
(* All the registers *)

\* No register leaves its width: the readings of the clock, the bytes of TCP's sequence
\* numbers, the registers of a connection and the bytes of the counter of ticks keep to
\* theirs, for any first times and numbers, any lengths, delays and lateness.
THEOREM TypeCorrect == Spec => []TypeOK
<1>1. Spec => TimersSpec
  <2>1. Init => TimersInit BY DEF Init
  <2>2. [Next]_vars => [TimersNext]_timersVars
    BY DEF vars, Next, RunTimers, RunSequenceNumbers, RunRoundTrip, RunSystemTicks
  <2>. QED BY <2>1, <2>2, PTL DEF Spec, TimersSpec
<1>2. Spec => SequenceSpec
  <2>1. Init => SequenceInit BY DEF Init
  <2>2. [Next]_vars => [SequenceNext]_sequenceVars
    BY DEF vars, Next, RunTimers, RunSequenceNumbers, RunRoundTrip, RunSystemTicks
  <2>. QED BY <2>1, <2>2, PTL DEF Spec, SequenceSpec
<1>3. RoundTripInv => RoundTripTypeOK BY Zenon DEF RoundTripInv
<1>4. TicksInv => TicksTypeOK BY Zenon DEF TicksInv
<1>5. TimersTypeOK /\ SequenceTypeOK /\ RoundTripTypeOK /\ TicksTypeOK => TypeOK
  BY Zenon DEF TypeOK
<1>. QED
  BY <1>1, <1>2, <1>3, <1>4, <1>5, TimersTypeCorrect, SequenceTypeCorrect, RoundTripRuns,
     RoundTripInvariant, TicksRun, TicksInvariant, PTL
=============================================================================
