---------------------------- MODULE SequenceNumbers ----------------------------
(***************************************************************************)
(* TCP's sequence numbers as uIP keeps them (src/uIP-Contiki/uip.c): four  *)
(* bytes, the highest first, to which 16 bits are added byte by byte with  *)
(* the carries found by comparison.  rcv_nxt moves on by what arrives,     *)
(* snd_nxt by what is acknowledged, iss by one with every call of the      *)
(* periodic timer.                                                         *)
(*                                                                         *)
(* A definition named Mutant... is the next one with a plausible mistake:  *)
(* the properties below are broken when it takes its place.                *)
(***************************************************************************)
EXTENDS Integers, Sequences

CONSTANTS
  FirstBytes,  \* the bytes of the numbers that rcv_nxt and iss begin with
  Lengths,     \* how much may be added at once
  MaxReceived, \* bound: how much is received in a behaviour
  MaxPeriods   \* bound: calls of the periodic timer

Byte == 0..255
Number == Byte \X Byte \X Byte \X Byte

ASSUME SequenceAssumption ==
  /\ FirstBytes \subseteq Byte
  /\ \A n \in Lengths : n \in Nat /\ n <= 65535
  /\ MaxReceived \in Nat /\ MaxPeriods \in Nat

VARIABLES
  rcv_nxt,
  iss,
  first,     \* history: where rcv_nxt and iss began
  received,  \* history: the sum of what was added to rcv_nxt
  periods    \* history: the number of calls of uip_periodic

sequenceVars == <<rcv_nxt, iss, first, received, periods>>

----------------------------------------------------------------------------
Wrapped(n)  == n % 256
HighByte(n) == n \div 256

\* A byte to which n has been added has gone round if it is below n; one that has been
\* incremented, if it is 0, which is the same.
Carry(byte, n) == IF byte < n THEN 1 ELSE 0

MutantUipAdd32(op, n) ==   \* the carry goes no further than the next byte
  LET b4 == Wrapped(op[4] + Wrapped(n))
      b3 == Wrapped(op[3] + HighByte(n))
  IN  <<op[1], Wrapped(op[2] + Carry(b3, HighByte(n))),
        Wrapped(b3 + Carry(b4, Wrapped(n))), b4>>
\* The bytes of n first, then the carry of the third byte, then the carry of the fourth
uip_add32(op, n) ==
  LET b4 == Wrapped(op[4] + Wrapped(n))
      b3 == Wrapped(op[3] + HighByte(n))
      c3 == Carry(b3, HighByte(n))
      b2 == Wrapped(op[2] + c3)
      b1 == Wrapped(op[1] + Carry(b2, c3))
      c4 == Carry(b4, Wrapped(n))
      d3 == Wrapped(b3 + c4)
      e3 == Carry(d3, c4)
      d2 == Wrapped(b2 + e3)
      d1 == Wrapped(b1 + Carry(d2, e3))
  IN  <<d1, d2, d3, b4>>

\* ++iss[3], and the byte above if it has become 0
Increment32(op) ==
  LET b4 == Wrapped(op[4] + 1)
      c4 == Carry(b4, 1)
      b3 == Wrapped(op[3] + c4)
      c3 == Carry(b3, c4)
      b2 == Wrapped(op[2] + c3)
      b1 == Wrapped(op[1] + Carry(b2, c3))
  IN  <<b1, b2, b3, b4>>

----------------------------------------------------------------------------
SequenceInit ==
  /\ first \in FirstBytes \X FirstBytes \X FirstBytes \X FirstBytes
  /\ rcv_nxt = first /\ iss = first
  /\ received = 0 /\ periods = 0

uip_add_rcv_nxt(n) ==
  /\ rcv_nxt' = uip_add32(rcv_nxt, n)
  /\ received' = received + n
  /\ UNCHANGED <<iss, first, periods>>

uip_periodic ==
  /\ iss' = Increment32(iss)
  /\ periods' = periods + 1
  /\ UNCHANGED <<rcv_nxt, first, received>>

SequenceNext == uip_periodic \/ \E n \in Lengths : uip_add_rcv_nxt(n)

SequenceSpec == SequenceInit /\ [][SequenceNext]_sequenceVars

\* For model checking
SequenceBounded == received <= MaxReceived /\ periods <= MaxPeriods

----------------------------------------------------------------------------
(* Properties *)

\* The number that four bytes stand for, and its distance from another; 2^32 is split in
\* two, as TLC's integers are too small for it.
High(op) == op[1] * 256 + op[2]
Low(op)  == op[3] * 256 + op[4]

\* `to' is `from' moved on by n modulo 2^32.
MovedOn(from, to, n) ==
  LET low == Low(from) + n
  IN  /\ Low(to) = low % 65536
      /\ High(to) = (High(from) + low \div 65536) % 65536

SequenceTypeOK ==
  /\ rcv_nxt \in Number /\ iss \in Number /\ first \in Number
  /\ received \in Nat /\ periods \in Nat

\* rcv_nxt has moved on by exactly what has been received, whatever carries there were, and
\* iss by the number of calls of uip_periodic (uip.c:240-265, 710-717): no initial number
\* comes again before the numbers go round.
NumbersCounted ==
  /\ MovedOn(first, rcv_nxt, received)
  /\ MovedOn(first, iss, periods)
=============================================================================
