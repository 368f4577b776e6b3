------------------------------ MODULE RoundTrip ------------------------------
(***************************************************************************)
(* The retransmission timer of one connection of uIP                       *)
(* (src/uIP-Contiki/uip.c) with its registers as wide as they are: timer,  *)
(* rto, sa, sv and nrtx are bytes, and the estimator reckons in a signed   *)
(* char.  Module TCP leaves the estimator's result open (Rtos); here it is *)
(* computed, beside Van Jacobson's for integers that do not wrap, fed with *)
(* the periods that have really gone by.                                   *)
(*                                                                         *)
(* The application has at most one segment outstanding.  The peer takes at *)
(* most MaxDelay periods to acknowledge one it gets the first time.        *)
(*                                                                         *)
(* A definition named Mutant... is the next one with a plausible mistake:  *)
(* the properties below are broken when it takes its place.                *)
(***************************************************************************)
EXTENDS Integers

CONSTANTS
  UIP_RTO,         \* first retransmission timeout, in periods: 3
  UIP_MAXRTX,      \* retransmissions before giving up: 8
  UIP_MAXSYNRTX,   \* the same for a SYN: 5
  MaxDelay,        \* bound: periods an acknowledgement takes
  MaxMeanwhile     \* bound: segments of the peer's data while ours is outstanding

ASSUME RoundTripAssumption ==
  /\ UIP_RTO \in 1..15     \* UIP_RTO << 4 is kept in a byte
  /\ UIP_MAXRTX \in 1..254 /\ UIP_MAXSYNRTX \in 1..254
  /\ MaxDelay \in Nat
  /\ MaxMeanwhile \in Nat

Bytes == 0..255
AsByte(n) == n % 256
SignedChar(n) == ((n + 128) % 256) - 128
Magnitude(n) == IF n < 0 THEN -n ELSE n

VARIABLES
  conn,        \* the connection's registers
  waited,      \* periods since the outstanding segment was first sent
  rexmitted,   \* it has been sent again
  meanwhile,   \* segments of the peer's that came while ours was outstanding
  ideal        \* the estimator without its widths; not followed after one of them

roundTripVars == <<conn, waited, rexmitted, meanwhile, ideal>>

Established == conn.tcpstate = "ESTABLISHED"
uip_outstanding == conn.len > 0

----------------------------------------------------------------------------
(* The estimator *)


Estimate(c) ==
  LET m1 == SignedChar(SignedChar(c.rto - c.timer) - (c.sa \div 8))
      m2 == SignedChar(SignedChar(Magnitude(m1)) - (c.sv \div 4))
      sa == AsByte(c.sa + m1)
      sv == AsByte(c.sv + m2)
  IN  [c EXCEPT !.sa = sa, !.sv = sv, !.rto = AsByte((sa \div 8) + sv)]

\* Congestion Avoidance and Control, appendix A
VanJacobson(e, sample) ==
  LET err == sample - (e.sa \div 8)
  IN  [sa |-> e.sa + err, sv |-> e.sv + Magnitude(err) - (e.sv \div 4)]

----------------------------------------------------------------------------
(* The steps *)

\* uip_connect: the SYN is outstanding before it is sent
uip_connect ==
  [tcpstate |-> "SYN_SENT", len |-> 1, nrtx |-> 0, timer |-> 1, rto |-> UIP_RTO,
   sa |-> 0, sv |-> 16]

Connect ==
  /\ conn.tcpstate = "CLOSED"
  /\ conn' = uip_connect
  /\ waited' = 0 /\ rexmitted' = FALSE
  /\ ideal' = [sa |-> 0, sv |-> 16]
  /\ UNCHANGED meanwhile

\* The callback has a request to send
Send ==
  /\ Established /\ ~uip_outstanding
  /\ conn' = [conn EXCEPT !.len = 1, !.nrtx = 0]
  /\ waited' = 0 /\ rexmitted' = FALSE
  /\ UNCHANGED <<meanwhile, ideal>>

\* A period in which the timer has not run out
Count ==
  /\ uip_outstanding /\ conn.timer > 0
  /\ conn' = [conn EXCEPT !.timer = @ - 1]
  /\ waited' = IF rexmitted \/ ~Established THEN 0 ELSE waited + 1
  /\ UNCHANGED <<rexmitted, meanwhile, ideal>>

GivenUp(c) ==
  \/ c.nrtx = UIP_MAXRTX
  \/ c.tcpstate = "SYN_SENT" /\ c.nrtx = UIP_MAXSYNRTX

MutantBackoff(nrtx) == AsByte(UIP_RTO * 2 ^ nrtx)   \* without a limit
Backoff(nrtx) == AsByte(UIP_RTO * 2 ^ (IF nrtx > 4 THEN 4 ELSE nrtx))

Retransmit ==
  /\ uip_outstanding /\ conn.timer = 0
  /\ ~GivenUp(conn)
  /\ conn' = [conn EXCEPT !.timer = Backoff(conn.nrtx), !.nrtx = AsByte(@ + 1)]
  /\ rexmitted' = (Established \/ conn.nrtx > 0)
  /\ waited' = 0
  /\ UNCHANGED <<meanwhile, ideal>>

TimeOut ==
  /\ uip_outstanding /\ conn.timer = 0
  /\ GivenUp(conn)
  /\ conn' = [conn EXCEPT !.tcpstate = "CLOSED", !.len = 0, !.timer = 0]
  /\ waited' = 0 /\ rexmitted' = FALSE
  /\ UNCHANGED <<meanwhile, ideal>>

\* An acknowledgement of what is outstanding: of a SYN after it has been sent
MutantAcknowledged(c) ==   \* the timer goes on from where it is
  [(IF c.nrtx = 0 THEN Estimate(c) ELSE c) EXCEPT !.len = 0, !.tcpstate = "ESTABLISHED"]
Acknowledged(c) ==
  LET e == IF c.nrtx = 0 THEN Estimate(c) ELSE c
  IN  [e EXCEPT !.timer = e.rto, !.len = 0, !.tcpstate = "ESTABLISHED"]

Acked ==
  /\ uip_outstanding
  /\ Established \/ conn.nrtx > 0
  /\ rexmitted \/ waited <= MaxDelay
  /\ conn' = Acknowledged(conn)
  /\ ideal' = IF Established /\ ~rexmitted /\ meanwhile = 0 THEN VanJacobson(ideal, waited)
              ELSE ideal
  /\ waited' = 0 /\ rexmitted' = FALSE
  /\ UNCHANGED meanwhile

\* Data of the peer's with an old acknowledgement: nrtx is cleared though nothing is new
Data ==
  /\ Established /\ uip_outstanding
  /\ meanwhile < MaxMeanwhile
  /\ conn' = [conn EXCEPT !.nrtx = 0]
  /\ meanwhile' = meanwhile + 1
  /\ ideal' = [sa |-> 0, sv |-> 16]
  /\ UNCHANGED <<waited, rexmitted>>

----------------------------------------------------------------------------
(* The specification *)

RoundTripInit ==
  /\ conn = uip_connect
  /\ waited = 0 /\ rexmitted = FALSE
  /\ meanwhile = 0
  /\ ideal = [sa |-> 0, sv |-> 16]

RoundTripNext == Connect \/ Send \/ Count \/ Retransmit \/ TimeOut \/ Acked \/ Data

RoundTripSpec == RoundTripInit /\ [][RoundTripNext]_roundTripVars

----------------------------------------------------------------------------
(* Properties *)

\* Every register is a byte, and between two segments the timer holds the timeout.
RoundTripTypeOK ==
  /\ conn \in [tcpstate : {"CLOSED", "SYN_SENT", "ESTABLISHED"}, len : {0, 1},
               nrtx : Bytes, timer : Bytes, rto : Bytes, sa : Bytes, sv : Bytes]
  /\ waited \in Bytes /\ rexmitted \in BOOLEAN
  /\ meanwhile \in 0..MaxMeanwhile
  /\ ideal \in [sa : Int, sv : Int]
  /\ Established /\ ~uip_outstanding => conn.timer = conn.rto

\* uip.c:1493: the estimator is Van Jacobson's.  No width makes it another one, and only
\* round trips of segments sent once count.
EstimateExact == meanwhile = 0 => conn.sa = ideal.sa /\ conn.sv = ideal.sv

\* What is outstanding is sent again within the timeout or the longest backoff, also when
\* data of the peer's clears nrtx and the round trip is measured from the wrong moment.
SentAgain == conn.timer <= conn.rto \/ conn.timer <= UIP_RTO * 16
=============================================================================
