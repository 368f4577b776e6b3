-------------------------------- MODULE Timers --------------------------------
(***************************************************************************)
(* The 10 ms clock (src/uIP-Contiki/clock.c), the timer over it            *)
(* (src/uIP-Contiki/timer.c) and its one use, Periodic_Timer, which paces  *)
(* uIP (src/TCPIP.c).                                                      *)
(*                                                                         *)
(* The clock has 16 bits and goes round in 11 minutes, a connection lasts  *)
(* for days, and the main loop may be late by many periods: an attempt to  *)
(* connect does not look at the timer.  What keeps the difference of two   *)
(* readings meaningful is that the loop is never late by a whole round.    *)
(*                                                                         *)
(* A definition named Mutant... is the next one with a plausible mistake:  *)
(* the properties below are broken when it takes its place.                *)
(***************************************************************************)
EXTENDS Integers

CONSTANTS
  MaxTicksLate,  \* ticks the main loop is late at most: the watchdog gives it 3 minutes
  FirstTimes,    \* ticks since the boot when TCP is initialised
  MaxTime        \* bound: how many ticks a behaviour lasts

ASSUME TimersAssumption ==
  /\ MaxTicksLate \in Nat /\ MaxTicksLate < 65536
  /\ FirstTimes \subseteq Nat
  /\ MaxTime \in Nat

CLOCK_SECOND == 100
Interval     == CLOCK_SECOND \div 2

VARIABLES
  clock_datetime,
  start,           \* of Periodic_Timer
  now,             \* history: ticks since the boot
  began,           \* history: the time that start stands for
  armed,           \* history: when the timer was set
  served           \* history: how many periods have been served since

timersVars == <<clock_datetime, start, now, began, armed, served>>

\* A clock_time_t
Readings == 0..65535
Clock(t) == t % 65536

MutantTimerReset == clock_datetime         \* timer_restart: from the current time
TimerReset == Clock(start + Interval)

TimerExpired == Clock(clock_datetime - start) >= Interval

----------------------------------------------------------------------------
TimersInit ==
  /\ now \in FirstTimes
  /\ clock_datetime = Clock(now)
  /\ start = clock_datetime
  /\ began = now /\ armed = now /\ served = 0

\* TIMER0_COMPA_vect
Tick ==
  /\ now - began < MaxTicksLate
  /\ now' = now + 1
  /\ clock_datetime' = Clock(clock_datetime + 1)
  /\ UNCHANGED <<start, began, armed, served>>

SetPeriodicTimer ==
  /\ start' = clock_datetime
  /\ began' = now /\ armed' = now /\ served' = 0
  /\ UNCHANGED <<clock_datetime, now>>

TCPIP_TCPIPTask ==
  /\ TimerExpired
  /\ start' = TimerReset
  /\ began' = began + Interval
  /\ served' = served + 1
  /\ UNCHANGED <<clock_datetime, now, armed>>

TimersNext == Tick \/ SetPeriodicTimer \/ TCPIP_TCPIPTask

TimersSpec == TimersInit /\ [][TimersNext]_timersVars

\* For model checking
TimersBounded == \E first \in FirstTimes : now - first \in 0..MaxTime

----------------------------------------------------------------------------
(* Properties *)

\* Readings of the clock and of the timer are those of the times they stand for.
TimersTypeOK ==
  /\ clock_datetime \in Readings /\ start \in Readings
  /\ now \in Nat /\ began \in armed..now /\ armed \in Nat /\ served \in Nat

\* The timer expires when the period is over, not before and not later, though the clock
\* has gone round since the period began.
ExpiredExact == TimerExpired <=> now - began >= Interval

\* However late the loop is, no period is lost or served twice: once it has caught up it
\* has served as many as have passed since the timer was set.
PeriodsCounted == ~TimerExpired => served = (now - armed) \div Interval
=============================================================================
