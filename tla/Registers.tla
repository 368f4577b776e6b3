------------------------------- MODULE Registers -------------------------------
(***************************************************************************)
(* The counts that this program keeps in registers narrower than what they *)
(* count, or that it does not move at once: the 10 ms clock under uIP's    *)
(* periodic timer (Timers), TCP's sequence numbers (SequenceNumbers), the  *)
(* retransmission timer with its estimator (RoundTrip), and the tick       *)
(* counter of the main loop (SystemTicks).                                 *)
(*                                                                         *)
(* The four share no variable, so what one does says nothing about         *)
(* another: a behaviour is one of the first part's, of the second's and so *)
(* on, while the other parts rest in their first state.                    *)
(***************************************************************************)
EXTENDS Timers, SequenceNumbers, RoundTrip, SystemTicks

VARIABLE part   \* the one that runs

vars == <<part, timersVars, sequenceVars, roundTripVars, ticksVars>>

Parts == {"Timers", "SequenceNumbers", "RoundTrip", "SystemTicks"}

Init ==
  /\ part \in Parts
  /\ TimersInit /\ SequenceInit /\ RoundTripInit /\ TicksInit
  /\ part # "Timers" => now = CHOOSE t \in FirstTimes : TRUE
  /\ part # "SequenceNumbers" => first = [k \in 1..4 |-> CHOOSE b \in FirstBytes : TRUE]

RunTimers ==
  /\ part = "Timers"
  /\ TimersNext /\ TimersBounded'
  /\ UNCHANGED <<part, sequenceVars, roundTripVars, ticksVars>>

RunSequenceNumbers ==
  /\ part = "SequenceNumbers"
  /\ SequenceNext /\ SequenceBounded'
  /\ UNCHANGED <<part, timersVars, roundTripVars, ticksVars>>

RunRoundTrip ==
  /\ part = "RoundTrip"
  /\ RoundTripNext
  /\ UNCHANGED <<part, timersVars, sequenceVars, ticksVars>>

RunSystemTicks ==
  /\ part = "SystemTicks"
  /\ TicksNext
  /\ UNCHANGED <<part, timersVars, sequenceVars, roundTripVars>>

Next == RunTimers \/ RunSequenceNumbers \/ RunRoundTrip \/ RunSystemTicks

Spec == Init /\ [][Next]_vars

----------------------------------------------------------------------------
(* Properties *)

\* No register leaves its width, whatever is counted in it.
TypeOK == TimersTypeOK /\ SequenceTypeOK /\ RoundTripTypeOK /\ TicksTypeOK
=============================================================================
