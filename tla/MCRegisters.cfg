\* Timers: the clock goes round in one case of two, and so does twice the period; the loop is
\* late by up to two periods and a half.  SequenceNumbers: every byte at the edge of a carry
\* or not.  RoundTrip and SystemTicks: the values of the code.  The first two end at their
\* bounds, which is no deadlock of the program.
SPECIFICATION Spec
CONSTANTS
  MaxTicksLate = 125
  FirstTimes = {0, 32700, 65410}
  MaxTime = 300
  FirstBytes = {0, 1, 254, 255}
  Lengths = {4097, 20480, 65535}
  MaxReceived = 66000
  MaxPeriods = 3
  UIP_RTO = 3
  UIP_MAXRTX = 8
  UIP_MAXSYNRTX = 5
  MaxDelay = 8
  MaxMeanwhile = 1
  MaxLate = 80
  MaxWait = 300
CHECK_DEADLOCK FALSE
INVARIANTS
  TypeOK
  PeriodsCounted
  NumbersCounted
  EstimateExact
  

  
