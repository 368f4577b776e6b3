------------------------------ MODULE SystemTicks ------------------------------
(***************************************************************************)
(* SystemTicks, the counter of 10 ms of src/USBModem.c: the interrupt of   *)
(* timer 1 counts it, the main loop compares it with a delay and sets it   *)
(* (src/LinkManagement.c, src/TCPIP.c).  It has two bytes and the machine  *)
(* moves one at a time, with interrupts on: a tick between the two moves   *)
(* leaves a byte of the old value beside one of the new.  The variable is  *)
(* not volatile and the order of the moves is the compiler's.              *)
(*                                                                         *)
(* The main loop is a reading or a setting at a time; at most one tick     *)
(* falls between two bytes, which are a few cycles apart.                  *)
(*                                                                         *)
(* A definition named Mutant... is the next one with a plausible mistake:  *)
(* the properties below are broken when it takes its place.                *)
(***************************************************************************)
EXTENDS Integers

CONSTANTS
  MaxLate,  \* ticks that the main loop is late with a comparison
  MaxWait   \* bound: ticks until the link or a connection is up, when nothing is compared

\* A loop so late that the dialler sets the counter back at 255 may send the next command
\* at once
ASSUME TicksAssumption ==
  /\ MaxLate \in Nat /\ MaxLate < 150
  /\ MaxWait \in Nat

\* "Connected" is the place between the two settings of TCPIP_ConnectToRemoteHost
Stages == {"Idle", "Dial", "WaitForLink", "Connect", "Connected", "Manage"}

\* A comparison lets its action through when the counter is above this
DialDelay    == 100
ConnectDelay == 1000
GetDelay     == 3000
Delay == [Dial |-> DialDelay, Connect |-> ConnectDelay, Manage |-> GetDelay]

VARIABLES
  high, low,   \* the bytes of SystemTicks
  stage,       \* ConnectedState
  pc,          \* "run", or in the middle of a "read" or a "write"
  ticked,      \* there has been a tick since
  byte,        \* which byte the main loop has moved
  value,       \* the byte it has read, or the value it is writing
  next,        \* the stage it goes on to
  exact,       \* history: what SystemTicks would be if it were moved at once
  commands     \* history: commands of the dialler since Idle, up to 2

ticksVars == <<high, low, stage, pc, ticked, byte, value, next, exact, commands>>

SystemTicks == high * 256 + low

TicksInit ==
  /\ high = 0 /\ low = 0
  /\ stage = "Idle" /\ pc = "run" /\ ticked = FALSE
  /\ byte = "low" /\ value = 0 /\ next = "Idle"
  /\ exact = 0 /\ commands = 0

----------------------------------------------------------------------------
(* The interrupt *)

Limit ==
  [Idle |-> GetDelay + MaxWait, Dial |-> DialDelay + MaxLate,
   WaitForLink |-> DialDelay + MaxWait, Connect |-> ConnectDelay + MaxLate,
   Connected |-> 2, Manage |-> GetDelay + MaxWait]

\* TIMER1_COMPA_vect
TIMER1_COMPA_vect ==
  /\ pc = "run" => exact < Limit[stage]
  /\ ~ticked
  /\ low' = (low + 1) % 256
  /\ high' = IF low = 255 THEN (high + 1) % 256 ELSE high
  /\ exact' = exact + 1
  /\ ticked' = (pc # "run")
  /\ UNCHANGED <<stage, pc, byte, value, next, commands>>

----------------------------------------------------------------------------
(* SystemTicks = v *)

MutantByteOf(v, b) == IF b = "low" THEN v ELSE v \div 256   \* not cut off
ByteOf(v, b) == IF b = "low" THEN v % 256 ELSE v \div 256
Other(b)     == IF b = "low" THEN "high" ELSE "low"

Store(b, v) ==
  IF b = "low" THEN low' = ByteOf(v, b) /\ UNCHANGED high
               ELSE high' = ByteOf(v, b) /\ UNCHANGED low

\* The main loop goes on; what the uses of the counter keep is nothing now
Run(then) ==
  /\ pc' = "run" /\ stage' = then
  /\ ticked' = FALSE /\ byte' = "low" /\ value' = 0 /\ next' = then

Set(v, then) ==
  /\ \E b \in {"low", "high"} : Store(b, v) /\ byte' = b
  /\ pc' = "write" /\ ticked' = FALSE
  /\ value' = v /\ next' = then
  /\ exact' = v
  /\ UNCHANGED stage

MutantFinishSetting ==   \* only one byte is set
  /\ pc = "write"
  /\ UNCHANGED <<high, low>>
  /\ Run(next)
  /\ UNCHANGED <<exact, commands>>
FinishSetting ==
  /\ pc = "write"
  /\ Store(Other(byte), value)
  /\ Run(next)
  /\ UNCHANGED <<exact, commands>>

----------------------------------------------------------------------------
(* SystemTicks > delay *)

BeginReading ==
  /\ pc = "run" /\ stage \in DOMAIN Delay
  /\ \E b \in {"low", "high"} : byte' = b /\ value' = ByteOf(SystemTicks, b)
  /\ pc' = "read" /\ ticked' = FALSE
  /\ UNCHANGED <<high, low, stage, next, exact, commands>>

Reading == IF byte = "low" THEN high * 256 + value ELSE value * 256 + low

Above == pc = "read" /\ Reading > Delay[stage]

NotYet ==
  /\ pc = "read" /\ ~Above
  /\ Run(stage)
  /\ UNCHANGED <<high, low, exact, commands>>

----------------------------------------------------------------------------
(* What the main loop does with it *)

Idle ==
  /\ pc = "run" /\ stage = "Idle"
  /\ Set(0, "Dial")
  /\ commands' = 0

\* LinkManagement_DialConnection
SendCommand ==
  /\ stage = "Dial" /\ Above
  /\ Set(0, "Dial")
  /\ commands' = IF commands < 2 THEN commands + 1 ELSE 2

FinishDialling ==
  /\ stage = "Dial" /\ Above
  /\ Run("WaitForLink")
  /\ UNCHANGED <<high, low, exact, commands>>

TCPIP_InitializeTCPStack ==
  /\ pc = "run" /\ stage = "WaitForLink"
  /\ Set(2000, "Connect")
  /\ UNCHANGED commands

\* The setting to 0 that TCPIP_Connect follows; if it succeeds there is another to 3001
TCPIP_ConnectToRemoteHost ==
  /\ stage = "Connect" /\ Above
  /\ \E then \in {"Connect", "Connected"} : Set(0, then)
  /\ UNCHANGED commands

Connected ==
  /\ pc = "run" /\ stage = "Connected"
  /\ Set(3001, "Manage")
  /\ UNCHANGED commands

\* The poll of TCPIP_TCPCallback
SendGET ==
  /\ stage = "Manage" /\ Above
  /\ Set(0, "Manage")
  /\ UNCHANGED commands

\* The end of a connection
Reconnect ==
  /\ pc = "run" /\ stage = "Manage"
  /\ Run("Connect")
  /\ UNCHANGED <<high, low, exact, commands>>

EVENT_USB_Host_DeviceUnattached ==
  /\ pc = "run" /\ stage # "Idle"
  /\ Run("Idle")
  /\ UNCHANGED <<high, low, exact, commands>>

TicksNext ==
  \/ TIMER1_COMPA_vect
  \/ FinishSetting \/ BeginReading \/ NotYet
  \/ Idle \/ SendCommand \/ FinishDialling
  \/ TCPIP_InitializeTCPStack \/ TCPIP_ConnectToRemoteHost \/ Connected
  \/ SendGET \/ Reconnect
  \/ EVENT_USB_Host_DeviceUnattached

TicksSpec == TicksInit /\ [][TicksNext]_ticksVars
----------------------------------------------------------------------------
(* Properties *)

Values == 0..3001   \* of what is read or set

TicksTypeOK ==
  /\ high \in 0..255 /\ low \in 0..255
  /\ stage \in Stages /\ next \in Stages /\ pc \in {"run", "read", "write"}
  /\ ticked \in BOOLEAN /\ byte \in {"low", "high"} /\ value \in Values
  /\ exact \in Nat /\ commands \in 0..2

\* What a comparison lets through
Passes(s) == stage = s /\ pc = "read" /\ pc' = "write"

\* Two commands to the modem are a second apart, wherever the ticks fall: neither a setting
\* nor a comparison of the dialler meets a carry if the main loop is in time.  An attempt to
\* connect and a request may come early by a carry of the setting and another of the
\* comparison, and by no more.
Spaced ==
  [][/\ Passes("Dial") /\ commands > 0 => exact > DialDelay
     /\ \A s \in {"Connect", "Manage"} : Passes(s) => exact > Delay[s] - 511]_ticksVars
=============================================================================
