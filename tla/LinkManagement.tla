---------------------------- MODULE LinkManagement ----------------------------
(***************************************************************************)
(* Link management (src/LinkManagement.c) in its surroundings: the main    *)
(* loop and the timer interrupts (src/USBModem.c), the unplugging of the   *)
(* modem (src/USBManagement.c), the dial command lists and the TCP states  *)
(* (src/TCPIP.c) that ConnectedState goes through.                         *)
(*                                                                         *)
(* ConnectedState is written by the main loop, by PPP, by uIP's callback   *)
(* and by the interrupt that sees the modem go.  The main loop reads it,   *)
(* works, and assigns the next state: the interrupt can come in between.   *)
(* `pending' is the value about to be assigned.                            *)
(*                                                                         *)
(* Data: an answer of the modem is one word, and so is all the peer sends  *)
(* in between two turns of the main loop.  PPP is seen through what it     *)
(* does to ConnectedState and PPP_Phase (module PPP has the rest).         *)
(***************************************************************************)
EXTENDS Integers, FiniteSets, Sequences

CONSTANTS
  COMMAND_SPACING,  \* LinkManagement.c: ticks to wait before a dial command
  CONNECT_SPACING,  \* TCPIP.c: ticks to wait before an attempt to connect
  WATCHDOG_LIMIT,   \* USBModem.c: periods of timer 3 without data: 23 in the code
  TIMER3_PERIOD,    \* ticks of timer 1 in a period of timer 3: 800 in the code
  MaxUnplugs,       \* bound: how often the modem goes away
  Patience          \* words under way to or from the modem when the next command is
                    \* due: at most this many less one; 1 is a prompt modem

ASSUME ConstantsAssumption ==
  /\ COMMAND_SPACING \in Nat /\ CONNECT_SPACING \in Nat
  /\ COMMAND_SPACING <= CONNECT_SPACING
  /\ WATCHDOG_LIMIT \in 1..255 /\ TIMER3_PERIOD \in Nat \ {0}
  /\ MaxUnplugs \in Nat /\ Patience \in Nat \ {0}

----------------------------------------------------------------------------
(* Types *)

Dialling   == {"SendModemDialCommands", "SendNetworkDialCommands"}
LinkStates == {"WaitForLink", "InitializeTCPStack", "ConnectToRemoteHost",
               "ManageTCPConnection"}
ConnectedStates == {"Idle"} \cup Dialling \cup LinkStates

Commands  == {"AT", "AT&F", "ATDT"}
Responses == {"OK", "CONNECT"}

\* Command, expected response, ..., NULL, NULL
ModemDialCommands   == <<"AT", "OK", "AT&F", "OK", "NULL", "NULL">>
NetworkDialCommands == <<"ATDT", "CONNECT", "NULL", "NULL">>

ListOf == [SendModemDialCommands   |-> ModemDialCommands,
           SendNetworkDialCommands |-> NetworkDialCommands]

\* SystemTicks counts far enough for every comparison with it
MaxTicks == CONNECT_SPACING + 1

VARIABLES
  ConnectedState,
  pending,              \* the assignment to ConnectedState the main loop is about to make
  DialSteps,
  ResponsePtr,
  SystemTicks,
  WatchdogTicks,
  Modem_SendBuffer,
  Modem_ReceiveBuffer,
  PPP_Phase,            \* "Dead" or not
  USB_HostState,
  modem,                \* external: commands to answer, answers to fetch, data mode
  loop,                 \* where the main loop is, and whether it went round since the last tick
  timer3,               \* ticks since the interrupt of timer 3
  tcp,                  \* uIP has a connection
  unplugs               \* how often the modem went away

vars == <<ConnectedState, pending, DialSteps, ResponsePtr, SystemTicks, WatchdogTicks,
          Modem_SendBuffer, Modem_ReceiveBuffer, PPP_Phase, USB_HostState, modem,
          loop, timer3, tcp, unplugs>>

statics == <<DialSteps, ResponsePtr, SystemTicks, Modem_SendBuffer, PPP_Phase>>
usb     == <<Modem_ReceiveBuffer, USB_HostState, modem>>

FreshModem == [commands |-> <<>>, answers |-> <<>>, initialised |-> FALSE, online |-> FALSE]
Configured == USB_HostState = "Configured"

----------------------------------------------------------------------------
(* The main loop: LinkManagement_ManageConnectionState, the assignment that *)
(* ends it, USBManagement_ManageUSBState                                    *)

\* What the handler does last: assign the next state, or nothing
EndWith(state) ==
  /\ pending' = state
  /\ loop' = [loop EXCEPT !.at = IF state = "none" THEN "usb" ELSE "assign"]

MutantPPPLeftRunning ==
  /\ loop.at = "link" /\ ConnectedState = "Idle"
  /\ SystemTicks' = 0
  /\ DialSteps' = 0
  /\ EndWith("SendModemDialCommands")
  /\ UNCHANGED <<ConnectedState, ResponsePtr, PPP_Phase, WatchdogTicks, Modem_SendBuffer, usb,
                 timer3, unplugs, tcp>>
Idle ==
  /\ loop.at = "link" /\ ConnectedState = "Idle"
  /\ SystemTicks' = 0
  /\ DialSteps' = 0
  /\ PPP_Phase' = "Dead"                                       \* PPP_InitPPP
  /\ EndWith("SendModemDialCommands")
  /\ UNCHANGED <<ConnectedState, ResponsePtr, WatchdogTicks, Modem_SendBuffer, usb,
                 timer3, unplugs, tcp>>

\* The response matching loop: how many of the words read move DialSteps on
Matches ==
  IF ResponsePtr = "NULL" THEN 0..Len(Modem_ReceiveBuffer)     \* undefined: *NULL is read
  ELSE {Cardinality({i \in DOMAIN Modem_ReceiveBuffer : Modem_ReceiveBuffer[i] = ResponsePtr})}

MutantOneStep(k) == (DialSteps + k) % 256
StepsAfter(k) == (DialSteps + 2 * k) % 256

\* DialCommands[i]; past the end of the array, any word
WordAt(list, i) ==
  IF i < Len(list) THEN {list[i + 1]} ELSE Commands \cup Responses \cup {"NULL"}

MutantUnpaced(list, steps) ==   \* without waiting a second
  /\ \E command \in WordAt(list, steps), response \in WordAt(list, steps + 1) :
       /\ ResponsePtr' = response
       /\ command # "NULL" /\ response # "NULL"
       /\ Modem_SendBuffer' = Append(Modem_SendBuffer, command)
  /\ DialSteps' = steps
  /\ SystemTicks' = 0
SendCommand(list, steps) ==
  /\ SystemTicks > COMMAND_SPACING
  /\ \E command \in WordAt(list, steps), response \in WordAt(list, steps + 1) :
       /\ ResponsePtr' = response
       /\ command # "NULL" /\ response # "NULL"
       /\ Modem_SendBuffer' = Append(Modem_SendBuffer, command)
  /\ DialSteps' = steps
  /\ SystemTicks' = 0

MutantStepsKept(list, steps) ==
  /\ SystemTicks > COMMAND_SPACING
  /\ \E command \in WordAt(list, steps), response \in WordAt(list, steps + 1) :
       /\ ResponsePtr' = response
       /\ command = "NULL" \/ response = "NULL"
  /\ DialSteps' = steps
  /\ UNCHANGED <<SystemTicks, Modem_SendBuffer>>
\* The list has come to its end: the caller assigns the next state
FinishDialling(list, steps) ==
  /\ SystemTicks > COMMAND_SPACING
  /\ \E command \in WordAt(list, steps), response \in WordAt(list, steps + 1) :
       /\ ResponsePtr' = response
       /\ command = "NULL" \/ response = "NULL"
  /\ DialSteps' = 0
  /\ UNCHANGED <<SystemTicks, Modem_SendBuffer>>

WaitForSpacing(steps) ==
  /\ SystemTicks <= COMMAND_SPACING
  /\ DialSteps' = steps
  /\ UNCHANGED <<ResponsePtr, SystemTicks, Modem_SendBuffer>>

\* Dialling a list is over: the next list, or PPP_StartLink and the link
AfterDialling ==
  IF ConnectedState = "SendModemDialCommands"
  THEN EndWith("SendNetworkDialCommands") /\ UNCHANGED PPP_Phase
  ELSE EndWith("WaitForLink") /\ PPP_Phase' = "Running"

LinkManagement_DialConnection ==
  /\ loop.at = "link" /\ ConnectedState \in Dialling
  /\ IF ~Configured
     THEN EndWith("none") /\ UNCHANGED <<statics, Modem_ReceiveBuffer>>
     ELSE /\ Modem_ReceiveBuffer' = <<>>
          /\ \E k \in Matches :
               LET list  == ListOf[ConnectedState]
                   steps == StepsAfter(k)
               IN  \/ SendCommand(list, steps) /\ EndWith("none") /\ UNCHANGED PPP_Phase
                   \/ FinishDialling(list, steps) /\ AfterDialling
                   \/ WaitForSpacing(steps) /\ EndWith("none") /\ UNCHANGED PPP_Phase
  /\ UNCHANGED <<ConnectedState, WatchdogTicks, USB_HostState, modem, timer3, unplugs, tcp>>

MutantWatchdogFed(next, watchdog) ==
  \/ next = "none" /\ watchdog = 0
  \/ modem.online /\ next = "InitializeTCPStack" /\ watchdog = 0
  \/ modem.online /\ tcp /\ next = "none" /\ watchdog = 0
  \/ /\ modem.online /\ tcp /\ next = "ConnectToRemoteHost"
     /\ watchdog = 0
(* PPP_ManageLink, in every state of the link: nothing, IPCP comes up, data *)
(* arrives for the application, the connection ends.  next is the value     *)
(* ConnectedState is assigned.                                              *)
PPP_ManageLink(next, watchdog) ==
  \/ next = "none" /\ watchdog = WatchdogTicks
  \/ modem.online /\ next = "InitializeTCPStack" /\ watchdog = WatchdogTicks
  \/ modem.online /\ tcp /\ next = "none" /\ watchdog = 0
  \/ /\ modem.online /\ tcp /\ next = "ConnectToRemoteHost"
     /\ watchdog = WatchdogTicks

WaitForLink(next) ==
  /\ ConnectedState = "WaitForLink"
  /\ EndWith(next)
  /\ UNCHANGED <<SystemTicks, tcp>>

TCPIP_InitializeTCPStack ==
  /\ ConnectedState = "InitializeTCPStack"
  /\ EndWith("ConnectToRemoteHost")
  /\ tcp' = FALSE                                             \* uip_init
  /\ SystemTicks' = MaxTicks                                  \* connect straight away

\* A connection, if uIP has one to give; next is the assignment PPP has made
TCPIP_ConnectToRemoteHost(next) ==
  /\ ConnectedState = "ConnectToRemoteHost"
  /\ \/ SystemTicks > CONNECT_SPACING /\ tcp' = TRUE
        /\ SystemTicks' = MaxTicks /\ EndWith("ManageTCPConnection")
     \/ SystemTicks > CONNECT_SPACING /\ SystemTicks' = 0 /\ EndWith(next) /\ UNCHANGED tcp
     \/ SystemTicks <= CONNECT_SPACING /\ EndWith(next) /\ UNCHANGED <<SystemTicks, tcp>>

\* The periodic processing of uIP may end the connection, or send the next GET
TCPIP_TCPIPTask(next) ==
  /\ ConnectedState = "ManageTCPConnection"
  /\ \/ EndWith(next) /\ UNCHANGED SystemTicks
     \/ tcp /\ EndWith("ConnectToRemoteHost") /\ UNCHANGED SystemTicks
     \/ tcp /\ EndWith(next) /\ SystemTicks = MaxTicks /\ SystemTicks' = 0
  /\ UNCHANGED tcp

ManageLink ==
  /\ loop.at = "link" /\ ConnectedState \in LinkStates
  /\ \E next \in LinkStates \cup {"none"}, watchdog \in {0, WatchdogTicks} :
       /\ PPP_ManageLink(next, watchdog)
       /\ WatchdogTicks' = watchdog
       /\ \/ WaitForLink(next)
          \/ TCPIP_InitializeTCPStack
          \/ TCPIP_ConnectToRemoteHost(next)
          \/ TCPIP_TCPIPTask(next)
  /\ Modem_ReceiveBuffer' = <<>>                              \* network_read
  /\ UNCHANGED <<ConnectedState, DialSteps, ResponsePtr, Modem_SendBuffer, PPP_Phase,
                 USB_HostState, modem, timer3, unplugs>>

\* ConnectedState = ..., whatever the interrupt has written in the meantime
Assign ==
  /\ loop.at = "assign"
  /\ ConnectedState' = pending
  /\ pending' = "none"
  /\ loop' = [loop EXCEPT !.at = "usb"]
  /\ UNCHANGED <<statics, WatchdogTicks, usb, timer3, unplugs, tcp>>

USBManagement_SendReceivePipes ==
  /\ loop.at = "usb"
  /\ loop' = [at |-> "link", passed |-> TRUE]
  /\ IF Configured
     THEN /\ modem' = [modem EXCEPT !.commands = @ \o Modem_SendBuffer, !.answers = <<>>]
          /\ Modem_SendBuffer' = <<>>
          /\ Modem_ReceiveBuffer' = Modem_ReceiveBuffer \o modem.answers
     ELSE UNCHANGED <<Modem_SendBuffer, Modem_ReceiveBuffer, modem>>
  /\ UNCHANGED <<ConnectedState, pending, DialSteps, ResponsePtr, SystemTicks, WatchdogTicks,
                 PPP_Phase, USB_HostState, timer3, unplugs, tcp>>

----------------------------------------------------------------------------
(* Interrupts *)

mainLoop == <<DialSteps, ResponsePtr, pending, Modem_SendBuffer, Modem_ReceiveBuffer,
              PPP_Phase, tcp>>

\* The commands and answers under way: all but the data of the peer
Outstanding ==
  LET words == Modem_SendBuffer \o modem.commands \o modem.answers \o Modem_ReceiveBuffer
  IN  Cardinality({i \in DOMAIN words : words[i] # "data"})

\* The next command comes due with this tick
CommandComesDue ==
  Configured /\ ConnectedState \in Dialling /\ SystemTicks = COMMAND_SPACING

\* The USB stack has let a device settle for a second, and enumerates it
Settled == USB_HostState = "Attached" /\ SystemTicks > COMMAND_SPACING

(* Timer 1.  A tick is longer than a turn of the main loop, and than the    *)
(* enumeration of a device.                                                 *)
Timer1 ==
  /\ loop.passed /\ timer3 < TIMER3_PERIOD
  /\ CommandComesDue => Outstanding < Patience
  /\ ~Settled
  /\ SystemTicks' = IF SystemTicks < MaxTicks THEN SystemTicks + 1 ELSE MaxTicks
  /\ timer3' = timer3 + 1
  /\ loop' = [loop EXCEPT !.passed = FALSE]
  /\ UNCHANGED <<ConnectedState, mainLoop, WatchdogTicks, USB_HostState, modem, unplugs>>

\* EVENT_USB_Host_DeviceUnattached
Unplug ==
  /\ unplugs < MaxUnplugs
  /\ unplugs' = unplugs + 1
  /\ USB_HostState' = "Unattached"
  /\ ConnectedState' = "Idle"
  /\ modem' = FreshModem
  /\ UNCHANGED <<mainLoop, SystemTicks, WatchdogTicks, loop, timer3>>

(* The statics after a reset; a modem that is there starts anew as well.    *)
Restart ==
  /\ ConnectedState' = "Idle" /\ pending' = "none"
  /\ DialSteps' = 0 /\ ResponsePtr' = "NULL"
  /\ SystemTicks' = 0 /\ WatchdogTicks' = 0 /\ timer3' = 0
  /\ Modem_SendBuffer' = <<>> /\ Modem_ReceiveBuffer' = <<>>
  /\ PPP_Phase' = "Dead"
  /\ USB_HostState' = IF USB_HostState = "Unattached" THEN "Unattached" ELSE "Attached"
  /\ modem' = FreshModem
  /\ loop' = [at |-> "link", passed |-> TRUE]
  /\ tcp' = FALSE

MutantLateWatchdog ==
  /\ timer3 = TIMER3_PERIOD
  /\ IF WatchdogTicks + 1 > WATCHDOG_LIMIT THEN Restart
     ELSE /\ WatchdogTicks' = WatchdogTicks + 1
          /\ timer3' = 0
          /\ UNCHANGED <<ConnectedState, mainLoop, SystemTicks, USB_HostState, modem, loop>>
  /\ UNCHANGED unplugs
Timer3 ==
  /\ timer3 = TIMER3_PERIOD
  /\ IF WatchdogTicks + 1 >= WATCHDOG_LIMIT THEN Restart
     ELSE /\ WatchdogTicks' = WatchdogTicks + 1
          /\ timer3' = 0
          /\ UNCHANGED <<ConnectedState, mainLoop, SystemTicks, USB_HostState, modem, loop>>
  /\ UNCHANGED unplugs

\* PPP calls Reboot(): its retries have run out, or the peer has ended the link
PPPGivesUp ==
  /\ PPP_Phase = "Running"
  /\ Restart
  /\ UNCHANGED unplugs

----------------------------------------------------------------------------
(* The modem and the USB stack: external *)

Attach ==
  /\ USB_HostState = "Unattached"
  /\ USB_HostState' = "Attached"
  /\ UNCHANGED <<ConnectedState, mainLoop, SystemTicks, WatchdogTicks, modem, loop, timer3,
                 unplugs>>

Enumerate ==
  /\ Settled
  /\ USB_HostState' = "Configured"
  /\ UNCHANGED <<ConnectedState, mainLoop, SystemTicks, WatchdogTicks, modem, loop, timer3,
                 unplugs>>

\* In data mode a command is data for the peer, which ignores it
AnswerTo(command) ==
  CASE modem.online                 -> <<>>
    [] command \in {"AT", "AT&F"}   -> <<"OK">>
    [] command = "ATDT"             -> <<"CONNECT">>
    [] OTHER                        -> <<>>

ModemAnswers ==
  /\ modem.commands # <<>>
  /\ LET command == Head(modem.commands)
     IN  modem' = [commands    |-> Tail(modem.commands),
                   answers     |-> modem.answers \o AnswerTo(command),
                   initialised |-> modem.initialised \/ command = "AT&F",
                   online      |-> modem.online \/ command = "ATDT"]
  /\ UNCHANGED <<ConnectedState, mainLoop, SystemTicks, WatchdogTicks, USB_HostState, loop,
                 timer3, unplugs>>

\* Data from the peer, one word at a time in the pipe
PeerSends ==
  /\ modem.online /\ modem.answers = <<>>
  /\ modem' = [modem EXCEPT !.answers = <<"data">>]
  /\ UNCHANGED <<ConnectedState, mainLoop, SystemTicks, WatchdogTicks, USB_HostState, loop,
                 timer3, unplugs>>

----------------------------------------------------------------------------
(* The specification *)

Init ==
  /\ ConnectedState = "Idle" /\ pending = "none"
  /\ DialSteps = 0 /\ ResponsePtr = "NULL"
  /\ SystemTicks = 0 /\ WatchdogTicks = 0 /\ timer3 = 0
  /\ Modem_SendBuffer = <<>> /\ Modem_ReceiveBuffer = <<>>
  /\ PPP_Phase = "Dead"
  /\ USB_HostState = "Unattached" /\ modem = FreshModem
  /\ loop = [at |-> "link", passed |-> TRUE]
  /\ tcp = FALSE
  /\ unplugs = 0

MainLoop ==
  \/ Idle
  \/ LinkManagement_DialConnection
  \/ ManageLink
  \/ Assign
  \/ USBManagement_SendReceivePipes

Next ==
  \/ MainLoop
  \/ Timer1
  \/ Timer3
  \/ Unplug
  \/ PPPGivesUp
  \/ Attach
  \/ Enumerate
  \/ ModemAnswers
  \/ PeerSends

Spec == Init /\ [][Next]_vars

(* The main loop goes round, the timers keep interrupting, the modem is     *)
(* plugged in again, is enumerated and answers.                             *)
FairSpec ==
  /\ Spec
  /\ WF_vars(MainLoop) /\ WF_vars(Timer1) /\ WF_vars(Timer3)
  /\ WF_vars(Attach) /\ WF_vars(Enumerate) /\ WF_vars(ModemAnswers)

----------------------------------------------------------------------------
(* Properties *)

(* Every variable keeps to its type. *)
TypeOK ==
  /\ ConnectedState \in ConnectedStates
  /\ pending \in ConnectedStates \cup {"none"}
  /\ (pending = "none") = (loop.at # "assign")
  /\ loop \in [at : {"link", "assign", "usb"}, passed : BOOLEAN]
  /\ DialSteps \in 0..255
  /\ ResponsePtr \in Commands \cup Responses \cup {"NULL"}
  /\ SystemTicks \in 0..MaxTicks
  /\ WatchdogTicks \in 0..(WATCHDOG_LIMIT - 1)
  /\ PPP_Phase \in {"Dead", "Running"}
  /\ USB_HostState \in {"Unattached", "Attached", "Configured"}
  /\ timer3 \in 0..TIMER3_PERIOD
  /\ tcp \in BOOLEAN

(* PPP is dead while commands are dialled, so its timer puts no request     *)
(* between them, and it is started in every state that manages the link,    *)
(* even when the interrupt's write to ConnectedState was lost.              *)
PPPFollowsLink ==
  /\ ConnectedState \in Dialling /\ pending # "WaitForLink" => PPP_Phase = "Dead"
  /\ ConnectedState \in LinkStates => PPP_Phase = "Running"

(* PPP is only started over a modem that has answered CONNECT since it was  *)
(* plugged in.                                                              *)
StartsLink == PPP_Phase = "Dead" /\ PPP_Phase' = "Running"
ConnectBeforeLink == [][StartsLink => modem.online]_vars

(* However often the modem was unplugged, in the end PPP is started: no     *)
(* leftover of an earlier session keeps the dialler waiting for ever.       *)
DialCompletes == unplugs = MaxUnplugs ~> PPP_Phase = "Running"

(* When the write of Idle is lost, the link is managed over a modem that    *)
(* was never dialled: the watchdog ends that.                               *)
LostDetachRepaired ==
  ConnectedState \in LinkStates /\ ~modem.online ~> ConnectedState = "Idle"

(* "Wait for the expected response then move on to the next command"        *)
(* (LinkManagement.c:83): a modem that answers before the next command is   *)
(* due, and stays, has had every command of the first list when that ends.  *)
CommandsInOrder ==
  [][pending' = "SendNetworkDialCommands" /\ pending = "none" /\ unplugs = 0
       => modem.initialised]_vars
=============================================================================
