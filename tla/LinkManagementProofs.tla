-------------------------- MODULE LinkManagementProofs --------------------------
(***************************************************************************)
(* Proofs about the link management, for every spacing, watchdog limit and *)
(* number of unpluggings: PPP is dead while commands are dialled and runs  *)
(* whenever the link is managed; the statics keep to their types; PPP is   *)
(* only started over a modem that has answered CONNECT; and the commands   *)
(* of the first list are all sent before the second.                       *)
(*                                                                         *)
(* PPPFollowsLink is not inductive: what the main loop will assign to      *)
(* ConnectedState must agree with PPP_Phase as well, since the interrupt   *)
(* can overwrite ConnectedState before the assignment.  Of the dialler, it *)
(* must be known in which buffers words of an earlier session can be: that *)
(* is DialInv, and FirstListInOrder for the first list.                    *)
(***************************************************************************)
EXTENDS LinkManagement, FiniteSetTheorems, SequenceTheorems, TLAPS

\* Where the main loop is; a value is about to be assigned at one place only
LoopOK ==
  /\ loop \in [at : {"link", "assign", "usb"}, passed : BOOLEAN]
  /\ pending \in ConnectedStates \cup {"none"}
  /\ pending = "none" <=> loop.at # "assign"

\* The state about to be assigned agrees with PPP_Phase
PendingAgrees ==
  /\ pending \in Dialling => PPP_Phase = "Dead"
  /\ pending \in LinkStates => PPP_Phase = "Running"

IInv ==
  /\ ConnectedState \in ConnectedStates
  /\ PPP_Phase \in {"Dead", "Running"}
  /\ LoopOK
  /\ PendingAgrees
  /\ PPPFollowsLink

USE DEF ConnectedStates, Dialling, LinkStates

----------------------------------------------------------------------------
(* The steps of the main loop *)

\* After EndWith(state) the main loop is where `state' says it is.
LEMMA EndWithLoopOK ==
  ASSUME LoopOK, NEW state \in ConnectedStates \cup {"none"}, EndWith(state)
  PROVE  LoopOK' /\ pending' = state
BY DEF LoopOK, EndWith

\* Leaving Idle, PPP is dead and the next state dials.
LEMMA IdleKeeps == IInv /\ Idle => IInv'
<1> SUFFICES ASSUME IInv, Idle PROVE IInv'
  OBVIOUS
<1>1. LoopOK' /\ pending' = "SendModemDialCommands"
  BY EndWithLoopOK DEF IInv, Idle
<1>2. ConnectedState' = "Idle" /\ PPP_Phase' = "Dead"
  BY DEF Idle
<1> QED
  BY <1>1, <1>2 DEF IInv, PendingAgrees, PPPFollowsLink

\* A turn of the dialler ends with no assignment, or with the end of a list.
LEMMA DialOutcome ==
  ASSUME IInv, LinkManagement_DialConnection
  PROVE  \/ EndWith("none") /\ UNCHANGED PPP_Phase
         \/ AfterDialling
BY DEF LinkManagement_DialConnection, statics

\* A turn of the dialler either goes on dialling or starts PPP with the link's state.
LEMMA DialConnectionKeeps == IInv /\ LinkManagement_DialConnection => IInv'
<1> SUFFICES ASSUME IInv, LinkManagement_DialConnection PROVE IInv'
  OBVIOUS
<1>1. /\ ConnectedState' = ConnectedState
      /\ ConnectedState \in Dialling
      /\ loop.at = "link"
  BY DEF LinkManagement_DialConnection
<1>2. pending = "none" /\ PPP_Phase = "Dead"
  BY <1>1 DEF IInv, LoopOK, PPPFollowsLink
<1>3. CASE EndWith("none") /\ UNCHANGED PPP_Phase
  <2>1. LoopOK' /\ pending' = "none"
    BY <1>3, EndWithLoopOK DEF IInv
  <2> QED
    BY <1>1, <1>2, <1>3, <2>1 DEF IInv, PendingAgrees, PPPFollowsLink
<1>4. CASE AfterDialling
  <2>1. CASE ConnectedState = "SendModemDialCommands"
    <3>1. EndWith("SendNetworkDialCommands") /\ PPP_Phase' = PPP_Phase
      BY <1>4, <2>1 DEF AfterDialling
    <3>2. LoopOK' /\ pending' = "SendNetworkDialCommands"
      BY <3>1, EndWithLoopOK DEF IInv
    <3> QED
      BY <1>1, <1>2, <2>1, <3>1, <3>2 DEF IInv, PendingAgrees, PPPFollowsLink
  <2>2. CASE ConnectedState # "SendModemDialCommands"
    <3>1. EndWith("WaitForLink") /\ PPP_Phase' = "Running"
      BY <1>4, <2>2 DEF AfterDialling
    <3>2. LoopOK' /\ pending' = "WaitForLink"
      BY <3>1, EndWithLoopOK DEF IInv
    <3> QED
      BY <1>1, <2>2, <3>1, <3>2 DEF IInv, PendingAgrees, PPPFollowsLink
  <2> QED
    BY <2>1, <2>2
<1> QED
  BY <1>3, <1>4, DialOutcome

\* A turn that manages the link assigns another state of the link, or nothing.
LEMMA LinkOutcome ==
  ASSUME ManageLink
  PROVE  \E state \in LinkStates \cup {"none"} : EndWith(state)
BY DEF ManageLink, WaitForLink, TCPIP_InitializeTCPStack, TCPIP_ConnectToRemoteHost,
       TCPIP_TCPIPTask

\* A turn in a state of the link goes on in one, and leaves PPP running.
LEMMA ManageLinkKeeps == IInv /\ ManageLink => IInv'
<1> SUFFICES ASSUME IInv, ManageLink PROVE IInv'
  OBVIOUS
<1>1. PICK state \in LinkStates \cup {"none"} : EndWith(state)
  BY LinkOutcome
<1>2. LoopOK' /\ pending' = state
  BY <1>1, EndWithLoopOK DEF IInv
<1>3. /\ ConnectedState' = ConnectedState
      /\ ConnectedState \in LinkStates
      /\ PPP_Phase' = PPP_Phase
  BY DEF ManageLink
<1>4. PPP_Phase = "Running"
  BY <1>3 DEF IInv, PPPFollowsLink
<1> QED
  BY <1>2, <1>3, <1>4 DEF IInv, PendingAgrees, PPPFollowsLink

\* The assignment at the end of ManageConnectionState takes a value that agrees with PPP.
LEMMA AssignKeeps == IInv /\ Assign => IInv'
BY DEF IInv, Assign, statics, LoopOK, PendingAgrees, PPPFollowsLink

----------------------------------------------------------------------------
(* The interrupts and the rest *)

\* A restart leaves PPP dead and the state Idle.
LEMMA RestartKeeps == Restart => IInv'
BY DEF Restart, IInv, LoopOK, PendingAgrees, PPPFollowsLink

\* The interrupt writes Idle, which agrees with every value of PPP_Phase.
LEMMA UnplugKeeps == IInv /\ Unplug => IInv'
BY DEF IInv, Unplug, mainLoop, LoopOK, PendingAgrees, PPPFollowsLink

\* The other steps leave ConnectedState, pending and PPP_Phase alone.
Aside ==
  /\ UNCHANGED <<ConnectedState, pending, PPP_Phase>>
  /\ loop' \in [at : {"link", "assign", "usb"}, passed : BOOLEAN]
  /\ loop'.at = "assign" <=> loop.at = "assign"

\* What leaves the state, the value to assign and PPP alone keeps the invariant.
LEMMA AsideKeeps == IInv /\ Aside => IInv'
BY DEF IInv, Aside, LoopOK, PendingAgrees, PPPFollowsLink

AsideStep ==
  \/ USBManagement_SendReceivePipes
  \/ Timer1
  \/ Attach
  \/ Enumerate
  \/ ModemAnswers
  \/ PeerSends
  \/ UNCHANGED vars

\* The steps that do leave them alone.
LEMMA StepsAside == IInv /\ AsideStep => Aside
<1> SUFFICES ASSUME LoopOK, AsideStep PROVE Aside
  BY DEF IInv
<1>1. CASE USBManagement_SendReceivePipes
  BY <1>1 DEF LoopOK, Aside, USBManagement_SendReceivePipes
<1>2. CASE Timer1
  BY <1>2 DEF LoopOK, Aside, Timer1, mainLoop
<1>3. CASE Attach
  BY <1>3 DEF LoopOK, Aside, Attach, mainLoop
<1>4. CASE Enumerate
  BY <1>4 DEF LoopOK, Aside, Enumerate, mainLoop
<1>5. CASE ModemAnswers
  BY <1>5 DEF LoopOK, Aside, ModemAnswers, mainLoop
<1>6. CASE PeerSends
  BY <1>6 DEF LoopOK, Aside, PeerSends, mainLoop
<1>7. CASE UNCHANGED vars
  BY <1>7 DEF LoopOK, Aside, vars
<1> QED
  BY <1>1, <1>2, <1>3, <1>4, <1>5, <1>6, <1>7 DEF AsideStep

\* The watchdog's interrupt counts, or restarts.
LEMMA Timer3Keeps == IInv /\ Timer3 => IInv'
<1> SUFFICES ASSUME IInv, Timer3 PROVE IInv'
  OBVIOUS
<1>1. Restart \/ Aside
  BY DEF Timer3, Aside, mainLoop, IInv, LoopOK
<1> QED
  BY <1>1, RestartKeeps, AsideKeeps

----------------------------------------------------------------------------
(* The theorem *)

\* The invariant holds when the program starts.
LEMMA InitEstablishes == Init => IInv
BY DEF Init, IInv, LoopOK, PendingAgrees, PPPFollowsLink

\* Every step keeps the invariant.
LEMMA NextKeeps == IInv /\ [Next]_vars => IInv'
<1> SUFFICES ASSUME IInv, [Next]_vars PROVE IInv'
  OBVIOUS
<1>1. CASE MainLoop
  <2>1. CASE USBManagement_SendReceivePipes
    BY <2>1, StepsAside, AsideKeeps DEF AsideStep
  <2> QED
    BY <1>1, <2>1, IdleKeeps, DialConnectionKeeps, ManageLinkKeeps, AssignKeeps DEF MainLoop
<1>2. CASE Timer1 \/ Attach \/ Enumerate \/ ModemAnswers \/ PeerSends \/ UNCHANGED vars
  BY <1>2, StepsAside, AsideKeeps DEF AsideStep
<1>3. CASE Timer3
  BY <1>3, Timer3Keeps
<1>4. CASE Unplug
  BY <1>4, UnplugKeeps
<1>5. CASE PPPGivesUp
  BY <1>5, RestartKeeps DEF PPPGivesUp
<1> QED
  BY <1>1, <1>2, <1>3, <1>4, <1>5 DEF Next

(* While commands are dialled PPP is dead, and it runs in every state that  *)
(* manages the link, whichever write to ConnectedState the interrupt and    *)
(* the main loop take from one another.                                     *)
THEOREM PPPFollows == Spec => []PPPFollowsLink
<1>1. IInv => PPPFollowsLink
  BY DEF IInv
<1> QED
  BY InitEstablishes, NextKeeps, <1>1, PTL DEF Spec

----------------------------------------------------------------------------
(* The types.  The words in the buffers belong to the invariant: the count  *)
(* of the words that match is a number only when the buffer is a sequence.  *)

Sent     == Commands \cup Responses         \* past the end of a list, any word is sent
Received == Responses \cup {"data"}
Modems == [commands : Seq(Sent), answers : Seq(Received), initialised : BOOLEAN,
           online : BOOLEAN]

\* The words under way
BuffersTyped ==
  /\ Modem_SendBuffer \in Seq(Sent) /\ Modem_ReceiveBuffer \in Seq(Received)
  /\ modem \in Modems

\* The statics of the dialler
DiallerTyped ==
  /\ DialSteps \in 0..255
  /\ ResponsePtr \in Commands \cup Responses \cup {"NULL"}

\* The clocks, and the least value SystemTicks can be compared with
ClocksTyped ==
  /\ SystemTicks \in 0..MaxTicks
  /\ WatchdogTicks \in 0..(WATCHDOG_LIMIT - 1)
  /\ timer3 \in 0..TIMER3_PERIOD

DeviceTyped ==
  /\ USB_HostState \in {"Unattached", "Attached", "Configured"}
  /\ tcp \in BOOLEAN

Typed == BuffersTyped /\ DiallerTyped /\ ClocksTyped /\ DeviceTyped

\* What the clocks can be set to, from the assumptions on the constants.
LEMMA ClockBounds ==
  /\ MaxTicks \in Nat
  /\ 0 \in 0..MaxTicks /\ MaxTicks \in 0..MaxTicks
  /\ 0 \in 0..(WATCHDOG_LIMIT - 1)
  /\ 0 \in 0..TIMER3_PERIOD
BY ConstantsAssumption DEF MaxTicks

\* Buffers that are empty are typed, and so is a modem that was just plugged in.
LEMMA EmptyTyped ==
  FreshModem \in Modems /\ \A q : q = <<>> => q \in Seq(Sent) /\ q \in Seq(Received)
<1>1. <<>> \in Seq(Sent) /\ <<>> \in Seq(Received)
  OBVIOUS
<1>2. \A q : q = <<>> => q \in Seq(Sent) /\ q \in Seq(Received)
  BY <1>1, Zenon
<1>3. FreshModem \in Modems
  BY DEF FreshModem, Modems
<1> QED
  BY <1>2, <1>3

\* DialCommands[i] is a word, inside the list and past its end.
LEMMA WordAtTyped ==
  ASSUME NEW state \in Dialling, NEW i \in Nat
  PROVE  WordAt(ListOf[state], i) \subseteq Commands \cup Responses \cup {"NULL"}
<1> DEFINE S == Commands \cup Responses \cup {"NULL"}
<1>1. ModemDialCommands \in Seq(S) /\ NetworkDialCommands \in Seq(S)
  BY DEF ModemDialCommands, NetworkDialCommands, Commands, Responses
<1>2. ListOf[state] \in Seq(S)
  BY <1>1 DEF ListOf
<1>3. ASSUME NEW list \in Seq(S), i < Len(list) PROVE list[i + 1] \in S
  <2>1. i + 1 \in 1..Len(list)
    BY <1>3
  <2> QED
    BY <2>1
<1> QED
  BY <1>2, <1>3 DEF WordAt

\* The number of matching words is a natural number, so DialSteps stays a uint8_t.
LEMMA MatchesNatural ==
  ASSUME BuffersTyped, NEW k \in Matches
  PROVE  k \in Nat
<1>1. CASE ResponsePtr = "NULL"
  BY <1>1 DEF Matches, BuffersTyped
<1>2. CASE ResponsePtr # "NULL"
  <2> DEFINE M == {i \in DOMAIN Modem_ReceiveBuffer : Modem_ReceiveBuffer[i] = ResponsePtr}
  <2>1. k = Cardinality(M)
    BY <1>2 DEF Matches
  <2>2. Len(Modem_ReceiveBuffer) \in Nat /\ M \subseteq 1..Len(Modem_ReceiveBuffer)
    BY DEF BuffersTyped
  <2>3. IsFiniteSet(1..Len(Modem_ReceiveBuffer))
    BY <2>2, FS_Interval
  <2>4. IsFiniteSet(M)
    BY <2>2, <2>3, FS_Subset
  <2> QED
    BY <2>1, <2>4, FS_CardinalityType
<1> QED
  BY <1>1, <1>2

\* DialSteps stays a byte however many steps a turn takes, since it wraps.
LEMMA StepsAfterTyped ==
  ASSUME DiallerTyped, NEW k \in Nat
  PROVE  StepsAfter(k) \in 0..255
BY DEF DiallerTyped, StepsAfter

----------------------------------------------------------------------------
(* The steps keep the types *)

\* Leaving Idle keeps the types.
LEMMA IdleTypes == Typed /\ Idle => Typed'
BY ClockBounds
   DEF Typed, BuffersTyped, DiallerTyped, ClocksTyped, DeviceTyped, Idle, usb

\* A turn of the dialler keeps the types, whatever the answer.
LEMMA DialConnectionTypes == Typed /\ LinkManagement_DialConnection => Typed'
<1> SUFFICES ASSUME Typed, LinkManagement_DialConnection PROVE Typed'
  OBVIOUS
<1>1. DeviceTyped' /\ modem' = modem /\ WatchdogTicks' = WatchdogTicks /\ timer3' = timer3
  BY DEF LinkManagement_DialConnection, Typed, DeviceTyped
<1>2. CASE ~Configured
  BY <1>1, <1>2 DEF LinkManagement_DialConnection, Typed, BuffersTyped, DiallerTyped,
                    ClocksTyped, statics
<1>3. CASE Configured
  <2>1. Modem_ReceiveBuffer' \in Seq(Received)
    BY <1>3, EmptyTyped DEF LinkManagement_DialConnection
  <2>2. ConnectedState \in Dialling
    BY DEF LinkManagement_DialConnection
  <2>3. PICK k \in Matches :
          \/ SendCommand(ListOf[ConnectedState], StepsAfter(k))
          \/ FinishDialling(ListOf[ConnectedState], StepsAfter(k))
          \/ WaitForSpacing(StepsAfter(k))
    BY <1>3 DEF LinkManagement_DialConnection
  <2> DEFINE list == ListOf[ConnectedState]
             steps == StepsAfter(k)
  <2>4. steps \in 0..255 /\ steps \in Nat /\ steps + 1 \in Nat
    <3>1. steps \in 0..255
      BY MatchesNatural, StepsAfterTyped DEF Typed
    <3> HIDE DEF steps
    <3> QED
      BY <3>1
  <2>5. /\ WordAt(list, steps) \subseteq Commands \cup Responses \cup {"NULL"}
        /\ WordAt(list, steps + 1) \subseteq Commands \cup Responses \cup {"NULL"}
    <3> HIDE DEF steps
    <3> QED
      BY <2>2, <2>4, WordAtTyped
  <2> HIDE DEF list, steps
  <2>6. DiallerTyped'
    <3>1. DialSteps' \in {steps, 0}
      BY <2>3 DEF list, steps, SendCommand, FinishDialling, WaitForSpacing
    <3>2. ResponsePtr' \in WordAt(list, steps + 1) \cup {ResponsePtr}
      BY <2>3 DEF list, steps, SendCommand, FinishDialling, WaitForSpacing
    <3> QED
      BY <2>4, <2>5, <3>1, <3>2 DEF Typed, DiallerTyped
  <2>7. SystemTicks' \in 0..MaxTicks
    BY <2>3, ClockBounds
       DEF SendCommand, FinishDialling, WaitForSpacing, ClocksTyped, Typed
  <2>8. Modem_SendBuffer' \in Seq(Sent)
    <3>1. CASE SendCommand(list, steps)
      <4>1. PICK command \in WordAt(list, steps) :
              command # "NULL" /\ Modem_SendBuffer' = Append(Modem_SendBuffer, command)
        BY <3>1 DEF SendCommand
      <4>2. command \in Sent
        BY <2>5, <4>1 DEF Sent
      <4> QED
        BY <4>1, <4>2 DEF Typed, BuffersTyped
    <3>2. CASE UNCHANGED Modem_SendBuffer
      BY <3>2 DEF Typed, BuffersTyped
    <3> QED
      BY <2>3, <3>1, <3>2 DEF list, steps, FinishDialling, WaitForSpacing
  <2> QED
    BY <1>1, <2>1, <2>6, <2>7, <2>8 DEF Typed, BuffersTyped, ClocksTyped
<1> QED
  BY <1>2, <1>3

\* A turn in a state of the link keeps the types.
LEMMA ManageLinkTypes == Typed /\ ManageLink => Typed'
<1> SUFFICES ASSUME Typed, ManageLink PROVE Typed'
  OBVIOUS
<1>1. /\ UNCHANGED <<DialSteps, ResponsePtr, Modem_SendBuffer, USB_HostState, modem, timer3>>
      /\ Modem_ReceiveBuffer' \in Seq(Received)
  BY EmptyTyped DEF ManageLink
<1>2. WatchdogTicks' \in {0, WatchdogTicks}
  BY DEF ManageLink
<1>3. SystemTicks' \in {0, MaxTicks, SystemTicks} /\ tcp' \in BOOLEAN
  BY DEF ManageLink, WaitForLink, TCPIP_InitializeTCPStack, TCPIP_ConnectToRemoteHost,
         TCPIP_TCPIPTask, Typed, DeviceTyped
<1> QED
  BY <1>1, <1>2, <1>3, ClockBounds
     DEF Typed, BuffersTyped, DiallerTyped, ClocksTyped, DeviceTyped

\* The assignment to ConnectedState keeps the types.
LEMMA AssignTypes == Typed /\ Assign => Typed'
BY DEF Typed, BuffersTyped, DiallerTyped, ClocksTyped, DeviceTyped, Assign, statics, usb

\* Moving the buffers to and from the modem keeps the types.
LEMMA SendReceiveTypes == Typed /\ USBManagement_SendReceivePipes => Typed'
<1> SUFFICES ASSUME Typed, USBManagement_SendReceivePipes PROVE Typed'
  OBVIOUS
<1>1. DiallerTyped' /\ ClocksTyped' /\ DeviceTyped'
  BY DEF Typed, DiallerTyped, ClocksTyped, DeviceTyped, USBManagement_SendReceivePipes
<1>2. CASE ~Configured
  BY <1>1, <1>2 DEF Typed, BuffersTyped, USBManagement_SendReceivePipes
<1>3. CASE Configured
  <2>1. modem' = [modem EXCEPT !.commands = @ \o Modem_SendBuffer, !.answers = <<>>]
    BY <1>3 DEF USBManagement_SendReceivePipes
  <2>2. Modem_SendBuffer' = <<>> /\ Modem_ReceiveBuffer' = Modem_ReceiveBuffer \o modem.answers
    BY <1>3 DEF USBManagement_SendReceivePipes
  <2>3. modem.commands \in Seq(Sent) /\ modem.answers \in Seq(Received)
    BY DEF Typed, BuffersTyped, Modems
  <2>4. modem.commands \o Modem_SendBuffer \in Seq(Sent)
    BY <2>3 DEF Typed, BuffersTyped
  <2>5. modem' \in Modems
    BY <2>1, <2>4, EmptyTyped DEF Modems, Typed, BuffersTyped
  <2>6. Modem_ReceiveBuffer' \in Seq(Received)
    BY <2>2, <2>3 DEF Typed, BuffersTyped
  <2>7. Modem_SendBuffer' \in Seq(Sent)
    BY <2>2, EmptyTyped
  <2> QED
    BY <1>1, <2>5, <2>6, <2>7 DEF BuffersTyped, Typed
<1> QED
  BY <1>2, <1>3

\* A tick keeps the types: the clock stops counting beyond every comparison.
LEMMA Timer1Types == Typed /\ Timer1 => Typed'
<1> SUFFICES ASSUME Typed, Timer1 PROVE Typed'
  OBVIOUS
<1>1. BuffersTyped' /\ DiallerTyped' /\ DeviceTyped'
  BY DEF Typed, BuffersTyped, DiallerTyped, DeviceTyped, Timer1, mainLoop
<1>2. SystemTicks' \in 0..MaxTicks
  BY ClockBounds DEF Typed, ClocksTyped, Timer1
<1>3. timer3' \in 0..TIMER3_PERIOD /\ WatchdogTicks' \in 0..(WATCHDOG_LIMIT - 1)
  BY ConstantsAssumption DEF Typed, ClocksTyped, Timer1
<1> QED
  BY <1>1, <1>2, <1>3 DEF Typed, ClocksTyped

\* A restart sets every variable to a value of its type.
LEMMA RestartTypes == Restart => Typed'
<1> SUFFICES ASSUME Restart PROVE Typed'
  OBVIOUS
<1>1. Modem_SendBuffer' \in Seq(Sent) /\ Modem_ReceiveBuffer' \in Seq(Received)
  BY EmptyTyped DEF Restart
<1>2. BuffersTyped'
  BY <1>1, EmptyTyped DEF Restart, BuffersTyped
<1>3. DiallerTyped'
  BY DEF Restart, DiallerTyped
<1>4. DeviceTyped'
  BY DEF Restart, DeviceTyped
<1>5. ClocksTyped'
  BY ClockBounds, Zenon DEF Restart, ClocksTyped
<1> QED
  BY <1>2, <1>3, <1>4, <1>5 DEF Typed

\* The watchdog's count stays below the limit: the interrupt that would reach it resets.
LEMMA Timer3Types == Typed /\ Timer3 => Typed'
<1> SUFFICES ASSUME Typed, Timer3 PROVE Typed'
  OBVIOUS
<1>1. CASE WatchdogTicks + 1 >= WATCHDOG_LIMIT
  BY <1>1, RestartTypes DEF Timer3
<1>2. CASE ~(WatchdogTicks + 1 >= WATCHDOG_LIMIT)
  <2>1. BuffersTyped' /\ DiallerTyped' /\ DeviceTyped'
    BY <1>2 DEF Typed, BuffersTyped, DiallerTyped, DeviceTyped, Timer3, mainLoop
  <2>2. WatchdogTicks' \in 0..(WATCHDOG_LIMIT - 1)
    BY <1>2, ConstantsAssumption DEF Typed, ClocksTyped, Timer3
  <2>3. SystemTicks' = SystemTicks /\ timer3' = 0
    BY <1>2 DEF Timer3
  <2> QED
    BY <2>1, <2>2, <2>3, ClockBounds DEF Typed, ClocksTyped
<1> QED
  BY <1>1, <1>2

\* What the modem answers are words the program can receive.
LEMMA AnswerToTyped == ASSUME NEW command PROVE AnswerTo(command) \in Seq(Received)
<1>1. <<"OK">> \in Seq(Received) /\ <<"CONNECT">> \in Seq(Received)
  BY DEF Received, Responses
<1>2. AnswerTo(command) \in {<<>>, <<"OK">>, <<"CONNECT">>}
  BY DEF AnswerTo
<1> QED
  BY <1>1, <1>2, EmptyTyped

\* An answer of the modem's keeps the types.
LEMMA ModemAnswersTypes == Typed /\ ModemAnswers => Typed'
<1> SUFFICES ASSUME Typed, ModemAnswers PROVE Typed'
  OBVIOUS
<1>1. DiallerTyped' /\ ClocksTyped' /\ DeviceTyped'
  BY DEF Typed, DiallerTyped, ClocksTyped, DeviceTyped, ModemAnswers, mainLoop
<1>2. /\ modem.commands \in Seq(Sent) /\ modem.answers \in Seq(Received)
      /\ modem.initialised \in BOOLEAN /\ modem.online \in BOOLEAN
  BY DEF Typed, BuffersTyped, Modems
<1> DEFINE command == Head(modem.commands)
<1>3. Tail(modem.commands) \in Seq(Sent)
  BY <1>2 DEF ModemAnswers
<1>4. modem.answers \o AnswerTo(command) \in Seq(Received)
  <2>1. AnswerTo(command) \in Seq(Received)
    BY AnswerToTyped
  <2> QED
    BY <1>2, <2>1
<1>5. modem' = [commands    |-> Tail(modem.commands),
                answers     |-> modem.answers \o AnswerTo(command),
                initialised |-> modem.initialised \/ command = "AT&F",
                online      |-> modem.online \/ command = "ATDT"]
  BY DEF ModemAnswers
<1>6. modem' \in Modems
  <2> HIDE DEF command
  <2> QED
    BY <1>2, <1>3, <1>4, <1>5 DEF Modems
<1>7. Modem_SendBuffer' = Modem_SendBuffer /\ Modem_ReceiveBuffer' = Modem_ReceiveBuffer
  BY DEF ModemAnswers, mainLoop
<1> QED
  BY <1>1, <1>6, <1>7 DEF Typed, BuffersTyped

\* Data of the peer's keeps the types.
LEMMA PeerSendsTypes == Typed /\ PeerSends => Typed'
<1> SUFFICES ASSUME Typed, PeerSends PROVE Typed'
  OBVIOUS
<1>1. <<"data">> \in Seq(Received)
  BY DEF Received
<1>2. modem' \in Modems
  BY <1>1 DEF PeerSends, Typed, BuffersTyped, Modems
<1> QED
  BY <1>2 DEF Typed, BuffersTyped, DiallerTyped, ClocksTyped, DeviceTyped, PeerSends, mainLoop

\* Plugging in, enumeration and unplugging touch the modem and the state of the device only.
LEMMA PlugTypes == Typed /\ (Attach \/ Enumerate \/ Unplug) => Typed'
<1>1. Typed /\ Attach => Typed'
  BY DEF Typed, BuffersTyped, DiallerTyped, ClocksTyped, DeviceTyped, Attach, mainLoop
<1>2. Typed /\ Enumerate => Typed'
  BY DEF Typed, BuffersTyped, DiallerTyped, ClocksTyped, DeviceTyped, Enumerate, mainLoop
<1>3. Typed /\ Unplug => Typed'
  BY EmptyTyped
     DEF Typed, BuffersTyped, DiallerTyped, ClocksTyped, DeviceTyped, Unplug, mainLoop
<1> QED
  BY <1>1, <1>2, <1>3

\* The types hold when the program starts.
LEMMA InitTyped == Init => Typed
<1> SUFFICES ASSUME Init PROVE Typed
  OBVIOUS
<1>1. Modem_SendBuffer \in Seq(Sent) /\ Modem_ReceiveBuffer \in Seq(Received)
  BY EmptyTyped DEF Init
<1>2. BuffersTyped
  BY <1>1, EmptyTyped DEF Init, BuffersTyped
<1>3. DiallerTyped
  BY DEF Init, DiallerTyped
<1>4. DeviceTyped
  BY DEF Init, DeviceTyped
<1>5. ClocksTyped
  BY ClockBounds, Zenon DEF Init, ClocksTyped
<1> QED
  BY <1>2, <1>3, <1>4, <1>5 DEF Typed

\* Every step keeps the types.
LEMMA NextTypes == Typed /\ [Next]_vars => Typed'
<1>1. Typed /\ MainLoop => Typed'
  BY IdleTypes, DialConnectionTypes, ManageLinkTypes, AssignTypes, SendReceiveTypes
     DEF MainLoop
<1>2. Typed /\ PPPGivesUp => Typed'
  BY RestartTypes DEF PPPGivesUp
<1>3. Typed /\ UNCHANGED vars => Typed'
  BY DEF Typed, BuffersTyped, DiallerTyped, ClocksTyped, DeviceTyped, vars
<1> QED
  BY <1>1, <1>2, <1>3, Timer1Types, Timer3Types, ModemAnswersTypes, PeerSendsTypes, PlugTypes
     DEF Next

(* Every static of the link management keeps to its type: DialSteps to its  *)
(* eight bits, whatever the modem answers, and WatchdogTicks below the      *)
(* limit at which the interrupt resets the controller.                      *)
THEOREM TypeCorrect == Spec => []TypeOK
<1>1. IInv /\ Typed => TypeOK
  BY DEF IInv, LoopOK, Typed, DiallerTyped, ClocksTyped, DeviceTyped, TypeOK
<1> QED
  BY InitEstablishes, NextKeeps, InitTyped, NextTypes, <1>1, PTL DEF Spec

----------------------------------------------------------------------------
(* The dialler.  Its words are counted, not named: a response left over     *)
(* from an earlier session can stand for the one that is expected.  What    *)
(* follows says where words can be left.                                    *)

Quiet    == modem.commands = <<>> /\ modem.answers = <<>>
NewModem == Quiet /\ ~modem.initialised /\ ~modem.online

\* A list is being dialled, or is about to be
Dials(list) == pending = list \/ (pending = "none" /\ ConnectedState = list)

\* Unplugging takes the words in the modem with it
AbsentIsNew == ~Configured => NewModem

NoDataOffline == ~modem.online => \A i \in DOMAIN modem.answers : modem.answers[i] # "data"

\* Commands wait to be sent only when the answers have been read
OneBufferUsed == Modem_SendBuffer = <<>> \/ Modem_ReceiveBuffer = <<>>

\* A list is dialled from its start, and not before the modem is configured
FromTheStart ==
  /\ pending \in Dialling => DialSteps = 0
  /\ pending = "none" /\ ConnectedState \in Dialling /\ ~Configured => DialSteps = 0

\* Between leaving Idle and the assignment the clock ticks once at most
JustLeftIdle ==
  pending = "SendModemDialCommands" => SystemTicks = 0 \/ (SystemTicks = 1 /\ ~loop.passed)

(* When a command of the first list is due, no earlier word is left that    *)
(* could answer for the second list.                                        *)
FirstListQuiet ==
  Dials("SendModemDialCommands") /\ SystemTicks > COMMAND_SPACING =>
    \/ Modem_SendBuffer = <<>> /\ (~modem.online => Quiet)
    \/ DialSteps = 0 /\ Modem_ReceiveBuffer = <<>> /\ (loop.at = "usb" => NewModem)

\* The second list is entered with empty buffers
SecondListEntered ==
  pending = "SendNetworkDialCommands" => Modem_SendBuffer = <<>> /\ Modem_ReceiveBuffer = <<>>

NoConnect(words) == \A i \in DOMAIN words : words[i] # "CONNECT"

\* Until the modem is on line nothing moves the dialler past ATDT
SecondListWaits ==
  Dials("SendNetworkDialCommands") /\ ~modem.online =>
    /\ DialSteps = 0
    /\ \/ Modem_SendBuffer = <<>> /\ Modem_ReceiveBuffer = <<>> /\ Quiet
       \/ ResponsePtr = "CONNECT" /\ NoConnect(modem.answers) /\ NoConnect(Modem_ReceiveBuffer)

\* The types, and where the main loop is
Base == Typed /\ LoopOK /\ ConnectedState \in ConnectedStates

\* The concatenation of empty sequences.
LEMMA EmptyConcat ==
  ASSUME NEW S, NEW s \in Seq(S), NEW t \in Seq(S), s = <<>>
  PROVE  s \o t = t
BY ConcatEmptySeq

\* A word is missing from a concatenation when it is missing from both parts.
LEMMA ConcatWithout ==
  ASSUME NEW S, NEW s \in Seq(S), NEW t \in Seq(S), NEW word,
         \A i \in DOMAIN s : s[i] # word,
         \A i \in DOMAIN t : t[i] # word
  PROVE  \A i \in DOMAIN (s \o t) : (s \o t)[i] # word
<1> SUFFICES ASSUME NEW i \in DOMAIN (s \o t) PROVE (s \o t)[i] # word
  OBVIOUS
<1>1. i \in 1..(Len(s) + Len(t))
  OBVIOUS
<1>2. CASE i <= Len(s)
  BY <1>1, <1>2
<1>3. CASE i > Len(s)
  <2>1. (s \o t)[i] = t[i - Len(s)] /\ i - Len(s) \in DOMAIN t
    BY <1>1, <1>3
  <2> QED
    BY <2>1
<1> QED
  BY <1>1, <1>2, <1>3

----------------------------------------------------------------------------
(* What the steps do to the modem and the words *)

\* The commands in the buffer go to the modem, its answers to the other buffer.
LEMMA SendReceiveEffect ==
  ASSUME Typed, USBManagement_SendReceivePipes, Configured
  PROVE  /\ modem'.commands = modem.commands \o Modem_SendBuffer
         /\ modem'.answers = <<>>
         /\ modem'.initialised = modem.initialised
         /\ modem'.online = modem.online
         /\ Modem_SendBuffer' = <<>>
         /\ Modem_ReceiveBuffer' = Modem_ReceiveBuffer \o modem.answers
<1>1. modem' = [modem EXCEPT !.commands = @ \o Modem_SendBuffer, !.answers = <<>>]
  BY DEF USBManagement_SendReceivePipes
<1>2. modem \in Modems
  BY DEF Typed, BuffersTyped
<1>3. Modem_SendBuffer' = <<>> /\ Modem_ReceiveBuffer' = Modem_ReceiveBuffer \o modem.answers
  BY DEF USBManagement_SendReceivePipes
<1> QED
  BY <1>1, <1>2, <1>3 DEF Modems

\* The modem takes the first command and appends its answer.
LEMMA ModemAnswersEffect ==
  ASSUME ModemAnswers
  PROVE  /\ modem.commands # <<>>
         /\ modem'.commands = Tail(modem.commands)
         /\ modem'.answers = modem.answers \o AnswerTo(Head(modem.commands))
         /\ modem'.initialised = (modem.initialised \/ Head(modem.commands) = "AT&F")
         /\ modem'.online = (modem.online \/ Head(modem.commands) = "ATDT")
BY DEF ModemAnswers

\* The peer's data comes when the modem is online, and changes nothing but its answers.
LEMMA PeerSendsEffect ==
  ASSUME Typed, PeerSends
  PROVE  /\ modem.online
         /\ modem'.commands = modem.commands
         /\ modem'.initialised = modem.initialised
         /\ modem'.online = modem.online
BY DEF PeerSends, Typed, BuffersTyped, Modems

\* A modem that was just plugged in.
LEMMA FreshIsNew == modem' = FreshModem => NewModem'
BY DEF FreshModem, NewModem, Quiet

\* The steps that leave the modem and its device alone
LEMMA ModemSteps ==
  ASSUME [Next]_vars
  PROVE  \/ UNCHANGED <<modem, USB_HostState>>
         \/ Attach
         \/ Enumerate
         \/ Unplug
         \/ Restart
         \/ USBManagement_SendReceivePipes
         \/ ModemAnswers
         \/ PeerSends
<1>1. CASE MainLoop
  BY <1>1 DEF MainLoop, Idle, LinkManagement_DialConnection, ManageLink, Assign, usb
<1>2. CASE Timer1 \/ Timer3 \/ Unplug \/ PPPGivesUp
  BY <1>2 DEF Timer1, Timer3, PPPGivesUp
<1>3. CASE UNCHANGED vars
  BY <1>3 DEF vars
<1> QED
  BY <1>1, <1>2, <1>3 DEF Next

\* A modem that is not plugged in has got nothing yet.
LEMMA AbsentKept == Typed /\ AbsentIsNew /\ [Next]_vars => AbsentIsNew'
<1> SUFFICES ASSUME Typed, AbsentIsNew, [Next]_vars PROVE AbsentIsNew'
  OBVIOUS
<1>1. CASE UNCHANGED <<modem, USB_HostState>>
  BY <1>1 DEF AbsentIsNew, NewModem, Quiet, Configured
<1>2. CASE Attach \/ Enumerate
  BY <1>2 DEF Attach, Enumerate, Settled, AbsentIsNew, NewModem, Quiet, Configured
<1>3. CASE Unplug \/ Restart
  BY <1>3, FreshIsNew DEF Unplug, Restart, AbsentIsNew
<1>4. CASE USBManagement_SendReceivePipes
  BY <1>4 DEF USBManagement_SendReceivePipes, AbsentIsNew, NewModem, Quiet, Configured
<1>5. CASE ModemAnswers
  BY <1>5 DEF ModemAnswers, AbsentIsNew, NewModem, Quiet, Configured
<1>6. CASE PeerSends
  BY <1>6 DEF PeerSends, AbsentIsNew, NewModem, Quiet, Configured
<1> QED
  BY <1>1, <1>2, <1>3, <1>4, <1>5, <1>6, ModemSteps

\* A modem that is not online has only answers under way.
LEMMA NoDataKept == Typed /\ NoDataOffline /\ [Next]_vars => NoDataOffline'
<1> SUFFICES ASSUME Typed, NoDataOffline, [Next]_vars, ~modem'.online,
                    NEW i \in DOMAIN modem'.answers
             PROVE  modem'.answers[i] # "data"
  BY DEF NoDataOffline
<1>1. CASE UNCHANGED modem
  BY <1>1 DEF NoDataOffline
<1>2. CASE modem'.answers = <<>>
  BY <1>2
<1>3. CASE USBManagement_SendReceivePipes
  BY <1>1, <1>2, <1>3, SendReceiveEffect DEF USBManagement_SendReceivePipes
<1>4. CASE ModemAnswers
  <2>1. modem.answers \in Seq(Received) /\ AnswerTo(Head(modem.commands)) \in Seq(Received)
    BY AnswerToTyped DEF Typed, BuffersTyped, Modems
  <2>2. ~modem.online /\ modem'.answers = modem.answers \o AnswerTo(Head(modem.commands))
    BY <1>4, ModemAnswersEffect
  <2>3. AnswerTo(Head(modem.commands)) \in {<<>>, <<"OK">>, <<"CONNECT">>}
    BY DEF AnswerTo
  <2>4. \A j \in DOMAIN AnswerTo(Head(modem.commands)) :
          AnswerTo(Head(modem.commands))[j] # "data"
    BY <2>3
  <2>5. \A j \in DOMAIN modem.answers : modem.answers[j] # "data"
    BY <2>2 DEF NoDataOffline
  <2> QED
    BY <2>1, <2>2, <2>4, <2>5, ConcatWithout
<1>5. CASE PeerSends
  BY <1>5, PeerSendsEffect
<1>6. CASE Unplug \/ Restart
  BY <1>2, <1>6 DEF Unplug, Restart, FreshModem
<1>7. CASE Attach \/ Enumerate
  BY <1>1, <1>7 DEF Attach, Enumerate
<1> QED
  BY <1>1, <1>3, <1>4, <1>5, <1>6, <1>7, ModemSteps

\* The words of a concatenation are those of both parts.
LEMMA ConcatOnly ==
  ASSUME NEW S, NEW s \in Seq(S), NEW t \in Seq(S), NEW word,
         \A i \in DOMAIN (s \o t) : (s \o t)[i] = word
  PROVE  /\ \A i \in DOMAIN s : s[i] = word
         /\ \A i \in DOMAIN t : t[i] = word
<1>1. ASSUME NEW i \in DOMAIN s PROVE s[i] = word
  <2>1. i \in DOMAIN (s \o t) /\ (s \o t)[i] = s[i]
    OBVIOUS
  <2> QED
    BY <2>1
<1>2. ASSUME NEW i \in DOMAIN t PROVE t[i] = word
  <2>1. Len(s) + i \in DOMAIN (s \o t) /\ (s \o t)[Len(s) + i] = t[i]
    OBVIOUS
  <2> QED
    BY <2>1
<1> QED
  BY <1>1, <1>2

\* With nothing outstanding, data of the peer is all there is.
LEMMA NothingOutstanding ==
  ASSUME Typed, NoDataOffline, Outstanding < 1
  PROVE  /\ Modem_SendBuffer = <<>> /\ (~modem.online => Quiet)
         /\ \A i \in DOMAIN Modem_ReceiveBuffer : Modem_ReceiveBuffer[i] = "data"
<1> DEFINE U     == Sent \cup Received
           ab    == Modem_SendBuffer \o modem.commands
           abc   == ab \o modem.answers
           words == abc \o Modem_ReceiveBuffer
           other == {i \in DOMAIN words : words[i] # "data"}
<1>1. /\ Modem_SendBuffer \in Seq(Sent) /\ Modem_SendBuffer \in Seq(U)
      /\ modem.commands \in Seq(Sent) /\ modem.commands \in Seq(U)
      /\ modem.answers \in Seq(Received) /\ modem.answers \in Seq(U)
      /\ Modem_ReceiveBuffer \in Seq(U)
  BY DEF Typed, BuffersTyped, Modems
<1>2. ab \in Seq(U)
  BY <1>1
<1>3. abc \in Seq(U)
  <2> HIDE DEF ab, U
  <2> QED
    BY <1>1, <1>2
<1>4. words \in Seq(U)
  <2> HIDE DEF abc, U
  <2> QED
    BY <1>1, <1>3
<1>5. Cardinality(other) < 1
  BY Zenon DEF Outstanding
<1>6. IsFiniteSet(other)
  <2> HIDE DEF words, U
  <2>1. Len(words) \in Nat /\ other \subseteq 1..Len(words)
    BY <1>4
  <2>2. IsFiniteSet(1..Len(words))
    BY <2>1, FS_Interval
  <2> HIDE DEF other
  <2> QED
    BY <2>1, <2>2, FS_Subset
<1>7. other = {}
  <2> HIDE DEF other
  <2>1. Cardinality(other) = 0
    BY <1>5, <1>6, FS_CardinalityType
  <2> QED
    BY <1>6, <2>1, FS_EmptySet
<1>8. \A i \in DOMAIN words : words[i] = "data"
  <2> HIDE DEF words
  <2> QED
    BY <1>7
<1> DEFINE Only(q) == \A i \in DOMAIN q : q[i] = "data"
<1>9. \A s, t \in Seq(U) : Only(s \o t) => Only(s) /\ Only(t)
  <2> HIDE DEF U
  <2> QED
    BY ConcatOnly
<1>10. /\ Only(Modem_SendBuffer) /\ Only(modem.commands) /\ Only(modem.answers)
       /\ Only(Modem_ReceiveBuffer)
  <2>1. Only(words)
    BY <1>8
  <2> HIDE DEF U, Only, abc, ab
  <2>2. Only(abc) /\ Only(Modem_ReceiveBuffer)
    BY <1>1, <1>3, <1>9, <2>1
  <2>3. Only(ab) /\ Only(modem.answers)
    BY <1>1, <1>2, <1>9, <2>2 DEF abc
  <2> QED
    BY <1>1, <1>9, <2>2, <2>3 DEF ab
<1>11. \A q \in Seq(Sent) : (\A i \in DOMAIN q : q[i] = "data") => q = <<>>
  <2>1. "data" \notin Sent
    BY DEF Sent, Commands, Responses
  <2> SUFFICES ASSUME NEW q \in Seq(Sent), \A i \in DOMAIN q : q[i] = "data" PROVE q = <<>>
    OBVIOUS
  <2>2. CASE Len(q) > 0
    <3>1. 1 \in DOMAIN q /\ q[1] \in Sent
      BY <2>2
    <3> QED
      BY <2>1, <3>1
  <2> QED
    BY <2>2
<1>12. ~modem.online => modem.answers = <<>>
  <2> SUFFICES ASSUME ~modem.online, Len(modem.answers) > 0 PROVE FALSE
    BY <1>1
  <2>1. 1 \in DOMAIN modem.answers
    BY <1>1
  <2> QED
    BY <1>10, <2>1 DEF NoDataOffline
<1> QED
  BY <1>1, <1>10, <1>11, <1>12 DEF Quiet

----------------------------------------------------------------------------
(* What a turn of the dialler does *)

\* The outcomes of a turn of the dialler: no modem; an answer that is read and takes a step or
\* not; a command; the end of a list.
LEMMA DialCases ==
  ASSUME Base, LinkManagement_DialConnection
  PROVE  /\ UNCHANGED <<ConnectedState, modem, USB_HostState>>
         /\ loop.at = "link" /\ pending = "none" /\ ConnectedState \in Dialling
         /\ \/ /\ ~Configured
               /\ pending' = "none" /\ loop'.at = "usb"
               /\ UNCHANGED <<statics, Modem_ReceiveBuffer>>
            \/ /\ Configured
               /\ Modem_ReceiveBuffer' = <<>>
               /\ \E k \in Matches :
                    \/ /\ SendCommand(ListOf[ConnectedState], StepsAfter(k))
                       /\ pending' = "none" /\ loop'.at = "usb" /\ UNCHANGED PPP_Phase
                    \/ FinishDialling(ListOf[ConnectedState], StepsAfter(k)) /\ AfterDialling
                    \/ /\ WaitForSpacing(StepsAfter(k))
                       /\ pending' = "none" /\ loop'.at = "usb" /\ UNCHANGED PPP_Phase
<1>1. /\ UNCHANGED <<ConnectedState, modem, USB_HostState>>
      /\ loop.at = "link" /\ ConnectedState \in Dialling
  BY DEF LinkManagement_DialConnection
<1>2. pending = "none"
  BY <1>1 DEF Base, LoopOK
<1>3. EndWith("none") => pending' = "none" /\ loop'.at = "usb"
  BY DEF EndWith, Base, LoopOK
<1> QED
  BY <1>1, <1>2, <1>3 DEF LinkManagement_DialConnection

\* The end of a list assigns the state that follows it.
LEMMA DialFinished ==
  ASSUME Base, AfterDialling
  PROVE  /\ loop'.at = "assign"
         /\ pending' = IF ConnectedState = "SendModemDialCommands"
                       THEN "SendNetworkDialCommands" ELSE "WaitForLink"
         /\ ConnectedState = "SendModemDialCommands" => UNCHANGED PPP_Phase
BY DEF AfterDialling, EndWith, Base, LoopOK

\* Words that do not match move the dialler nowhere.
LEMMA NoMatch ==
  ASSUME Typed, NEW k \in Matches,
         \/ Modem_ReceiveBuffer = <<>>
         \/ /\ ResponsePtr # "NULL"
            /\ \A i \in DOMAIN Modem_ReceiveBuffer : Modem_ReceiveBuffer[i] # ResponsePtr
  PROVE  k = 0 /\ StepsAfter(k) = DialSteps
<1>1. k = 0
  <2>1. CASE ResponsePtr = "NULL"
    BY <2>1 DEF Matches
  <2>2. CASE ResponsePtr # "NULL"
    <3>1. {i \in DOMAIN Modem_ReceiveBuffer : Modem_ReceiveBuffer[i] = ResponsePtr} = {}
      BY <2>2
    <3>2. k = Cardinality({})
      BY <2>2, <3>1 DEF Matches
    <3> QED
      BY <3>2, FS_EmptySet
  <2> QED
    BY <2>1, <2>2
<1>2. DialSteps \in 0..255
  BY DEF Typed, DiallerTyped
<1> QED
  BY <1>1, <1>2 DEF StepsAfter

\* The first words of the lists.
LEMMA ListWords ==
  /\ WordAt(ListOf["SendModemDialCommands"], 0) = {"AT"}
  /\ WordAt(ListOf["SendModemDialCommands"], 0 + 1) = {"OK"}
  /\ WordAt(ListOf["SendModemDialCommands"], 2) = {"AT&F"}
  /\ WordAt(ListOf["SendModemDialCommands"], 2 + 1) = {"OK"}
  /\ WordAt(ListOf["SendNetworkDialCommands"], 0) = {"ATDT"}
  /\ WordAt(ListOf["SendNetworkDialCommands"], 0 + 1) = {"CONNECT"}
BY DEF WordAt, ListOf, ModemDialCommands, NetworkDialCommands

----------------------------------------------------------------------------
(* No step leaves a stale word where it could stand for CONNECT *)

DialInv ==
  /\ AbsentIsNew /\ NoDataOffline
  /\ OneBufferUsed
  /\ FromTheStart
  /\ JustLeftIdle
  /\ FirstListQuiet
  /\ SecondListEntered
  /\ SecondListWaits

\* Steps of the surroundings: the dialler sees the modem change, at most
Elsewhere ==
  UNCHANGED <<ConnectedState, pending, loop, DialSteps, ResponsePtr, SystemTicks,
              Modem_SendBuffer, Modem_ReceiveBuffer, PPP_Phase>>

\* The kinds of step, as far as the dialling is concerned.
LEMMA StepKinds ==
  ASSUME [Next]_vars
  PROVE  \/ Idle
         \/ LinkManagement_DialConnection
         \/ ManageLink
         \/ Assign
         \/ USBManagement_SendReceivePipes
         \/ Timer1
         \/ Restart
         \/ Unplug
         \/ Elsewhere
<1>1. CASE Timer3 \/ PPPGivesUp
  BY <1>1 DEF Timer3, PPPGivesUp, Elsewhere, mainLoop
<1>2. CASE Attach \/ Enumerate \/ ModemAnswers \/ PeerSends
  BY <1>2 DEF Attach, Enumerate, ModemAnswers, PeerSends, Elsewhere, mainLoop
<1>3. CASE UNCHANGED vars
  BY <1>3 DEF vars, Elsewhere
<1> QED
  BY <1>1, <1>2, <1>3 DEF Next, MainLoop

\* A turn that manages the link writes no state of the dialler.
LEMMA ManageLinkEffect ==
  ASSUME Base, ManageLink
  PROVE  /\ UNCHANGED <<ConnectedState, DialSteps, ResponsePtr, Modem_SendBuffer, PPP_Phase,
                        modem, USB_HostState>>
         /\ Modem_ReceiveBuffer' = <<>>
         /\ ConnectedState \in LinkStates
         /\ pending' \in LinkStates \cup {"none"}
<1>1. PICK state \in LinkStates \cup {"none"} : EndWith(state)
  BY LinkOutcome
<1> QED
  BY <1>1 DEF ManageLink, EndWith

\* Answers and commands of the dialler are never under way at once.
LEMMA OneBufferKept == Base /\ OneBufferUsed /\ [Next]_vars => OneBufferUsed'
<1> SUFFICES ASSUME Base, OneBufferUsed, [Next]_vars PROVE OneBufferUsed'
  OBVIOUS
<1>1. CASE LinkManagement_DialConnection
  BY <1>1, DialCases DEF OneBufferUsed, statics
<1>2. CASE ManageLink
  BY <1>2, ManageLinkEffect DEF OneBufferUsed
<1>3. CASE USBManagement_SendReceivePipes
  BY <1>3 DEF USBManagement_SendReceivePipes, OneBufferUsed
<1>4. CASE Idle \/ Assign \/ Timer1 \/ Restart \/ Unplug \/ Elsewhere
  BY <1>4 DEF Idle, Assign, Timer1, Restart, Unplug, Elsewhere, mainLoop, statics, usb,
              OneBufferUsed
<1> QED
  BY <1>1, <1>2, <1>3, <1>4, StepKinds

\* A dialler that starts a list starts at its first command.
LEMMA FromTheStartKept == Base /\ FromTheStart /\ [Next]_vars => FromTheStart'
<1> SUFFICES ASSUME Base, FromTheStart, [Next]_vars PROVE FromTheStart'
  OBVIOUS
<1>1. CASE LinkManagement_DialConnection
  <2>1. CASE ~Configured
    BY <1>1, <2>1, DialCases DEF FromTheStart, statics, Configured
  <2>2. CASE Configured
    <3>1. CASE pending' = "none"
      BY <1>1, <2>2, <3>1, DialCases DEF FromTheStart, Configured
    <3>2. CASE DialSteps' = 0
      BY <3>2 DEF FromTheStart
    <3> QED
      BY <1>1, <2>2, <3>1, <3>2, DialCases DEF FinishDialling
  <2> QED
    BY <2>1, <2>2
<1>2. CASE ManageLink
  BY <1>2, ManageLinkEffect DEF FromTheStart
<1>3. CASE USBManagement_SendReceivePipes
  BY <1>3 DEF USBManagement_SendReceivePipes, FromTheStart, Configured
<1>4. CASE Elsewhere
  <2>1. Configured => Configured' \/ ConnectedState' = "Idle"
    <3>1. CASE UNCHANGED USB_HostState
      BY <3>1 DEF Configured
    <3>2. CASE Attach \/ Enumerate
      BY <3>2 DEF Attach, Enumerate, Settled, Configured
    <3>3. CASE Unplug \/ Restart
      BY <3>3 DEF Unplug, Restart
    <3> QED
      BY <3>1, <3>2, <3>3
         DEF Next, MainLoop, Idle, LinkManagement_DialConnection, ManageLink, Assign, usb,
             USBManagement_SendReceivePipes, Timer1, Timer3, PPPGivesUp, ModemAnswers,
             PeerSends, vars
  <2> QED
    BY <1>4, <2>1 DEF Elsewhere, FromTheStart
<1>5. CASE Idle \/ Assign \/ Timer1
  BY <1>5 DEF Idle, EndWith, Assign, Timer1, mainLoop, statics, usb, FromTheStart, Configured
<1>6. CASE Restart \/ Unplug
  BY <1>6 DEF Restart, Unplug, mainLoop, FromTheStart, Base
<1> QED
  BY <1>1, <1>2, <1>3, <1>4, <1>5, <1>6, StepKinds

\* What holds between leaving Idle and the first turn of the dialler.
LEMMA JustLeftIdleKept == Base /\ JustLeftIdle /\ [Next]_vars => JustLeftIdle'
<1> SUFFICES ASSUME Base, JustLeftIdle, [Next]_vars PROVE JustLeftIdle'
  OBVIOUS
<1>1. CASE LinkManagement_DialConnection
  BY <1>1, DialCases, DialFinished DEF JustLeftIdle
<1>2. CASE ManageLink
  BY <1>2, ManageLinkEffect DEF JustLeftIdle
<1>3. CASE USBManagement_SendReceivePipes
  BY <1>3 DEF USBManagement_SendReceivePipes, JustLeftIdle, Base, LoopOK
<1>4. CASE Timer1
  BY <1>4, ConstantsAssumption
     DEF Timer1, mainLoop, JustLeftIdle, Base, LoopOK, Typed, ClocksTyped, MaxTicks
<1>5. CASE Idle \/ Assign \/ Restart \/ Unplug \/ Elsewhere
  BY <1>5 DEF Idle, EndWith, Assign, Restart, Unplug, Elsewhere, mainLoop, JustLeftIdle
<1> QED
  BY <1>1, <1>2, <1>3, <1>4, <1>5, StepKinds

\* The first list ends with no word of it left over.
LEMMA FirstListEnds ==
  ASSUME Base, FirstListQuiet, LinkManagement_DialConnection, NEW k \in Matches,
         FinishDialling(ListOf[ConnectedState], StepsAfter(k)),
         ConnectedState = "SendModemDialCommands"
  PROVE  Modem_SendBuffer = <<>> /\ (~modem.online => Quiet)
<1>1. SystemTicks > COMMAND_SPACING
  BY DEF FinishDialling
<1>2. pending = "none"
  BY DialCases
<1> SUFFICES ASSUME DialSteps = 0, Modem_ReceiveBuffer = <<>> PROVE FALSE
  BY <1>1, <1>2 DEF FirstListQuiet, Dials
<1>3. StepsAfter(k) = 0
  BY NoMatch DEF Base
<1>4. FinishDialling(ListOf["SendModemDialCommands"], 0)
  BY <1>3
<1> QED
  BY <1>4, ListWords DEF FinishDialling

\* When a command of the first list is due, no earlier word is under way.
LEMMA FirstListKept ==
  ASSUME Patience = 1, COMMAND_SPACING >= 1, Base, DialInv, [Next]_vars
  PROVE  FirstListQuiet'
<1> SUFFICES ASSUME Dials("SendModemDialCommands")', SystemTicks' > COMMAND_SPACING
             PROVE  \/ Modem_SendBuffer' = <<>> /\ (~modem'.online => Quiet')
                    \/ DialSteps' = 0 /\ Modem_ReceiveBuffer' = <<>>
                       /\ (loop'.at = "usb" => NewModem')
  BY DEF FirstListQuiet
<1> DEFINE Held == \/ Modem_SendBuffer = <<>> /\ (~modem.online => Quiet)
                   \/ DialSteps = 0 /\ Modem_ReceiveBuffer = <<>>
                      /\ (loop.at = "usb" => NewModem)
<1>1. Dials("SendModemDialCommands") /\ SystemTicks > COMMAND_SPACING => Held
  BY DEF DialInv, FirstListQuiet
<1>2. COMMAND_SPACING \in Nat /\ SystemTicks \in Nat
  BY ConstantsAssumption DEF Base, Typed, ClocksTyped, MaxTicks
<1>3. CASE Idle \/ Restart
  BY <1>2, <1>3 DEF Idle, Restart
<1>4. CASE LinkManagement_DialConnection
  <2>1. CASE ~Configured
    <3>1. UNCHANGED <<Modem_SendBuffer, Modem_ReceiveBuffer, modem, DialSteps, SystemTicks,
                      ConnectedState>>
          /\ pending = "none" /\ pending' = "none"
      BY <1>4, <2>1, DialCases DEF statics
    <3>2. Held
      BY <1>1, <3>1 DEF Dials
    <3>3. NewModem
      BY <2>1 DEF DialInv, AbsentIsNew
    <3> QED
      BY <3>1, <3>2, <3>3 DEF NewModem, Quiet
  <2>2. CASE Configured
    <3>1. pending' = "none" => SystemTicks' = 0
                               \/ (SystemTicks <= COMMAND_SPACING /\ SystemTicks' = SystemTicks)
      BY <1>4, <2>2, DialCases, DialFinished DEF SendCommand, WaitForSpacing
    <3>2. pending' \in {"none", "SendNetworkDialCommands", "WaitForLink"}
      BY <1>4, <2>2, DialCases, DialFinished
    <3> QED
      BY <1>2, <3>1, <3>2 DEF Dials
  <2> QED
    BY <2>1, <2>2
<1>5. CASE ManageLink
  BY <1>5, ManageLinkEffect DEF Dials
<1>6. CASE Assign \/ Unplug
  <2>1. pending = "SendModemDialCommands" /\ SystemTicks' = SystemTicks
    BY <1>6 DEF Assign, Unplug, mainLoop, statics, Dials
  <2> QED
    BY <1>2, <2>1 DEF DialInv, JustLeftIdle
<1>7. CASE USBManagement_SendReceivePipes
  <2>1. /\ UNCHANGED <<ConnectedState, pending, DialSteps, SystemTicks, USB_HostState>>
        /\ loop.at = "usb" /\ loop'.at = "link"
    BY <1>7 DEF USBManagement_SendReceivePipes
  <2>2. Held
    BY <1>1, <2>1 DEF Dials
  <2>3. CASE ~Configured
    BY <1>7, <2>1, <2>2, <2>3 DEF USBManagement_SendReceivePipes, Quiet
  <2>4. CASE Configured
    <3>1. /\ modem.commands \in Seq(Sent) /\ Modem_SendBuffer \in Seq(Sent)
          /\ modem.answers \in Seq(Received) /\ Modem_ReceiveBuffer \in Seq(Received)
      BY DEF Base, Typed, BuffersTyped, Modems
    <3>2. /\ Modem_SendBuffer' = <<>> /\ modem'.answers = <<>> /\ modem'.online = modem.online
          /\ modem'.commands = modem.commands \o Modem_SendBuffer
          /\ Modem_ReceiveBuffer' = Modem_ReceiveBuffer \o modem.answers
      BY <1>7, <2>4, SendReceiveEffect DEF Base
    <3>3. CASE Modem_SendBuffer = <<>> /\ (~modem.online => Quiet)
      <4>1. modem.commands = <<>> => modem'.commands = <<>>
        BY <3>1, <3>2, <3>3, EmptyConcat
      <4> QED
        BY <3>2, <3>3, <4>1 DEF Quiet
    <3>4. CASE DialSteps = 0 /\ Modem_ReceiveBuffer = <<>> /\ NewModem
      <4>1. modem.answers = <<>>
        BY <3>4 DEF NewModem, Quiet
      <4>2. Modem_ReceiveBuffer' = <<>>
        BY <3>1, <3>2, <3>4, <4>1, EmptyConcat
      <4> QED
        BY <2>1, <3>4, <4>2
    <3> QED
      BY <2>1, <2>2, <3>3, <3>4
  <2> QED
    BY <2>3, <2>4
<1>8. CASE Timer1
  <2>1. /\ UNCHANGED <<ConnectedState, pending, Modem_SendBuffer, Modem_ReceiveBuffer, modem,
                       DialSteps>>
        /\ loop'.at = loop.at /\ loop.passed
    BY <1>8 DEF Timer1, mainLoop, Base, LoopOK
  <2>2. SystemTicks' \in {SystemTicks, SystemTicks + 1, MaxTicks}
        /\ (SystemTicks <= COMMAND_SPACING => SystemTicks' = SystemTicks + 1)
    BY <1>2, <1>8, ConstantsAssumption DEF Timer1, MaxTicks
  <2>3. Held
    <3>1. CASE SystemTicks > COMMAND_SPACING
      BY <1>1, <2>1, <3>1 DEF Dials
    <3>2. CASE SystemTicks <= COMMAND_SPACING
      <4>1. SystemTicks = COMMAND_SPACING
        BY <1>2, <2>2, <3>2
      <4>2. pending = "none" /\ ConnectedState = "SendModemDialCommands"
        BY <1>2, <2>1, <4>1 DEF DialInv, JustLeftIdle, Dials
      <4>3. CASE Configured
        <5>1. Outstanding < 1
          BY <1>8, <4>1, <4>2, <4>3 DEF Timer1, CommandComesDue
        <5> QED
          BY <5>1, NothingOutstanding DEF DialInv, Base
      <4>4. CASE ~Configured
        BY <4>2, <4>4 DEF DialInv, AbsentIsNew, NewModem, OneBufferUsed, FromTheStart
      <4> QED
        BY <4>3, <4>4
    <3> QED
      BY <1>2, <3>1, <3>2
  <2> QED
    BY <2>1, <2>3 DEF NewModem, Quiet
<1>9. CASE Elsewhere
  <2>1. Held
    BY <1>1, <1>9 DEF Elsewhere, Dials
  <2>2. CASE UNCHANGED modem
    BY <1>9, <2>1, <2>2 DEF Elsewhere, NewModem, Quiet
  <2>3. CASE Unplug \/ Restart
    <3>1. NewModem'
      BY <2>3, FreshIsNew DEF Unplug, Restart
    <3> QED
      BY <1>9, <2>1, <3>1 DEF Elsewhere, NewModem
  <2>4. CASE ModemAnswers
    <3>1. modem.commands # <<>> /\ (modem.online => modem'.online)
      BY <2>4, ModemAnswersEffect
    <3> QED
      BY <1>9, <2>1, <3>1 DEF Elsewhere, NewModem, Quiet
  <2>5. CASE PeerSends
    <3>1. modem.online /\ modem'.online
      BY <2>5, PeerSendsEffect DEF Base
    <3> QED
      BY <1>9, <2>1, <3>1 DEF Elsewhere, NewModem
  <2>6. CASE Attach \/ Enumerate
    BY <2>2, <2>6 DEF Attach, Enumerate
  <2>7. CASE USBManagement_SendReceivePipes
    BY <1>7, <2>7
  <2> QED
    BY <2>2, <2>3, <2>4, <2>5, <2>6, <2>7, ModemSteps
<1> QED
  BY <1>3, <1>4, <1>5, <1>6, <1>7, <1>8, <1>9, StepKinds

\* The second list is entered with empty buffers.
LEMMA SecondListEnteredKept ==
  ASSUME Base, DialInv, [Next]_vars
  PROVE  SecondListEntered'
<1> SUFFICES ASSUME pending' = "SendNetworkDialCommands"
             PROVE  Modem_SendBuffer' = <<>> /\ Modem_ReceiveBuffer' = <<>>
  BY DEF SecondListEntered
<1>1. CASE LinkManagement_DialConnection
  <2>1. PICK k \in Matches :
          FinishDialling(ListOf[ConnectedState], StepsAfter(k)) /\ AfterDialling
    BY <1>1, DialCases
  <2>2. ConnectedState = "SendModemDialCommands"
    BY <2>1, DialFinished
  <2>3. Modem_SendBuffer = <<>>
    BY <1>1, <2>1, <2>2, FirstListEnds DEF DialInv
  <2>4. Modem_SendBuffer' = Modem_SendBuffer
    BY <2>1 DEF FinishDialling
  <2>5. Modem_ReceiveBuffer' = <<>>
    BY <1>1, <2>1, DialCases, DialFinished
  <2> QED
    BY <2>3, <2>4, <2>5
<1>2. CASE USBManagement_SendReceivePipes
  BY <1>2 DEF USBManagement_SendReceivePipes, Base, LoopOK
<1>3. CASE ManageLink
  BY <1>3, ManageLinkEffect
<1>4. CASE Idle \/ Assign \/ Restart
  BY <1>4 DEF Idle, EndWith, Assign, Restart
<1>5. CASE Timer1 \/ Unplug \/ Elsewhere
  BY <1>5 DEF Timer1, Unplug, Elsewhere, mainLoop, DialInv, SecondListEntered
<1> QED
  BY <1>1, <1>2, <1>3, <1>4, <1>5, StepKinds

\* Until the modem is online nothing moves the dialler past ATDT.
LEMMA SecondListKept ==
  ASSUME Base, DialInv, [Next]_vars
  PROVE  SecondListWaits'
<1> DEFINE Waits == /\ DialSteps = 0
                    /\ \/ Modem_SendBuffer = <<>> /\ Modem_ReceiveBuffer = <<>> /\ Quiet
                       \/ /\ ResponsePtr = "CONNECT"
                          /\ NoConnect(modem.answers) /\ NoConnect(Modem_ReceiveBuffer)
<1> SUFFICES ASSUME Dials("SendNetworkDialCommands")', ~modem'.online
             PROVE  Waits'
  BY DEF SecondListWaits
<1>1. Dials("SendNetworkDialCommands") /\ ~modem.online => Waits
  BY DEF DialInv, SecondListWaits
<1>2. /\ modem.commands \in Seq(Sent) /\ Modem_SendBuffer \in Seq(Sent)
      /\ modem.answers \in Seq(Received) /\ Modem_ReceiveBuffer \in Seq(Received)
  BY DEF Base, Typed, BuffersTyped, Modems
<1>3. NoConnect(<<>>)
  BY DEF NoConnect
<1>4. CASE Idle \/ Restart
  BY <1>4 DEF Idle, EndWith, Restart, Dials
<1>5. CASE LinkManagement_DialConnection
  <2>1. UNCHANGED <<ConnectedState, modem, USB_HostState>> /\ pending = "none"
    BY <1>5, DialCases
  <2>2. CASE ~Configured
    <3>1. UNCHANGED <<Modem_SendBuffer, Modem_ReceiveBuffer, ResponsePtr, DialSteps, pending>>
      BY <1>5, <2>2, DialCases DEF statics
    <3>2. Waits
      BY <1>1, <2>1, <3>1 DEF Dials
    <3> QED
      BY <2>1, <3>1, <3>2 DEF Quiet
  <2>3. CASE Configured /\ ConnectedState = "SendModemDialCommands"
    <3>1. pending' = "SendNetworkDialCommands"
      BY <2>1, <2>3 DEF Dials
    <3>2. PICK k \in Matches :
            FinishDialling(ListOf[ConnectedState], StepsAfter(k)) /\ AfterDialling
      BY <1>5, <3>1, DialCases
    <3>3. Modem_SendBuffer = <<>> /\ Quiet
      BY <1>5, <2>1, <2>3, <3>2, FirstListEnds DEF DialInv
    <3>4. Modem_SendBuffer' = Modem_SendBuffer /\ DialSteps' = 0
      BY <3>2 DEF FinishDialling
    <3>5. Modem_ReceiveBuffer' = <<>>
      BY <1>5, <2>3, DialCases
    <3> QED
      BY <2>1, <3>3, <3>4, <3>5 DEF Quiet
  <2>4. CASE Configured /\ ConnectedState = "SendNetworkDialCommands"
    <3>1. Waits /\ ~modem.online
      BY <1>1, <2>1, <2>4 DEF Dials
    <3>2. PICK k \in Matches :
            \/ SendCommand(ListOf[ConnectedState], StepsAfter(k))
            \/ FinishDialling(ListOf[ConnectedState], StepsAfter(k))
            \/ WaitForSpacing(StepsAfter(k))
      BY <1>5, <2>4, DialCases
    <3>3. Modem_ReceiveBuffer' = <<>>
      BY <1>5, <2>4, DialCases
    <3>4. StepsAfter(k) = 0
      BY <3>1, NoMatch DEF Base, NoConnect
    <3>5. \/ SendCommand(ListOf["SendNetworkDialCommands"], 0)
          \/ WaitForSpacing(0)
      <4>1. ~FinishDialling(ListOf["SendNetworkDialCommands"], 0)
        BY ListWords DEF FinishDialling
      <4> QED
        BY <2>4, <3>2, <3>4, <4>1
    <3>6. CASE SendCommand(ListOf["SendNetworkDialCommands"], 0)
      <4>1. DialSteps' = 0 /\ ResponsePtr' = "CONNECT"
        BY <3>6, ListWords DEF SendCommand
      <4>2. NoConnect(modem.answers)
        BY <1>3, <3>1 DEF Quiet
      <4> QED
        BY <1>3, <2>1, <3>3, <4>1, <4>2 DEF NoConnect
    <3>7. CASE WaitForSpacing(0)
      <4>1. DialSteps' = 0 /\ UNCHANGED <<ResponsePtr, Modem_SendBuffer>>
        BY <3>7 DEF WaitForSpacing
      <4> QED
        BY <1>3, <2>1, <3>1, <3>3, <4>1 DEF NoConnect, Quiet
    <3> QED
      BY <3>5, <3>6, <3>7
  <2> QED
    BY <1>5, <2>2, <2>3, <2>4, DialCases
<1>6. CASE ManageLink
  BY <1>6, ManageLinkEffect DEF Dials
<1>7. CASE Assign
  BY <1>1, <1>7 DEF Assign, statics, usb, Dials, NoConnect, Quiet
<1>8. CASE USBManagement_SendReceivePipes
  <2>1. UNCHANGED <<ConnectedState, pending, DialSteps, ResponsePtr>>
    BY <1>8 DEF USBManagement_SendReceivePipes
  <2>2. CASE ~Configured
    <3>1. UNCHANGED <<Modem_SendBuffer, Modem_ReceiveBuffer, modem>>
      BY <1>8, <2>2 DEF USBManagement_SendReceivePipes
    <3> QED
      BY <1>1, <2>1, <3>1 DEF Dials, NoConnect, Quiet
  <2>3. CASE Configured
    <3>1. /\ Modem_SendBuffer' = <<>> /\ modem'.answers = <<>> /\ modem'.online = modem.online
          /\ modem'.commands = modem.commands \o Modem_SendBuffer
          /\ Modem_ReceiveBuffer' = Modem_ReceiveBuffer \o modem.answers
      BY <1>8, <2>3, SendReceiveEffect DEF Base
    <3>2. Waits
      BY <1>1, <2>1, <3>1 DEF Dials
    <3>3. CASE Modem_SendBuffer = <<>> /\ Modem_ReceiveBuffer = <<>> /\ Quiet
      <4>1. modem'.commands = <<>> /\ Modem_ReceiveBuffer' = <<>>
        BY <1>2, <3>1, <3>3, EmptyConcat DEF Quiet
      <4> QED
        BY <2>1, <3>1, <3>2, <4>1 DEF Quiet
    <3>4. CASE /\ ResponsePtr = "CONNECT"
               /\ NoConnect(modem.answers) /\ NoConnect(Modem_ReceiveBuffer)
      <4>1. NoConnect(Modem_ReceiveBuffer')
        BY <1>2, <3>1, <3>4, ConcatWithout DEF NoConnect
      <4> QED
        BY <1>3, <2>1, <3>1, <3>2, <3>4, <4>1 DEF NoConnect
    <3> QED
      BY <3>2, <3>3, <3>4
  <2> QED
    BY <2>2, <2>3
<1>9. CASE Timer1
  BY <1>1, <1>9 DEF Timer1, mainLoop, Dials, NoConnect, Quiet
<1>10. CASE Unplug
  <2>1. /\ UNCHANGED <<Modem_SendBuffer, Modem_ReceiveBuffer, DialSteps>>
        /\ pending = "SendNetworkDialCommands"
    BY <1>10 DEF Unplug, mainLoop, Dials
  <2>2. DialSteps = 0 /\ Modem_SendBuffer = <<>> /\ Modem_ReceiveBuffer = <<>>
    BY <2>1 DEF DialInv, FromTheStart, SecondListEntered
  <2>3. Quiet'
    BY <1>10, FreshIsNew DEF Unplug, NewModem
  <2> QED
    BY <2>1, <2>2, <2>3
<1>11. CASE Elsewhere
  <2>1. /\ Dials("SendNetworkDialCommands")
        /\ UNCHANGED <<Modem_SendBuffer, Modem_ReceiveBuffer, ResponsePtr, DialSteps>>
    BY <1>11 DEF Elsewhere, Dials
  <2>2. CASE UNCHANGED modem
    BY <1>1, <2>1, <2>2 DEF NoConnect, Quiet
  <2>3. CASE Unplug \/ Restart
    BY <1>4, <1>10, <2>3
  <2>4. CASE ModemAnswers
    <3>1. /\ modem.commands # <<>> /\ ~modem.online
          /\ modem'.answers = modem.answers \o AnswerTo(Head(modem.commands))
          /\ Head(modem.commands) # "ATDT"
      BY <2>4, ModemAnswersEffect
    <3>2. AnswerTo(Head(modem.commands)) \in {<<>>, <<"OK">>}
      BY <3>1 DEF AnswerTo
    <3>3. NoConnect(AnswerTo(Head(modem.commands)))
      BY <3>2 DEF NoConnect
    <3>4. DialSteps = 0 /\ ResponsePtr = "CONNECT" /\ NoConnect(modem.answers)
          /\ NoConnect(Modem_ReceiveBuffer)
      BY <1>1, <2>1, <3>1 DEF Quiet
    <3>5. NoConnect(modem'.answers)
      BY <1>2, <3>1, <3>3, <3>4, ConcatWithout, AnswerToTyped DEF NoConnect
    <3> QED
      BY <2>1, <3>4, <3>5 DEF NoConnect
  <2>5. CASE PeerSends
    BY <2>5, PeerSendsEffect DEF Base
  <2>6. CASE Attach \/ Enumerate
    BY <2>2, <2>6 DEF Attach, Enumerate
  <2>7. CASE USBManagement_SendReceivePipes
    BY <1>8, <2>7
  <2> QED
    BY <2>2, <2>3, <2>4, <2>5, <2>6, <2>7, ModemSteps
<1> QED
  BY <1>4, <1>5, <1>6, <1>7, <1>8, <1>9, <1>10, <1>11, StepKinds

\* PPP is started at the end of the second list, and nowhere else.
LEMMA StartsAfterConnect ==
  ASSUME Base, DialInv, [Next]_vars, StartsLink
  PROVE  modem.online
<1> SUFFICES ASSUME ~modem.online PROVE FALSE
  OBVIOUS
<1>1. CASE LinkManagement_DialConnection
  <2>1. PICK k \in Matches :
          FinishDialling(ListOf[ConnectedState], StepsAfter(k)) /\ AfterDialling
    BY <1>1, DialCases DEF StartsLink, statics
  <2>2. ConnectedState = "SendNetworkDialCommands" /\ pending = "none"
    BY <1>1, <2>1, DialCases, DialFinished DEF StartsLink
  <2>3. /\ DialSteps = 0
        /\ \/ Modem_ReceiveBuffer = <<>>
           \/ ResponsePtr = "CONNECT" /\ NoConnect(Modem_ReceiveBuffer)
    BY <2>2 DEF DialInv, SecondListWaits, Dials
  <2>4. StepsAfter(k) = 0
    BY <2>3, NoMatch DEF Base, NoConnect
  <2>5. FinishDialling(ListOf["SendNetworkDialCommands"], 0)
    BY <2>1, <2>2, <2>4
  <2> QED
    BY <2>5, ListWords DEF FinishDialling
<1>2. CASE ManageLink
  BY <1>2, ManageLinkEffect DEF StartsLink
<1>3. CASE Idle \/ Restart
  BY <1>3 DEF Idle, Restart, StartsLink
<1>4. CASE Assign \/ USBManagement_SendReceivePipes \/ Timer1 \/ Unplug \/ Elsewhere
  BY <1>4 DEF Assign, USBManagement_SendReceivePipes, Timer1, Unplug, Elsewhere, mainLoop,
              statics, StartsLink
<1> QED
  BY <1>1, <1>2, <1>3, <1>4, StepKinds

\* The invariant of the dialling holds when the program starts.
LEMMA DialInit == Init => DialInv
<1> SUFFICES ASSUME Init PROVE DialInv
  OBVIOUS
<1>1. modem = FreshModem /\ pending = "none" /\ ConnectedState = "Idle" /\ Modem_SendBuffer = <<>>
  BY DEF Init
<1>2. NewModem /\ modem.answers = <<>>
  BY <1>1 DEF FreshModem, NewModem, Quiet
<1> QED
  BY <1>1, <1>2
     DEF DialInv, AbsentIsNew, NoDataOffline, OneBufferUsed, FromTheStart, JustLeftIdle,
         FirstListQuiet, SecondListEntered, SecondListWaits, Dials

(* PPP is only started over a modem that has answered CONNECT since it was  *)
(* plugged in, however often it was unplugged while commands were under     *)
(* way: with a modem that has answered before the next command is due, and  *)
(* a spacing that is not zero (100 ticks in the code), no response left     *)
(* over from an earlier session moves the dialler past ATDT.                *)
THEOREM ConnectComesFirst ==
  ASSUME Patience = 1, COMMAND_SPACING >= 1
  PROVE  Spec => ConnectBeforeLink
<1> DEFINE I == IInv /\ Typed /\ DialInv
<1>1. I => Base
  BY DEF IInv, Base
<1>2. Init => I
  BY InitEstablishes, InitTyped, DialInit
<1>3. I /\ [Next]_vars => I'
  <2> SUFFICES ASSUME I, [Next]_vars PROVE DialInv'
    BY NextKeeps, NextTypes
  <2>1. AbsentIsNew' /\ NoDataOffline'
    BY AbsentKept, NoDataKept DEF DialInv
  <2>2. OneBufferUsed' /\ FromTheStart' /\ JustLeftIdle'
    BY <1>1, OneBufferKept, FromTheStartKept, JustLeftIdleKept DEF DialInv
  <2>3. FirstListQuiet' /\ SecondListEntered' /\ SecondListWaits'
    BY <1>1, FirstListKept, SecondListEnteredKept, SecondListKept
  <2> QED
    BY <2>1, <2>2, <2>3 DEF DialInv
<1>4. I /\ [Next]_vars => [StartsLink => modem.online]_vars
  BY <1>1, StartsAfterConnect
<1> HIDE DEF I
<1> QED
  BY <1>2, <1>3, <1>4, PTL DEF Spec, ConnectBeforeLink

----------------------------------------------------------------------------
(* The first list, as long as the modem stays *)

AllEmpty == Modem_SendBuffer = <<>> /\ Modem_ReceiveBuffer = <<>> /\ Quiet

\* One command is under way, or one answer
OneCommand(command) ==
  /\ Modem_ReceiveBuffer = <<>> /\ modem.answers = <<>>
  /\ \/ Modem_SendBuffer = <<command>> /\ modem.commands = <<>>
     \/ Modem_SendBuffer = <<>> /\ modem.commands = <<command>>
OneAnswer(answer) ==
  /\ Modem_SendBuffer = <<>> /\ modem.commands = <<>>
  /\ \/ modem.answers = <<answer>> /\ Modem_ReceiveBuffer = <<>>
     \/ modem.answers = <<>> /\ Modem_ReceiveBuffer = <<answer>>

\* A command was sent and the next is not due
Waiting ==
  /\ pending = "none" /\ Configured
  /\ ResponsePtr = "OK" /\ SystemTicks <= COMMAND_SPACING

\* Nothing sent; AT under way; AT answered; AT&F under way, which initialises the modem
BeforeAT  == DialSteps = 0 /\ AllEmpty
DuringAT  == DialSteps = 0 /\ Waiting /\ (OneCommand("AT") \/ OneAnswer("OK"))
BeforeATF == DialSteps = 2 /\ pending = "none" /\ AllEmpty
DuringATF == DialSteps = 2 /\ Waiting /\ OneCommand("AT&F")

FirstListInOrder ==
  /\ unplugs \in Nat
  /\ pending # "Idle"
  /\ unplugs = 0 /\ ConnectedState = "Idle" => AllEmpty /\ NewModem
  /\ unplugs = 0 /\ Dials("SendModemDialCommands") /\ ~modem.initialised =>
       /\ ~modem.online
       /\ BeforeAT \/ DuringAT \/ BeforeATF \/ DuringATF

\* Sequences of one word.
LEMMA OneWord ==
  ASSUME NEW S, NEW word \in S
  PROVE  /\ Append(<<>>, word) = <<word>> /\ <<word>> \in Seq(S) /\ <<word>> # <<>>
         /\ Head(<<word>>) = word /\ Tail(<<word>>) = <<>>
         /\ <<>> \o <<word>> = <<word>> /\ <<word>> \o <<>> = <<word>>
OBVIOUS

\* The answer that is expected moves the dialler on by one command.
LEMMA OneMatches ==
  ASSUME NEW k \in Matches, ResponsePtr = "OK", Modem_ReceiveBuffer = <<"OK">>, DialSteps = 0
  PROVE  StepsAfter(k) = 2
<1>1. {i \in DOMAIN Modem_ReceiveBuffer : Modem_ReceiveBuffer[i] = ResponsePtr} = {1}
  OBVIOUS
<1>2. k = Cardinality({1})
  BY <1>1 DEF Matches
<1>3. k = 1
  BY <1>2, FS_Singleton
<1> QED
  BY <1>3 DEF StepsAfter

\* Unplugging is counted, by no other step undone.
LEMMA UnplugsCounted ==
  ASSUME [Next]_vars, unplugs \in Nat
  PROVE  unplugs' \in Nat /\ (unplugs' = 0 => unplugs = 0 /\ ~Unplug)
<1>1. CASE Unplug
  BY <1>1 DEF Unplug
<1>2. CASE UNCHANGED unplugs
  BY <1>2 DEF Unplug
<1> QED
  BY <1>1, <1>2
     DEF Next, MainLoop, Idle, LinkManagement_DialConnection, ManageLink, Assign,
         USBManagement_SendReceivePipes, Timer1, Timer3, PPPGivesUp, Attach, Enumerate,
         ModemAnswers, PeerSends, vars

\* The idle state is never assigned by the main loop.
LEMMA NeverAssignsIdle ==
  ASSUME Base, pending # "Idle", [Next]_vars
  PROVE  pending' # "Idle"
<1>1. CASE LinkManagement_DialConnection
  BY <1>1, DialCases, DialFinished
<1>2. CASE ManageLink
  BY <1>2, ManageLinkEffect
<1>3. CASE Idle \/ Assign \/ Restart
  BY <1>3 DEF Idle, EndWith, Assign, Restart
<1>4. CASE USBManagement_SendReceivePipes \/ Timer1 \/ Unplug \/ Elsewhere
  BY <1>4 DEF USBManagement_SendReceivePipes, Timer1, Unplug, Elsewhere, mainLoop
<1> QED
  BY <1>1, <1>2, <1>3, <1>4, StepKinds

\* What the pipes do to empty buffers.
LEMMA EmptyStays ==
  ASSUME Base, AllEmpty, USBManagement_SendReceivePipes
  PROVE  /\ AllEmpty'
         /\ modem'.initialised = modem.initialised /\ modem'.online = modem.online
<1>1. CASE ~Configured
  BY <1>1 DEF USBManagement_SendReceivePipes, AllEmpty, Quiet
<1>2. CASE Configured
  <2>1. /\ modem.commands \in Seq(Sent) /\ Modem_SendBuffer \in Seq(Sent)
        /\ modem.answers \in Seq(Received) /\ Modem_ReceiveBuffer \in Seq(Received)
    BY DEF Base, Typed, BuffersTyped, Modems
  <2>2. modem.commands \o Modem_SendBuffer = <<>> /\ Modem_ReceiveBuffer \o modem.answers = <<>>
    BY <2>1, EmptyConcat DEF AllEmpty, Quiet
  <2> QED
    BY <1>2, <2>2, SendReceiveEffect DEF Base, AllEmpty, Quiet
<1> QED
  BY <1>1, <1>2

\* After a reset nothing is left anywhere.
LEMMA RestartEmpties == Restart => AllEmpty' /\ NewModem'
<1> SUFFICES ASSUME Restart PROVE AllEmpty' /\ NewModem'
  OBVIOUS
<1>1. Modem_SendBuffer' = <<>> /\ Modem_ReceiveBuffer' = <<>>
  BY DEF Restart
<1>2. NewModem'
  BY FreshIsNew DEF Restart
<1> QED
  BY <1>1, <1>2 DEF AllEmpty, NewModem

\* As long as nothing has been unplugged, Idle has empty buffers and a new modem.
LEMMA IdleClean ==
  ASSUME Base, FirstListInOrder, [Next]_vars, unplugs' = 0, ConnectedState' = "Idle"
  PROVE  AllEmpty' /\ NewModem'
<1>1. unplugs = 0 /\ ~Unplug
  BY UnplugsCounted DEF FirstListInOrder
<1>2. CASE Restart
  BY <1>2, RestartEmpties
<1>3. CASE Assign
  BY <1>3 DEF Assign, FirstListInOrder
<1>4. CASE LinkManagement_DialConnection \/ ManageLink
  BY <1>4, DialCases, ManageLinkEffect
<1>5. CASE Idle \/ USBManagement_SendReceivePipes \/ Timer1 \/ Elsewhere
  <2>1. ConnectedState = "Idle"
    BY <1>5 DEF Idle, USBManagement_SendReceivePipes, Timer1, Elsewhere
  <2>2. AllEmpty /\ NewModem
    BY <1>1, <2>1 DEF FirstListInOrder
  <2>3. CASE USBManagement_SendReceivePipes
    BY <2>2, <2>3, EmptyStays DEF NewModem, AllEmpty
  <2>4. CASE Idle \/ Timer1
    BY <2>2, <2>4 DEF Idle, Timer1, usb, mainLoop, AllEmpty, NewModem, Quiet
  <2>5. CASE Elsewhere
    <3>1. ~ModemAnswers
      BY <2>2, ModemAnswersEffect DEF NewModem, Quiet
    <3>2. ~PeerSends
      BY <2>2, PeerSendsEffect DEF NewModem, Base
    <3>3. CASE UNCHANGED modem
      BY <2>2, <2>5, <3>3 DEF Elsewhere, AllEmpty, NewModem, Quiet
    <3> QED
      BY <1>1, <1>2, <2>3, <3>1, <3>2, <3>3, ModemSteps DEF Attach, Enumerate
  <2> QED
    BY <1>5, <2>3, <2>4, <2>5
<1> QED
  BY <1>1, <1>2, <1>3, <1>4, <1>5, StepKinds

Stage == ~modem.online /\ (BeforeAT \/ DuringAT \/ BeforeATF \/ DuringATF)

\* A turn of the dialler: one stage after the other, and the list does not end.
LEMMA DialStages ==
  ASSUME Base, LinkManagement_DialConnection, ConnectedState = "SendModemDialCommands", Stage
  PROVE  pending' = "none" /\ Stage'
<1>1. UNCHANGED <<modem, USB_HostState>> /\ pending = "none"
  BY DialCases
<1> DEFINE list == ListOf["SendModemDialCommands"]
<1>2. CASE ~Configured
  <2>1. UNCHANGED <<DialSteps, Modem_SendBuffer, Modem_ReceiveBuffer, pending>>
    BY <1>1, <1>2, DialCases DEF statics
  <2>2. BeforeAT \/ BeforeATF
    BY <1>2 DEF Stage, DuringAT, DuringATF, Waiting
  <2> QED
    BY <1>1, <2>1, <2>2 DEF Stage, BeforeAT, BeforeATF, AllEmpty, Quiet
<1>3. CASE Configured
  <2>1. Modem_ReceiveBuffer' = <<>>
    BY <1>3, DialCases
  <2>2. PICK k \in Matches :
          \/ SendCommand(list, StepsAfter(k)) /\ pending' = "none"
          \/ FinishDialling(list, StepsAfter(k))
          \/ WaitForSpacing(StepsAfter(k)) /\ pending' = "none"
    BY <1>3, DialCases
  <2>3. "AT" \in Sent /\ "AT&F" \in Sent
    BY DEF Sent, Commands
  <2>4. ASSUME AllEmpty, NEW command \in {"AT", "AT&F"},
               Modem_SendBuffer' = Append(Modem_SendBuffer, command)
        PROVE  OneCommand(command)'
    <3>1. Modem_SendBuffer' = <<command>>
      BY <2>3, <2>4, OneWord DEF AllEmpty
    <3> QED
      BY <1>1, <2>1, <2>4, <3>1 DEF OneCommand, AllEmpty, Quiet
  <2>5. CASE BeforeAT
    <3>1. StepsAfter(k) = 0
      BY <2>5, NoMatch DEF Base, BeforeAT, AllEmpty
    <3>2. \/ SendCommand(list, 0) /\ pending' = "none"
          \/ WaitForSpacing(0) /\ pending' = "none"
      BY <2>2, <3>1, ListWords DEF FinishDialling
    <3>3. CASE SendCommand(list, 0)
      <4>1. /\ DialSteps' = 0 /\ ResponsePtr' = "OK" /\ SystemTicks' = 0
            /\ Modem_SendBuffer' = Append(Modem_SendBuffer, "AT")
        BY <3>3, ListWords DEF SendCommand
      <4>2. OneCommand("AT")'
        BY <2>4, <2>5, <4>1 DEF BeforeAT
      <4>3. Waiting'
        BY <1>1, <1>3, <3>2, <4>1, ConstantsAssumption DEF Waiting, Configured
      <4> QED
        BY <1>1, <3>2, <4>1, <4>2, <4>3 DEF Stage, DuringAT
    <3>4. CASE WaitForSpacing(0)
      BY <1>1, <2>1, <2>5, <3>2, <3>4 DEF WaitForSpacing, Stage, BeforeAT, AllEmpty, Quiet
    <3> QED
      BY <3>2, <3>3, <3>4
  <2>6. CASE BeforeATF
    <3>1. StepsAfter(k) = 2
      BY <2>6, NoMatch DEF Base, BeforeATF, AllEmpty
    <3>2. \/ SendCommand(list, 2) /\ pending' = "none"
          \/ WaitForSpacing(2) /\ pending' = "none"
      BY <2>2, <3>1, ListWords DEF FinishDialling
    <3>3. CASE SendCommand(list, 2)
      <4>1. /\ DialSteps' = 2 /\ ResponsePtr' = "OK" /\ SystemTicks' = 0
            /\ Modem_SendBuffer' = Append(Modem_SendBuffer, "AT&F")
        BY <3>3, ListWords DEF SendCommand
      <4>2. OneCommand("AT&F")'
        BY <2>4, <2>6, <4>1 DEF BeforeATF
      <4>3. Waiting'
        BY <1>1, <1>3, <3>2, <4>1, ConstantsAssumption DEF Waiting, Configured
      <4> QED
        BY <1>1, <3>2, <4>1, <4>2, <4>3 DEF Stage, DuringATF
    <3>4. CASE WaitForSpacing(2)
      BY <1>1, <2>1, <2>6, <3>2, <3>4 DEF WaitForSpacing, Stage, BeforeATF, AllEmpty, Quiet
    <3> QED
      BY <3>2, <3>3, <3>4
  <2>7. CASE DuringAT \/ DuringATF
    <3>1. Waiting /\ SystemTicks \in Nat /\ COMMAND_SPACING \in Nat
      BY <2>7, ConstantsAssumption
         DEF DuringAT, DuringATF, Base, Typed, ClocksTyped, MaxTicks
    <3>2. WaitForSpacing(StepsAfter(k)) /\ pending' = "none"
      BY <2>2, <3>1 DEF SendCommand, FinishDialling, Waiting
    <3>3. /\ DialSteps' = StepsAfter(k)
          /\ UNCHANGED <<ResponsePtr, SystemTicks, Modem_SendBuffer>>
      BY <3>2 DEF WaitForSpacing
    <3>4. Waiting'
      BY <1>1, <3>1, <3>2, <3>3 DEF Waiting, Configured
    <3>5. CASE Modem_ReceiveBuffer = <<>>
      <4>1. DialSteps' = DialSteps
        BY <3>3, <3>5, NoMatch DEF Base
      <4>2. UNCHANGED <<Modem_ReceiveBuffer, Modem_SendBuffer, modem>>
        BY <1>1, <2>1, <3>3, <3>5
      <4> QED
        BY <2>7, <3>2, <3>4, <4>1, <4>2 DEF Stage, DuringAT, DuringATF, OneCommand, OneAnswer
    <3>6. CASE Modem_ReceiveBuffer # <<>>
      <4>1. DialSteps = 0 /\ ResponsePtr = "OK" /\ Modem_ReceiveBuffer = <<"OK">>
            /\ Modem_SendBuffer = <<>> /\ Quiet
        BY <2>7, <3>6 DEF DuringAT, DuringATF, Waiting, OneCommand, OneAnswer, Quiet
      <4>2. DialSteps' = 2
        BY <3>3, <4>1, OneMatches
      <4> QED
        BY <1>1, <2>1, <3>2, <3>3, <4>1, <4>2 DEF Stage, BeforeATF, AllEmpty, Quiet
    <3> QED
      BY <3>5, <3>6
  <2> QED
    BY <2>5, <2>6, <2>7 DEF Stage
<1> QED
  BY <1>2, <1>3

\* The words move through the pipes in the order they were sent.
LEMMA PipesKeepStage ==
  ASSUME Base, Stage, USBManagement_SendReceivePipes
  PROVE  Stage'
<1>1. UNCHANGED <<pending, DialSteps, ResponsePtr, SystemTicks, USB_HostState>>
  BY DEF USBManagement_SendReceivePipes
<1>2. CASE AllEmpty
  BY <1>1, <1>2, EmptyStays
     DEF Stage, BeforeAT, BeforeATF, DuringAT, DuringATF, OneCommand, OneAnswer, AllEmpty, Quiet
<1>3. CASE DuringAT \/ DuringATF
  <2>1. Configured
    BY <1>3 DEF DuringAT, DuringATF, Waiting
  <2>2. /\ Modem_SendBuffer' = <<>> /\ modem'.answers = <<>> /\ modem'.online = modem.online
        /\ modem'.commands = modem.commands \o Modem_SendBuffer
        /\ Modem_ReceiveBuffer' = Modem_ReceiveBuffer \o modem.answers
    BY <2>1, SendReceiveEffect DEF Base
  <2>3. <<>> \o <<>> = <<>>
    BY EmptyConcat
  <2>4. "AT" \in Sent /\ "AT&F" \in Sent /\ "OK" \in Received
    BY DEF Sent, Received, Commands, Responses
  <2>5. Waiting'
    BY <1>1, <1>3 DEF DuringAT, DuringATF, Waiting, Configured
  <2>6. ASSUME NEW command \in {"AT", "AT&F"}, OneCommand(command) PROVE OneCommand(command)'
    <3>1. modem'.commands = <<command>>
      BY <2>2, <2>4, <2>6, OneWord DEF OneCommand
    <3>2. Modem_ReceiveBuffer' = <<>>
      BY <2>2, <2>3, <2>6 DEF OneCommand
    <3> QED
      BY <2>2, <3>1, <3>2 DEF OneCommand
  <2>7. ASSUME OneAnswer("OK") PROVE OneAnswer("OK")'
    <3>1. Modem_ReceiveBuffer' = <<"OK">>
      BY <2>2, <2>4, <2>7, OneWord DEF OneAnswer
    <3>2. modem'.commands = <<>>
      BY <2>2, <2>3, <2>7 DEF OneAnswer
    <3> QED
      BY <2>2, <3>1, <3>2 DEF OneAnswer
  <2> QED
    BY <1>1, <1>3, <2>2, <2>5, <2>6, <2>7 DEF Stage, DuringAT, DuringATF
<1> QED
  BY <1>2, <1>3 DEF Stage, BeforeAT, BeforeATF

\* A tick finds a word under way, and then no command is due.
LEMMA TickKeepsStage ==
  ASSUME Patience = 1, Base, NoDataOffline, Stage, Timer1,
         pending = "none" => ConnectedState = "SendModemDialCommands"
  PROVE  Stage'
<1>1. UNCHANGED <<pending, DialSteps, ResponsePtr, USB_HostState, Modem_SendBuffer,
                  Modem_ReceiveBuffer, modem>>
  BY DEF Timer1, mainLoop
<1>2. CASE BeforeAT \/ BeforeATF
  BY <1>1, <1>2 DEF Stage, BeforeAT, BeforeATF, AllEmpty, Quiet
<1>3. CASE DuringAT \/ DuringATF
  <2>1. Waiting /\ SystemTicks \in Nat /\ COMMAND_SPACING \in Nat
    BY <1>3, ConstantsAssumption DEF DuringAT, DuringATF, Base, Typed, ClocksTyped, MaxTicks
  <2>2. ~(Outstanding < 1)
    <3> SUFFICES ASSUME Outstanding < 1 PROVE FALSE
      OBVIOUS
    <3>1. Modem_SendBuffer = <<>> /\ Quiet
      BY NothingOutstanding DEF Base, Stage
    <3>2. \A i \in DOMAIN Modem_ReceiveBuffer : Modem_ReceiveBuffer[i] = "data"
      BY NothingOutstanding DEF Base
    <3>3. Modem_ReceiveBuffer # <<"OK">>
      <4> SUFFICES ASSUME Modem_ReceiveBuffer = <<"OK">> PROVE FALSE
        OBVIOUS
      <4>1. 1 \in DOMAIN Modem_ReceiveBuffer /\ Modem_ReceiveBuffer[1] = "OK"
        OBVIOUS
      <4> QED
        BY <3>2, <4>1
    <3>4. <<"AT">> # <<>> /\ <<"AT&F">> # <<>> /\ <<"OK">> # <<>>
      OBVIOUS
    <3> QED
      BY <1>3, <3>1, <3>3, <3>4 DEF DuringAT, DuringATF, OneCommand, OneAnswer, Quiet
  <2>3. SystemTicks # COMMAND_SPACING
    <3>1. ~CommandComesDue
      BY <2>2 DEF Timer1
    <3> QED
      BY <2>1, <3>1 DEF CommandComesDue, Waiting
  <2>4. SystemTicks < COMMAND_SPACING
    BY <2>1, <2>3 DEF Waiting
  <2>5. SystemTicks' <= COMMAND_SPACING
    BY <2>1, <2>4, ConstantsAssumption DEF Timer1, MaxTicks
  <2>6. Waiting'
    BY <1>1, <2>1, <2>5 DEF Waiting, Configured
  <2> QED
    BY <1>1, <1>3, <2>6 DEF Stage, DuringAT, DuringATF, OneCommand, OneAnswer
<1> QED
  BY <1>2, <1>3 DEF Stage

\* The modem answers AT, and AT&F initialises it.
LEMMA AnswerKeepsStage ==
  ASSUME Base, Stage, ModemAnswers, ~modem'.initialised
  PROVE  Stage'
<1>1. /\ modem.commands # <<>>
      /\ modem'.commands = Tail(modem.commands)
      /\ modem'.answers = modem.answers \o AnswerTo(Head(modem.commands))
      /\ Head(modem.commands) # "AT&F"
      /\ modem'.online = (modem.online \/ Head(modem.commands) = "ATDT")
  BY ModemAnswersEffect
<1>2. UNCHANGED <<pending, DialSteps, ResponsePtr, SystemTicks, USB_HostState, Modem_SendBuffer,
                  Modem_ReceiveBuffer>>
  BY DEF ModemAnswers, mainLoop
<1>3. "AT" \in Sent /\ "AT&F" \in Sent /\ "OK" \in Received
  BY DEF Sent, Received, Commands, Responses
<1>4. modem.commands # <<"AT&F">>
  BY <1>1, <1>3, OneWord
<1>5. DuringAT /\ modem.commands = <<"AT">> /\ OneCommand("AT") /\ ~modem.online
  BY <1>1, <1>4 DEF Stage, BeforeAT, BeforeATF, DuringAT, DuringATF, AllEmpty, OneCommand,
                    OneAnswer, Quiet
<1>6. Head(modem.commands) = "AT" /\ modem'.commands = <<>>
  BY <1>1, <1>3, <1>5, OneWord
<1>7. modem.answers = <<>> /\ AnswerTo("AT") = <<"OK">>
  BY <1>5 DEF OneCommand, AnswerTo
<1>8. modem'.answers = <<"OK">>
  BY <1>1, <1>3, <1>6, <1>7, OneWord
<1>9. Modem_SendBuffer = <<>> /\ Modem_ReceiveBuffer = <<>>
  <2>1. <<"AT">> # <<>>
    BY <1>3, OneWord
  <2> QED
    BY <1>5, <2>1 DEF OneCommand
<1>10. OneAnswer("OK")'
  BY <1>2, <1>6, <1>8, <1>9 DEF OneAnswer
<1>11. Waiting'
  BY <1>2, <1>5 DEF DuringAT, Waiting, Configured
<1>12. ~modem'.online
  BY <1>1, <1>5, <1>6
<1> QED
  BY <1>2, <1>5, <1>10, <1>11, <1>12 DEF Stage, DuringAT

\* As long as nothing has been unplugged, every step of the first list leads to a stage of it.
LEMMA StageKept ==
  ASSUME Patience = 1, Base, NoDataOffline, FirstListInOrder, [Next]_vars,
         unplugs' = 0, Dials("SendModemDialCommands")', ~modem'.initialised
  PROVE  Stage'
<1>1. unplugs = 0 /\ ~Unplug
  BY UnplugsCounted DEF FirstListInOrder
<1>2. Dials("SendModemDialCommands") /\ ~modem.initialised => Stage
  BY <1>1 DEF FirstListInOrder, Stage
<1>3. CASE Idle
  <2>1. AllEmpty /\ NewModem
    BY <1>1, <1>3 DEF FirstListInOrder, Idle
  <2> QED
    BY <1>3, <2>1 DEF Idle, usb, Stage, BeforeAT, AllEmpty, NewModem, Quiet
<1>4. CASE LinkManagement_DialConnection
  <2>1. ConnectedState = "SendModemDialCommands"
    BY <1>4, DialCases, DialFinished DEF Dials
  <2>2. Stage
    BY <1>2, <1>4, <2>1, DialCases DEF Dials
  <2> QED
    BY <1>4, <2>1, <2>2, DialStages
<1>5. CASE ManageLink
  BY <1>5, ManageLinkEffect DEF Dials
<1>6. CASE Assign
  <2>1. pending = "SendModemDialCommands"
        /\ UNCHANGED <<DialSteps, Modem_SendBuffer, Modem_ReceiveBuffer, modem>>
    BY <1>6 DEF Assign, statics, usb, Dials
  <2>2. Stage
    BY <1>2, <2>1 DEF Dials
  <2>3. BeforeAT
    BY <2>1, <2>2 DEF Stage, DuringAT, BeforeATF, DuringATF, Waiting
  <2> QED
    BY <2>1, <2>2, <2>3 DEF Stage, BeforeAT, AllEmpty, Quiet
<1>7. CASE USBManagement_SendReceivePipes
  <2>1. modem'.initialised = modem.initialised
    <3>1. CASE ~Configured
      BY <1>7, <3>1 DEF USBManagement_SendReceivePipes
    <3> QED
      BY <1>7, <3>1, SendReceiveEffect DEF Base
  <2>2. Stage
    BY <1>2, <1>7, <2>1 DEF USBManagement_SendReceivePipes, Dials
  <2> QED
    BY <1>7, <2>2, PipesKeepStage
<1>8. CASE Timer1
  <2>1. Stage
    BY <1>2, <1>8 DEF Timer1, mainLoop, Dials
  <2>2. pending = "none" => ConnectedState = "SendModemDialCommands"
    BY <1>8 DEF Timer1, mainLoop, Dials
  <2> QED
    BY <1>8, <2>1, <2>2, TickKeepsStage
<1>9. CASE Restart
  BY <1>9 DEF Restart, Dials
<1>10. CASE Elsewhere
  <2>1. Dials("SendModemDialCommands")
    BY <1>10 DEF Elsewhere, Dials
  <2>2. CASE ModemAnswers
    <3>1. ~modem.initialised
      BY <2>2, ModemAnswersEffect
    <3> QED
      BY <1>2, <2>1, <2>2, <3>1, AnswerKeepsStage
  <2>3. CASE PeerSends
    <3>1. modem.online /\ ~modem.initialised
      BY <2>3, PeerSendsEffect DEF Base
    <3> QED
      BY <1>2, <2>1, <3>1 DEF Stage
  <2>4. CASE UNCHANGED modem /\ (Configured => Configured')
    BY <1>2, <1>10, <2>1, <2>4
       DEF Elsewhere, Stage, BeforeAT, BeforeATF, DuringAT, DuringATF, Waiting, AllEmpty,
           OneCommand, OneAnswer, Quiet
  <2>5. CASE Attach \/ Enumerate
    BY <2>4, <2>5 DEF Attach, Enumerate, Settled, Configured
  <2>6. CASE UNCHANGED <<modem, USB_HostState>>
    BY <2>4, <2>6 DEF Configured
  <2> QED
    BY <1>1, <1>7, <1>9, <2>2, <2>3, <2>5, <2>6, ModemSteps
<1> QED
  BY <1>1, <1>3, <1>4, <1>5, <1>6, <1>7, <1>8, <1>9, <1>10, StepKinds

\* The first list ends in the stage after the last, with an initialised modem.
LEMMA EndsInitialised ==
  ASSUME Base, FirstListInOrder, [Next]_vars,
         pending' = "SendNetworkDialCommands", pending = "none", unplugs = 0
  PROVE  modem.initialised
<1>1. CASE LinkManagement_DialConnection
  <2>1. ConnectedState = "SendModemDialCommands"
    BY <1>1, DialCases, DialFinished
  <2>2. modem.initialised \/ Stage
    BY <2>1 DEF FirstListInOrder, Dials, Stage
  <2> QED
    BY <1>1, <2>1, <2>2, DialStages
<1>2. CASE ManageLink
  BY <1>2, ManageLinkEffect
<1>3. CASE Idle \/ Assign \/ Restart
  BY <1>3 DEF Idle, EndWith, Assign, Restart
<1>4. CASE USBManagement_SendReceivePipes \/ Timer1 \/ Unplug \/ Elsewhere
  BY <1>4 DEF USBManagement_SendReceivePipes, Timer1, Unplug, Elsewhere, mainLoop
<1> QED
  BY <1>1, <1>2, <1>3, <1>4, StepKinds

\* The invariant of the order holds when the program starts.
LEMMA OrderInit == Init => NoDataOffline /\ FirstListInOrder
<1> SUFFICES ASSUME Init PROVE NoDataOffline /\ FirstListInOrder
  OBVIOUS
<1>1. /\ modem = FreshModem /\ pending = "none" /\ ConnectedState = "Idle" /\ unplugs = 0
      /\ Modem_SendBuffer = <<>> /\ Modem_ReceiveBuffer = <<>>
  BY DEF Init
<1>2. NewModem /\ modem.answers = <<>>
  BY <1>1 DEF FreshModem, NewModem, Quiet
<1> QED
  BY <1>1, <1>2 DEF NoDataOffline, FirstListInOrder, AllEmpty, NewModem, Dials

(* A modem that answers before the next command is due, and is never        *)
(* unplugged, has had every command of the first list when the dialler goes *)
(* on to the second, resets by the watchdog or by PPP in between included.  *)
THEOREM CommandsKeepOrder ==
  ASSUME Patience = 1
  PROVE  Spec => CommandsInOrder
<1> DEFINE I == IInv /\ Typed /\ NoDataOffline /\ FirstListInOrder
<1>1. I => Base
  BY DEF IInv, Base
<1>2. Init => I
  BY InitEstablishes, InitTyped, OrderInit
<1>3. I /\ [Next]_vars => I'
  <2> SUFFICES ASSUME I, [Next]_vars PROVE NoDataOffline' /\ FirstListInOrder'
    BY NextKeeps, NextTypes
  <2>1. NoDataOffline'
    BY NoDataKept
  <2>2. unplugs' \in Nat /\ pending' # "Idle"
    BY <1>1, UnplugsCounted, NeverAssignsIdle DEF FirstListInOrder
  <2>3. unplugs' = 0 /\ ConnectedState' = "Idle" => AllEmpty' /\ NewModem'
    BY <1>1, IdleClean
  <2>4. unplugs' = 0 /\ Dials("SendModemDialCommands")' /\ ~modem'.initialised => Stage'
    BY <1>1, StageKept
  <2> QED
    BY <2>1, <2>2, <2>3, <2>4 DEF FirstListInOrder, Stage
<1>4. I /\ [Next]_vars =>
        [pending' = "SendNetworkDialCommands" /\ pending = "none" /\ unplugs = 0
           => modem.initialised]_vars
  BY <1>1, EndsInitialised
<1> HIDE DEF I
<1> QED
  BY <1>2, <1>3, <1>4, PTL DEF Spec, CommandsInOrder

=============================================================================
