-------------------------------- MODULE PPP --------------------------------
(***************************************************************************)
(* The PPP component (src/PPP.c): three copies of the RFC 1661 automaton,  *)
(* one per layer (LCP, PAP, IPCP), that share one restart counter, one     *)
(* timer, one request buffer and one request identifier.                   *)
(*                                                                         *)
(* The statics of PPP.c, and the globals it shares with network.c and      *)
(* LinkManagement.c, are the fields of the record `ppp'.  A C function is  *)
(* an operator from such a record to the record it leaves behind, so that  *)
(* a handler is the composition of the calls it makes, in the order it     *)
(* makes them.  Handlers run to completion here: the main loop's           *)
(* PPP_ManageLink and the 10 ms interrupt's PPP_LinkTimer alternate.       *)
(*                                                                         *)
(* Data: the option list of a packet is one value that says whose list it  *)
(* is and what our tests will say of it; uip_len is 0 or 1 (something to   *)
(* send).  What the option editing functions do to the list of a request   *)
(* after a Nak or a Reject is below this level of detail.                  *)
(*                                                                         *)
(* A definition named Mutant... is the next one with a plausible mistake:  *)
(* the properties below are broken when it takes its place.                *)
(***************************************************************************)
EXTENDS Integers, Sequences

CONSTANTS
  MAX_RESTARTS,   \* src/PPP.h: requests sent before the link is given up
  UINT8,          \* values of an uint8_t: 256 in the code
  LINK_PERIOD,    \* ticks of 10 ms between two timeouts: 300 in the code
  PeerProtocols   \* the protocols the peer sends packets of

ASSUME ConstantsAssumption ==
  /\ UINT8 \in Nat /\ UINT8 >= 2
  /\ MAX_RESTARTS \in 1..(UINT8 - 1)
  /\ LINK_PERIOD \in Nat
  /\ PeerProtocols \in SUBSET {"LCP", "PAP", "IPCP", "IP", "CHAP"}

----------------------------------------------------------------------------
(* Types *)

PPP_Layers == {"Physical", "Authentication", "Network"}

PPP_Phases == {"Dead", "Establish", "Authenticate", "Network"}

PPP_States == {"Initial", "Starting", "Closed", "Stopped", "Closing",
               "Stopping", "Req_Sent", "Ack_Rcvd", "Ack_Sent", "Opened"}

PPP_Events == {"Up", "Down", "Open", "Close", "TOPlus", "TOMinus", "RCRPlus",
               "RCRMinus", "RCA", "RCN", "RTR", "RTA", "RUC", "RXJPlus",
               "RXJMinus", "RXR"}

\* The control protocol of a layer, and the layer a phase negotiates
ProtocolOf == [Physical |-> "LCP", Authentication |-> "PAP", Network |-> "IPCP"]

LayerOf == [Establish |-> "Physical", Authenticate |-> "Authentication",
            Network |-> "Network"]

Protocols == {"LCP", "PAP", "IPCP", "IP", "CHAP", "NONE"}

Codes == {"REQ", "ACK", "NAK", "REJ", "TERMREQ", "TERMREPLY", "CODEREJ",
          "PROTREJ", "ECHOREQ", "ECHOREPLY", "DISC", "DATA", "none"}

Bytes     == 0..(UINT8 - 1)
LinkTimes == 0..LINK_PERIOD

(* Option lists.  From the peer: a request we can accept, one with an      *)
(* unsupported option, one asking for another authentication protocol, a   *)
(* Nak or Reject of options our request has or has not.  Made by us:       *)
(* the unsupported options alone, the option we correct, the list of our   *)
(* own request for a protocol.                                             *)
RequestOptions == {"acceptable", "unsupported", "otherAuthentication"}
NakOptions     == {"ours", "notOurs"}
Options == RequestOptions \cup NakOptions
             \cup {"onlyUnsupported", "authenticationPAP", "LCP", "PAP", "IPCP", "none"}

Packets == [code : Codes, id : Bytes, options : Options]

\* No packet: what a frame holds when network_send is called with uip_len = 0
Empty == [code |-> "none", id |-> 0, options |-> "none"]
Frames == [protocol : Protocols, packet : Packets]
Transmissions == Seq(Frames)

ConnectedStates == {"Idle", "WaitForLink", "InitializeTCPStack"}

(* OutgoingPacket is a pointer: to nothing, to uip_buf, or to              *)
(* OutgoingPacketBuffer, then it says which request was built there.       *)
PPPState ==
  [PPP_Phase        : PPP_Phases,
   State            : [PPP_Layers -> PPP_States],  \* LCP_State, PAP_State, IPCP_State
   OutgoingPacketID : Bytes,
   OutgoingPacket   : {"NULL", "uip_buf", "LCP", "PAP", "IPCP"},
   CurrentProtocol  : Protocols,
   RestartCount     : Bytes,
   LinkTimer        : LinkTimes,
   TimerOn          : BOOLEAN,
   MarkForNAK       : BOOLEAN,
   MarkForREJ       : BOOLEAN,
   uip_buf          : Packets,                     \* and *IncomingPacket
   uip_len          : {0, 1},
   ConnectedState   : ConnectedStates,
   rebooting        : {"no", "main", "ISR"},       \* who is inside Reboot()
   sent             : Transmissions]               \* frames of the current step

----------------------------------------------------------------------------
(* Sending *)

network_send(s, protocol) ==
  [s EXCEPT !.sent = Append(@, [protocol |-> protocol,
                                packet   |-> IF s.uip_len > 0 THEN s.uip_buf ELSE Empty]),
            !.uip_len = 0]

\* A new request when OutgoingPacket is NULL, else the one already there
BuildRequest(s) ==
  IF s.OutgoingPacket # "NULL" \/ s.PPP_Phase = "Dead" THEN s
  ELSE [s EXCEPT !.OutgoingPacket  = ProtocolOf[LayerOf[s.PPP_Phase]],
                 !.CurrentProtocol = ProtocolOf[LayerOf[s.PPP_Phase]]]

\* The packet OutgoingPacket points to, with its new identifier
RequestPacket(s, id) ==
  IF s.OutgoingPacket \in {"uip_buf", "NULL"} THEN [s.uip_buf EXCEPT !.id = id]
  ELSE [code |-> "REQ", id |-> id, options |-> s.OutgoingPacket]

NextID(s) == (s.OutgoingPacketID + 1) % UINT8

MutantNoWrap(s) == s.RestartCount - 1
Decremented(s) == (s.RestartCount - 1) % UINT8     \* an uint8_t: 0 becomes 255

Send_Configure_Request(s) ==
  LET b == BuildRequest(s)
  IN  network_send([b EXCEPT !.OutgoingPacketID = NextID(s),
                             !.RestartCount = Decremented(s),
                             !.uip_buf = RequestPacket(b, NextID(s)),
                             !.uip_len = 1],
                   b.CurrentProtocol)

\* The reply that re-uses the packet in uip_buf, with another code
Reply(s, code) == network_send([s EXCEPT !.uip_buf.code = code], s.CurrentProtocol)

Send_Configure_Ack(s) == Reply(s, "ACK")
MutantAckRestarts(s) ==
  Reply([s EXCEPT !.RestartCount = MAX_RESTARTS, !.LinkTimer = 0], "TERMREPLY")
Send_Terminate_Ack(s) == Reply(s, "TERMREPLY")
Send_Code_Reject(s)   == Reply(s, "CODEREJ")
Send_Echo_Reply(s)    == Reply(s, "ECHOREPLY")

Send_Configure_Nak_Rej(s) ==
  IF s.MarkForNAK \/ s.MarkForREJ
  THEN Reply([s EXCEPT !.uip_len = 1], IF s.MarkForNAK THEN "NAK" ELSE "REJ")
  ELSE s

Send_Terminate_Request(s) ==
  network_send([s EXCEPT !.OutgoingPacket = "uip_buf",
                         !.CurrentProtocol = "LCP",
                         !.OutgoingPacketID = NextID(s),
                         !.RestartCount = Decremented(s),
                         !.uip_buf = [code |-> "TERMREQ", id |-> NextID(s), options |-> "none"],
                         !.uip_len = 1],
               "LCP")

----------------------------------------------------------------------------
(* PPP_ManageState, one operator per state: the automaton of layer L       *)
(* handles event e.  The states that open or close the layer are given     *)
(* what the call of This_Layer_Up(L) or This_Layer_Down(L) leaves: up,     *)
(* down.                                                                   *)

Goto(s, L, state)  == [s EXCEPT !.State[L] = state]
InitCount(s)       == [s EXCEPT !.RestartCount = MAX_RESTARTS, !.LinkTimer = 0]
SetTimer(s, on)    == [s EXCEPT !.TimerOn = on]

\* Reboot() is called; the handler's remaining statements run if it returns
This_Layer_Finished(s) == [s EXCEPT !.rebooting = "main"]
MutantTimerLeftOn(s, L) == Goto(This_Layer_Finished(s), L, "Stopped")
Finish(s, L) == Goto(SetTimer(This_Layer_Finished(s), FALSE), L, "Stopped")

Initial(e, s, L) ==
  CASE e = "Up"   -> Goto(s, L, "Closed")
    [] e = "Open" -> Goto(s, L, "Starting")
    [] OTHER      -> s

Starting(e, s, L) ==
  CASE e = "Up"    -> Send_Configure_Request(SetTimer(InitCount(Goto(s, L, "Req_Sent")), TRUE))
    [] e = "Close" -> This_Layer_Finished(Goto(s, L, "Initial"))
    [] OTHER       -> s

Closed(e, s, L) ==
  CASE e = "Down" -> Goto(s, L, "Initial")
    [] e = "Open" -> Send_Configure_Request(SetTimer(InitCount(Goto(s, L, "Req_Sent")), TRUE))
    [] e \in {"RCRPlus", "RCRMinus", "RCA", "RCN"} -> Send_Terminate_Ack(s)
    [] OTHER      -> s

Stopped(e, s, L) ==
  CASE e = "Down"     -> Goto(s, L, "Starting")
    [] e = "Close"    -> Goto(s, L, "Closed")
    [] e = "RCRPlus"  -> Send_Configure_Ack(Send_Configure_Request(
                           SetTimer(InitCount(Goto(s, L, "Ack_Sent")), TRUE)))
    [] e = "RCRMinus" -> Send_Configure_Nak_Rej(Send_Configure_Request(
                           SetTimer(InitCount(Goto(s, L, "Req_Sent")), TRUE)))
    [] e \in {"RCA", "RCN", "RTR"} -> Send_Terminate_Ack(s)
    [] e = "RUC"      -> Send_Code_Reject(s)
    [] e = "RXJMinus" -> This_Layer_Finished(s)
    [] OTHER          -> s

Closing(e, s, L) ==
  CASE e = "Down"   -> Goto(SetTimer(s, FALSE), L, "Initial")
    [] e = "Open"   -> Goto(s, L, "Stopping")
    [] e = "TOPlus" -> Send_Terminate_Request(s)
    [] e \in {"TOMinus", "RTA", "RXJMinus"} ->
         This_Layer_Finished(SetTimer(Goto(s, L, "Closed"), FALSE))
    [] e = "RTR"    -> Send_Terminate_Ack(s)
    [] e = "RUC"    -> Send_Code_Reject(s)
    [] OTHER        -> s

Stopping(e, s, L) ==
  CASE e = "Down"   -> Goto(SetTimer(s, FALSE), L, "Starting")
    [] e = "Close"  -> Goto(s, L, "Closing")
    [] e = "TOPlus" -> Send_Terminate_Request(s)
    [] e \in {"TOMinus", "RTA", "RXJMinus"} -> Finish(s, L)
    [] e = "RTR"    -> Send_Terminate_Ack(s)
    [] e = "RUC"    -> Send_Code_Reject(s)
    [] OTHER        -> s

\* Close in the three states of a negotiation
CloseRequest(s, L) == Goto(Send_Terminate_Request(InitCount(s)), L, "Closing")

Req_Sent(e, s, L) ==
  CASE e = "Down"     -> Goto(SetTimer(s, FALSE), L, "Starting")
    [] e = "Close"    -> CloseRequest(s, L)
    [] e = "TOPlus"   -> Send_Configure_Request(s)
    [] e \in {"TOMinus", "RXJMinus"} -> Finish(s, L)
    [] e = "RCRPlus"  -> Goto(IF L # "Authentication" THEN Send_Configure_Ack(s) ELSE s,
                              L, "Ack_Sent")
    [] e = "RCRMinus" -> Send_Configure_Nak_Rej(s)
    [] e = "RCA"      -> Goto(InitCount(s), L, "Ack_Rcvd")
    [] e = "RCN"      -> Send_Configure_Request(InitCount(s))
    [] e = "RTR"      -> Send_Terminate_Ack(s)
    [] e = "RUC"      -> Send_Code_Reject(s)
    [] OTHER          -> s

Ack_Rcvd(e, s, L, up) ==
  CASE e = "Down"     -> Goto(SetTimer(s, FALSE), L, "Starting")
    [] e = "Close"    -> CloseRequest(s, L)
    [] e \in {"TOPlus", "RCA", "RCN"} -> Goto(Send_Configure_Request(s), L, "Req_Sent")
    [] e \in {"TOMinus", "RXJMinus"} -> Finish(s, L)
    [] e = "RCRPlus"  -> Goto(SetTimer(up, FALSE), L, "Opened")
    [] e = "RCRMinus" -> Send_Configure_Nak_Rej(s)
    [] e \in {"RTR", "RTA", "RXJPlus"} -> Goto(Send_Terminate_Ack(s), L, "Req_Sent")
    [] e = "RUC"      -> Send_Code_Reject(s)
    [] OTHER          -> s

Ack_Sent(e, s, L, up) ==
  CASE e = "Down"     -> Goto(SetTimer(s, FALSE), L, "Starting")
    [] e = "Close"    -> CloseRequest(s, L)
    [] e = "TOPlus"   -> Send_Configure_Request(s)
    [] e \in {"TOMinus", "RXJMinus"} -> Finish(s, L)
    [] e = "RCRPlus"  -> Send_Configure_Ack(s)
    [] e = "RCRMinus" -> Goto(Send_Configure_Nak_Rej(s), L, "Req_Sent")
    [] e = "RCA"      -> Goto(up, L, "Opened")
    [] e = "RCN"      -> Send_Configure_Request(InitCount(s))
    [] e = "RTR"      -> Goto(Send_Terminate_Ack(s), L, "Req_Sent")
    [] e = "RUC"      -> Send_Code_Reject(s)
    [] OTHER          -> s

Opened(e, s, L, down) ==
  CASE e = "Down"     -> Goto(down, L, "Starting")
    [] e = "Close"    -> Goto(Send_Terminate_Request(SetTimer(InitCount(down), TRUE)),
                              L, "Closing")
    [] e = "RCRPlus"  -> Goto(Send_Configure_Ack(Send_Configure_Request(
                                SetTimer(down, TRUE))), L, "Ack_Sent")
    [] e = "RCRMinus" -> Goto(Send_Configure_Nak_Rej(Send_Configure_Request(
                                SetTimer(down, TRUE))), L, "Req_Sent")
    [] e \in {"RCA", "RCN", "RTA"} ->
         Goto(Send_Configure_Request(SetTimer(down, TRUE)), L, "Req_Sent")
    [] e = "RTR"      -> Goto(Send_Terminate_Ack([SetTimer(down, TRUE)
                                EXCEPT !.RestartCount = 0, !.LinkTimer = 0]), L, "Stopping")
    [] e = "RUC"      -> Send_Code_Reject(s)
    [] e = "RXJMinus" -> Goto(Send_Terminate_Request(SetTimer(InitCount(down), TRUE)),
                              L, "Stopping")
    [] e = "RXR"      -> Send_Echo_Reply(s)
    [] OTHER          -> s

PPP_ManageState(e, s, L, LayerUp(_), LayerDown(_)) ==
  CASE s.State[L] = "Initial"  -> Initial(e, s, L)
    [] s.State[L] = "Starting" -> Starting(e, s, L)
    [] s.State[L] = "Closed"   -> Closed(e, s, L)
    [] s.State[L] = "Stopped"  -> Stopped(e, s, L)
    [] s.State[L] = "Closing"  -> Closing(e, s, L)
    [] s.State[L] = "Stopping" -> Stopping(e, s, L)
    [] s.State[L] = "Req_Sent" -> Req_Sent(e, s, L)
    [] s.State[L] = "Ack_Rcvd" -> Ack_Rcvd(e, s, L, LayerUp(Send_Configure_Ack(s)))
    [] s.State[L] = "Ack_Sent" -> Ack_Sent(e, s, L, LayerUp(SetTimer(InitCount(s), FALSE)))
    [] s.State[L] = "Opened"   -> Opened(e, s, L, LayerDown(s))

----------------------------------------------------------------------------
(* This_Layer_Up and This_Layer_Down, and the automaton of each layer, from *)
(* the top layer down: the C functions call one another, but a layer only   *)
(* ever drives the layer above it.                                          *)

ClearRequest(s) == [s EXCEPT !.OutgoingPacket = "NULL"]

\* Common to the two lower layers: enter the next phase, restart the identifiers
EnterPhase(s, phase) ==
  [ClearRequest(s) EXCEPT !.CurrentProtocol = "NONE",
                          !.PPP_Phase = phase,
                          !.OutgoingPacketID = UINT8 - 1]     \* -1

MutantRequestKept(s) == [s EXCEPT !.CurrentProtocol = "NONE",
                                  !.ConnectedState = "InitializeTCPStack"]
NetworkUp(s) == [ClearRequest(s) EXCEPT !.CurrentProtocol = "NONE",
                                        !.ConnectedState = "InitializeTCPStack"]
NetworkDown(s) == ClearRequest(s)

ManageNetwork(e, s) == PPP_ManageState(e, s, "Network", NetworkUp, NetworkDown)

AuthenticationUp(s) == ManageNetwork("Up", ManageNetwork("Open", EnterPhase(s, "Network")))
AuthenticationDown(s) == ManageNetwork("Down", ClearRequest(s))

ManageAuthentication(e, s) ==
  PPP_ManageState(e, s, "Authentication", AuthenticationUp, AuthenticationDown)

PhysicalUp(s) ==
  ManageAuthentication("Up", ManageAuthentication("Open", EnterPhase(s, "Authenticate")))
MutantUpperLayerLeft(s) == [ClearRequest(s) EXCEPT !.PPP_Phase = "Establish"]
PhysicalDown(s) ==
  [ManageAuthentication("Down", ClearRequest(s)) EXCEPT !.PPP_Phase = "Establish"]

ManagePhysical(e, s) == PPP_ManageState(e, s, "Physical", PhysicalUp, PhysicalDown)

----------------------------------------------------------------------------
(* Entry points *)

PPP_InitPPP(s) == [s EXCEPT !.PPP_Phase = "Dead", !.TimerOn = FALSE]

PPP_StartLink(s) ==
  ManagePhysical("Up", ManagePhysical("Open",
    [s EXCEPT !.OutgoingPacket = "NULL", !.CurrentProtocol = "NONE",
              !.TimerOn = FALSE, !.LinkTimer = 0, !.uip_len = 0,
              !.RestartCount = MAX_RESTARTS,
              !.MarkForNAK = FALSE, !.MarkForREJ = FALSE,
              !.OutgoingPacketID = UINT8 - 1,
              !.State = [L \in PPP_Layers |-> "Initial"],
              !.PPP_Phase = "Establish"]))

MutantNonNegative(s) == IF s.RestartCount >= 0 THEN "TOPlus" ELSE "TOMinus"
TimeoutEvent(s) == IF s.RestartCount > 0 THEN "TOPlus" ELSE "TOMinus"

Timeout(s) ==
  CASE s.PPP_Phase = "Establish"    -> ManagePhysical(TimeoutEvent(s), s)
    [] s.PPP_Phase = "Authenticate" -> ManageAuthentication(TimeoutEvent(s), s)
    [] s.PPP_Phase = "Network"      -> ManageNetwork(TimeoutEvent(s), s)
    [] OTHER                        -> s

\* Called every 10 ms, from the interrupt of timer 1: there Reboot() never returns
PPP_LinkTimer(s) ==
  IF ~s.TimerOn THEN s
  ELSE IF s.LinkTimer < LINK_PERIOD THEN [s EXCEPT !.LinkTimer = @ + 1]
  ELSE LET t == Timeout(s)
       IN  [t EXCEPT !.LinkTimer = 0,
                     !.rebooting = IF @ = "main" THEN "ISR" ELSE @]

(* What the tests of an incoming request leave in uip_buf and in the marks. *)
MutantNothingRefused(s) == FALSE
PPP_TestForREJ(s) == s.uip_buf.options = "unsupported"
PPP_TestForNAK(s) == s.uip_buf.options = "otherAuthentication"

MarkREJ(s) == [s EXCEPT !.MarkForREJ = TRUE, !.MarkForNAK = FALSE,
                        !.uip_buf.options = "onlyUnsupported"]
MarkNAK(s) == [s EXCEPT !.MarkForNAK = TRUE, !.MarkForREJ = FALSE,
                        !.uip_buf.options = "authenticationPAP"]
Unmark(s) == [s EXCEPT !.MarkForNAK = FALSE, !.MarkForREJ = FALSE]

(* A Nak of an option our request lacks adds it: with no request at hand,  *)
(* PPP_AddOption starts one.                                               *)
PPP_ProcessNAK(s) ==
  IF s.OutgoingPacket = "NULL" /\ s.uip_buf.options = "notOurs"
  THEN [s EXCEPT !.OutgoingPacket = s.CurrentProtocol] ELSE s

MutantAnyIdentifier(s) == TRUE
InSync(s) == s.uip_buf.id = s.OutgoingPacketID

HandleLCP(s) ==
  LET code == s.uip_buf.code
  IN  CASE code = "REQ" /\ PPP_TestForREJ(s) -> ManagePhysical("RCRMinus", MarkREJ(s))
        [] code = "REQ" /\ PPP_TestForNAK(s) -> ManagePhysical("RCRMinus", MarkNAK(s))
        [] code = "REQ" /\ ~PPP_TestForREJ(s) /\ ~PPP_TestForNAK(s) ->
             ManagePhysical("RCRPlus", Unmark(s))
        [] code = "ACK" -> IF InSync(s) THEN ManagePhysical("RCA", s) ELSE s
        [] code = "NAK" -> IF InSync(s) THEN ManagePhysical("RCN", PPP_ProcessNAK(s)) ELSE s
        [] code = "REJ" -> IF InSync(s) THEN ManagePhysical("RCN", s) ELSE s
        [] code \in {"DISC", "ECHOREQ", "ECHOREPLY"} -> ManagePhysical("RXR", s)
        [] code = "TERMREQ" -> ManagePhysical("RTR", s)
        [] code \in {"CODEREJ", "PROTREJ"} -> ManagePhysical("RXJMinus", s)
        [] OTHER -> ManagePhysical("RUC", s)

\* Any acknowledgement completes PAP: a request of the peer is simulated for it
HandlePAP(s) ==
  CASE s.uip_buf.code = "REQ" -> ManageAuthentication("RCRPlus", s)
    [] s.uip_buf.code = "ACK" -> ManageAuthentication("RCA", ManageAuthentication("RCRPlus", s))
    [] OTHER -> s

HandleIPCP(s) ==
  LET code == s.uip_buf.code
  IN  CASE code = "REQ" /\ PPP_TestForREJ(s) -> ManageNetwork("RCRMinus", MarkREJ(s))
        [] code = "REQ" /\ ~PPP_TestForREJ(s) -> ManageNetwork("RCRPlus", Unmark(s))
        [] code = "ACK" -> IF InSync(s) THEN ManageNetwork("RCA", s) ELSE s
        [] code = "NAK" -> IF InSync(s) THEN ManageNetwork("RCN", PPP_ProcessNAK(s)) ELSE s
        [] code = "REJ" -> IF InSync(s) THEN ManageNetwork("RCN", s) ELSE s
        [] OTHER -> s

\* TCPIP_GotNewPacket: uIP may leave a datagram to send in uip_buf
TCPIP_GotNewPacket(s, answers) ==
  IF answers THEN network_send(s, "IP") ELSE [s EXCEPT !.uip_len = 0]

\* PPP_ManageLink once network_read has put a packet of the protocol in uip_buf
PPP_ManageLink(s, protocol, packet, answers) ==
  LET r == [s EXCEPT !.CurrentProtocol = protocol, !.uip_buf = packet, !.uip_len = 1]
  IN  CASE protocol = "LCP"  -> HandleLCP(r)
        [] protocol = "PAP"  -> HandlePAP(r)
        [] protocol = "IPCP" -> HandleIPCP(r)
        [] protocol = "IP"   -> TCPIP_GotNewPacket(r, answers)
        [] OTHER             -> r

----------------------------------------------------------------------------
(* The specification *)

VARIABLES
  ppp,      \* the statics of PPP.c
  peerUp,   \* FALSE once the other end has gone silent for good
  acked     \* history: layers whose last request the peer has acknowledged

vars == <<ppp, peerUp, acked>>

(* What the peer may put on the line.  One code stands for the codes that   *)
(* are handled alike: Echo-Request for Echo-Reply and Discard, Code-Reject  *)
(* for Protocol-Reject, Terminate-Ack for every unknown code.               *)
PeerPackets ==
  [LCP  |-> [code : {"REQ"}, id : {0}, options : RequestOptions]
              \cup [code : {"ACK", "REJ"}, id : Bytes, options : {"ours"}]
              \cup [code : {"NAK"}, id : Bytes, options : NakOptions]
              \cup [code : {"TERMREQ", "TERMREPLY", "CODEREJ", "ECHOREQ"},
                    id : {0}, options : {"none"}],
   PAP  |-> [code : {"REQ", "NAK"}, id : {0}, options : {"none"}]
              \cup [code : {"ACK"}, id : Bytes, options : {"none"}],
   IPCP |-> [code : {"REQ"}, id : {0}, options : {"acceptable", "unsupported"}]
              \cup [code : {"ACK", "REJ"}, id : Bytes, options : {"ours"}]
              \cup [code : {"NAK"}, id : Bytes, options : NakOptions]
              \cup [code : {"TERMREQ"}, id : {0}, options : {"none"}],
   IP   |-> [code : {"DATA"}, id : {0}, options : {"none"}],
   CHAP |-> [code : {"REQ"}, id : {0}, options : {"none"}]]

\* The statics after a reset: zero, that is their first enumeration values
ResetState ==
  [PPP_Phase |-> "Dead", State |-> [L \in PPP_Layers |-> "Initial"],
   OutgoingPacketID |-> 0, OutgoingPacket |-> "NULL", CurrentProtocol |-> "NONE",
   RestartCount |-> 0, LinkTimer |-> 0, TimerOn |-> FALSE,
   MarkForNAK |-> FALSE, MarkForREJ |-> FALSE,
   uip_buf |-> Empty, uip_len |-> 0,
   ConnectedState |-> "Idle", rebooting |-> "no", sent |-> <<>>]

Init == ppp = ResetState /\ peerUp = TRUE /\ acked = {}

\* Layers whose request is among the frames
Requested(frames) ==
  {L \in PPP_Layers : \E i \in DOMAIN frames :
     /\ frames[i].packet.code = "REQ"
     /\ frames[i].packet.options = ProtocolOf[L]}

\* Each step starts with no frame sent
Quiet(s) == [s EXCEPT !.sent = <<>>]

(* Between two steps the packet in uip_buf, its length and the marks are    *)
(* dead, since every handler sets them before it reads them, unless         *)
(* OutgoingPacket points into uip_buf.                                      *)
Forget(s) ==
  IF s.OutgoingPacket = "uip_buf" THEN s
  ELSE [s EXCEPT !.uip_buf = Empty, !.uip_len = 0,
                 !.MarkForNAK = FALSE, !.MarkForREJ = FALSE]

\* Dialling is done: the link is started (LinkManagement.c)
StartLink ==
  /\ ppp.rebooting = "no"
  /\ ppp.PPP_Phase = "Dead"
  /\ ppp' = [Forget(PPP_StartLink(Quiet(ppp))) EXCEPT !.ConnectedState = "WaitForLink"]
  /\ acked' = {}
  /\ UNCHANGED peerUp

\* The modem was unplugged: the main loop finds the idle state
InitPPP ==
  /\ ppp.rebooting = "no"
  /\ ppp.PPP_Phase # "Dead"
  /\ ppp' = [PPP_InitPPP(Quiet(ppp)) EXCEPT !.ConnectedState = "Idle"]
  /\ acked' = {}
  /\ UNCHANGED peerUp

\* The layer a packet acknowledges
Acknowledges(protocol, packet) ==
  {L \in PPP_Layers :
     /\ protocol = ProtocolOf[L]
     /\ packet.code = "ACK"
     /\ L = "Authentication" \/ packet.id = ppp.OutgoingPacketID}

Receive(protocol, packet) ==
  /\ peerUp
  /\ ppp.rebooting = "no"
  /\ ppp.PPP_Phase # "Dead"
  /\ \E answers \in BOOLEAN :
       ppp' = Forget(PPP_ManageLink(Quiet(ppp), protocol, packet, answers))
  /\ acked' = (acked \cup Acknowledges(protocol, packet)) \ Requested(ppp'.sent)
  /\ UNCHANGED peerUp

Tick ==
  /\ ppp.rebooting = "no"
  /\ ppp.TimerOn
  /\ ppp' = Forget(PPP_LinkTimer(Quiet(ppp)))
  /\ acked' = acked \ Requested(ppp'.sent)
  /\ UNCHANGED peerUp

\* The other end goes silent: the signal is lost, or the modem hangs
FallSilent ==
  /\ peerUp
  /\ peerUp' = FALSE
  /\ UNCHANGED <<ppp, acked>>

\* Reboot() ends in the watchdog's reset
Reset ==
  /\ ppp.rebooting # "no"
  /\ ppp' = ResetState
  /\ acked' = {}
  /\ UNCHANGED peerUp

(* Reboot() opens the 4-cycle window to shorten the watchdog's period.  In  *)
(* the main loop an interrupt can fall into it: the period stays at 4 s,    *)
(* Reboot() returns after 30 ms and the handler goes on.                    *)
RebootReturns ==
  /\ ppp.rebooting = "main"
  /\ ppp' = [Quiet(ppp) EXCEPT !.rebooting = "no"]
  /\ UNCHANGED <<peerUp, acked>>

Next ==
  \/ StartLink
  \/ InitPPP
  \/ \E protocol \in PeerProtocols : \E packet \in PeerPackets[protocol] :
       Receive(protocol, packet)
  \/ Tick
  \/ Reset
  \/ RebootReturns
  \/ FallSilent

Spec == Init /\ [][Next]_vars

\* The interrupt of timer 1 keeps coming, and a reset follows Reboot()
FairSpec == Spec /\ WF_vars(Tick) /\ WF_vars(Reset)

----------------------------------------------------------------------------
(* Properties *)

Negotiating == {"Req_Sent", "Ack_Rcvd", "Ack_Sent"}
LCP_State  == ppp.State["Physical"]
PAP_State  == ppp.State["Authentication"]
IPCP_State == ppp.State["Network"]

\* A handler that never comes back from Reboot() leaves no state to speak of
Running == ppp.rebooting # "ISR"

(* Every static keeps to its type; the two uint8_t wrap around. *)
TypeOK ==
  /\ ppp \in PPPState
  /\ peerUp \in BOOLEAN
  /\ acked \in SUBSET PPP_Layers

(* The layers are stacked: a layer is negotiated or open only over an open *)
(* one, and PPP_Phase names the layer that is.  This_Layer_Up and          *)
(* This_Layer_Down keep it so through every nested call, with one          *)
(* exception: an answer of PAP during the network phase leaves PAP in      *)
(* Ack_Sent, with IPCP stopped below its phase.                            *)
LayersNested ==
  Running =>
    /\ ppp.PPP_Phase = "Establish" =>
         /\ LCP_State \in Negotiating \cup {"Stopping", "Stopped"}
         /\ PAP_State \in {"Initial", "Starting"}
         /\ IPCP_State \in {"Initial", "Starting"}
    /\ ppp.PPP_Phase = "Authenticate" =>
         /\ LCP_State = "Opened"
         /\ PAP_State \in {"Req_Sent", "Ack_Sent"}
         /\ IPCP_State \in {"Initial", "Starting"}
    /\ ppp.PPP_Phase = "Network" =>
         /\ LCP_State = "Opened"
         /\ \/ PAP_State = "Opened" /\ IPCP_State \in Negotiating \cup {"Opened"}
            \/ PAP_State = "Ack_Sent" /\ IPCP_State = "Starting"

(* While PAP or IPCP is negotiated the request at hand, the one a timeout   *)
(* or a Nak sends again, is the request of that layer, and LCP has one: no  *)
(* packet is edited or sent again through a null OutgoingPacket.  Only an   *)
(* open link has none.                                                      *)
RequestOfPhase ==
  Running =>
    /\ ppp.PPP_Phase = "Establish" /\ LCP_State \in Negotiating => ppp.OutgoingPacket # "NULL"
    /\ ppp.PPP_Phase = "Authenticate" => ppp.OutgoingPacket = "PAP"
    /\ ppp.PPP_Phase = "Network" =>
         ppp.OutgoingPacket = IF IPCP_State = "Opened" THEN "NULL" ELSE "IPCP"

(* The one timer runs while LCP or IPCP is negotiated and while LCP is      *)
(* stopping, whatever the nested handlers of other layers did to it, and    *)
(* it is off once the link is open, stopped or dead.                        *)
TimerMatchesState ==
  Running =>
    /\ ppp.PPP_Phase = "Establish" => (ppp.TimerOn <=> LCP_State # "Stopped")
    /\ ppp.PPP_Phase = "Network" /\ PAP_State = "Opened" =>
         (ppp.TimerOn <=> IPCP_State # "Opened")
    /\ ppp.PPP_Phase = "Dead" => ~ppp.TimerOn

(* No layer is open on the strength of a stale answer: the peer has         *)
(* acknowledged the last request that was sent for the layer.  It rests on  *)
(* the identifiers, shared and restarted, that PPP_ManageLink compares.     *)
AckedBeforeOpened ==
  Running /\ ppp.PPP_Phase # "Dead" =>
    \A L \in PPP_Layers : ppp.State[L] = "Opened" => L \in acked

(* A request with options we refuse is never acknowledged, whatever the     *)
(* state of the automaton the request meets.                                *)
RefusedNeverAcked ==
  \A i \in DOMAIN ppp.sent :
    ppp.sent[i].packet.code = "ACK" =>
      ppp.sent[i].packet.options \notin
        {"unsupported", "otherAuthentication", "onlyUnsupported", "authenticationPAP"}

(* A peer that falls silent while LCP or IPCP is negotiated is given up:    *)
(* the retries run out and the modem is rebooted.                           *)
SilentPeerGivenUp ==
  /\ ~peerUp /\ ppp.PPP_Phase = "Establish" /\ LCP_State # "Stopped"
       ~> ppp.rebooting # "no" \/ ppp.PPP_Phase = "Dead"
  /\ ~peerUp /\ ppp.PPP_Phase = "Network" /\ IPCP_State \in Negotiating
       ~> ppp.rebooting # "no" \/ ppp.PPP_Phase = "Dead"

(* A link the peer terminates, or whose codes it rejects, is rebooted       *)
(* however much the peer goes on sending: nothing restarts the count of a   *)
(* stopping LCP.                                                            *)
StoppingLinkReboots ==
  LCP_State = "Stopping" /\ ppp.PPP_Phase = "Establish"
    ~> ppp.rebooting # "no" \/ ppp.PPP_Phase = "Dead"

----------------------------------------------------------------------------
(* What the comments of the code say and the code does not do *)

(* "following RFC1661" (PPP.c:809): in Req-Sent the restart timer runs, so  *)
(* a silent authenticator is given up like any silent peer.                 *)
SilentAuthenticatorGivenUp ==
  ~peerUp /\ ppp.PPP_Phase = "Authenticate"
    ~> ppp.rebooting # "no" \/ ppp.PPP_Phase = "Dead"
=============================================================================
