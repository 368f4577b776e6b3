----------------------------- MODULE PPPProofs -----------------------------
(***************************************************************************)
(* Proofs that the statics of PPP.c keep to their types, that the layers   *)
(* stay stacked, that the request at hand is the one of the layer under    *)
(* negotiation, that the shared timer matches the states, that a request   *)
(* with options we refuse is never acknowledged and that no layer opens on *)
(* a stale answer, for every value of the constants.                       *)
(*                                                                         *)
(* The argument follows the calls.  First what each C function may change, *)
(* as relations between the record it is given and the record it leaves    *)
(* (SameControl, Steady, OnlyLayer, ...); then each automaton, from IPCP   *)
(* down to LCP, since a layer only ever drives the layer above it; then    *)
(* the entry points and the actions.  The same path is followed twice      *)
(* more: for the packet in uip_buf and the frames sent (Clean), and for    *)
(* the requests sent and the answers at hand (Says, Backs, Backed).        *)
(***************************************************************************)
EXTENDS PPP, TLAPS

---------------------------------------------------------------------------
(* What the functions that send and count leave alone *)

(* t is a record of the right type whose phase, layer states, timer switch *)
(* and reboot mark are those of s: what sending and counting leave alone.  *)
SameControl(s, t) ==
  /\ t \in PPPState
  /\ t.PPP_Phase = s.PPP_Phase
  /\ t.State = s.State
  /\ t.TimerOn = s.TimerOn
  /\ t.rebooting = s.rebooting

(* SameControl, and the request at hand is the same.                       *)
Steady(s, t) == SameControl(s, t) /\ t.OutgoingPacket = s.OutgoingPacket

(* The constants the code stores in an uint8_t fit it, and the arithmetic  *)
(* modulo UINT8 of NextID and Decremented stays in it.                     *)
LEMMA ByteArithmetic ==
  /\ 0 \in Bytes /\ MAX_RESTARTS \in Bytes /\ UINT8 - 1 \in Bytes /\ 0 \in LinkTimes
  /\ \A x \in Int : x % UINT8 \in Bytes
  /\ \A x \in Bytes : x \in Int
BY ConstantsAssumption DEF Bytes, LinkTimes

(* network_send only appends a frame and clears uip_len.                   *)
LEMMA NetworkSend ==
  ASSUME NEW s \in PPPState, NEW protocol \in Protocols
  PROVE  Steady(s, network_send(s, protocol))
<1> DEFINE f == [protocol |-> protocol, packet |-> IF s.uip_len > 0 THEN s.uip_buf ELSE Empty]
<1>1. Empty \in Packets BY ByteArithmetic DEF Empty, Packets, Codes, Options
<1>2. f \in Frames BY <1>1 DEF Frames, PPPState
<1>3. Append(s.sent, f) \in Transmissions BY <1>2 DEF PPPState, Transmissions
<1>4. ASSUME NEW q \in Transmissions
      PROVE  Steady(s, [s EXCEPT !.sent = q, !.uip_len = 0])
  BY DEF PPPState, SameControl, Steady
<1>. QED BY <1>3, <1>4 DEF network_send

(* A reply built in uip_buf (the Send_ functions that change the code of   *)
(* the packet received) leaves the automaton and the request alone.        *)
LEMMA ReplySteady ==
  ASSUME NEW s \in PPPState, NEW code \in Codes
  PROVE  Steady(s, Reply(s, code))
<1> DEFINE r == [s EXCEPT !.uip_buf.code = code]
<1>1. r \in PPPState /\ Steady(s, r)
  BY DEF PPPState, Steady, SameControl, Packets
<1>2. Steady(r, network_send(r, s.CurrentProtocol))
  BY <1>1, NetworkSend DEF PPPState
<1>. QED BY <1>1, <1>2 DEF Steady, SameControl, Reply

(* The five functions that answer the peer are replies.                    *)
LEMMA RepliesSteady ==
  ASSUME NEW s \in PPPState
  PROVE  /\ Steady(s, Send_Configure_Ack(s))
         /\ Steady(s, Send_Terminate_Ack(s))
         /\ Steady(s, Send_Code_Reject(s))
         /\ Steady(s, Send_Echo_Reply(s))
         /\ Steady(s, Send_Configure_Nak_Rej(s))
<1>1. \A code \in {"ACK", "TERMREPLY", "CODEREJ", "ECHOREPLY"} : Steady(s, Reply(s, code))
  BY ReplySteady DEF Codes
<1> DEFINE r == [s EXCEPT !.uip_len = 1]
<1>2. r \in PPPState /\ Steady(s, r) BY DEF PPPState, Steady, SameControl
<1>3. \A code \in {"NAK", "REJ"} : Steady(r, Reply(r, code))
  BY <1>2, ReplySteady DEF Codes
<1>4. Steady(s, Send_Configure_Nak_Rej(s))
  <2>1. Steady(s, s) BY DEF Steady, SameControl
  <2>. QED BY <1>2, <1>3, <2>1 DEF Send_Configure_Nak_Rej, Steady, SameControl
<1>. QED
  BY <1>1, <1>4 DEF Send_Configure_Ack, Send_Terminate_Ack, Send_Code_Reject, Send_Echo_Reply

(* Send_Configure_Request (PPP.c:344) changes no automaton; it leaves the  *)
(* request it found, and builds the one of the current phase when          *)
(* OutgoingPacket was NULL.                                                *)
LEMMA RequestSent ==
  ASSUME NEW s \in PPPState, s.PPP_Phase # "Dead"
  PROVE  /\ SameControl(s, Send_Configure_Request(s))
         /\ Send_Configure_Request(s).OutgoingPacket =
              IF s.OutgoingPacket = "NULL" THEN ProtocolOf[LayerOf[s.PPP_Phase]]
              ELSE s.OutgoingPacket
<1> DEFINE b == BuildRequest(s)
           id == NextID(s)
           packet == RequestPacket(b, id)
           p == ProtocolOf[LayerOf[s.PPP_Phase]]
<1>1. id \in Bytes /\ Decremented(s) \in Bytes
  BY ByteArithmetic DEF NextID, Decremented, PPPState
<1>2. p \in {"LCP", "PAP", "IPCP"} /\ p \in Protocols
  BY DEF PPPState, PPP_Phases, LayerOf, ProtocolOf, Protocols
<1>3. /\ SameControl(s, b)
      /\ b.OutgoingPacket = IF s.OutgoingPacket = "NULL" THEN p ELSE s.OutgoingPacket
  BY <1>2 DEF BuildRequest, SameControl, PPPState
<1>4. packet \in Packets
  BY <1>1, <1>3 DEF RequestPacket, SameControl, PPPState, Packets, Codes, Options
<1> DEFINE r == [b EXCEPT !.OutgoingPacketID = id, !.RestartCount = Decremented(s),
                          !.uip_buf = packet, !.uip_len = 1]
<1>5. Steady(b, r)
  <2> HIDE DEF b, id, packet
  <2>. QED BY <1>1, <1>3, <1>4 DEF Steady, SameControl, PPPState
<1>6. Steady(r, network_send(r, b.CurrentProtocol))
  <2>1. b.CurrentProtocol \in Protocols BY <1>3 DEF SameControl, PPPState
  <2>2. r \in PPPState BY <1>5 DEF Steady, SameControl
  <2> HIDE DEF b, r
  <2>. QED BY <2>1, <2>2, NetworkSend
<1>7. Send_Configure_Request(s) = network_send(r, b.CurrentProtocol)
  BY DEF Send_Configure_Request
<1> HIDE DEF b, r, p
<1>. QED BY <1>3, <1>5, <1>6, <1>7 DEF p, Steady, SameControl

(* Send_Terminate_Request (PPP.c:446) changes no automaton.                *)
LEMMA TerminateSent ==
  ASSUME NEW s \in PPPState
  PROVE  SameControl(s, Send_Terminate_Request(s))
<1> DEFINE id == NextID(s)
           packet == [code |-> "TERMREQ", id |-> id, options |-> "none"]
           r == [s EXCEPT !.OutgoingPacket = "uip_buf", !.CurrentProtocol = "LCP",
                          !.OutgoingPacketID = id, !.RestartCount = Decremented(s),
                          !.uip_buf = packet, !.uip_len = 1]
<1>1. id \in Bytes /\ Decremented(s) \in Bytes
  BY ByteArithmetic DEF NextID, Decremented, PPPState
<1>2. packet \in Packets /\ "LCP" \in Protocols
  BY <1>1 DEF Packets, Codes, Options, Protocols
<1>3. SameControl(s, r)
  <2> HIDE DEF id, packet
  <2>. QED BY <1>1, <1>2 DEF SameControl, PPPState
<1>4. Steady(r, network_send(r, "LCP"))
  <2>1. r \in PPPState BY <1>3 DEF SameControl
  <2> HIDE DEF r
  <2>. QED BY <2>1, <1>2, NetworkSend
<1>5. Send_Terminate_Request(s) = network_send(r, "LCP")
  BY DEF Send_Terminate_Request
<1> HIDE DEF r
<1>. QED BY <1>3, <1>4, <1>5 DEF Steady, SameControl

(* From s to t only the automaton of layer L moved, in the same phase.     *)
OnlyLayer(s, t, L) ==
  /\ t \in PPPState
  /\ t.PPP_Phase = s.PPP_Phase
  /\ \A M \in PPP_Layers \ {L} : t.State[M] = s.State[M]

(* The assignment of a layer's state changes nothing else.                 *)
LEMMA GotoEffect ==
  ASSUME NEW s \in PPPState, NEW L \in PPP_Layers, NEW state \in PPP_States
  PROVE  /\ OnlyLayer(s, Goto(s, L, state), L)
         /\ Goto(s, L, state).State[L] = state
         /\ Goto(s, L, state).TimerOn = s.TimerOn
         /\ Goto(s, L, state).rebooting = s.rebooting
         /\ Goto(s, L, state).OutgoingPacket = s.OutgoingPacket
BY DEF Goto, PPPState, OnlyLayer

(* The restart of the counter and of LinkTimer changes no automaton.       *)
LEMMA InitCountSteady ==
  ASSUME NEW s \in PPPState
  PROVE  Steady(s, InitCount(s))
BY ByteArithmetic DEF InitCount, Steady, SameControl, PPPState

(* TimerOn = on changes nothing else.                                      *)
LEMMA SetTimerEffect ==
  ASSUME NEW s \in PPPState, NEW on \in BOOLEAN
  PROVE  /\ SetTimer(s, on) \in PPPState
         /\ SetTimer(s, on).TimerOn = on
         /\ SetTimer(s, on).PPP_Phase = s.PPP_Phase
         /\ SetTimer(s, on).State = s.State
         /\ SetTimer(s, on).rebooting = s.rebooting
         /\ SetTimer(s, on).OutgoingPacket = s.OutgoingPacket
BY DEF SetTimer, PPPState

(* Giving up (TO- or RXJ-): the layer is Stopped, the timer is off and     *)
(* Reboot() is called.                                                     *)
LEMMA FinishEffect ==
  ASSUME NEW s \in PPPState, NEW L \in PPP_Layers
  PROVE  /\ OnlyLayer(s, Finish(s, L), L)
         /\ Finish(s, L).State[L] = "Stopped"
         /\ Finish(s, L).TimerOn = FALSE
         /\ Finish(s, L).rebooting = "main"
<1> DEFINE r == This_Layer_Finished(s)
<1>1. /\ r \in PPPState /\ r.rebooting = "main"
      /\ r.PPP_Phase = s.PPP_Phase /\ r.State = s.State
  BY DEF This_Layer_Finished, PPPState
<1> HIDE DEF r
<1>2. /\ SetTimer(r, FALSE) \in PPPState
      /\ SetTimer(r, FALSE).TimerOn = FALSE
      /\ SetTimer(r, FALSE).PPP_Phase = r.PPP_Phase
      /\ SetTimer(r, FALSE).State = r.State
      /\ SetTimer(r, FALSE).rebooting = r.rebooting
  BY <1>1, SetTimerEffect
<1>3. "Stopped" \in PPP_States BY DEF PPP_States
<1>4. Finish(s, L) = Goto(SetTimer(r, FALSE), L, "Stopped") BY DEF Finish, r
<1> DEFINE q == SetTimer(r, FALSE)
<1>5. /\ OnlyLayer(q, Goto(q, L, "Stopped"), L)
      /\ Goto(q, L, "Stopped").State[L] = "Stopped"
      /\ Goto(q, L, "Stopped").TimerOn = q.TimerOn
      /\ Goto(q, L, "Stopped").rebooting = q.rebooting
  <2> HIDE DEF q
  <2>1. q \in PPPState BY <1>2 DEF q
  <2>. QED BY <2>1, <1>3, GotoEffect
<1>. QED BY <1>1, <1>2, <1>4, <1>5 DEF OnlyLayer

(* OutgoingPacket = NULL changes no automaton.                             *)
LEMMA ClearRequestEffect ==
  ASSUME NEW s \in PPPState
  PROVE  /\ SameControl(s, ClearRequest(s))
         /\ ClearRequest(s).OutgoingPacket = "NULL"
BY DEF ClearRequest, SameControl, PPPState

(* PPP_ManageState of IPCP is the case of its state.                       *)
LEMMA NetworkDispatch ==
  ASSUME NEW s, NEW e
  PROVE  /\ s.State["Network"] = "Initial" => ManageNetwork(e, s) = Initial(e, s, "Network")
         /\ s.State["Network"] = "Starting" => ManageNetwork(e, s) = Starting(e, s, "Network")
         /\ s.State["Network"] = "Req_Sent" => ManageNetwork(e, s) = Req_Sent(e, s, "Network")
         /\ s.State["Network"] = "Ack_Rcvd" =>
              ManageNetwork(e, s) = Ack_Rcvd(e, s, "Network", NetworkUp(Send_Configure_Ack(s)))
         /\ s.State["Network"] = "Ack_Sent" =>
              ManageNetwork(e, s) =
                Ack_Sent(e, s, "Network", NetworkUp(SetTimer(InitCount(s), FALSE)))
         /\ s.State["Network"] = "Opened" =>
              ManageNetwork(e, s) = Opened(e, s, "Network", NetworkDown(s))
BY Zenon DEF ManageNetwork, PPP_ManageState

(* PPP_ManageState of PAP is the case of its state.                        *)
LEMMA AuthenticationDispatch ==
  ASSUME NEW s, NEW e
  PROVE  /\ s.State["Authentication"] = "Initial" =>
              ManageAuthentication(e, s) = Initial(e, s, "Authentication")
         /\ s.State["Authentication"] = "Starting" =>
              ManageAuthentication(e, s) = Starting(e, s, "Authentication")
         /\ s.State["Authentication"] = "Req_Sent" =>
              ManageAuthentication(e, s) = Req_Sent(e, s, "Authentication")
         /\ s.State["Authentication"] = "Ack_Rcvd" =>
              ManageAuthentication(e, s) =
                Ack_Rcvd(e, s, "Authentication", AuthenticationUp(Send_Configure_Ack(s)))
         /\ s.State["Authentication"] = "Ack_Sent" =>
              ManageAuthentication(e, s) =
                Ack_Sent(e, s, "Authentication", AuthenticationUp(SetTimer(InitCount(s), FALSE)))
         /\ s.State["Authentication"] = "Opened" =>
              ManageAuthentication(e, s) =
                Opened(e, s, "Authentication", AuthenticationDown(s))
BY Zenon DEF ManageAuthentication, PPP_ManageState

(* PPP_ManageState of LCP is the case of its state.                        *)
LEMMA PhysicalDispatch ==
  ASSUME NEW s, NEW e
  PROVE  /\ s.State["Physical"] = "Initial" => ManagePhysical(e, s) = Initial(e, s, "Physical")
         /\ s.State["Physical"] = "Starting" =>
              ManagePhysical(e, s) = Starting(e, s, "Physical")
         /\ s.State["Physical"] = "Stopped" => ManagePhysical(e, s) = Stopped(e, s, "Physical")
         /\ s.State["Physical"] = "Stopping" =>
              ManagePhysical(e, s) = Stopping(e, s, "Physical")
         /\ s.State["Physical"] = "Req_Sent" =>
              ManagePhysical(e, s) = Req_Sent(e, s, "Physical")
         /\ s.State["Physical"] = "Ack_Rcvd" =>
              ManagePhysical(e, s) =
                Ack_Rcvd(e, s, "Physical", PhysicalUp(Send_Configure_Ack(s)))
         /\ s.State["Physical"] = "Ack_Sent" =>
              ManagePhysical(e, s) =
                Ack_Sent(e, s, "Physical", PhysicalUp(SetTimer(InitCount(s), FALSE)))
         /\ s.State["Physical"] = "Opened" =>
              ManagePhysical(e, s) = Opened(e, s, "Physical", PhysicalDown(s))
BY Zenon DEF ManagePhysical, PPP_ManageState

(* The events a packet of the peer raises in every layer, those of a       *)
(* timeout, and those only LCP raises.                                     *)
PeerEvents == {"RCRPlus", "RCRMinus", "RCA", "RCN"}
TimeoutEvents == {"TOPlus", "TOMinus"}
OtherEvents == {"RTR", "RUC", "RXJMinus", "RXR"}
Events == PeerEvents \cup TimeoutEvents \cup OtherEvents

(* The layer goes on negotiating: timer and request as before.             *)
StillNegotiating(s, t, L) ==
  /\ OnlyLayer(s, t, L)
  /\ t.State[L] \in Negotiating
  /\ t.TimerOn = s.TimerOn
  /\ t.rebooting = s.rebooting
  /\ t.OutgoingPacket = s.OutgoingPacket

(* A step that is steady, followed by a move to a state of the             *)
(* negotiation, goes on negotiating.                                       *)
LEMMA SteadyNegotiating ==
  ASSUME NEW s \in PPPState, NEW t, NEW L \in PPP_Layers, NEW state \in Negotiating,
         Steady(s, t)
  PROVE  /\ StillNegotiating(s, Goto(t, L, state), L)
         /\ Goto(t, L, state).State[L] = state
         /\ s.State[L] \in Negotiating => StillNegotiating(s, t, L)
<1>1. t \in PPPState /\ state \in PPP_States
  BY DEF Steady, SameControl, Negotiating, PPP_States
<1>. QED BY <1>1, GotoEffect DEF Steady, SameControl, StillNegotiating, OnlyLayer

(* While there is a request at hand, sending it again keeps it, with or    *)
(* without restarting the counter.                                         *)
LEMMA RequestSteady ==
  ASSUME NEW s \in PPPState, s.PPP_Phase # "Dead", s.OutgoingPacket # "NULL"
  PROVE  /\ Steady(s, Send_Configure_Request(s))
         /\ Steady(s, Send_Configure_Request(InitCount(s)))
<1> DEFINE c == InitCount(s)
<1>1. Steady(s, Send_Configure_Request(s)) BY RequestSent DEF Steady
<1>2. Steady(s, c) BY InitCountSteady
<1> HIDE DEF c
<1>3. Steady(c, Send_Configure_Request(c))
  <2>1. c \in PPPState /\ c.PPP_Phase # "Dead" /\ c.OutgoingPacket # "NULL"
    BY <1>2 DEF Steady, SameControl
  <2>. QED BY <2>1, RequestSent DEF Steady
<1>4. Steady(s, Send_Configure_Request(c)) BY <1>2, <1>3 DEF Steady, SameControl
<1>. QED BY <1>1, <1>4 DEF c

(* Steady is reflexive.                                                    *)
LEMMA SelfSteady == ASSUME NEW s \in PPPState PROVE Steady(s, s)
BY DEF Steady, SameControl

(* Req_Sent (PPP.c:1105): every event goes on negotiating, but for the two *)
(* that give up.                                                           *)
LEMMA ReqSentStep ==
  ASSUME NEW s \in PPPState, NEW L \in PPP_Layers, NEW e \in Events,
         s.PPP_Phase # "Dead", s.OutgoingPacket # "NULL", s.State[L] = "Req_Sent"
  PROVE  /\ e \notin {"TOMinus", "RXJMinus"} => StillNegotiating(s, Req_Sent(e, s, L), L)
         /\ e \in {"TOMinus", "RXJMinus"} => Req_Sent(e, s, L) = Finish(s, L)
         /\ e = "RCRPlus" => Req_Sent(e, s, L).State[L] = "Ack_Sent"
         /\ e = "TOPlus" => Req_Sent(e, s, L).State[L] = "Req_Sent"
<1>1. {"Req_Sent", "Ack_Sent", "Ack_Rcvd"} \subseteq Negotiating BY DEF Negotiating
<1>2. CASE e \in {"TOPlus", "RCN"}
  BY <1>1, <1>2, RequestSteady, SteadyNegotiating DEF Req_Sent, Steady, SameControl
<1>3. CASE e \in {"RCRMinus", "RTR", "RUC"}
  <2>1. Steady(s, Req_Sent(e, s, L)) BY <1>3, RepliesSteady DEF Req_Sent
  <2>. QED BY <1>1, <1>3, <2>1, SteadyNegotiating
<1>4. CASE e = "RCRPlus"
  <2>1. PICK t : Steady(s, t) /\ Req_Sent(e, s, L) = Goto(t, L, "Ack_Sent")
    BY <1>4, RepliesSteady, SelfSteady DEF Req_Sent
  <2>. QED BY <1>1, <1>4, <2>1, SteadyNegotiating
<1>5. CASE e = "RCA"
  <2>1. Req_Sent(e, s, L) = Goto(InitCount(s), L, "Ack_Rcvd") BY <1>5 DEF Req_Sent
  <2>2. Steady(s, InitCount(s)) BY InitCountSteady
  <2>3. StillNegotiating(s, Goto(InitCount(s), L, "Ack_Rcvd"), L)
    BY <1>1, <2>2, SteadyNegotiating
  <2>. QED BY <1>5, <2>1, <2>3
<1>6. CASE e \in {"TOMinus", "RXJMinus"}
  BY <1>6 DEF Req_Sent
<1>7. CASE e = "RXR"
  BY <1>1, <1>7, SelfSteady, SteadyNegotiating DEF Req_Sent
<1>. QED BY <1>2, <1>3, <1>4, <1>5, <1>6, <1>7
         DEF Events, PeerEvents, TimeoutEvents, OtherEvents

(* Ack_Rcvd (PPP.c:1186): the same, for every event but the one that opens *)
(* the layer.                                                              *)
LEMMA AckRcvdStep ==
  ASSUME NEW s \in PPPState, NEW L \in PPP_Layers, NEW e \in Events \ {"RCRPlus"}, NEW up,
         s.PPP_Phase # "Dead", s.OutgoingPacket # "NULL", s.State[L] = "Ack_Rcvd"
  PROVE  /\ e \notin {"TOMinus", "RXJMinus"} => StillNegotiating(s, Ack_Rcvd(e, s, L, up), L)
         /\ e \in {"TOMinus", "RXJMinus"} => Ack_Rcvd(e, s, L, up) = Finish(s, L)
<1>1. {"Req_Sent", "Ack_Sent", "Ack_Rcvd"} \subseteq Negotiating BY DEF Negotiating
<1>2. CASE e \in {"TOPlus", "RCN", "RCA"}
  <2>1. Ack_Rcvd(e, s, L, up) = Goto(Send_Configure_Request(s), L, "Req_Sent")
    BY <1>2 DEF Ack_Rcvd
  <2>. QED BY <1>1, <1>2, <2>1, RequestSteady, SteadyNegotiating
<1>3. CASE e \in {"RCRMinus", "RUC"}
  <2>1. Steady(s, Ack_Rcvd(e, s, L, up)) BY <1>3, RepliesSteady DEF Ack_Rcvd
  <2>. QED BY <1>1, <1>3, <2>1, SteadyNegotiating
<1>4. CASE e = "RTR"
  BY <1>1, <1>4, RepliesSteady, SteadyNegotiating DEF Ack_Rcvd
<1>6. CASE e \in {"TOMinus", "RXJMinus"}
  BY <1>6 DEF Ack_Rcvd
<1>7. CASE e = "RXR"
  BY <1>1, <1>7, SelfSteady, SteadyNegotiating DEF Ack_Rcvd
<1>. QED BY <1>2, <1>3, <1>4, <1>6, <1>7
         DEF Events, PeerEvents, TimeoutEvents, OtherEvents

(* Ack_Sent (PPP.c:1260): the same, for every event but the one that opens *)
(* the layer.                                                              *)
LEMMA AckSentStep ==
  ASSUME NEW s \in PPPState, NEW L \in PPP_Layers, NEW e \in Events \ {"RCA"}, NEW up,
         s.PPP_Phase # "Dead", s.OutgoingPacket # "NULL", s.State[L] = "Ack_Sent"
  PROVE  /\ e \notin {"TOMinus", "RXJMinus"} => StillNegotiating(s, Ack_Sent(e, s, L, up), L)
         /\ e \in {"TOMinus", "RXJMinus"} => Ack_Sent(e, s, L, up) = Finish(s, L)
         /\ e \in {"RCRPlus", "TOPlus"} => Ack_Sent(e, s, L, up).State[L] = "Ack_Sent"
<1>1. {"Req_Sent", "Ack_Sent", "Ack_Rcvd"} \subseteq Negotiating BY DEF Negotiating
<1>2. CASE e \in {"TOPlus", "RCN"}
  BY <1>1, <1>2, RequestSteady, SteadyNegotiating DEF Ack_Sent, Steady, SameControl
<1>3. CASE e \in {"RCRPlus", "RUC"}
  BY <1>1, <1>3, RepliesSteady, SteadyNegotiating DEF Ack_Sent, Steady, SameControl
<1>4. CASE e \in {"RCRMinus", "RTR"}
  BY <1>1, <1>4, RepliesSteady, SteadyNegotiating DEF Ack_Sent
<1>6. CASE e \in {"TOMinus", "RXJMinus"}
  BY <1>6 DEF Ack_Sent
<1>7. CASE e = "RXR"
  BY <1>1, <1>7, SelfSteady, SteadyNegotiating DEF Ack_Sent
<1>. QED BY <1>2, <1>3, <1>4, <1>6, <1>7
         DEF Events, PeerEvents, TimeoutEvents, OtherEvents

(* What an open layer leaves when the peer negotiates again: d is the      *)
(* state after This_Layer_Down.                                            *)
Renegotiates(d, t, L, e) ==
  /\ OnlyLayer(d, t, L)
  /\ t.State[L] \in Negotiating
  /\ e = "RCRPlus" => t.State[L] = "Ack_Sent"
  /\ t.TimerOn = TRUE
  /\ t.rebooting = d.rebooting
  /\ t.OutgoingPacket = ProtocolOf[LayerOf[d.PPP_Phase]]

(* Opened (PPP.c:1341) on an answer or a request: the layer negotiates     *)
(* again, with the timer on and the request of the phase it fell back to.  *)
LEMMA OpenedRestarts ==
  ASSUME NEW s \in PPPState, NEW L \in PPP_Layers, NEW e \in PeerEvents, NEW down \in PPPState,
         down.PPP_Phase # "Dead", down.OutgoingPacket = "NULL"
  PROVE  Renegotiates(down, Opened(e, s, L, down), L, e)
<1> DEFINE d == SetTimer(down, TRUE)
           q == Send_Configure_Request(d)
           p == ProtocolOf[LayerOf[down.PPP_Phase]]
<1>1. /\ d \in PPPState /\ d.TimerOn = TRUE /\ d.PPP_Phase = down.PPP_Phase
      /\ d.State = down.State /\ d.rebooting = down.rebooting
      /\ d.OutgoingPacket = "NULL"
  BY SetTimerEffect
<1> HIDE DEF d
<1>2. SameControl(d, q) /\ q.OutgoingPacket = p
  BY <1>1, RequestSent
<1>3. q \in PPPState BY <1>2 DEF SameControl
<1> HIDE DEF q, p
<1>4. ASSUME NEW r \in PPPState, NEW state \in Negotiating, Steady(q, r)
      PROVE  /\ OnlyLayer(down, Goto(r, L, state), L)
             /\ Goto(r, L, state).State[L] = state
             /\ Goto(r, L, state).TimerOn = TRUE
             /\ Goto(r, L, state).rebooting = down.rebooting
             /\ Goto(r, L, state).OutgoingPacket = p
  <2>1. state \in PPP_States
    BY <1>4 DEF Negotiating, PPP_States
  <2>. QED BY <1>1, <1>2, <1>4, <2>1, GotoEffect DEF Steady, SameControl, OnlyLayer
<1>5. /\ Steady(q, Send_Configure_Ack(q)) /\ Steady(q, Send_Configure_Nak_Rej(q))
      /\ Steady(q, q)
      /\ Send_Configure_Ack(q) \in PPPState /\ Send_Configure_Nak_Rej(q) \in PPPState
  BY <1>3, RepliesSteady, SelfSteady DEF Steady, SameControl
<1>6. "Ack_Sent" \in Negotiating /\ "Req_Sent" \in Negotiating BY DEF Negotiating
<1>7. CASE e = "RCRPlus"
  <2>1. Opened(e, s, L, down) = Goto(Send_Configure_Ack(q), L, "Ack_Sent")
    BY <1>7 DEF Opened, q, d
  <2>2. /\ OnlyLayer(down, Goto(Send_Configure_Ack(q), L, "Ack_Sent"), L)
        /\ Goto(Send_Configure_Ack(q), L, "Ack_Sent").State[L] = "Ack_Sent"
        /\ Goto(Send_Configure_Ack(q), L, "Ack_Sent").TimerOn = TRUE
        /\ Goto(Send_Configure_Ack(q), L, "Ack_Sent").rebooting = down.rebooting
        /\ Goto(Send_Configure_Ack(q), L, "Ack_Sent").OutgoingPacket = p
    BY <1>3, <1>4, <1>5, <1>6
  <2>. QED BY <1>6, <1>7, <2>1, <2>2, Zenon DEF p, Renegotiates
<1>8. CASE e = "RCRMinus"
  <2>1. Opened(e, s, L, down) = Goto(Send_Configure_Nak_Rej(q), L, "Req_Sent")
    BY <1>8 DEF Opened, q, d
  <2>2. /\ OnlyLayer(down, Goto(Send_Configure_Nak_Rej(q), L, "Req_Sent"), L)
        /\ Goto(Send_Configure_Nak_Rej(q), L, "Req_Sent").State[L] = "Req_Sent"
        /\ Goto(Send_Configure_Nak_Rej(q), L, "Req_Sent").TimerOn = TRUE
        /\ Goto(Send_Configure_Nak_Rej(q), L, "Req_Sent").rebooting = down.rebooting
        /\ Goto(Send_Configure_Nak_Rej(q), L, "Req_Sent").OutgoingPacket = p
    BY <1>3, <1>4, <1>5, <1>6
  <2>. QED BY <1>6, <1>8, <2>1, <2>2, Zenon DEF p, Renegotiates
<1>9. CASE e \in {"RCA", "RCN"}
  <2>1. Opened(e, s, L, down) = Goto(q, L, "Req_Sent")
    BY <1>9 DEF Opened, q, d
  <2>2. /\ OnlyLayer(down, Goto(q, L, "Req_Sent"), L)
        /\ Goto(q, L, "Req_Sent").State[L] = "Req_Sent"
        /\ Goto(q, L, "Req_Sent").TimerOn = TRUE
        /\ Goto(q, L, "Req_Sent").rebooting = down.rebooting
        /\ Goto(q, L, "Req_Sent").OutgoingPacket = p
    BY <1>3, <1>4, <1>5, <1>6
  <2>. QED BY <1>6, <1>9, <2>1, <2>2, Zenon DEF p, Renegotiates
<1>. QED BY <1>7, <1>8, <1>9 DEF PeerEvents

(* What an open layer leaves when the peer terminates it.                  *)
Stops(d, t, L) ==
  /\ OnlyLayer(d, t, L)
  /\ t.State[L] = "Stopping"
  /\ t.TimerOn = TRUE
  /\ t.rebooting = d.rebooting

(* Opened on RTR or RXJ-: the layer is stopping with the timer on.         *)
LEMMA OpenedStops ==
  ASSUME NEW s \in PPPState, NEW L \in PPP_Layers, NEW e \in {"RTR", "RXJMinus"},
         NEW down \in PPPState
  PROVE  Stops(down, Opened(e, s, L, down), L)
<1>1. PICK r : /\ r \in PPPState
               /\ r.PPP_Phase = down.PPP_Phase /\ r.State = down.State
               /\ r.TimerOn = TRUE /\ r.rebooting = down.rebooting
               /\ Opened(e, s, L, down) = Goto(r, L, "Stopping")
  <2>1. CASE e = "RTR"
    <3> DEFINE d == SetTimer(down, TRUE)
               z == [d EXCEPT !.RestartCount = 0, !.LinkTimer = 0]
    <3>1. /\ d \in PPPState /\ d.TimerOn = TRUE /\ d.PPP_Phase = down.PPP_Phase
          /\ d.State = down.State /\ d.rebooting = down.rebooting
      BY SetTimerEffect
    <3> HIDE DEF d
    <3>2. SameControl(d, z) BY <3>1, ByteArithmetic DEF SameControl, PPPState
    <3> HIDE DEF z
    <3>3. Steady(z, Send_Terminate_Ack(z)) BY <3>2, RepliesSteady DEF SameControl
    <3>4. Opened(e, s, L, down) = Goto(Send_Terminate_Ack(z), L, "Stopping")
      BY <2>1 DEF Opened, z, d
    <3>. QED BY <3>1, <3>2, <3>3, <3>4 DEF Steady, SameControl
  <2>2. CASE e = "RXJMinus"
    <3> DEFINE c == InitCount(down)
               d == SetTimer(c, TRUE)
    <3>1. Steady(down, c) BY InitCountSteady
    <3> HIDE DEF c
    <3>2. /\ d \in PPPState /\ d.TimerOn = TRUE /\ d.PPP_Phase = c.PPP_Phase
          /\ d.State = c.State /\ d.rebooting = c.rebooting
      BY <3>1, SetTimerEffect DEF Steady, SameControl
    <3> HIDE DEF d
    <3>3. SameControl(d, Send_Terminate_Request(d)) BY <3>2, TerminateSent
    <3>4. Opened(e, s, L, down) = Goto(Send_Terminate_Request(d), L, "Stopping")
      BY <2>2 DEF Opened, d, c
    <3>. QED BY <3>1, <3>2, <3>3, <3>4 DEF Steady, SameControl
  <2>. QED BY <2>1, <2>2
<1>2. "Stopping" \in PPP_States BY DEF PPP_States
<1>3. /\ OnlyLayer(r, Goto(r, L, "Stopping"), L)
      /\ Goto(r, L, "Stopping").State[L] = "Stopping"
      /\ Goto(r, L, "Stopping").TimerOn = r.TimerOn
      /\ Goto(r, L, "Stopping").rebooting = r.rebooting
  BY <1>1, <1>2, GotoEffect
<1>. QED BY <1>1, <1>3 DEF OnlyLayer, Stops

(* Opened ignores timeouts, and answers unknown codes and echoes.          *)
LEMMA OpenedStays ==
  ASSUME NEW s \in PPPState, NEW L \in PPP_Layers, NEW down,
         NEW e \in TimeoutEvents \cup {"RUC", "RXR", "Open"}
  PROVE  Steady(s, Opened(e, s, L, down))
BY RepliesSteady, SelfSteady DEF Opened, TimeoutEvents

---------------------------------------------------------------------------
(* IPCP *)

(* IPCP over an open link: negotiating with its request and the timer on,  *)
(* or open with neither.                                                   *)
IPCPConsistent(s) ==
  /\ s.State["Network"] \in Negotiating \cup {"Opened"}
  /\ s.TimerOn <=> s.State["Network"] # "Opened"
  /\ s.OutgoingPacket = IF s.State["Network"] = "Opened" THEN "NULL" ELSE "IPCP"

(* This_Layer_Up of IPCP moves no automaton and drops the request.         *)
LEMMA NetworkUpEffect ==
  ASSUME NEW s \in PPPState
  PROVE  SameControl(s, NetworkUp(s)) /\ NetworkUp(s).OutgoingPacket = "NULL"
<1> DEFINE c == ClearRequest(s)
<1>1. SameControl(s, c) /\ c.OutgoingPacket = "NULL" BY ClearRequestEffect
<1> HIDE DEF c
<1>2. SameControl(c, [c EXCEPT !.CurrentProtocol = "NONE", !.ConnectedState = "InitializeTCPStack"])
      /\ [c EXCEPT !.CurrentProtocol = "NONE",
                   !.ConnectedState = "InitializeTCPStack"].OutgoingPacket = "NULL"
  BY <1>1 DEF SameControl, PPPState, Protocols, ConnectedStates
<1>. QED BY <1>1, <1>2 DEF NetworkUp, c, SameControl

(* IPCP opened with the timer off is consistent.                           *)
LEMMA NetworkOpens ==
  ASSUME NEW s \in PPPState, NEW e, NEW a,
         ManageNetwork(e, s) = Goto(a, "Network", "Opened"),
         a \in PPPState, a.PPP_Phase = s.PPP_Phase, a.State = s.State,
         a.TimerOn = FALSE, a.rebooting = s.rebooting, a.OutgoingPacket = "NULL"
  PROVE  LET t == ManageNetwork(e, s)
         IN  OnlyLayer(s, t, "Network") /\ IPCPConsistent(t) /\ t.rebooting = s.rebooting
<1>1. "Network" \in PPP_Layers /\ "Opened" \in PPP_States BY DEF PPP_Layers, PPP_States
<1>. QED BY <1>1, GotoEffect DEF OnlyLayer, IPCPConsistent

(* Every event of the peer or of the timer keeps IPCP consistent, or gives *)
(* the link up. The request may be missing when an open IPCP is about to   *)
(* negotiate again.                                                        *)
LEMMA NetworkStep ==
  ASSUME NEW s \in PPPState, s.PPP_Phase = "Network",
         NEW e \in PeerEvents \cup TimeoutEvents,
         s.State["Network"] \in Negotiating \cup {"Opened"},
         s.TimerOn <=> s.State["Network"] # "Opened",
         s.State["Network"] # "Opened" => s.OutgoingPacket = "IPCP",
         s.State["Network"] = "Opened" /\ e \notin PeerEvents => s.OutgoingPacket = "NULL"
  PROVE  LET t == ManageNetwork(e, s)
         IN  /\ OnlyLayer(s, t, "Network")
             /\ \/ IPCPConsistent(t) /\ t.rebooting = s.rebooting
                \/ e = "TOMinus" /\ t.rebooting = "main"
<1> DEFINE t == ManageNetwork(e, s)
<1>0. "Network" \in PPP_Layers /\ e \in Events BY DEF PPP_Layers, Events
<1>e. e # "RXJMinus" BY DEF PeerEvents, TimeoutEvents
<1>a. s.State["Network"] # "Opened" /\ StillNegotiating(s, t, "Network") =>
        OnlyLayer(s, t, "Network") /\ IPCPConsistent(t) /\ t.rebooting = s.rebooting
  BY DEF StillNegotiating, IPCPConsistent, Negotiating
<1>b. t = Finish(s, "Network") => OnlyLayer(s, t, "Network") /\ t.rebooting = "main"
  BY <1>0, FinishEffect
<1>1. CASE s.State["Network"] = "Req_Sent"
  <2>1. t = Req_Sent(e, s, "Network") BY <1>1, NetworkDispatch
  <2>. QED BY <1>0, <1>e, <1>a, <1>b, <1>1, <2>1, ReqSentStep
<1>2. CASE s.State["Network"] = "Ack_Rcvd"
  <2> DEFINE up == NetworkUp(Send_Configure_Ack(s))
  <2>1. t = Ack_Rcvd(e, s, "Network", up) BY <1>2, NetworkDispatch
  <2>2. CASE e # "RCRPlus"
    <3> HIDE DEF up
    <3>. QED BY <1>0, <1>e, <1>a, <1>b, <1>2, <2>1, <2>2, AckRcvdStep
  <2>3. CASE e = "RCRPlus"
    <3> DEFINE k == Send_Configure_Ack(s)
               a == SetTimer(up, FALSE)
    <3>1. Steady(s, k) BY RepliesSteady
    <3> HIDE DEF k
    <3>2. SameControl(k, NetworkUp(k)) /\ NetworkUp(k).OutgoingPacket = "NULL"
      BY <3>1, NetworkUpEffect DEF Steady, SameControl
    <3>3. up = NetworkUp(k) BY DEF k
    <3> HIDE DEF up
    <3>4. /\ a \in PPPState /\ a.PPP_Phase = s.PPP_Phase /\ a.State = s.State
          /\ a.TimerOn = FALSE /\ a.rebooting = s.rebooting /\ a.OutgoingPacket = "NULL"
      BY <3>1, <3>2, <3>3, SetTimerEffect DEF Steady, SameControl
    <3>5. t = Goto(a, "Network", "Opened") BY <2>1, <2>3 DEF Ack_Rcvd
    <3> HIDE DEF a
    <3>. QED BY <3>4, <3>5, NetworkOpens
  <2>. QED BY <2>2, <2>3
<1>3. CASE s.State["Network"] = "Ack_Sent"
  <2> DEFINE up == NetworkUp(SetTimer(InitCount(s), FALSE))
  <2>1. t = Ack_Sent(e, s, "Network", up) BY <1>3, NetworkDispatch
  <2>2. CASE e # "RCA"
    <3> HIDE DEF up
    <3>. QED BY <1>0, <1>e, <1>a, <1>b, <1>3, <2>1, <2>2, AckSentStep
  <2>3. CASE e = "RCA"
    <3> DEFINE c == InitCount(s)
               k == SetTimer(c, FALSE)
    <3>1. Steady(s, c) BY InitCountSteady
    <3> HIDE DEF c
    <3>2. /\ k \in PPPState /\ k.PPP_Phase = s.PPP_Phase /\ k.State = s.State
          /\ k.TimerOn = FALSE /\ k.rebooting = s.rebooting
      BY <3>1, SetTimerEffect DEF Steady, SameControl
    <3> HIDE DEF k
    <3>3. SameControl(k, NetworkUp(k)) /\ NetworkUp(k).OutgoingPacket = "NULL"
      BY <3>2, NetworkUpEffect
    <3>4. up = NetworkUp(k) BY DEF k, c
    <3>5. t = Goto(up, "Network", "Opened") BY <2>1, <2>3 DEF Ack_Sent
    <3> HIDE DEF up
    <3>. QED BY <3>2, <3>3, <3>4, <3>5, NetworkOpens DEF SameControl
  <2>. QED BY <2>2, <2>3
<1>4. CASE s.State["Network"] = "Opened"
  <2> DEFINE down == NetworkDown(s)
  <2>1. t = Opened(e, s, "Network", down) BY <1>4, NetworkDispatch
  <2>2. SameControl(s, down) /\ down.OutgoingPacket = "NULL"
    BY ClearRequestEffect DEF NetworkDown
  <2> HIDE DEF down
  <2>3. CASE e \in PeerEvents
    <3>1. ProtocolOf[LayerOf[down.PPP_Phase]] = "IPCP"
      BY <2>2 DEF SameControl, ProtocolOf, LayerOf
    <3>2. /\ OnlyLayer(down, t, "Network")
          /\ t.State["Network"] \in Negotiating
          /\ t.TimerOn = TRUE
          /\ t.rebooting = down.rebooting
          /\ t.OutgoingPacket = "IPCP"
      <4>1. down \in PPPState /\ down.PPP_Phase # "Dead" BY <2>2 DEF SameControl
      <4>2. "Network" \in PPP_Layers BY <1>0
      <4>3. Renegotiates(down, Opened(e, s, "Network", down), "Network", e)
        BY <4>1, <4>2, <2>2, <2>3, OpenedRestarts
      <4> HIDE DEF t
      <4>. QED BY <4>3, <2>1, <3>1, Zenon DEF Renegotiates
    <3>. QED BY <2>2, <3>2 DEF SameControl, OnlyLayer, IPCPConsistent, Negotiating
  <2>4. CASE e \in TimeoutEvents
    <3>1. Steady(s, t) BY <1>0, <2>1, <2>4, OpenedStays
    <3>2. s.OutgoingPacket = "NULL" BY <1>4, <2>4 DEF PeerEvents, TimeoutEvents
    <3>. QED BY <1>4, <3>1, <3>2 DEF Steady, SameControl, OnlyLayer, IPCPConsistent
  <2>. QED BY <2>3, <2>4
<1>. QED BY <1>1, <1>2, <1>3, <1>4 DEF Negotiating

---------------------------------------------------------------------------
(* Bringing a layer up *)

(* The layer has not been brought up.                                      *)
Idle(s, L) == s.State[L] \in {"Initial", "Starting"}

(* A layer that is down ignores the packets of its protocol and timeouts.  *)
LEMMA IdleStays ==
  ASSUME NEW s, NEW e \in Events
  PROVE  /\ Idle(s, "Network") => ManageNetwork(e, s) = s
         /\ Idle(s, "Authentication") => ManageAuthentication(e, s) = s
<1>1. e \notin {"Up", "Open", "Close"}
  BY DEF Events, PeerEvents, TimeoutEvents, OtherEvents
<1>. QED
  BY <1>1, NetworkDispatch, AuthenticationDispatch, Zenon DEF Idle, Initial, Starting

(* The layer was brought up: its request is sent and the timer runs.       *)
Started(s, t, L) ==
  /\ OnlyLayer(s, t, L)
  /\ t.State[L] = "Req_Sent"
  /\ t.TimerOn = TRUE
  /\ t.rebooting = s.rebooting
  /\ t.OutgoingPacket = IF s.OutgoingPacket = "NULL" THEN ProtocolOf[LayerOf[s.PPP_Phase]]
                        ELSE s.OutgoingPacket

(* Starting (PPP.c:845) on Up sends the first request of the layer.        *)
LEMMA StartingUp ==
  ASSUME NEW s \in PPPState, NEW L \in PPP_Layers, s.PPP_Phase # "Dead"
  PROVE  Started(s, Starting("Up", s, L), L)
<1> DEFINE g == Goto(s, L, "Req_Sent")
           c == InitCount(g)
           d == SetTimer(c, TRUE)
<1>1. /\ OnlyLayer(s, g, L) /\ g.State[L] = "Req_Sent"
      /\ g.rebooting = s.rebooting /\ g.OutgoingPacket = s.OutgoingPacket
  <2>1. "Req_Sent" \in PPP_States BY DEF PPP_States
  <2>. QED BY <2>1, GotoEffect
<1> HIDE DEF g
<1>2. Steady(g, c) BY <1>1, InitCountSteady DEF OnlyLayer
<1> HIDE DEF c
<1>3. /\ d \in PPPState /\ d.TimerOn = TRUE /\ d.PPP_Phase = c.PPP_Phase
      /\ d.State = c.State /\ d.rebooting = c.rebooting
      /\ d.OutgoingPacket = c.OutgoingPacket
  BY <1>2, SetTimerEffect DEF Steady, SameControl
<1> HIDE DEF d
<1>4. d.PPP_Phase = s.PPP_Phase /\ d.OutgoingPacket = s.OutgoingPacket
  BY <1>1, <1>2, <1>3 DEF Steady, SameControl, OnlyLayer
<1>5. /\ SameControl(d, Send_Configure_Request(d))
      /\ Send_Configure_Request(d).OutgoingPacket =
              IF d.OutgoingPacket = "NULL" THEN ProtocolOf[LayerOf[d.PPP_Phase]]
              ELSE d.OutgoingPacket
  BY <1>3, <1>4, RequestSent
<1>6. Starting("Up", s, L) = Send_Configure_Request(d)
  BY DEF Starting, d, c, g
<1>7. Started(s, Send_Configure_Request(d), L)
  BY <1>1, <1>2, <1>3, <1>4, <1>5 DEF Steady, SameControl, OnlyLayer, Started
<1>. QED BY <1>6, <1>7

(* Open leads a layer that is down to Starting, and nowhere else.          *)
LEMMA OpenUp ==
  ASSUME NEW s \in PPPState, NEW L \in PPP_Layers, Idle(s, L)
  PROVE  LET o == IF s.State[L] = "Initial" THEN Initial("Open", s, L)
                                            ELSE Starting("Open", s, L)
         IN  /\ OnlyLayer(s, o, L)
             /\ o.State[L] = "Starting"
             /\ o.rebooting = s.rebooting
             /\ o.OutgoingPacket = s.OutgoingPacket
<1>1. "Starting" \in PPP_States BY DEF PPP_States
<1>2. CASE s.State[L] = "Initial"
  BY <1>1, <1>2, GotoEffect DEF Initial
<1>3. CASE s.State[L] = "Starting"
  BY <1>3 DEF Starting, OnlyLayer
<1>. QED BY <1>2, <1>3 DEF Idle

(* Open followed by Up, as one step.                                       *)
LEMMA StartedFromOpen ==
  ASSUME NEW s \in PPPState, NEW o, NEW t, NEW L \in PPP_Layers,
         OnlyLayer(s, o, L), o.rebooting = s.rebooting,
         o.OutgoingPacket = s.OutgoingPacket, Started(o, t, L)
  PROVE  Started(s, t, L)
BY DEF Started, OnlyLayer

(* This_Layer_Up and PPP_StartLink drive the layer with Open then Up:      *)
(* whichever of the two idle states it was in, it ends in Req_Sent.        *)
LEMMA LayerStarts ==
  ASSUME NEW s \in PPPState, s.PPP_Phase # "Dead"
  PROVE  /\ Idle(s, "Network") =>
              Started(s, ManageNetwork("Up", ManageNetwork("Open", s)), "Network")
         /\ Idle(s, "Authentication") =>
              Started(s, ManageAuthentication("Up", ManageAuthentication("Open", s)),
                      "Authentication")
         /\ Idle(s, "Physical") =>
              Started(s, ManagePhysical("Up", ManagePhysical("Open", s)), "Physical")
<1>1. ASSUME NEW L \in PPP_Layers, Idle(s, L), NEW o, NEW t,
             o = IF s.State[L] = "Initial" THEN Initial("Open", s, L)
                                           ELSE Starting("Open", s, L),
             t = Starting("Up", o, L)
      PROVE  Started(s, t, L)
  <2>1. /\ OnlyLayer(s, o, L) /\ o.rebooting = s.rebooting
        /\ o.OutgoingPacket = s.OutgoingPacket
    BY <1>1, OpenUp
  <2>2. o \in PPPState /\ o.PPP_Phase # "Dead" BY <2>1 DEF OnlyLayer
  <2>3. Started(o, t, L) BY <1>1, <2>2, StartingUp
  <2>. QED BY <2>1, <2>3, StartedFromOpen
<1>2. ASSUME Idle(s, "Network")
      PROVE  Started(s, ManageNetwork("Up", ManageNetwork("Open", s)), "Network")
  <2> DEFINE o == ManageNetwork("Open", s)
             t == ManageNetwork("Up", o)
  <2>0. "Network" \in PPP_Layers BY DEF PPP_Layers
  <2>1. o = IF s.State["Network"] = "Initial" THEN Initial("Open", s, "Network")
                                              ELSE Starting("Open", s, "Network")
    BY <1>2, NetworkDispatch DEF Idle
  <2>2. o.State["Network"] = "Starting" BY <1>2, <2>0, <2>1, OpenUp
  <2>3. t = Starting("Up", o, "Network")
    <3> HIDE DEF o
    <3>. QED BY <2>2, NetworkDispatch
  <2> HIDE DEF o, t
  <2>4. Started(s, t, "Network") BY <1>1, <1>2, <2>0, <2>1, <2>3
  <2>. QED BY <2>4 DEF o, t
<1>3. ASSUME Idle(s, "Authentication")
      PROVE  Started(s, ManageAuthentication("Up", ManageAuthentication("Open", s)),
                    "Authentication")
  <2> DEFINE o == ManageAuthentication("Open", s)
             t == ManageAuthentication("Up", o)
  <2>0. "Authentication" \in PPP_Layers BY DEF PPP_Layers
  <2>1. o = IF s.State["Authentication"] = "Initial" THEN Initial("Open", s, "Authentication")
                                              ELSE Starting("Open", s, "Authentication")
    BY <1>3, AuthenticationDispatch DEF Idle
  <2>2. o.State["Authentication"] = "Starting" BY <1>3, <2>0, <2>1, OpenUp
  <2>3. t = Starting("Up", o, "Authentication")
    <3> HIDE DEF o
    <3>. QED BY <2>2, AuthenticationDispatch
  <2> HIDE DEF o, t
  <2>4. Started(s, t, "Authentication") BY <1>1, <1>3, <2>0, <2>1, <2>3
  <2>. QED BY <2>4 DEF o, t
<1>4. ASSUME Idle(s, "Physical")
      PROVE  Started(s, ManagePhysical("Up", ManagePhysical("Open", s)), "Physical")
  <2> DEFINE o == ManagePhysical("Open", s)
             t == ManagePhysical("Up", o)
  <2>0. "Physical" \in PPP_Layers BY DEF PPP_Layers
  <2>1. o = IF s.State["Physical"] = "Initial" THEN Initial("Open", s, "Physical")
                                              ELSE Starting("Open", s, "Physical")
    BY <1>4, PhysicalDispatch DEF Idle
  <2>2. o.State["Physical"] = "Starting" BY <1>4, <2>0, <2>1, OpenUp
  <2>3. t = Starting("Up", o, "Physical")
    <3> HIDE DEF o
    <3>. QED BY <2>2, PhysicalDispatch
  <2> HIDE DEF o, t
  <2>4. Started(s, t, "Physical") BY <1>1, <1>4, <2>0, <2>1, <2>3
  <2>. QED BY <2>4 DEF o, t
<1>. QED BY <1>2, <1>3, <1>4

(* The phase changes, the request is dropped, no automaton moves.          *)
LEMMA EnterPhaseEffect ==
  ASSUME NEW s \in PPPState, NEW phase \in PPP_Phases
  PROVE  /\ EnterPhase(s, phase) \in PPPState
         /\ EnterPhase(s, phase).PPP_Phase = phase
         /\ EnterPhase(s, phase).State = s.State
         /\ EnterPhase(s, phase).rebooting = s.rebooting
         /\ EnterPhase(s, phase).OutgoingPacket = "NULL"
<1> DEFINE c == ClearRequest(s)
<1>1. SameControl(s, c) /\ c.OutgoingPacket = "NULL" BY ClearRequestEffect
<1> HIDE DEF c
<1> DEFINE t == [c EXCEPT !.CurrentProtocol = "NONE", !.PPP_Phase = phase,
                          !.OutgoingPacketID = UINT8 - 1]
<1>2. /\ t \in PPPState /\ t.PPP_Phase = phase /\ t.State = c.State
      /\ t.rebooting = c.rebooting /\ t.OutgoingPacket = c.OutgoingPacket
  BY <1>1, ByteArithmetic DEF SameControl, PPPState, Protocols
<1>3. EnterPhase(s, phase) = t BY DEF EnterPhase, c
<1> HIDE DEF t
<1>. QED BY <1>1, <1>2, <1>3 DEF SameControl

---------------------------------------------------------------------------
(* Bringing a layer down *)

(* The layer was brought down: it is idle, the request at hand is as it    *)
(* was.                                                                    *)
LayerStopped(s, t, L) ==
  /\ OnlyLayer(s, t, L)
  /\ Idle(t, L)
  /\ s.State[L] # "Initial" => t.State[L] = "Starting"
  /\ t.rebooting = s.rebooting
  /\ t.OutgoingPacket = s.OutgoingPacket

(* Down in a state of the negotiation.                                     *)
LEMMA NegotiationStops ==
  ASSUME NEW s \in PPPState, NEW L \in PPP_Layers
  PROVE  LayerStopped(s, Goto(SetTimer(s, FALSE), L, "Starting"), L)
<1> DEFINE d == SetTimer(s, FALSE)
<1>1. /\ d \in PPPState /\ d.PPP_Phase = s.PPP_Phase /\ d.State = s.State
      /\ d.rebooting = s.rebooting /\ d.OutgoingPacket = s.OutgoingPacket
  BY SetTimerEffect
<1> HIDE DEF d
<1>2. "Starting" \in PPP_States BY DEF PPP_States
<1>3. /\ OnlyLayer(d, Goto(d, L, "Starting"), L)
      /\ Goto(d, L, "Starting").State[L] = "Starting"
      /\ Goto(d, L, "Starting").rebooting = d.rebooting
      /\ Goto(d, L, "Starting").OutgoingPacket = d.OutgoingPacket
  BY <1>1, <1>2, GotoEffect
<1>4. LayerStopped(s, Goto(d, L, "Starting"), L)
  BY <1>1, <1>3 DEF LayerStopped, OnlyLayer, Idle
<1>. QED BY <1>4 DEF d

(* IPCP on Down, state by state.                                           *)
LEMMA NetworkLayerDown ==
  ASSUME NEW s
  PROVE  /\ s.State["Network"] = "Initial" => ManageNetwork("Down", s) = s
         /\ s.State["Network"] = "Starting" => ManageNetwork("Down", s) = s
         /\ s.State["Network"] = "Req_Sent" =>
              ManageNetwork("Down", s) = Goto(SetTimer(s, FALSE), "Network", "Starting")
         /\ s.State["Network"] = "Ack_Rcvd" =>
              ManageNetwork("Down", s) = Goto(SetTimer(s, FALSE), "Network", "Starting")
         /\ s.State["Network"] = "Ack_Sent" =>
              ManageNetwork("Down", s) = Goto(SetTimer(s, FALSE), "Network", "Starting")
         /\ s.State["Network"] = "Opened" =>
              ManageNetwork("Down", s) = Goto(NetworkDown(s), "Network", "Starting")
BY Zenon DEF ManageNetwork, PPP_ManageState, Initial, Starting,
             Req_Sent, Ack_Rcvd, Ack_Sent, Opened

(* PAP on Down, state by state.                                            *)
LEMMA AuthenticationLayerDown ==
  ASSUME NEW s
  PROVE  /\ s.State["Authentication"] = "Initial" => ManageAuthentication("Down", s) = s
         /\ s.State["Authentication"] = "Starting" => ManageAuthentication("Down", s) = s
         /\ s.State["Authentication"] = "Req_Sent" =>
              ManageAuthentication("Down", s) =
                Goto(SetTimer(s, FALSE), "Authentication", "Starting")
         /\ s.State["Authentication"] = "Ack_Rcvd" =>
              ManageAuthentication("Down", s) =
                Goto(SetTimer(s, FALSE), "Authentication", "Starting")
         /\ s.State["Authentication"] = "Ack_Sent" =>
              ManageAuthentication("Down", s) =
                Goto(SetTimer(s, FALSE), "Authentication", "Starting")
         /\ s.State["Authentication"] = "Opened" =>
              ManageAuthentication("Down", s) =
                Goto(AuthenticationDown(s), "Authentication", "Starting")
BY Zenon DEF ManageAuthentication, PPP_ManageState, Initial, Starting,
             Req_Sent, Ack_Rcvd, Ack_Sent, Opened

(* Down leaves IPCP idle from every state it has while the link is up.     *)
LEMMA NetworkStops ==
  ASSUME NEW s \in PPPState, s.OutgoingPacket = "NULL",
         s.State["Network"] \in {"Initial", "Starting", "Opened"} \cup Negotiating
  PROVE  LayerStopped(s, ManageNetwork("Down", s), "Network")
<1> DEFINE t == ManageNetwork("Down", s)
<1>0. "Network" \in PPP_Layers BY DEF PPP_Layers
<1>1. CASE Idle(s, "Network")
  <2>1. t = s BY <1>0, <1>1, NetworkLayerDown DEF Idle
  <2>. QED BY <1>1, <2>1 DEF LayerStopped, OnlyLayer, Idle
<1>2. CASE s.State["Network"] \in Negotiating
  <2>1. t = Goto(SetTimer(s, FALSE), "Network", "Starting")
    BY <1>0, <1>2, NetworkLayerDown DEF Negotiating
  <2>. QED BY <1>0, <2>1, NegotiationStops
<1>3. CASE s.State["Network"] = "Opened"
  <2> DEFINE c == ClearRequest(s)
  <2>1. SameControl(s, c) /\ c.OutgoingPacket = "NULL" BY ClearRequestEffect
  <2>2. t = Goto(c, "Network", "Starting")
    BY <1>0, <1>3, NetworkLayerDown DEF NetworkDown
  <2> HIDE DEF c, t
  <2>3. "Starting" \in PPP_States BY DEF PPP_States
  <2>4. /\ OnlyLayer(c, Goto(c, "Network", "Starting"), "Network")
        /\ Goto(c, "Network", "Starting").State["Network"] = "Starting"
        /\ Goto(c, "Network", "Starting").rebooting = c.rebooting
        /\ Goto(c, "Network", "Starting").OutgoingPacket = c.OutgoingPacket
    BY <1>0, <2>1, <2>3, GotoEffect DEF SameControl
  <2>5. LayerStopped(s, t, "Network")
    BY <2>1, <2>2, <2>4 DEF LayerStopped, OnlyLayer, Idle, SameControl
  <2>. QED BY <2>5 DEF t
<1>. QED BY <1>1, <1>2, <1>3 DEF Idle

(* PAP and IPCP are idle, LCP has not moved.                               *)
UpperStopped(s, t) ==
  /\ t \in PPPState
  /\ t.PPP_Phase = s.PPP_Phase
  /\ t.State["Physical"] = s.State["Physical"]
  /\ Idle(t, "Authentication")
  /\ Idle(t, "Network")
  /\ t.rebooting = s.rebooting
  /\ t.OutgoingPacket = "NULL"

(* The states of PAP and IPCP over an open LCP.                            *)
LayersUp(s) ==
  \/ /\ s.State["Authentication"] \in {"Req_Sent", "Ack_Sent"}
     /\ Idle(s, "Network")
  \/ /\ s.State["Authentication"] = "Opened"
     /\ s.State["Network"] \in Negotiating \cup {"Opened"}

(* This_Layer_Down of PAP brings IPCP down.                                *)
LEMMA AuthenticationDownEffect ==
  ASSUME NEW s \in PPPState,
         s.State["Network"] \in {"Initial", "Starting", "Opened"} \cup Negotiating
  PROVE  /\ LayerStopped(ClearRequest(s), AuthenticationDown(s), "Network")
         /\ SameControl(s, ClearRequest(s)) /\ ClearRequest(s).OutgoingPacket = "NULL"
<1> DEFINE c == ClearRequest(s)
<1>1. SameControl(s, c) /\ c.OutgoingPacket = "NULL" BY ClearRequestEffect
<1>2. AuthenticationDown(s) = ManageNetwork("Down", c) BY DEF AuthenticationDown
<1> HIDE DEF c
<1>3. LayerStopped(c, ManageNetwork("Down", c), "Network")
  BY <1>1, NetworkStops DEF SameControl
<1>. QED BY <1>1, <1>2, <1>3 DEF c

(* Down leaves both upper layers idle, through the nested call of          *)
(* This_Layer_Down.                                                        *)
LEMMA AuthenticationStops ==
  ASSUME NEW s \in PPPState, s.OutgoingPacket = "NULL", LayersUp(s)
  PROVE  UpperStopped(s, ManageAuthentication("Down", s))
<1> DEFINE t == ManageAuthentication("Down", s)
<1>0. /\ "Network" \in PPP_Layers /\ "Authentication" \in PPP_Layers
      /\ "Physical" \in PPP_Layers
  BY DEF PPP_Layers
<1>1. CASE s.State["Authentication"] \in {"Req_Sent", "Ack_Sent"}
  <2>1. t = Goto(SetTimer(s, FALSE), "Authentication", "Starting")
    BY <1>0, <1>1, AuthenticationLayerDown
  <2>2. LayerStopped(s, t, "Authentication") BY <1>0, <2>1, NegotiationStops
  <2> HIDE DEF t
  <2>3. UpperStopped(s, t)
    BY <1>0, <1>1, <2>2 DEF LayersUp, Idle, LayerStopped, OnlyLayer, UpperStopped
  <2>. QED BY <2>3 DEF t
<1>2. CASE s.State["Authentication"] = "Opened"
  <2> DEFINE c == ClearRequest(s)
             d == AuthenticationDown(s)
  <2>1. s.State["Network"] \in {"Initial", "Starting", "Opened"} \cup Negotiating
    BY <1>2 DEF LayersUp
  <2>2. /\ LayerStopped(c, d, "Network")
        /\ SameControl(s, c) /\ c.OutgoingPacket = "NULL"
    BY <2>1, AuthenticationDownEffect
  <2>3. t = Goto(d, "Authentication", "Starting")
    BY <1>0, <1>2, AuthenticationLayerDown
  <2> HIDE DEF c, d, t
  <2>4. "Starting" \in PPP_States BY DEF PPP_States
  <2>5. /\ OnlyLayer(d, Goto(d, "Authentication", "Starting"), "Authentication")
        /\ Goto(d, "Authentication", "Starting").State["Authentication"] = "Starting"
        /\ Goto(d, "Authentication", "Starting").rebooting = d.rebooting
        /\ Goto(d, "Authentication", "Starting").OutgoingPacket = d.OutgoingPacket
    BY <1>0, <2>2, <2>4, GotoEffect DEF LayerStopped, OnlyLayer
  <2>6. UpperStopped(s, t)
    BY <1>0, <2>2, <2>3, <2>5
       DEF UpperStopped, LayerStopped, OnlyLayer, Idle, SameControl
  <2>. QED BY <2>6 DEF t
<1>. QED BY <1>1, <1>2 DEF LayersUp

(* The phase is Network and IPCP negotiates.                               *)
NetworkPhaseEntered(s, t) ==
  /\ t \in PPPState
  /\ t.PPP_Phase = "Network"
  /\ t.State["Physical"] = s.State["Physical"]
  /\ t.State["Authentication"] = s.State["Authentication"]
  /\ IPCPConsistent(t)
  /\ t.rebooting = s.rebooting

(* This_Layer_Up of PAP enters the network phase and starts IPCP.          *)
LEMMA AuthenticationUpEffect ==
  ASSUME NEW s \in PPPState, Idle(s, "Network")
  PROVE  NetworkPhaseEntered(s, AuthenticationUp(s))
<1> DEFINE n == EnterPhase(s, "Network")
           t == AuthenticationUp(s)
<1>1. /\ n \in PPPState /\ n.PPP_Phase = "Network" /\ n.State = s.State
      /\ n.rebooting = s.rebooting /\ n.OutgoingPacket = "NULL"
  BY EnterPhaseEffect DEF PPP_Phases
<1>2. t = ManageNetwork("Up", ManageNetwork("Open", n)) BY DEF AuthenticationUp
<1> HIDE DEF n
<1>3. Started(n, ManageNetwork("Up", ManageNetwork("Open", n)), "Network")
  BY <1>1, LayerStarts DEF Idle
<1> HIDE DEF t
<1>4. Started(n, t, "Network") BY <1>2, <1>3
<1>5. ProtocolOf[LayerOf[n.PPP_Phase]] = "IPCP" BY <1>1 DEF ProtocolOf, LayerOf
<1>6. NetworkPhaseEntered(s, t)
  BY <1>1, <1>4, <1>5
     DEF NetworkPhaseEntered, Started, OnlyLayer, IPCPConsistent, Negotiating, PPP_Layers
<1>. QED BY <1>6 DEF t

(* The three situations of the upper layers over an open LCP: PAP          *)
(* negotiates; PAP was answered again and waits in Ack_Sent above a        *)
(* stopped IPCP; IPCP negotiates or is open.                               *)
UpperOK(s) ==
  \/ /\ s.PPP_Phase = "Authenticate"
     /\ s.State["Authentication"] \in {"Req_Sent", "Ack_Sent"}
     /\ Idle(s, "Network")
     /\ s.OutgoingPacket = "PAP"
  \/ /\ s.PPP_Phase = "Network"
     /\ s.State["Authentication"] = "Ack_Sent"
     /\ s.State["Network"] = "Starting"
     /\ s.OutgoingPacket = "IPCP"
  \/ /\ s.PPP_Phase = "Network"
     /\ s.State["Authentication"] = "Opened"
     /\ IPCPConsistent(s)

(* LCP is open and the upper layers are in one of their situations.        *)
LinkOpen(s) == s.State["Physical"] = "Opened" /\ UpperOK(s)

(* The link stays open, or a timeout gave it up.                           *)
AuthenticationHandled(s, t, e) ==
  /\ t \in PPPState
  /\ \/ LinkOpen(t) /\ t.rebooting = s.rebooting
     \/ e = "TOMinus" /\ t.rebooting = "main"
  /\ e = "RCRPlus" => t.State["Authentication"] = "Ack_Sent"

(* PAP under negotiation: a request or a timeout.                          *)
LEMMA AuthenticationPending ==
  ASSUME NEW s \in PPPState, LinkOpen(s), NEW e \in {"RCRPlus", "TOPlus", "TOMinus"},
         s.State["Authentication"] \in {"Req_Sent", "Ack_Sent"}
  PROVE  AuthenticationHandled(s, ManageAuthentication(e, s), e)
<1> DEFINE t == ManageAuthentication(e, s)
           L == "Authentication"
<1>0. /\ "Network" \in PPP_Layers /\ L \in PPP_Layers /\ "Physical" \in PPP_Layers
      /\ e \in Events /\ e \notin {"RXJMinus", "RCA"}
  BY DEF PPP_Layers, Events, PeerEvents, TimeoutEvents
<1>1. s.PPP_Phase # "Dead" /\ s.OutgoingPacket # "NULL"
  BY DEF LinkOpen, UpperOK
<1>2. /\ e = "TOMinus" => t = Finish(s, L)
      /\ e # "TOMinus" => StillNegotiating(s, t, L) /\ t.State[L] \in {"Req_Sent", "Ack_Sent"}
      /\ e # "TOMinus" /\ s.State[L] = "Ack_Sent" => t.State[L] = "Ack_Sent"
      /\ e = "RCRPlus" => t.State[L] = "Ack_Sent"
  <2>1. CASE s.State[L] = "Req_Sent"
    <3>1. t = Req_Sent(e, s, L) BY <2>1, AuthenticationDispatch
    <3> HIDE DEF t
    <3>. QED BY <1>0, <1>1, <2>1, <3>1, ReqSentStep
  <2>2. CASE s.State[L] = "Ack_Sent"
    <3> DEFINE up == AuthenticationUp(SetTimer(InitCount(s), FALSE))
    <3>1. t = Ack_Sent(e, s, L, up) BY <2>2, AuthenticationDispatch
    <3> HIDE DEF t, up
    <3>. QED BY <1>0, <1>1, <2>2, <3>1, AckSentStep
  <2>. QED BY <2>1, <2>2
<1> HIDE DEF t
<1>3. CASE e = "TOMinus"
  <2>1. Finish(s, L) \in PPPState /\ Finish(s, L).rebooting = "main"
    BY <1>0, FinishEffect DEF OnlyLayer
  <2>2. t = Finish(s, L) BY <1>2, <1>3
  <2>. QED BY <1>3, <2>1, <2>2 DEF AuthenticationHandled, t
<1>4. CASE e # "TOMinus"
  <2>1. LinkOpen(t) /\ t.rebooting = s.rebooting /\ t \in PPPState
    BY <1>0, <1>2, <1>4
       DEF StillNegotiating, OnlyLayer, LinkOpen, UpperOK, Idle, IPCPConsistent
  <2>. QED BY <1>2, <1>4, <2>1 DEF AuthenticationHandled, t
<1>. QED BY <1>3, <1>4

(* PAP in Ack_Sent opens on an answer, whatever phase it was in.           *)
LEMMA AuthenticationOpens ==
  ASSUME NEW s \in PPPState, LinkOpen(s), s.State["Authentication"] = "Ack_Sent"
  PROVE  AuthenticationHandled(s, ManageAuthentication("RCA", s), "RCA")
<1> DEFINE c == InitCount(s)
           k == SetTimer(c, FALSE)
           up == AuthenticationUp(k)
           L == "Authentication"
           t == ManageAuthentication("RCA", s)
<1>0. L \in PPP_Layers /\ "Opened" \in PPP_States /\ "Network" \in PPP_Layers
      /\ "Physical" \in PPP_Layers
  BY DEF PPP_Layers, PPP_States
<1>1. t = Goto(up, L, "Opened")
  BY Zenon DEF ManageAuthentication, PPP_ManageState, Ack_Sent
<1>2. Steady(s, c) BY InitCountSteady
<1> HIDE DEF c, t
<1>3. /\ k \in PPPState /\ k.PPP_Phase = s.PPP_Phase /\ k.State = s.State
      /\ k.rebooting = s.rebooting
  BY <1>2, SetTimerEffect DEF Steady, SameControl
<1> HIDE DEF k
<1>4. Idle(k, "Network")
  BY <1>3 DEF LinkOpen, UpperOK, Idle
<1>5. NetworkPhaseEntered(k, up) BY <1>3, <1>4, AuthenticationUpEffect
<1> HIDE DEF up
<1>6. /\ OnlyLayer(up, Goto(up, L, "Opened"), L)
      /\ Goto(up, L, "Opened").State[L] = "Opened"
      /\ Goto(up, L, "Opened").TimerOn = up.TimerOn
      /\ Goto(up, L, "Opened").rebooting = up.rebooting
      /\ Goto(up, L, "Opened").OutgoingPacket = up.OutgoingPacket
  BY <1>0, <1>5, GotoEffect DEF NetworkPhaseEntered
<1>7. LinkOpen(t) /\ t.rebooting = s.rebooting /\ t \in PPPState
  BY <1>0, <1>1, <1>3, <1>5, <1>6
     DEF NetworkPhaseEntered, OnlyLayer, LinkOpen, UpperOK, IPCPConsistent
<1>8. AuthenticationHandled(s, t, "RCA") BY <1>7 DEF AuthenticationHandled
<1>. QED BY <1>8 DEF t

(* An answer of PAP during the network phase takes IPCP down and leaves    *)
(* PAP in Ack_Sent: the request at hand is the one of IPCP.                *)
LEMMA AuthenticationReopens ==
  ASSUME NEW s \in PPPState, LinkOpen(s), s.State["Authentication"] = "Opened"
  PROVE  AuthenticationHandled(s, ManageAuthentication("RCRPlus", s), "RCRPlus")
<1> DEFINE d == AuthenticationDown(s)
           c == ClearRequest(s)
           L == "Authentication"
           t == ManageAuthentication("RCRPlus", s)
           o == Opened("RCRPlus", s, L, d)
<1>0. L \in PPP_Layers /\ "Network" \in PPP_Layers /\ "Physical" \in PPP_Layers
      /\ "RCRPlus" \in PeerEvents
  BY DEF PPP_Layers, PeerEvents
<1>1. t = o BY AuthenticationDispatch
<1>2. /\ s.PPP_Phase = "Network" /\ IPCPConsistent(s)
  BY DEF LinkOpen, UpperOK
<1>3. s.State["Network"] \in {"Initial", "Starting", "Opened"} \cup Negotiating
  BY <1>2 DEF IPCPConsistent
<1>4. /\ LayerStopped(c, d, "Network")
      /\ SameControl(s, c) /\ c.OutgoingPacket = "NULL"
  BY <1>3, AuthenticationDownEffect
<1> HIDE DEF c, d, t
<1>5. /\ d \in PPPState /\ d.PPP_Phase = "Network" /\ d.OutgoingPacket = "NULL"
      /\ d.State["Physical"] = "Opened" /\ d.State["Network"] = "Starting"
      /\ d.rebooting = s.rebooting
  BY <1>0, <1>2, <1>4
     DEF LayerStopped, OnlyLayer, SameControl, IPCPConsistent, LinkOpen, Negotiating
<1>6. Renegotiates(d, o, L, "RCRPlus")
  BY <1>0, <1>5, OpenedRestarts
<1>7. ProtocolOf[LayerOf[d.PPP_Phase]] = "IPCP" BY <1>5 DEF ProtocolOf, LayerOf
<1> HIDE DEF o
<1>8. LinkOpen(o) /\ o.rebooting = s.rebooting /\ o \in PPPState
      /\ o.State[L] = "Ack_Sent"
  BY <1>0, <1>5, <1>6, <1>7
     DEF Renegotiates, OnlyLayer, LinkOpen, UpperOK, IPCPConsistent
<1>9. AuthenticationHandled(s, o, "RCRPlus") BY <1>8 DEF AuthenticationHandled
<1>. QED BY <1>1, <1>9 DEF t

---------------------------------------------------------------------------
(* LCP *)

(* The link is being established or stopped: LCP negotiates, is stopping   *)
(* or stopped, the upper layers are idle, the timer runs until LCP is      *)
(* stopped.                                                                *)
Establishing(s) ==
  /\ s.PPP_Phase = "Establish"
  /\ s.State["Physical"] \in Negotiating \cup {"Stopping", "Stopped"}
  /\ Idle(s, "Authentication")
  /\ Idle(s, "Network")
  /\ s.TimerOn <=> s.State["Physical"] # "Stopped"
  /\ s.State["Physical"] \in Negotiating => s.OutgoingPacket # "NULL"

(* The situations of a link that was started.                              *)
LinkOK(s) == s \in PPPState /\ (Establishing(s) \/ LinkOpen(s))

(* This_Layer_Up of LCP starts PAP; with LCP opened next the link is open, *)
(* whether the timer is switched off (Ack_Rcvd) or not (Ack_Sent).         *)
LEMMA PhysicalUpEffect ==
  ASSUME NEW s \in PPPState, Idle(s, "Authentication"), Idle(s, "Network")
  PROVE  /\ PhysicalUp(s) \in PPPState
         /\ LinkOK(Goto(PhysicalUp(s), "Physical", "Opened"))
         /\ LinkOK(Goto(SetTimer(PhysicalUp(s), FALSE), "Physical", "Opened"))
<1> DEFINE n == EnterPhase(s, "Authenticate")
           t == PhysicalUp(s)
<1>0. /\ "Network" \in PPP_Layers /\ "Physical" \in PPP_Layers
      /\ "Authentication" \in PPP_Layers /\ "Opened" \in PPP_States
  BY DEF PPP_Layers, PPP_States
<1>1. /\ n \in PPPState /\ n.PPP_Phase = "Authenticate" /\ n.State = s.State
      /\ n.rebooting = s.rebooting /\ n.OutgoingPacket = "NULL"
  BY EnterPhaseEffect DEF PPP_Phases
<1>2. t = ManageAuthentication("Up", ManageAuthentication("Open", n)) BY DEF PhysicalUp
<1> HIDE DEF n
<1>3. Started(n, ManageAuthentication("Up", ManageAuthentication("Open", n)), "Authentication")
  BY <1>1, LayerStarts DEF Idle
<1> HIDE DEF t
<1>4. Started(n, t, "Authentication") BY <1>2, <1>3
<1>5. ProtocolOf[LayerOf[n.PPP_Phase]] = "PAP" BY <1>1 DEF ProtocolOf, LayerOf
<1>6. /\ t \in PPPState /\ t.PPP_Phase = "Authenticate" /\ Idle(t, "Network")
      /\ t.State["Authentication"] = "Req_Sent" /\ t.OutgoingPacket = "PAP"
  BY <1>0, <1>1, <1>4, <1>5 DEF Started, OnlyLayer, Idle
<1>7. ASSUME NEW r \in PPPState, r.PPP_Phase = "Authenticate", Idle(r, "Network"),
             r.State["Authentication"] = "Req_Sent", r.OutgoingPacket = "PAP"
      PROVE  LinkOK(Goto(r, "Physical", "Opened"))
  <2> DEFINE g == Goto(r, "Physical", "Opened")
  <2>1. /\ OnlyLayer(r, g, "Physical") /\ g.State["Physical"] = "Opened"
        /\ g.OutgoingPacket = r.OutgoingPacket
    BY <1>0, GotoEffect
  <2> HIDE DEF g
  <2>2. LinkOK(g)
    BY <1>0, <1>7, <2>1 DEF OnlyLayer, LinkOK, LinkOpen, UpperOK, Idle
  <2>. QED BY <2>2 DEF g
<1>8. LinkOK(Goto(t, "Physical", "Opened")) BY <1>6, <1>7
<1>9. LinkOK(Goto(SetTimer(t, FALSE), "Physical", "Opened"))
  <2> DEFINE d == SetTimer(t, FALSE)
  <2>1. /\ d \in PPPState /\ d.PPP_Phase = t.PPP_Phase /\ d.State = t.State
        /\ d.OutgoingPacket = t.OutgoingPacket
    BY <1>6, SetTimerEffect
  <2> HIDE DEF d
  <2>2. LinkOK(Goto(d, "Physical", "Opened")) BY <1>6, <1>7, <2>1 DEF Idle
  <2>. QED BY <2>2 DEF d
<1>. QED BY <1>6, <1>8, <1>9 DEF t

(* Both upper layers are idle and the phase is Establish again.            *)
BackToEstablish(s, t) ==
  /\ t \in PPPState
  /\ t.PPP_Phase = "Establish"
  /\ Idle(t, "Authentication")
  /\ Idle(t, "Network")
  /\ t.OutgoingPacket = "NULL"

(* This_Layer_Down of LCP brings both upper layers down.                   *)
LEMMA PhysicalDownEffect ==
  ASSUME NEW s \in PPPState, LayersUp(s)
  PROVE  BackToEstablish(s, PhysicalDown(s))
<1> DEFINE c == ClearRequest(s)
           m == ManageAuthentication("Down", c)
           t == [m EXCEPT !.PPP_Phase = "Establish"]
<1>1. SameControl(s, c) /\ c.OutgoingPacket = "NULL" BY ClearRequestEffect
<1> HIDE DEF c
<1>2. LayersUp(c) BY <1>1 DEF LayersUp, SameControl, Idle
<1>3. UpperStopped(c, m) BY <1>1, <1>2, AuthenticationStops DEF SameControl
<1>4. PhysicalDown(s) = t BY DEF PhysicalDown, c
<1> HIDE DEF m
<1>5. /\ t \in PPPState /\ t.PPP_Phase = "Establish" /\ t.State = m.State
      /\ t.OutgoingPacket = m.OutgoingPacket
  BY <1>3 DEF UpperStopped, PPPState, PPP_Phases
<1> HIDE DEF t
<1>6. BackToEstablish(s, t) BY <1>3, <1>5 DEF UpperStopped, BackToEstablish, Idle
<1>. QED BY <1>4, <1>6

(* An open LCP that the peer negotiates again, or terminates, takes the    *)
(* whole link back to the establishment.                                   *)
LEMMA PhysicalReopens ==
  ASSUME NEW s \in PPPState, LayersUp(s), s.State["Physical"] = "Opened",
         NEW e \in PeerEvents \cup {"RTR", "RXJMinus"}
  PROVE  LinkOK(ManagePhysical(e, s))
<1> DEFINE d == PhysicalDown(s)
           o == Opened(e, s, "Physical", d)
<1>0. /\ "Network" \in PPP_Layers /\ "Physical" \in PPP_Layers
      /\ "Authentication" \in PPP_Layers
  BY DEF PPP_Layers
<1>1. ManagePhysical(e, s) = o BY PhysicalDispatch
<1>2. BackToEstablish(s, d) BY PhysicalDownEffect
<1> HIDE DEF d
<1>3. d \in PPPState /\ d.PPP_Phase # "Dead" /\ d.OutgoingPacket = "NULL"
  BY <1>2 DEF BackToEstablish
<1>4. CASE e \in PeerEvents
  <2>1. Renegotiates(d, o, "Physical", e) BY <1>0, <1>3, <1>4, OpenedRestarts
  <2>2. ProtocolOf[LayerOf[d.PPP_Phase]] = "LCP"
    BY <1>2 DEF BackToEstablish, ProtocolOf, LayerOf
  <2> HIDE DEF o
  <2>3. LinkOK(o)
    BY <1>0, <1>2, <2>1, <2>2
       DEF BackToEstablish, Renegotiates, OnlyLayer, LinkOK, Establishing, Idle, Negotiating
  <2>. QED BY <1>1, <2>3
<1>5. CASE e \in {"RTR", "RXJMinus"}
  <2>1. Stops(d, o, "Physical") BY <1>0, <1>3, <1>5, OpenedStops
  <2> HIDE DEF o
  <2>2. LinkOK(o)
    BY <1>0, <1>2, <2>1
       DEF BackToEstablish, Stops, OnlyLayer, LinkOK, Establishing, Idle, Negotiating
  <2>. QED BY <1>1, <2>2
<1>. QED BY <1>4, <1>5

(* Steady steps keep the situation of the link.                            *)
LEMMA LinkSteady ==
  ASSUME NEW s \in PPPState, NEW t, Steady(s, t)
  PROVE  /\ LinkOK(s) => LinkOK(t)
         /\ LinkOpen(s) => LinkOpen(t)
         /\ LayersUp(s) => LayersUp(t)
         /\ Establishing(s) => Establishing(t)
<1>1. /\ t.PPP_Phase = s.PPP_Phase /\ t.State = s.State /\ t.TimerOn = s.TimerOn
      /\ t.OutgoingPacket = s.OutgoingPacket /\ t \in PPPState
  BY DEF Steady, SameControl
<1>2. Establishing(s) => Establishing(t)
  BY <1>1 DEF Establishing, Idle
<1>3. LinkOpen(s) => LinkOpen(t)
  BY <1>1 DEF LinkOpen, UpperOK, Idle, IPCPConsistent
<1>4. LayersUp(s) => LayersUp(t)
  BY <1>1 DEF LayersUp, Idle
<1>. QED BY <1>1, <1>2, <1>3, <1>4 DEF LinkOK

(* LCP goes on negotiating, or gives up.                                   *)
LEMMA EstablishingNegotiates ==
  ASSUME NEW s \in PPPState, Establishing(s), s.State["Physical"] \in Negotiating,
         NEW t, StillNegotiating(s, t, "Physical") \/ t = Finish(s, "Physical")
  PROVE  LinkOK(t)
<1>0. /\ "Network" \in PPP_Layers /\ "Physical" \in PPP_Layers
      /\ "Authentication" \in PPP_Layers
  BY DEF PPP_Layers
<1>1. CASE StillNegotiating(s, t, "Physical")
  BY <1>0, <1>1 DEF StillNegotiating, OnlyLayer, LinkOK, Establishing, Idle, Negotiating
<1>2. CASE t = Finish(s, "Physical")
  <2> DEFINE f == Finish(s, "Physical")
  <2>1. /\ OnlyLayer(s, f, "Physical") /\ f.State["Physical"] = "Stopped"
        /\ f.TimerOn = FALSE
    BY <1>0, FinishEffect
  <2> HIDE DEF f
  <2>2. LinkOK(f)
    BY <1>0, <2>1 DEF OnlyLayer, LinkOK, Establishing, Idle, Negotiating
  <2>. QED BY <1>2, <2>2 DEF f
<1>. QED BY <1>1, <1>2

(* Every event in a state of LCP's negotiation, the two that open it       *)
(* included.                                                               *)
LEMMA PhysicalNegotiates ==
  ASSUME NEW s \in PPPState, Establishing(s), s.State["Physical"] \in Negotiating,
         NEW e \in Events
  PROVE  LinkOK(ManagePhysical(e, s))
<1> DEFINE t == ManagePhysical(e, s)
           L == "Physical"
<1>0. L \in PPP_Layers BY DEF PPP_Layers
<1>1. /\ s.PPP_Phase # "Dead" /\ s.OutgoingPacket # "NULL"
      /\ Idle(s, "Authentication") /\ Idle(s, "Network")
  BY DEF Establishing
<1>2. CASE s.State[L] = "Req_Sent"
  <2>1. t = Req_Sent(e, s, L) BY <1>2, PhysicalDispatch
  <2>2. StillNegotiating(s, Req_Sent(e, s, L), L) \/ Req_Sent(e, s, L) = Finish(s, L)
    BY <1>0, <1>1, <1>2, ReqSentStep
  <2>. QED BY <2>1, <2>2, EstablishingNegotiates
<1>3. CASE s.State[L] = "Ack_Rcvd"
  <2> DEFINE k == Send_Configure_Ack(s)
             up == PhysicalUp(k)
  <2>1. t = Ack_Rcvd(e, s, L, up) BY <1>3, PhysicalDispatch
  <2> HIDE DEF up
  <2>2. CASE e # "RCRPlus"
    <3>1. \/ StillNegotiating(s, Ack_Rcvd(e, s, L, up), L)
          \/ Ack_Rcvd(e, s, L, up) = Finish(s, L)
      BY <1>0, <1>1, <1>3, <2>2, AckRcvdStep
    <3>. QED BY <2>1, <3>1, EstablishingNegotiates
  <2>3. CASE e = "RCRPlus"
    <3>1. t = Goto(SetTimer(up, FALSE), L, "Opened") BY <2>1, <2>3 DEF Ack_Rcvd
    <3>2. Steady(s, k) BY RepliesSteady
    <3> HIDE DEF k
    <3>3. k \in PPPState /\ Idle(k, "Authentication") /\ Idle(k, "Network")
      BY <1>1, <3>2 DEF Steady, SameControl, Idle
    <3>4. LinkOK(Goto(SetTimer(up, FALSE), L, "Opened"))
      BY <3>3, PhysicalUpEffect DEF up
    <3>. QED BY <3>1, <3>4
  <2>. QED BY <2>2, <2>3
<1>4. CASE s.State[L] = "Ack_Sent"
  <2> DEFINE c == InitCount(s)
             k == SetTimer(c, FALSE)
             up == PhysicalUp(k)
  <2>1. t = Ack_Sent(e, s, L, up) BY <1>4, PhysicalDispatch
  <2> HIDE DEF up
  <2>2. CASE e # "RCA"
    <3>1. \/ StillNegotiating(s, Ack_Sent(e, s, L, up), L)
          \/ Ack_Sent(e, s, L, up) = Finish(s, L)
      BY <1>0, <1>1, <1>4, <2>2, AckSentStep
    <3>. QED BY <2>1, <3>1, EstablishingNegotiates
  <2>3. CASE e = "RCA"
    <3>1. t = Goto(up, L, "Opened") BY <2>1, <2>3 DEF Ack_Sent
    <3>2. Steady(s, c) BY InitCountSteady
    <3> HIDE DEF c
    <3>3. k \in PPPState /\ k.State = c.State
      BY <3>2, SetTimerEffect DEF Steady, SameControl
    <3> HIDE DEF k
    <3>4. Idle(k, "Authentication") /\ Idle(k, "Network")
      BY <1>1, <3>2, <3>3 DEF Steady, SameControl, Idle
    <3>5. LinkOK(Goto(up, L, "Opened"))
      BY <3>3, <3>4, PhysicalUpEffect DEF up
    <3>. QED BY <3>1, <3>5
  <2>. QED BY <2>2, <2>3
<1>. QED BY <1>2, <1>3, <1>4 DEF Negotiating

(* Stopping (PPP.c:1045): answers, Terminate-Requests, or the end.         *)
LEMMA PhysicalStopping ==
  ASSUME NEW s \in PPPState, Establishing(s), s.State["Physical"] = "Stopping",
         NEW e \in Events
  PROVE  LinkOK(ManagePhysical(e, s))
<1> DEFINE t == ManagePhysical(e, s)
           L == "Physical"
<1>0. /\ "Network" \in PPP_Layers /\ L \in PPP_Layers
      /\ "Authentication" \in PPP_Layers /\ e # "Down" /\ e # "Close"
  BY DEF PPP_Layers, Events, PeerEvents, TimeoutEvents, OtherEvents
<1>1. t = Stopping(e, s, L) BY PhysicalDispatch
<1> HIDE DEF t
<1>2. CASE e \in {"TOMinus", "RXJMinus"}
  <2> DEFINE f == Finish(s, L)
  <2>1. t = f BY <1>1, <1>2 DEF Stopping
  <2>2. /\ OnlyLayer(s, f, L) /\ f.State[L] = "Stopped" /\ f.TimerOn = FALSE
    BY <1>0, FinishEffect
  <2> HIDE DEF f
  <2>3. LinkOK(f)
    BY <1>0, <2>2 DEF OnlyLayer, LinkOK, Establishing, Idle, Negotiating
  <2>. QED BY <2>1, <2>3 DEF t
<1>3. CASE e \notin {"TOMinus", "RXJMinus"}
  <2>1. SameControl(s, t)
    <3>1. /\ SameControl(s, Send_Terminate_Request(s)) /\ SameControl(s, s)
          /\ SameControl(s, Send_Terminate_Ack(s)) /\ SameControl(s, Send_Code_Reject(s))
      BY TerminateSent, RepliesSteady, SelfSteady DEF Steady
    <3>2. t \in {Send_Terminate_Request(s), s, Send_Terminate_Ack(s), Send_Code_Reject(s)}
      BY <1>0, <1>1, <1>3 DEF Stopping, Events, PeerEvents, TimeoutEvents, OtherEvents
    <3>. QED BY <3>1, <3>2
  <2>2. LinkOK(t)
    BY <2>1 DEF SameControl, LinkOK, Establishing, Idle, Negotiating
  <2>. QED BY <2>2 DEF t
<1>. QED BY <1>2, <1>3

(* Stopped (PPP.c:917), reached when Reboot() returned: ignored, answered, *)
(* or negotiated again.                                                    *)
LEMMA PhysicalStopped ==
  ASSUME NEW s \in PPPState, Establishing(s), s.State["Physical"] = "Stopped",
         NEW e \in Events
  PROVE  LinkOK(ManagePhysical(e, s))
<1> DEFINE t == ManagePhysical(e, s)
           L == "Physical"
<1>0. /\ "Network" \in PPP_Layers /\ L \in PPP_Layers
      /\ "Authentication" \in PPP_Layers /\ e # "Down" /\ e # "Close"
  BY DEF PPP_Layers, Events, PeerEvents, TimeoutEvents, OtherEvents
<1>1. t = Stopped(e, s, L) BY PhysicalDispatch
<1> HIDE DEF t
<1>2. ASSUME NEW state \in {"Ack_Sent", "Req_Sent"}
      PROVE  LET q == Send_Configure_Request(SetTimer(InitCount(Goto(s, L, state)), TRUE))
             IN  q \in PPPState /\ LinkOK(q)
  <2> DEFINE g == Goto(s, L, state)
             c == InitCount(g)
             d == SetTimer(c, TRUE)
             q == Send_Configure_Request(d)
  <2>1. /\ OnlyLayer(s, g, L) /\ g.State[L] = state
    BY <1>0, GotoEffect DEF PPP_States
  <2> HIDE DEF g
  <2>2. Steady(g, c) BY <2>1, InitCountSteady DEF OnlyLayer
  <2> HIDE DEF c
  <2>3. /\ d \in PPPState /\ d.TimerOn = TRUE /\ d.PPP_Phase = c.PPP_Phase
        /\ d.State = c.State
    BY <2>2, SetTimerEffect DEF Steady, SameControl
  <2> HIDE DEF d
  <2>4. d.PPP_Phase = "Establish"
    BY <2>1, <2>2, <2>3 DEF Steady, SameControl, OnlyLayer, Establishing
  <2>5. ProtocolOf[LayerOf[d.PPP_Phase]] = "LCP" BY <2>4 DEF ProtocolOf, LayerOf
  <2>6. SameControl(d, q) /\ q.OutgoingPacket # "NULL"
    BY <2>3, <2>4, <2>5, RequestSent
  <2> HIDE DEF q
  <2>7. q \in PPPState /\ LinkOK(q)
    BY <1>0, <2>1, <2>2, <2>3, <2>6
       DEF Steady, SameControl, OnlyLayer, LinkOK, Establishing, Idle, Negotiating
  <2>. QED BY <2>7 DEF q, d, c, g
<1>3. CASE e \in {"RCRPlus", "RCRMinus"}
  <2> DEFINE a == Send_Configure_Request(SetTimer(InitCount(Goto(s, L, "Ack_Sent")), TRUE))
             r == Send_Configure_Request(SetTimer(InitCount(Goto(s, L, "Req_Sent")), TRUE))
  <2>1. /\ e = "RCRPlus" => t = Send_Configure_Ack(a)
        /\ e = "RCRMinus" => t = Send_Configure_Nak_Rej(r)
    BY <1>1 DEF Stopped
  <2>2. /\ a \in PPPState /\ LinkOK(a) /\ r \in PPPState /\ LinkOK(r)
    BY <1>2
  <2> HIDE DEF a, r
  <2>3. Steady(a, Send_Configure_Ack(a)) /\ Steady(r, Send_Configure_Nak_Rej(r))
    BY <2>2, RepliesSteady
  <2>4. LinkOK(Send_Configure_Ack(a)) /\ LinkOK(Send_Configure_Nak_Rej(r))
    BY <2>2, <2>3, LinkSteady
  <2>. QED BY <1>3, <2>1, <2>4 DEF t
<1>4. CASE e \notin {"RCRPlus", "RCRMinus"}
  <2>1. t \in {Send_Terminate_Ack(s), Send_Code_Reject(s), This_Layer_Finished(s), s}
    BY <1>0, <1>1, <1>4 DEF Stopped, Events, PeerEvents, TimeoutEvents, OtherEvents
  <2>2. /\ This_Layer_Finished(s) \in PPPState
        /\ This_Layer_Finished(s).PPP_Phase = s.PPP_Phase
        /\ This_Layer_Finished(s).State = s.State
        /\ This_Layer_Finished(s).TimerOn = s.TimerOn
    BY DEF This_Layer_Finished, PPPState
  <2>3. LinkOK(This_Layer_Finished(s))
    BY <2>2 DEF LinkOK, Establishing, Idle, Negotiating
  <2>4. LinkOK(s) BY DEF LinkOK
  <2>5. LinkOK(Send_Terminate_Ack(s)) /\ LinkOK(Send_Code_Reject(s))
    BY <2>4, RepliesSteady, LinkSteady
  <2>. QED BY <2>1, <2>3, <2>4, <2>5 DEF t
<1>. QED BY <1>3, <1>4

(* Every event LCP meets keeps the situation of the link.                  *)
LEMMA PhysicalStep ==
  ASSUME NEW s \in PPPState, NEW e \in Events,
         \/ Establishing(s)
         \/ /\ s.State["Physical"] = "Opened" /\ LayersUp(s)
            /\ e \in PeerEvents \cup {"RTR", "RXJMinus"}
         \/ LinkOpen(s) /\ e \notin TimeoutEvents
  PROVE  LinkOK(ManagePhysical(e, s))
<1>1. CASE Establishing(s)
  BY <1>1, PhysicalNegotiates, PhysicalStopping, PhysicalStopped DEF Establishing
<1>2. CASE /\ s.State["Physical"] = "Opened" /\ LayersUp(s)
           /\ e \in PeerEvents \cup {"RTR", "RXJMinus"}
  BY <1>2, PhysicalReopens
<1>3. CASE LinkOpen(s) /\ e \in {"RUC", "RXR"}
  <2>1. ManagePhysical(e, s) = Opened(e, s, "Physical", PhysicalDown(s))
    BY <1>3, PhysicalDispatch DEF LinkOpen
  <2>2. "Physical" \in PPP_Layers BY DEF PPP_Layers
  <2>3. Steady(s, Opened(e, s, "Physical", PhysicalDown(s))) BY <1>3, <2>2, OpenedStays
  <2>. QED BY <1>3, <2>1, <2>3, LinkSteady DEF LinkOK
<1>4. LinkOpen(s) => s.State["Physical"] = "Opened" /\ LayersUp(s)
  BY DEF LinkOpen, UpperOK, LayersUp, Idle, IPCPConsistent
<1>. QED BY <1>1, <1>2, <1>3, <1>4 DEF Events, OtherEvents

---------------------------------------------------------------------------
(* Packets and timeouts *)

(* The tests of an incoming request mark it and edit it in place.          *)
LEMMA MarksSteady ==
  ASSUME NEW s \in PPPState
  PROVE  Steady(s, MarkREJ(s)) /\ Steady(s, MarkNAK(s)) /\ Steady(s, Unmark(s))
BY DEF MarkREJ, MarkNAK, Unmark, Steady, SameControl, PPPState, Packets, Options

(* A Nak touches the request only when there is none.                      *)
LEMMA ProcessNAKEffect ==
  ASSUME NEW s \in PPPState, s.CurrentProtocol \in {"LCP", "IPCP"}
  PROVE  /\ SameControl(s, PPP_ProcessNAK(s))
         /\ s.OutgoingPacket # "NULL" => PPP_ProcessNAK(s) = s
<1>1. s.OutgoingPacket # "NULL" => PPP_ProcessNAK(s) = s BY DEF PPP_ProcessNAK
<1>2. SameControl(s, PPP_ProcessNAK(s)) BY DEF PPP_ProcessNAK, SameControl, PPPState
<1>. QED BY <1>1, <1>2

(* Every packet of LCP keeps the situation of the link.                    *)
LEMMA PhysicalDelivers ==
  ASSUME NEW s \in PPPState, NEW e \in Events \ TimeoutEvents, LinkOK(s)
  PROVE  LinkOK(ManagePhysical(e, s))
<1>1. e \in Events /\ e \notin TimeoutEvents OBVIOUS
<1>. QED BY <1>1, PhysicalStep DEF LinkOK

(* So does a Nak that started a request in an open link.                   *)
LEMMA PhysicalNAK ==
  ASSUME NEW s \in PPPState, LinkOK(s), s.CurrentProtocol = "LCP"
  PROVE  LinkOK(ManagePhysical("RCN", PPP_ProcessNAK(s)))
<1> DEFINE n == PPP_ProcessNAK(s)
<1>1. SameControl(s, n) /\ (s.OutgoingPacket # "NULL" => n = s) BY ProcessNAKEffect
<1> HIDE DEF n
<1>2. n \in PPPState /\ "RCN" \in Events /\ "RCN" \in PeerEvents
  BY <1>1 DEF SameControl, Events, PeerEvents
<1>3. Establishing(s) => Establishing(n)
  BY <1>1 DEF SameControl, Establishing, Idle
<1>4. LinkOpen(s) => n.State["Physical"] = "Opened" /\ LayersUp(n)
  BY <1>1 DEF SameControl, LinkOpen, UpperOK, LayersUp, Idle, IPCPConsistent
<1>5. LinkOK(ManagePhysical("RCN", n)) BY <1>2, <1>3, <1>4, PhysicalStep DEF LinkOK
<1>. QED BY <1>5 DEF n

(* HandleLCP keeps the situation of the link.                              *)
LEMMA LCPHandled ==
  ASSUME NEW s \in PPPState, LinkOK(s), s.CurrentProtocol = "LCP"
  PROVE  LinkOK(HandleLCP(s))
<1>1. {"RCRPlus", "RCRMinus", "RCA", "RCN", "RXR", "RTR", "RXJMinus", "RUC"}
        \subseteq Events \ TimeoutEvents
  BY DEF Events, PeerEvents, OtherEvents, TimeoutEvents
<1>2. ASSUME NEW e \in {"RCRPlus", "RCRMinus", "RCA", "RCN", "RXR", "RTR", "RXJMinus", "RUC"},
             NEW t \in PPPState, Steady(s, t)
      PROVE  LinkOK(ManagePhysical(e, t))
  BY <1>1, <1>2, LinkSteady, PhysicalDelivers
<1>3. /\ MarkREJ(s) \in PPPState /\ MarkNAK(s) \in PPPState /\ Unmark(s) \in PPPState
      /\ Steady(s, MarkREJ(s)) /\ Steady(s, MarkNAK(s)) /\ Steady(s, Unmark(s))
      /\ Steady(s, s)
  BY MarksSteady, SelfSteady DEF Steady, SameControl
<1>4. /\ LinkOK(ManagePhysical("RCRMinus", MarkREJ(s)))
      /\ LinkOK(ManagePhysical("RCRMinus", MarkNAK(s)))
      /\ LinkOK(ManagePhysical("RCRPlus", Unmark(s)))
      /\ LinkOK(ManagePhysical("RCA", s))
      /\ LinkOK(ManagePhysical("RCN", s))
      /\ LinkOK(ManagePhysical("RXR", s))
      /\ LinkOK(ManagePhysical("RTR", s))
      /\ LinkOK(ManagePhysical("RXJMinus", s))
      /\ LinkOK(ManagePhysical("RUC", s))
  BY <1>2, <1>3
<1>5. LinkOK(ManagePhysical("RCN", PPP_ProcessNAK(s))) BY PhysicalNAK
<1>6. HandleLCP(s) \in {ManagePhysical("RCRMinus", MarkREJ(s)),
         ManagePhysical("RCRMinus", MarkNAK(s)), ManagePhysical("RCRPlus", Unmark(s)),
         ManagePhysical("RCA", s), ManagePhysical("RCN", s), ManagePhysical("RXR", s),
         ManagePhysical("RTR", s), ManagePhysical("RXJMinus", s), ManagePhysical("RUC", s),
         ManagePhysical("RCN", PPP_ProcessNAK(s)), s}
  BY DEF HandleLCP
<1>. QED BY <1>4, <1>5, <1>6

(* HandlePAP does, its simulated request included.                         *)
LEMMA PAPHandled ==
  ASSUME NEW s \in PPPState, LinkOK(s)
  PROVE  LinkOK(HandlePAP(s))
<1> DEFINE t == ManageAuthentication("RCRPlus", s)
           u == ManageAuthentication("RCA", t)
<1>1. HandlePAP(s) \in {s, t, u} BY DEF HandlePAP
<1>2. CASE Idle(s, "Authentication")
  <2>1. "RCRPlus" \in Events /\ "RCA" \in Events BY DEF Events, PeerEvents
  <2>2. t = s /\ ManageAuthentication("RCA", s) = s BY <1>2, <2>1, IdleStays
  <2>. QED BY <1>1, <2>2
<1>3. CASE ~Idle(s, "Authentication")
  <2>1. LinkOpen(s) BY <1>3 DEF LinkOK, Establishing
  <2>2. AuthenticationHandled(s, t, "RCRPlus")
    BY <2>1, AuthenticationPending, AuthenticationReopens DEF LinkOpen, UpperOK
  <2> HIDE DEF t
  <2>3. /\ t \in PPPState /\ LinkOpen(t) /\ t.State["Authentication"] = "Ack_Sent"
    BY <2>2 DEF AuthenticationHandled
  <2>4. AuthenticationHandled(t, u, "RCA") BY <2>3, AuthenticationOpens
  <2> HIDE DEF u
  <2>5. LinkOK(t) /\ LinkOK(u)
    BY <2>3, <2>4 DEF AuthenticationHandled, LinkOK
  <2>. QED BY <1>1, <2>5
<1>. QED BY <1>2, <1>3

(* The conclusion of NetworkStep.                                          *)
NetworkHandled(s, t, e) ==
  /\ OnlyLayer(s, t, "Network")
  /\ \/ IPCPConsistent(t) /\ t.rebooting = s.rebooting
     \/ e = "TOMinus" /\ t.rebooting = "main"

(* A packet of IPCP keeps the situation of the link in every phase.        *)
LEMMA NetworkDelivers ==
  ASSUME NEW s \in PPPState, NEW e \in PeerEvents,
         \/ LinkOK(s)
         \/ /\ s.State["Physical"] = "Opened" /\ s.State["Authentication"] = "Opened"
            /\ s.State["Network"] = "Opened" /\ s.PPP_Phase = "Network" /\ ~s.TimerOn
  PROVE  LinkOK(ManageNetwork(e, s))
<1> DEFINE t == ManageNetwork(e, s)
<1>0. /\ e \in Events /\ e # "TOMinus" /\ "Physical" \in PPP_Layers
      /\ "Authentication" \in PPP_Layers
  BY DEF Events, PeerEvents, PPP_Layers
<1>1. CASE Idle(s, "Network")
  <2>1. t = s BY <1>0, <1>1, IdleStays
  <2>. QED BY <1>1, <2>1 DEF Idle
<1>2. CASE ~Idle(s, "Network")
  <2>1. /\ s.State["Physical"] = "Opened" /\ s.State["Authentication"] = "Opened"
        /\ s.PPP_Phase = "Network"
        /\ s.State["Network"] \in Negotiating \cup {"Opened"}
        /\ s.TimerOn <=> s.State["Network"] # "Opened"
        /\ s.State["Network"] # "Opened" => s.OutgoingPacket = "IPCP"
    BY <1>2 DEF LinkOK, Establishing, LinkOpen, UpperOK, IPCPConsistent, Idle, Negotiating
  <2>2. NetworkHandled(s, t, e) BY <2>1, NetworkStep DEF NetworkHandled
  <2> HIDE DEF t
  <2>3. LinkOK(t)
    BY <1>0, <2>1, <2>2 DEF NetworkHandled, OnlyLayer, LinkOK, LinkOpen, UpperOK
  <2>. QED BY <2>3 DEF t
<1>. QED BY <1>1, <1>2

(* So does a Nak that started a request while IPCP was open.               *)
LEMMA NetworkNAK ==
  ASSUME NEW s \in PPPState, LinkOK(s), s.CurrentProtocol = "IPCP"
  PROVE  LinkOK(ManageNetwork("RCN", PPP_ProcessNAK(s)))
<1> DEFINE n == PPP_ProcessNAK(s)
<1>1. SameControl(s, n) /\ (s.OutgoingPacket # "NULL" => n = s) BY ProcessNAKEffect
<1> HIDE DEF n
<1>2. n \in PPPState /\ "RCN" \in PeerEvents
  BY <1>1 DEF SameControl, PeerEvents
<1>3. CASE Establishing(s)
  <2>1. LinkOK(n)
    BY <1>1, <1>3 DEF SameControl, LinkOK, Establishing, Idle
  <2>. QED BY <1>2, <2>1, NetworkDelivers DEF n
<1>4. CASE LinkOpen(s) /\ s.OutgoingPacket # "NULL"
  <2>1. LinkOK(n) BY <1>1, <1>4
  <2>. QED BY <1>2, <2>1, NetworkDelivers DEF n
<1>5. CASE LinkOpen(s) /\ s.OutgoingPacket = "NULL"
  <2>1. /\ n.State["Physical"] = "Opened" /\ n.State["Authentication"] = "Opened"
        /\ n.State["Network"] = "Opened" /\ n.PPP_Phase = "Network" /\ ~n.TimerOn
    BY <1>1, <1>5 DEF SameControl, LinkOpen, UpperOK, IPCPConsistent
  <2>. QED BY <1>2, <2>1, NetworkDelivers DEF n
<1>. QED BY <1>3, <1>4, <1>5 DEF LinkOK

(* HandleIPCP keeps the situation of the link.                             *)
LEMMA IPCPHandled ==
  ASSUME NEW s \in PPPState, LinkOK(s), s.CurrentProtocol = "IPCP"
  PROVE  LinkOK(HandleIPCP(s))
<1>1. {"RCRPlus", "RCRMinus", "RCA", "RCN"} \subseteq PeerEvents BY DEF PeerEvents
<1>2. ASSUME NEW e \in {"RCRPlus", "RCRMinus", "RCA", "RCN"},
             NEW t \in PPPState, Steady(s, t)
      PROVE  LinkOK(ManageNetwork(e, t))
  BY <1>1, <1>2, LinkSteady, NetworkDelivers
<1>3. /\ MarkREJ(s) \in PPPState /\ Unmark(s) \in PPPState
      /\ Steady(s, MarkREJ(s)) /\ Steady(s, Unmark(s)) /\ Steady(s, s)
  BY MarksSteady, SelfSteady DEF Steady, SameControl
<1>4. /\ LinkOK(ManageNetwork("RCRMinus", MarkREJ(s)))
      /\ LinkOK(ManageNetwork("RCRPlus", Unmark(s)))
      /\ LinkOK(ManageNetwork("RCA", s))
      /\ LinkOK(ManageNetwork("RCN", s))
  BY <1>2, <1>3
<1>5. LinkOK(ManageNetwork("RCN", PPP_ProcessNAK(s))) BY NetworkNAK
<1>6. HandleIPCP(s) \in {ManageNetwork("RCRMinus", MarkREJ(s)),
         ManageNetwork("RCRPlus", Unmark(s)), ManageNetwork("RCA", s),
         ManageNetwork("RCN", s), ManageNetwork("RCN", PPP_ProcessNAK(s)), s}
  BY DEF HandleIPCP
<1>. QED BY <1>4, <1>5, <1>6

(* PPP_ManageLink (PPP.c:131) keeps the situation of the link, whatever    *)
(* the packet.                                                             *)
LEMMA ReceiveStep ==
  ASSUME NEW s \in PPPState, LinkOK(s), NEW protocol \in Protocols, NEW packet \in Packets,
         NEW answers \in BOOLEAN
  PROVE  LinkOK(PPP_ManageLink(s, protocol, packet, answers))
<1> DEFINE r == [s EXCEPT !.CurrentProtocol = protocol, !.uip_buf = packet, !.uip_len = 1]
           z == [r EXCEPT !.uip_len = 0]
<1>1. Steady(s, r) /\ r.CurrentProtocol = protocol
  BY DEF Steady, SameControl, PPPState
<1>2. PPP_ManageLink(s, protocol, packet, answers) =
        CASE protocol = "LCP"  -> HandleLCP(r)
          [] protocol = "PAP"  -> HandlePAP(r)
          [] protocol = "IPCP" -> HandleIPCP(r)
          [] protocol = "IP"   -> TCPIP_GotNewPacket(r, answers)
          [] OTHER             -> r
  BY Zenon DEF PPP_ManageLink
<1> HIDE DEF r
<1>3. r \in PPPState /\ LinkOK(r) BY <1>1, LinkSteady DEF Steady, SameControl
<1>4. LinkOK(TCPIP_GotNewPacket(r, answers))
  <2>1. Steady(r, z) BY <1>3 DEF Steady, SameControl, PPPState
  <2>2. TCPIP_GotNewPacket(r, answers) \in {network_send(r, "IP"), z}
    BY DEF TCPIP_GotNewPacket
  <2> HIDE DEF z
  <2>3. LinkOK(z) BY <1>3, <2>1, LinkSteady
  <2>4. Steady(r, network_send(r, "IP")) BY <1>3, NetworkSend DEF Protocols
  <2>5. LinkOK(network_send(r, "IP")) BY <1>3, <2>4, LinkSteady
  <2>. QED BY <2>2, <2>3, <2>5
<1>5. protocol = "LCP" => LinkOK(HandleLCP(r)) BY <1>1, <1>3, LCPHandled
<1>6. LinkOK(HandlePAP(r)) BY <1>3, PAPHandled
<1>7. protocol = "IPCP" => LinkOK(HandleIPCP(r)) BY <1>1, <1>3, IPCPHandled
<1>. QED BY <1>2, <1>3, <1>4, <1>5, <1>6, <1>7

(* The link is not started.                                                *)
LinkDead(s) == s \in PPPState /\ s.PPP_Phase = "Dead" /\ ~s.TimerOn

(* The situation of the link is kept, or Reboot() was called.              *)
TimedOut(t) == t \in PPPState /\ (LinkOK(t) \/ t.rebooting = "main")

(* A timeout keeps the situation of the link or reboots, in every phase.   *)
LEMMA TimeoutStep ==
  ASSUME NEW s \in PPPState, LinkOK(s), s.TimerOn
  PROVE  TimedOut(Timeout(s))
<1> DEFINE e == TimeoutEvent(s)
<1>0. e \in TimeoutEvents /\ e \in Events BY DEF TimeoutEvent, TimeoutEvents, Events
<1>1. CASE s.PPP_Phase = "Establish"
  <2>1. Timeout(s) = ManagePhysical(e, s) BY <1>1 DEF Timeout
  <2>2. Establishing(s) BY <1>1 DEF LinkOK, LinkOpen, UpperOK
  <2> HIDE DEF e
  <2>3. LinkOK(ManagePhysical(e, s)) BY <1>0, <2>2, PhysicalStep
  <2>. QED BY <2>1, <2>3 DEF LinkOK, TimedOut
<1>2. CASE s.PPP_Phase = "Authenticate"
  <2>1. Timeout(s) = ManageAuthentication(e, s) BY <1>2 DEF Timeout
  <2>2. LinkOpen(s) /\ s.State["Authentication"] \in {"Req_Sent", "Ack_Sent"}
    BY <1>2 DEF LinkOK, LinkOpen, UpperOK, Establishing
  <2> HIDE DEF e
  <2>3. AuthenticationHandled(s, ManageAuthentication(e, s), e)
    BY <1>0, <2>2, AuthenticationPending DEF TimeoutEvents
  <2>. QED BY <2>1, <2>3 DEF AuthenticationHandled, TimedOut, LinkOK
<1>3. CASE s.PPP_Phase = "Network"
  <2>1. Timeout(s) = ManageNetwork(e, s) BY <1>3 DEF Timeout
  <2> HIDE DEF e
  <2>2. CASE Idle(s, "Network")
    <3>1. ManageNetwork(e, s) = s BY <1>0, <2>2, IdleStays
    <3>. QED BY <2>1, <3>1 DEF LinkOK, TimedOut
  <2>3. CASE ~Idle(s, "Network")
    <3> DEFINE t == ManageNetwork(e, s)
    <3>1. /\ s.State["Physical"] = "Opened" /\ s.State["Authentication"] = "Opened"
          /\ s.State["Network"] \in Negotiating \cup {"Opened"}
          /\ s.TimerOn <=> s.State["Network"] # "Opened"
          /\ s.State["Network"] # "Opened" => s.OutgoingPacket = "IPCP"
          /\ s.State["Network"] = "Opened" => s.OutgoingPacket = "NULL"
      BY <1>3, <2>3 DEF LinkOK, Establishing, LinkOpen, UpperOK, IPCPConsistent, Idle
    <3>2. NetworkHandled(s, t, e) BY <1>0, <1>3, <3>1, NetworkStep DEF NetworkHandled
    <3>3. "Physical" \in PPP_Layers /\ "Authentication" \in PPP_Layers BY DEF PPP_Layers
    <3> HIDE DEF t
    <3>4. TimedOut(t)
      BY <1>3, <3>1, <3>2, <3>3
         DEF NetworkHandled, OnlyLayer, LinkOK, LinkOpen, UpperOK, TimedOut
    <3>. QED BY <2>1, <3>4 DEF t
  <2>. QED BY <2>2, <2>3
<1>4. s.PPP_Phase # "Dead" BY DEF LinkOK, Establishing, LinkOpen, UpperOK
<1>. QED BY <1>1, <1>2, <1>3, <1>4 DEF PPPState, PPP_Phases

(* PPP_LinkTimer (PPP.c:78) keeps the situation of the link unless the     *)
(* interrupt is inside Reboot().                                           *)
LEMMA LinkTimerStep ==
  ASSUME NEW s \in PPPState, LinkOK(s), s.TimerOn
  PROVE  /\ PPP_LinkTimer(s) \in PPPState
         /\ PPP_LinkTimer(s).rebooting # "ISR" => LinkOK(PPP_LinkTimer(s))
<1>1. CASE s.LinkTimer < LINK_PERIOD
  <2> DEFINE x == s.LinkTimer + 1
             r == [s EXCEPT !.LinkTimer = x]
  <2>0. s.LinkTimer \in LinkTimes BY DEF PPPState
  <2>1. x \in LinkTimes BY <1>1, <2>0, ConstantsAssumption DEF LinkTimes
  <2>2. PPP_LinkTimer(s) = r BY <1>1 DEF PPP_LinkTimer
  <2> HIDE DEF x
  <2>3. Steady(s, r) BY <2>1 DEF Steady, SameControl, PPPState
  <2> HIDE DEF r
  <2>. QED BY <2>2, <2>3, LinkSteady DEF Steady, SameControl
<1>2. CASE ~(s.LinkTimer < LINK_PERIOD)
  <2> DEFINE t == Timeout(s)
             b == IF t.rebooting = "main" THEN "ISR" ELSE t.rebooting
             r == [t EXCEPT !.LinkTimer = 0, !.rebooting = b]
  <2>1. TimedOut(t) BY TimeoutStep
  <2>2. PPP_LinkTimer(s) = r BY <1>2 DEF PPP_LinkTimer
  <2> HIDE DEF t
  <2>3. b \in {"no", "main", "ISR"} /\ (t.rebooting = "main" => b = "ISR")
    BY <2>1 DEF TimedOut, PPPState
  <2> HIDE DEF b
  <2>4. /\ r \in PPPState /\ r.PPP_Phase = t.PPP_Phase /\ r.State = t.State
        /\ r.TimerOn = t.TimerOn /\ r.OutgoingPacket = t.OutgoingPacket /\ r.rebooting = b
    BY <2>1, <2>3, ByteArithmetic DEF TimedOut, PPPState
  <2> HIDE DEF r
  <2>5. LinkOK(t) => LinkOK(r)
    BY <2>4 DEF LinkOK, Establishing, LinkOpen, UpperOK, Idle, IPCPConsistent
  <2>. QED BY <2>1, <2>2, <2>3, <2>4, <2>5 DEF TimedOut
<1>. QED BY <1>1, <1>2

(* PPP_StartLink (PPP.c:58) establishes the link from any state.           *)
LEMMA StartLinkStep ==
  ASSUME NEW s \in PPPState
  PROVE  LinkOK(PPP_StartLink(s))
<1> DEFINE r == [s EXCEPT !.OutgoingPacket = "NULL", !.CurrentProtocol = "NONE",
              !.TimerOn = FALSE, !.LinkTimer = 0, !.uip_len = 0,
              !.RestartCount = MAX_RESTARTS,
              !.MarkForNAK = FALSE, !.MarkForREJ = FALSE,
              !.OutgoingPacketID = UINT8 - 1,
              !.State = [L \in PPP_Layers |-> "Initial"],
              !.PPP_Phase = "Establish"]
           t == ManagePhysical("Up", ManagePhysical("Open", r))
<1>0. /\ "Network" \in PPP_Layers /\ "Physical" \in PPP_Layers
      /\ "Authentication" \in PPP_Layers
  BY DEF PPP_Layers
<1>1. /\ r \in PPPState /\ r.PPP_Phase = "Establish"
      /\ \A L \in PPP_Layers : Idle(r, L)
  BY ByteArithmetic DEF PPPState, PPP_Phases, PPP_States, Protocols, Idle
<1>2. PPP_StartLink(s) = t BY DEF PPP_StartLink
<1> HIDE DEF r
<1>3. Started(r, t, "Physical") BY <1>0, <1>1, LayerStarts
<1>4. ProtocolOf[LayerOf[r.PPP_Phase]] = "LCP" BY <1>1 DEF ProtocolOf, LayerOf
<1> HIDE DEF t
<1>5. LinkOK(t)
  BY <1>0, <1>1, <1>3, <1>4
     DEF Started, OnlyLayer, LinkOK, Establishing, Idle, Negotiating
<1>. QED BY <1>2, <1>5

---------------------------------------------------------------------------
(* The invariant *)

(* The link is dead or in one of its situations.                           *)
LinkInv(s) == LinkDead(s) \/ LinkOK(s)

(* The inductive invariant. LayersNested alone is not inductive: which     *)
(* layer falls where depends on the request at hand and on the timer, and  *)
(* conversely.                                                             *)
IInv == TypeOK /\ (Running => LinkInv(ppp))

(* The bookkeeping of a step changes nothing the invariant is about.       *)
LEMMA QuietSteady ==
  ASSUME NEW s \in PPPState
  PROVE  Steady(s, Quiet(s)) /\ Steady(s, Forget(s))
<1>1. Empty \in Packets BY ByteArithmetic DEF Empty, Packets, Codes, Options
<1>2. <<>> \in Transmissions BY DEF Transmissions
<1>3. Steady(s, Quiet(s)) BY <1>2 DEF Quiet, Steady, SameControl, PPPState
<1>4. Steady(s, Forget(s))
  <2> DEFINE r == [s EXCEPT !.uip_buf = Empty, !.uip_len = 0,
                            !.MarkForNAK = FALSE, !.MarkForREJ = FALSE]
  <2>1. Steady(s, r) BY <1>1 DEF Steady, SameControl, PPPState
  <2>2. Forget(s) = s \/ Forget(s) = r BY DEF Forget
  <2>. QED BY <2>1, <2>2, SelfSteady
<1>. QED BY <1>3, <1>4

(* What the peer sends is a packet.                                        *)
LEMMA PeerPacketsTyped ==
  ASSUME NEW protocol \in PeerProtocols, NEW packet \in PeerPackets[protocol]
  PROVE  protocol \in Protocols /\ packet \in Packets
<1>1. protocol \in {"LCP", "PAP", "IPCP", "IP", "CHAP"} BY ConstantsAssumption
<1>2. protocol \in Protocols BY <1>1 DEF Protocols
<1>3. {0} \subseteq Bytes BY ByteArithmetic
<1>4. ASSUME NEW C \in SUBSET Codes, NEW I \in SUBSET Bytes, NEW O \in SUBSET Options
      PROVE  [code : C, id : I, options : O] \subseteq Packets
  BY DEF Packets
<1>5. /\ {"REQ"} \subseteq Codes /\ {"ACK", "REJ"} \subseteq Codes /\ {"NAK"} \subseteq Codes
      /\ {"TERMREQ", "TERMREPLY", "CODEREJ", "ECHOREQ"} \subseteq Codes
      /\ {"REQ", "NAK"} \subseteq Codes /\ {"ACK"} \subseteq Codes
      /\ {"TERMREQ"} \subseteq Codes /\ {"DATA"} \subseteq Codes
  BY DEF Codes
<1>6. /\ RequestOptions \subseteq Options /\ NakOptions \subseteq Options
      /\ {"ours"} \subseteq Options /\ {"none"} \subseteq Options
      /\ {"acceptable", "unsupported"} \subseteq Options
  BY DEF Options, RequestOptions, NakOptions
<1>7. CASE protocol = "LCP"
  <2>1. packet \in [code : {"REQ"}, id : {0}, options : RequestOptions]
          \cup [code : {"ACK", "REJ"}, id : Bytes, options : {"ours"}]
          \cup [code : {"NAK"}, id : Bytes, options : NakOptions]
          \cup [code : {"TERMREQ", "TERMREPLY", "CODEREJ", "ECHOREQ"},
                id : {0}, options : {"none"}]
    BY <1>7, Zenon DEF PeerPackets
  <2>. QED BY <1>2, <1>3, <1>4, <1>5, <1>6, <2>1
<1>8. CASE protocol = "PAP"
  <2>1. packet \in [code : {"REQ", "NAK"}, id : {0}, options : {"none"}]
          \cup [code : {"ACK"}, id : Bytes, options : {"none"}]
    BY <1>8, Zenon DEF PeerPackets
  <2>. QED BY <1>2, <1>3, <1>4, <1>5, <1>6, <2>1
<1>9. CASE protocol = "IPCP"
  <2>1. packet \in [code : {"REQ"}, id : {0}, options : {"acceptable", "unsupported"}]
          \cup [code : {"ACK", "REJ"}, id : Bytes, options : {"ours"}]
          \cup [code : {"NAK"}, id : Bytes, options : NakOptions]
          \cup [code : {"TERMREQ"}, id : {0}, options : {"none"}]
    BY <1>9, Zenon DEF PeerPackets
  <2>. QED BY <1>2, <1>3, <1>4, <1>5, <1>6, <2>1
<1>10. CASE protocol = "IP"
  <2>1. packet \in [code : {"DATA"}, id : {0}, options : {"none"}]
    BY <1>10, Zenon DEF PeerPackets
  <2>. QED BY <1>2, <1>3, <1>4, <1>5, <1>6, <2>1
<1>11. CASE protocol = "CHAP"
  <2>1. packet \in [code : {"REQ"}, id : {0}, options : {"none"}]
    BY <1>11, Zenon DEF PeerPackets
  <2>. QED BY <1>2, <1>3, <1>4, <1>5, <1>6, <2>1
<1>. QED BY <1>1, <1>7, <1>8, <1>9, <1>10, <1>11

(* The link is dead after a reset.                                         *)
LEMMA ResetTyped == LinkDead(ResetState)
<1>1. Empty \in Packets BY ByteArithmetic DEF Empty, Packets, Codes, Options
<1>2. <<>> \in Transmissions BY DEF Transmissions
<1>. QED
  BY <1>1, <1>2, ByteArithmetic
     DEF ResetState, LinkDead, PPPState, PPP_Phases, PPP_States, Protocols, ConnectedStates

(* Every action keeps the invariant.                                       *)
LEMMA StepInvariant == IInv /\ [Next]_vars => IInv'
<1> SUFFICES ASSUME IInv, [Next]_vars PROVE IInv'
  OBVIOUS
<1>0. ppp \in PPPState /\ acked \in SUBSET PPP_Layers /\ peerUp \in BOOLEAN
  BY DEF IInv, TypeOK
<1> DEFINE q == Quiet(ppp)
<1>q. q \in PPPState /\ Steady(ppp, q)
  BY <1>0, QuietSteady DEF Steady, SameControl
<1>1. CASE StartLink
  <2> DEFINE t == PPP_StartLink(q)
             f == Forget(t)
             r == [f EXCEPT !.ConnectedState = "WaitForLink"]
  <2>1. ppp' = r /\ acked' = {} /\ peerUp' = peerUp BY <1>1 DEF StartLink
  <2>2. t \in PPPState /\ LinkOK(t) BY <1>q, StartLinkStep DEF LinkOK
  <2> HIDE DEF t, q
  <2>3. Steady(t, f) BY <2>2, QuietSteady
  <2>4. f \in PPPState /\ LinkOK(f) BY <2>2, <2>3, LinkSteady DEF LinkOK
  <2> HIDE DEF f
  <2>5. Steady(f, r) BY <2>4 DEF Steady, SameControl, PPPState, ConnectedStates
  <2> HIDE DEF r
  <2>6. r \in PPPState /\ LinkOK(r) BY <2>4, <2>5, LinkSteady DEF LinkOK
  <2>. QED BY <1>0, <2>1, <2>6 DEF IInv, TypeOK, LinkInv
<1>2. CASE InitPPP
  <2> DEFINE r == [PPP_InitPPP(q) EXCEPT !.ConnectedState = "Idle"]
  <2>1. ppp' = r /\ acked' = {} /\ peerUp' = peerUp BY <1>2 DEF InitPPP
  <2> HIDE DEF q
  <2>2. LinkDead(r) BY <1>q DEF LinkDead, PPP_InitPPP, PPPState, PPP_Phases, ConnectedStates
  <2> HIDE DEF r
  <2>. QED BY <1>0, <2>1, <2>2 DEF IInv, TypeOK, LinkInv, LinkDead
<1>3. ASSUME NEW protocol \in PeerProtocols, NEW packet \in PeerPackets[protocol],
             Receive(protocol, packet)
      PROVE  IInv'
  <2>1. PICK answers \in BOOLEAN :
          ppp' = Forget(PPP_ManageLink(q, protocol, packet, answers))
    BY <1>3 DEF Receive
  <2>2. acked' \in SUBSET PPP_Layers /\ peerUp' = peerUp
    BY <1>0, <1>3 DEF Receive, Acknowledges
  <2>3. LinkOK(ppp)
    BY <1>3 DEF Receive, IInv, Running, LinkInv, LinkDead
  <2>4. LinkOK(q) BY <1>0, <1>q, <2>3, LinkSteady
  <2> DEFINE t == PPP_ManageLink(q, protocol, packet, answers)
  <2> HIDE DEF q
  <2>5. LinkOK(t) BY <1>q, <2>4, PeerPacketsTyped, ReceiveStep
  <2> HIDE DEF t
  <2>6. t \in PPPState /\ Steady(t, Forget(t)) BY <2>5, QuietSteady DEF LinkOK
  <2>7. LinkOK(Forget(t)) BY <2>5, <2>6, LinkSteady
  <2>8. ppp' = Forget(t) BY <2>1 DEF t
  <2>. QED BY <1>0, <2>2, <2>7, <2>8 DEF IInv, TypeOK, LinkInv, LinkOK
<1>4. CASE Tick
  <2> DEFINE t == PPP_LinkTimer(q)
  <2>1. ppp' = Forget(t) /\ peerUp' = peerUp BY <1>4 DEF Tick
  <2>2. acked' \in SUBSET PPP_Layers BY <1>0, <1>4 DEF Tick
  <2>3. LinkOK(ppp) /\ ppp.TimerOn
    BY <1>4 DEF Tick, IInv, Running, LinkInv, LinkDead
  <2>4. LinkOK(q) /\ q.TimerOn BY <1>0, <1>q, <2>3, LinkSteady DEF Steady, SameControl
  <2> HIDE DEF q
  <2>5. t \in PPPState /\ (t.rebooting # "ISR" => LinkOK(t))
    BY <1>q, <2>4, LinkTimerStep
  <2> HIDE DEF t
  <2>6. Steady(t, Forget(t)) BY <2>5, QuietSteady
  <2>7. /\ Forget(t) \in PPPState
        /\ Forget(t).rebooting # "ISR" => LinkOK(Forget(t))
    BY <2>5, <2>6, LinkSteady DEF Steady, SameControl
  <2>. QED BY <1>0, <2>1, <2>2, <2>7 DEF IInv, TypeOK, Running, LinkInv
<1>5. CASE Reset
  <2>1. ppp' = ResetState /\ acked' = {} /\ peerUp' = peerUp BY <1>5 DEF Reset
  <2>. QED BY <1>0, <2>1, ResetTyped DEF IInv, TypeOK, LinkInv, LinkDead
<1>6. CASE RebootReturns
  <2> DEFINE r == [q EXCEPT !.rebooting = "no"]
  <2>1. ppp' = r /\ acked' = acked /\ peerUp' = peerUp BY <1>6 DEF RebootReturns
  <2>2. LinkInv(ppp) BY <1>6 DEF RebootReturns, IInv, Running
  <2>3. LinkInv(q)
    BY <1>0, <1>q, <2>2, LinkSteady DEF LinkInv, LinkDead, Steady, SameControl
  <2> HIDE DEF q
  <2>4. /\ r \in PPPState /\ r.PPP_Phase = q.PPP_Phase /\ r.State = q.State
        /\ r.TimerOn = q.TimerOn /\ r.OutgoingPacket = q.OutgoingPacket
    BY <1>q DEF PPPState
  <2> HIDE DEF r
  <2>5. LinkInv(r)
    BY <2>3, <2>4
       DEF LinkInv, LinkDead, LinkOK, Establishing, LinkOpen, UpperOK, Idle, IPCPConsistent
  <2>. QED BY <1>0, <2>1, <2>4, <2>5 DEF IInv, TypeOK
<1>7. CASE FallSilent
  BY <1>7 DEF FallSilent, IInv, TypeOK, Running
<1>8. CASE UNCHANGED vars
  BY <1>8 DEF vars, IInv, TypeOK, Running
<1>. QED BY <1>1, <1>2, <1>3, <1>4, <1>5, <1>6, <1>7, <1>8 DEF Next

(* Every reachable state, for every MAX_RESTARTS, width of the bytes,      *)
(* timer period and set of protocols of the peer, satisfies the inductive  *)
(* invariant.                                                              *)
THEOREM InductiveInvariant == Spec => []IInv
<1>1. Init => IInv
  BY ResetTyped DEF Init, IInv, TypeOK, LinkInv, LinkDead
<1>. QED BY <1>1, StepInvariant, PTL DEF Spec

(* Every static of PPP.c keeps to its type: the counters and identifiers   *)
(* wrap inside an uint8_t and LinkTimer never passes its period.           *)
THEOREM TypeCorrect == Spec => []TypeOK
<1>1. IInv => TypeOK BY DEF IInv
<1>. QED BY <1>1, InductiveInvariant, PTL

(* The nested calls of PPP_ManageState, This_Layer_Up and This_Layer_Down  *)
(* keep the three layers stacked, whatever the peer sends and whenever the *)
(* timer interrupt comes between two handlers.                             *)
THEOREM LayersStayNested == Spec => []LayersNested
<1>1. IInv => LayersNested
  BY DEF IInv, LayersNested, LinkInv, LinkDead, LinkOK, Establishing, LinkOpen, UpperOK, Idle,
         IPCPConsistent, LCP_State, PAP_State, IPCP_State
<1>. QED BY <1>1, InductiveInvariant, PTL

(* The packet a timeout or a Nak sends again is always the request of the  *)
(* layer under negotiation, and never a null pointer.                      *)
THEOREM RequestIsOfPhase == Spec => []RequestOfPhase
<1>1. IInv => RequestOfPhase
  BY DEF IInv, RequestOfPhase, LinkInv, LinkDead, LinkOK, Establishing, LinkOpen, UpperOK, Idle,
         IPCPConsistent, LCP_State, IPCP_State
<1>. QED BY <1>1, InductiveInvariant, PTL

(* The one timer the layers share runs exactly while LCP or IPCP needs it, *)
(* and never outlives the link.                                            *)
THEOREM TimerKeepsStep == Spec => []TimerMatchesState
<1>1. IInv => TimerMatchesState
  BY DEF IInv, TimerMatchesState, LinkInv, LinkDead, LinkOK, Establishing, LinkOpen, UpperOK,
         Idle, IPCPConsistent, LCP_State, PAP_State, IPCP_State
<1>. QED BY <1>1, InductiveInvariant, PTL

---------------------------------------------------------------------------
(* What is acknowledged.  A reply re-uses the packet in uip_buf: no packet *)
(* with options we refuse may be there under the code of an Ack, and while *)
(* an acceptable request is handled, no such options at all.               *)

Refused == {"unsupported", "otherAuthentication", "onlyUnsupported", "authenticationPAP"}

Decent(packet) == packet.code = "ACK" => packet.options \notin Refused

Clean(s, accepting) ==
  /\ s \in PPPState
  /\ Decent(s.uip_buf)
  /\ \A i \in DOMAIN s.sent : Decent(s.sent[i].packet)
  /\ accepting => s.uip_buf.options \notin Refused

(* Only the fields uip_buf and sent matter.                                *)
LEMMA CleanKept ==
  ASSUME NEW s, NEW t, NEW accepting \in BOOLEAN, Clean(s, accepting), t \in PPPState,
         t.uip_buf = s.uip_buf, t.sent = s.sent
  PROVE  Clean(t, accepting)
BY DEF Clean

(* A frame carries the packet in uip_buf, or nothing.                      *)
LEMMA SendClean ==
  ASSUME NEW s, NEW accepting \in BOOLEAN, NEW protocol \in Protocols, Clean(s, accepting)
  PROVE  Clean(network_send(s, protocol), accepting)
<1> DEFINE f == [protocol |-> protocol, packet |-> IF s.uip_len > 0 THEN s.uip_buf ELSE Empty]
           q == Append(s.sent, f)
           t == network_send(s, protocol)
<1>1. s \in PPPState /\ s.sent \in Transmissions BY DEF Clean, PPPState
<1>2. t \in PPPState BY <1>1, NetworkSend DEF Steady, SameControl
<1>3. t.uip_buf = s.uip_buf /\ t.sent = q BY <1>1 DEF network_send, PPPState
<1>4. Decent(f.packet) BY DEF Decent, Empty, Clean
<1>5. Empty \in Packets BY ByteArithmetic DEF Empty, Packets, Codes, Options
<1>6. f \in Frames BY <1>1, <1>5 DEF Frames, PPPState
<1> HIDE DEF f, t
<1>7. \A i \in DOMAIN q : q[i] = f \/ (i \in DOMAIN s.sent /\ q[i] = s.sent[i])
  BY <1>1, <1>6 DEF Transmissions
<1> HIDE DEF q
<1>8. \A i \in DOMAIN q : Decent(q[i].packet) BY <1>4, <1>7 DEF Clean
<1>. QED BY <1>2, <1>3, <1>8 DEF Clean, t

(* A reply that acknowledges is for an acceptable request only.            *)
LEMMA ReplyClean ==
  ASSUME NEW s, NEW accepting \in BOOLEAN, NEW code \in Codes, Clean(s, accepting),
         code = "ACK" => accepting
  PROVE  Clean(Reply(s, code), accepting)
<1> DEFINE p == [s.uip_buf EXCEPT !.code = code]
           r == [s EXCEPT !.uip_buf = p]
<1>1. s \in PPPState /\ s.uip_buf \in Packets BY DEF Clean, PPPState
<1>2. p \in Packets /\ p.code = code /\ p.options = s.uip_buf.options BY <1>1 DEF Packets
<1>3. Decent(p) /\ (accepting => p.options \notin Refused) BY <1>2 DEF Decent, Clean
<1>4. Reply(s, code) = network_send(r, s.CurrentProtocol) BY DEF Reply
<1> HIDE DEF p
<1>5. r \in PPPState /\ r.uip_buf = p /\ r.sent = s.sent BY <1>1, <1>2 DEF PPPState
<1>6. Clean(r, accepting) BY <1>3, <1>5 DEF Clean
<1>7. s.CurrentProtocol \in Protocols BY <1>1 DEF PPPState
<1> HIDE DEF r
<1>. QED BY <1>4, <1>6, <1>7, SendClean

(* The functions that send, count and assign keep a record clean.          *)
LEMMA RequestClean ==
  ASSUME NEW s, NEW accepting \in BOOLEAN, Clean(s, accepting)
  PROVE  Clean(Send_Configure_Request(s), accepting)
<1> DEFINE b == BuildRequest(s)
           id == NextID(s)
           p == RequestPacket(b, id)
           r == [b EXCEPT !.OutgoingPacketID = id, !.RestartCount = Decremented(s),
                          !.uip_buf = p, !.uip_len = 1]
<1>1. s \in PPPState BY DEF Clean
<1>2. id \in Bytes /\ Decremented(s) \in Bytes
  BY <1>1, ByteArithmetic DEF NextID, Decremented, PPPState
<1>3. s.PPP_Phase # "Dead" => ProtocolOf[LayerOf[s.PPP_Phase]] \in {"LCP", "PAP", "IPCP"}
  BY <1>1 DEF PPPState, PPP_Phases, LayerOf, ProtocolOf
<1> DEFINE own == ProtocolOf[LayerOf[s.PPP_Phase]]
<1>4. b \in PPPState /\ b.uip_buf = s.uip_buf /\ b.sent = s.sent
  <2>1. b = s \/ (s.PPP_Phase # "Dead"
                   /\ b = [s EXCEPT !.OutgoingPacket = own, !.CurrentProtocol = own])
    BY DEF BuildRequest
  <2>2. s.PPP_Phase # "Dead" => own \in {"LCP", "PAP", "IPCP"} /\ own \in Protocols
    BY <1>3 DEF Protocols
  <2> HIDE DEF own, b
  <2>. QED BY <1>1, <2>1, <2>2 DEF PPPState
<1>5. p = [b.uip_buf EXCEPT !.id = id]
      \/ \E o \in {"LCP", "PAP", "IPCP"} : p = [code |-> "REQ", id |-> id, options |-> o]
  BY <1>4 DEF RequestPacket, PPPState
<1> HIDE DEF b, id
<1>6. p \in Packets /\ Decent(p) /\ (accepting => p.options \notin Refused)
  <2>1. CASE p = [b.uip_buf EXCEPT !.id = id]
    <3>1. b.uip_buf \in Packets BY <1>4 DEF PPPState
    <3>2. p \in Packets /\ p.code = b.uip_buf.code /\ p.options = b.uip_buf.options
      BY <1>2, <2>1, <3>1 DEF Packets
    <3>. QED BY <1>4, <3>2 DEF Decent, Clean
  <2>2. ASSUME NEW o \in {"LCP", "PAP", "IPCP"}, p = [code |-> "REQ", id |-> id, options |-> o]
        PROVE  p \in Packets /\ Decent(p) /\ p.options \notin Refused
    BY <1>2, <2>2 DEF Packets, Codes, Options, Decent, Refused
  <2>. QED BY <1>5, <2>1, <2>2
<1>7. Send_Configure_Request(s) = network_send(r, b.CurrentProtocol)
  BY DEF Send_Configure_Request, b, id
<1> HIDE DEF p
<1>8. r \in PPPState /\ r.uip_buf = p /\ r.sent = s.sent
  BY <1>2, <1>4, <1>6 DEF PPPState
<1>9. Clean(r, accepting) BY <1>6, <1>8 DEF Clean
<1>10. b.CurrentProtocol \in Protocols BY <1>4 DEF PPPState
<1> HIDE DEF r
<1>. QED BY <1>7, <1>9, <1>10, SendClean

\* Sending a Terminate-Request keeps a record clean.
LEMMA TerminateClean ==
  ASSUME NEW s, NEW accepting \in BOOLEAN, Clean(s, accepting)
  PROVE  Clean(Send_Terminate_Request(s), accepting)
<1> DEFINE id == NextID(s)
           p == [code |-> "TERMREQ", id |-> id, options |-> "none"]
           r == [s EXCEPT !.OutgoingPacket = "uip_buf", !.CurrentProtocol = "LCP",
                          !.OutgoingPacketID = id, !.RestartCount = Decremented(s),
                          !.uip_buf = p, !.uip_len = 1]
<1>1. s \in PPPState BY DEF Clean
<1>2. id \in Bytes /\ Decremented(s) \in Bytes
  BY <1>1, ByteArithmetic DEF NextID, Decremented, PPPState
<1>3. "LCP" \in Protocols BY DEF Protocols
<1>4. Send_Terminate_Request(s) = network_send(r, "LCP") BY DEF Send_Terminate_Request
<1> HIDE DEF id
<1>5. p \in Packets /\ Decent(p) /\ p.options \notin Refused
  BY <1>2 DEF Packets, Codes, Options, Decent, Refused
<1> HIDE DEF p
<1>6. r \in PPPState /\ r.uip_buf = p /\ r.sent = s.sent
  BY <1>1, <1>2, <1>3, <1>5 DEF PPPState
<1>7. Clean(r, accepting) BY <1>5, <1>6 DEF Clean
<1> HIDE DEF r
<1>. QED BY <1>3, <1>4, <1>7, SendClean

(* NAK and REJ are no acknowledgements, nor are the other answers.         *)
LEMMA AnswersClean ==
  ASSUME NEW s, NEW accepting \in BOOLEAN, Clean(s, accepting)
  PROVE  /\ Clean(Send_Terminate_Ack(s), accepting)
         /\ Clean(Send_Code_Reject(s), accepting)
         /\ Clean(Send_Echo_Reply(s), accepting)
         /\ Clean(Send_Configure_Nak_Rej(s), accepting)
         /\ accepting => Clean(Send_Configure_Ack(s), accepting)
<1>1. \A code \in {"TERMREPLY", "CODEREJ", "ECHOREPLY"} : Clean(Reply(s, code), accepting)
  BY ReplyClean DEF Codes
<1>2. accepting => Clean(Reply(s, "ACK"), accepting)
  <2>1. "ACK" \in Codes BY DEF Codes
  <2>. QED BY <2>1, ReplyClean
<1> DEFINE r == [s EXCEPT !.uip_len = 1]
<1>3. Clean(r, accepting)
  <2>1. r \in PPPState /\ r.uip_buf = s.uip_buf /\ r.sent = s.sent BY DEF Clean, PPPState
  <2> HIDE DEF r
  <2>. QED BY <2>1, CleanKept
<1>4. \A code \in {"NAK", "REJ"} : Clean(Reply(r, code), accepting)
  <2> HIDE DEF r
  <2>. QED BY <1>3, ReplyClean DEF Codes
<1>5. Clean(Send_Configure_Nak_Rej(s), accepting)
  BY <1>4 DEF Send_Configure_Nak_Rej
<1>. QED
  BY <1>1, <1>2, <1>5 DEF Send_Configure_Ack, Send_Terminate_Ack, Send_Code_Reject,
                          Send_Echo_Reply

(* The assignments of the automaton touch neither uip_buf nor the frames.  *)
LEMMA AssignmentsClean ==
  ASSUME NEW s, NEW accepting \in BOOLEAN, Clean(s, accepting)
  PROVE  /\ \A L \in PPP_Layers : \A state \in PPP_States : Clean(Goto(s, L, state), accepting)
         /\ \A on \in BOOLEAN : Clean(SetTimer(s, on), accepting)
         /\ Clean(InitCount(s), accepting)
         /\ Clean(This_Layer_Finished(s), accepting)
         /\ Clean(ClearRequest(s), accepting)
         /\ \A phase \in PPP_Phases : Clean(EnterPhase(s, phase), accepting)
         /\ Clean(NetworkUp(s), accepting)
<1>1. s \in PPPState BY DEF Clean
<1>2. ASSUME NEW L \in PPP_Layers, NEW state \in PPP_States
      PROVE  Clean(Goto(s, L, state), accepting)
  <2> DEFINE t == Goto(s, L, state)
  <2>1. t \in PPPState BY <1>1, GotoEffect DEF OnlyLayer
  <2>2. t.uip_buf = s.uip_buf /\ t.sent = s.sent BY <1>1 DEF Goto, PPPState
  <2> HIDE DEF t
  <2>. QED BY <2>1, <2>2, CleanKept DEF t
<1>3. ASSUME NEW on \in BOOLEAN PROVE Clean(SetTimer(s, on), accepting)
  <2> DEFINE t == SetTimer(s, on)
  <2>1. t \in PPPState /\ t.uip_buf = s.uip_buf /\ t.sent = s.sent
    BY <1>1 DEF SetTimer, PPPState
  <2> HIDE DEF t
  <2>. QED BY <2>1, CleanKept DEF t
<1>4. Clean(InitCount(s), accepting)
  <2> DEFINE t == InitCount(s)
  <2>1. t \in PPPState BY <1>1, InitCountSteady DEF Steady, SameControl
  <2>2. t.uip_buf = s.uip_buf /\ t.sent = s.sent BY <1>1 DEF InitCount, PPPState
  <2> HIDE DEF t
  <2>. QED BY <2>1, <2>2, CleanKept DEF t
<1>5. Clean(This_Layer_Finished(s), accepting)
  <2> DEFINE t == This_Layer_Finished(s)
  <2>1. t \in PPPState /\ t.uip_buf = s.uip_buf /\ t.sent = s.sent
    BY <1>1 DEF This_Layer_Finished, PPPState
  <2> HIDE DEF t
  <2>. QED BY <2>1, CleanKept DEF t
<1>6. Clean(ClearRequest(s), accepting)
  <2> DEFINE t == ClearRequest(s)
  <2>1. t \in PPPState /\ t.uip_buf = s.uip_buf /\ t.sent = s.sent
    BY <1>1 DEF ClearRequest, PPPState
  <2> HIDE DEF t
  <2>. QED BY <2>1, CleanKept DEF t
<1> DEFINE c == ClearRequest(s)
<1>7. c \in PPPState BY <1>6 DEF Clean
<1>8. ASSUME NEW phase \in PPP_Phases PROVE Clean(EnterPhase(s, phase), accepting)
  <2> DEFINE id == UINT8 - 1
             t == [c EXCEPT !.CurrentProtocol = "NONE", !.PPP_Phase = phase,
                            !.OutgoingPacketID = id]
  <2>1. id \in Bytes BY ByteArithmetic
  <2>2. EnterPhase(s, phase) = t BY DEF EnterPhase
  <2> HIDE DEF id, c
  <2>3. t \in PPPState /\ t.uip_buf = c.uip_buf /\ t.sent = c.sent
    BY <1>7, <2>1 DEF PPPState, Protocols
  <2>4. Clean(c, accepting) BY <1>6 DEF c
  <2> HIDE DEF t
  <2>. QED BY <2>2, <2>3, <2>4, CleanKept
<1>9. Clean(NetworkUp(s), accepting)
  <2> DEFINE t == [c EXCEPT !.CurrentProtocol = "NONE",
                            !.ConnectedState = "InitializeTCPStack"]
  <2>1. NetworkUp(s) = t BY DEF NetworkUp
  <2> HIDE DEF c
  <2>2. t \in PPPState /\ t.uip_buf = c.uip_buf /\ t.sent = c.sent
    BY <1>7 DEF PPPState, Protocols, ConnectedStates
  <2>3. Clean(c, accepting) BY <1>6 DEF c
  <2> HIDE DEF t
  <2>. QED BY <2>1, <2>2, <2>3, CleanKept
<1>. QED BY <1>2, <1>3, <1>4, <1>5, <1>6, <1>8, <1>9

(* What each function of the automaton is made of, as facts the handlers   *)
(* of the states below compose.                                            *)
LEMMA CallsClean ==
  ASSUME NEW accepting \in BOOLEAN
  PROVE  /\ \A s, L, state : Clean(s, accepting) /\ L \in PPP_Layers /\ state \in PPP_States =>
              Clean(Goto(s, L, state), accepting)
         /\ \A s, on : Clean(s, accepting) /\ on \in BOOLEAN => Clean(SetTimer(s, on), accepting)
         /\ \A s : Clean(s, accepting) => Clean(InitCount(s), accepting)
         /\ \A s : Clean(s, accepting) => Clean(This_Layer_Finished(s), accepting)
         /\ \A s : Clean(s, accepting) => Clean(Send_Configure_Request(s), accepting)
         /\ \A s : Clean(s, accepting) => Clean(Send_Terminate_Request(s), accepting)
         /\ \A s : Clean(s, accepting) => Clean(Send_Terminate_Ack(s), accepting)
         /\ \A s : Clean(s, accepting) => Clean(Send_Code_Reject(s), accepting)
         /\ \A s : Clean(s, accepting) => Clean(Send_Echo_Reply(s), accepting)
         /\ \A s : Clean(s, accepting) => Clean(Send_Configure_Nak_Rej(s), accepting)
         /\ \A s : Clean(s, accepting) /\ accepting => Clean(Send_Configure_Ack(s), accepting)
<1>1. ASSUME NEW s, Clean(s, accepting)
      PROVE  /\ Clean(Send_Configure_Request(s), accepting)
             /\ Clean(Send_Terminate_Request(s), accepting)
  BY <1>1, RequestClean, TerminateClean
<1>2. ASSUME NEW s, Clean(s, accepting)
      PROVE  /\ Clean(Send_Terminate_Ack(s), accepting)
             /\ Clean(Send_Code_Reject(s), accepting)
             /\ Clean(Send_Echo_Reply(s), accepting)
             /\ Clean(Send_Configure_Nak_Rej(s), accepting)
             /\ accepting => Clean(Send_Configure_Ack(s), accepting)
  BY <1>2, AnswersClean
<1>3. ASSUME NEW s, Clean(s, accepting)
      PROVE  /\ \A L \in PPP_Layers : \A state \in PPP_States :
                  Clean(Goto(s, L, state), accepting)
             /\ \A on \in BOOLEAN : Clean(SetTimer(s, on), accepting)
             /\ Clean(InitCount(s), accepting)
             /\ Clean(This_Layer_Finished(s), accepting)
  BY <1>3, AssignmentsClean
<1>. QED BY <1>1, <1>2, <1>3

(* The states in which the layer is not negotiated keep a record clean.    *)
LEMMA RestingClean ==
  ASSUME NEW s, NEW accepting \in BOOLEAN, NEW L \in PPP_Layers, NEW e,
         Clean(s, accepting), e = "RCRPlus" => accepting
  PROVE  /\ Clean(Initial(e, s, L), accepting)
         /\ Clean(Starting(e, s, L), accepting)
         /\ Clean(Closed(e, s, L), accepting)
         /\ Clean(Stopped(e, s, L), accepting)
         /\ Clean(Closing(e, s, L), accepting)
         /\ Clean(Stopping(e, s, L), accepting)
<1>1. /\ "Initial" \in PPP_States /\ "Starting" \in PPP_States /\ "Closed" \in PPP_States
      /\ "Stopped" \in PPP_States /\ "Stopping" \in PPP_States /\ "Closing" \in PPP_States
      /\ "Req_Sent" \in PPP_States /\ "Ack_Sent" \in PPP_States
      /\ TRUE \in BOOLEAN /\ FALSE \in BOOLEAN
  BY DEF PPP_States
<1>2. Clean(Initial(e, s, L), accepting) BY <1>1, CallsClean DEF Initial
<1>3. Clean(Starting(e, s, L), accepting) BY <1>1, CallsClean DEF Starting
<1>4. Clean(Closed(e, s, L), accepting) BY <1>1, CallsClean DEF Closed
<1>5. Clean(Stopped(e, s, L), accepting) BY <1>1, CallsClean DEF Stopped
<1>6. Clean(Closing(e, s, L), accepting) BY <1>1, CallsClean DEF Closing
<1>7. Clean(Stopping(e, s, L), accepting) BY <1>1, CallsClean DEF Stopping, Finish
<1>. QED BY <1>2, <1>3, <1>4, <1>5, <1>6, <1>7

(* And so do the others, if what This_Layer_Up and This_Layer_Down leave   *)
(* is clean.                                                               *)
LEMMA NegotiatingClean ==
  ASSUME NEW s, NEW accepting \in BOOLEAN, NEW L \in PPP_Layers, NEW e,
         Clean(s, accepting), e = "RCRPlus" => accepting
  PROVE  /\ Clean(Req_Sent(e, s, L), accepting)
         /\ \A up : (e = "RCRPlus" => Clean(up, accepting)) =>
              Clean(Ack_Rcvd(e, s, L, up), accepting)
         /\ \A up : Clean(up, accepting) => Clean(Ack_Sent(e, s, L, up), accepting)
         /\ \A down : Clean(down, accepting) => Clean(Opened(e, s, L, down), accepting)
<1>1. /\ "Starting" \in PPP_States /\ "Closing" \in PPP_States
      /\ "Stopped" \in PPP_States /\ "Stopping" \in PPP_States /\ "Opened" \in PPP_States
      /\ "Req_Sent" \in PPP_States /\ "Ack_Sent" \in PPP_States /\ "Ack_Rcvd" \in PPP_States
      /\ TRUE \in BOOLEAN /\ FALSE \in BOOLEAN
  BY DEF PPP_States
<1>2. Clean(Req_Sent(e, s, L), accepting)
  BY <1>1, CallsClean DEF Req_Sent, Finish, CloseRequest
<1>3. ASSUME NEW up, e = "RCRPlus" => Clean(up, accepting)
      PROVE  Clean(Ack_Rcvd(e, s, L, up), accepting)
  BY <1>1, <1>3, CallsClean DEF Ack_Rcvd, Finish, CloseRequest
<1>4. ASSUME NEW up, Clean(up, accepting)
      PROVE  Clean(Ack_Sent(e, s, L, up), accepting)
  BY <1>1, <1>4, CallsClean DEF Ack_Sent, Finish, CloseRequest
<1>5. ASSUME NEW down, Clean(down, accepting)
      PROVE  Clean(Opened(e, s, L, down), accepting)
  <2> DEFINE stop == [SetTimer(down, TRUE) EXCEPT !.RestartCount = 0, !.LinkTimer = 0]
  <2>1. Clean(stop, accepting)
    <3> DEFINE d == SetTimer(down, TRUE)
    <3>1. Clean(d, accepting) BY <1>1, <1>5, CallsClean
    <3> HIDE DEF d
    <3>2. d \in PPPState BY <3>1 DEF Clean
    <3>3. stop \in PPPState /\ stop.uip_buf = d.uip_buf /\ stop.sent = d.sent
      BY <3>2, ByteArithmetic DEF PPPState, d
    <3> HIDE DEF stop
    <3>. QED BY <3>1, <3>3, CleanKept
  <2>2. Opened("RTR", s, L, down) = Goto(Send_Terminate_Ack(stop), L, "Stopping")
    BY DEF Opened
  <2> HIDE DEF stop
  <2>3. CASE e = "RTR"
    BY <1>1, <2>1, <2>2, <2>3, CallsClean
  <2>4. CASE e # "RTR"
    BY <1>1, <1>5, <2>4, CallsClean DEF Opened
  <2>. QED BY <2>3, <2>4
<1>. QED BY <1>2, <1>3, <1>4, <1>5

(* IPCP, with the layers its nested calls drive, keeps a record clean:      *)
(* only RCR+ acknowledges.                                                 *)
LEMMA NetworkClean ==
  ASSUME NEW s, NEW accepting \in BOOLEAN, NEW e,
         Clean(s, accepting), e = "RCRPlus" => accepting
  PROVE  Clean(ManageNetwork(e, s), accepting)
<1> DEFINE L == "Network"
           ack == Send_Configure_Ack(s)
           still == SetTimer(InitCount(s), FALSE)
<1>1. s.State[L] \in PPP_States /\ L \in PPP_Layers
  BY DEF Clean, PPPState, PPP_Layers
<1>2. /\ accepting => Clean(ack, accepting)
      /\ Clean(still, accepting)
  BY CallsClean
<1>3. ASSUME NEW t, Clean(t, accepting) PROVE Clean(NetworkUp(t), accepting)
  BY <1>3, AssignmentsClean
<1>4. Clean(NetworkDown(s), accepting)
  BY AssignmentsClean DEF NetworkDown
<1>5. ManageNetwork(e, s) \in
        {Initial(e, s, L), Starting(e, s, L), Closed(e, s, L), Stopped(e, s, L),
         Closing(e, s, L), Stopping(e, s, L), Req_Sent(e, s, L),
         Ack_Rcvd(e, s, L, NetworkUp(ack)), Ack_Sent(e, s, L, NetworkUp(still)),
         Opened(e, s, L, NetworkDown(s))}
  BY <1>1, Zenon DEF ManageNetwork, PPP_ManageState, PPP_States
<1>6. /\ e = "RCRPlus" => Clean(NetworkUp(ack), accepting)
      /\ Clean(NetworkUp(still), accepting)
  BY <1>2, <1>3
<1> HIDE DEF L, ack, still
<1>. QED BY <1>1, <1>4, <1>5, <1>6, RestingClean, NegotiatingClean

(* PAP, with the layers its nested calls drive, keeps a record clean:      *)
(* only RCR+ acknowledges.                                                 *)
LEMMA AuthenticationClean ==
  ASSUME NEW s, NEW accepting \in BOOLEAN, NEW e,
         Clean(s, accepting), e = "RCRPlus" => accepting
  PROVE  Clean(ManageAuthentication(e, s), accepting)
<1> DEFINE L == "Authentication"
           ack == Send_Configure_Ack(s)
           still == SetTimer(InitCount(s), FALSE)
<1>1. s.State[L] \in PPP_States /\ L \in PPP_Layers
  BY DEF Clean, PPPState, PPP_Layers
<1>2. /\ accepting => Clean(ack, accepting)
      /\ Clean(still, accepting)
  BY CallsClean
<1>3. ASSUME NEW t, Clean(t, accepting) PROVE Clean(AuthenticationUp(t), accepting)
  <2> DEFINE u == EnterPhase(t, "Network")
  <2>1. Clean(u, accepting) BY <1>3, AssignmentsClean DEF PPP_Phases
  <2> HIDE DEF u
  <2>2. Clean(ManageNetwork("Open", u), accepting) BY <2>1, NetworkClean
  <2>3. Clean(ManageNetwork("Up", ManageNetwork("Open", u)), accepting) BY <2>2, NetworkClean
  <2>. QED BY <2>3 DEF AuthenticationUp, u
<1>4. Clean(AuthenticationDown(s), accepting)
  <2>1. Clean(ClearRequest(s), accepting) BY AssignmentsClean
  <2>. QED BY <2>1, NetworkClean DEF AuthenticationDown
<1>5. ManageAuthentication(e, s) \in
        {Initial(e, s, L), Starting(e, s, L), Closed(e, s, L), Stopped(e, s, L),
         Closing(e, s, L), Stopping(e, s, L), Req_Sent(e, s, L),
         Ack_Rcvd(e, s, L, AuthenticationUp(ack)), Ack_Sent(e, s, L, AuthenticationUp(still)),
         Opened(e, s, L, AuthenticationDown(s))}
  BY <1>1, Zenon DEF ManageAuthentication, PPP_ManageState, PPP_States
<1>6. /\ e = "RCRPlus" => Clean(AuthenticationUp(ack), accepting)
      /\ Clean(AuthenticationUp(still), accepting)
  BY <1>2, <1>3
<1> HIDE DEF L, ack, still
<1>. QED BY <1>1, <1>4, <1>5, <1>6, RestingClean, NegotiatingClean

(* LCP, with the layers its nested calls drive, keeps a record clean:      *)
(* only RCR+ acknowledges.                                                 *)
LEMMA PhysicalClean ==
  ASSUME NEW s, NEW accepting \in BOOLEAN, NEW e,
         Clean(s, accepting), e = "RCRPlus" => accepting
  PROVE  Clean(ManagePhysical(e, s), accepting)
<1> DEFINE L == "Physical"
           ack == Send_Configure_Ack(s)
           still == SetTimer(InitCount(s), FALSE)
<1>1. s.State[L] \in PPP_States /\ L \in PPP_Layers
  BY DEF Clean, PPPState, PPP_Layers
<1>2. /\ accepting => Clean(ack, accepting)
      /\ Clean(still, accepting)
  BY CallsClean
<1>3. ASSUME NEW t, Clean(t, accepting) PROVE Clean(PhysicalUp(t), accepting)
  <2> DEFINE u == EnterPhase(t, "Authenticate")
  <2>1. Clean(u, accepting) BY <1>3, AssignmentsClean DEF PPP_Phases
  <2> HIDE DEF u
  <2>2. Clean(ManageAuthentication("Open", u), accepting) BY <2>1, AuthenticationClean
  <2>3. Clean(ManageAuthentication("Up", ManageAuthentication("Open", u)), accepting)
    BY <2>2, AuthenticationClean
  <2>. QED BY <2>3 DEF PhysicalUp, u
<1>4. Clean(PhysicalDown(s), accepting)
  <2> DEFINE d == ManageAuthentication("Down", ClearRequest(s))
             t == [d EXCEPT !.PPP_Phase = "Establish"]
  <2>1. Clean(ClearRequest(s), accepting) BY AssignmentsClean
  <2>2. Clean(d, accepting) BY <2>1, AuthenticationClean
  <2>3. PhysicalDown(s) = t BY DEF PhysicalDown
  <2> HIDE DEF d
  <2>4. t \in PPPState /\ t.uip_buf = d.uip_buf /\ t.sent = d.sent
    BY <2>2 DEF Clean, PPPState, PPP_Phases
  <2> HIDE DEF t
  <2>. QED BY <2>2, <2>3, <2>4, CleanKept
<1>5. ManagePhysical(e, s) \in
        {Initial(e, s, L), Starting(e, s, L), Closed(e, s, L), Stopped(e, s, L),
         Closing(e, s, L), Stopping(e, s, L), Req_Sent(e, s, L),
         Ack_Rcvd(e, s, L, PhysicalUp(ack)), Ack_Sent(e, s, L, PhysicalUp(still)),
         Opened(e, s, L, PhysicalDown(s))}
  BY <1>1, Zenon DEF ManagePhysical, PPP_ManageState, PPP_States
<1>6. /\ e = "RCRPlus" => Clean(PhysicalUp(ack), accepting)
      /\ Clean(PhysicalUp(still), accepting)
  BY <1>2, <1>3
<1> HIDE DEF L, ack, still
<1>. QED BY <1>1, <1>4, <1>5, <1>6, RestingClean, NegotiatingClean

(* What a packet of the peer may carry, by the protocol it belongs to.     *)
LEMMA PeerOptions ==
  ASSUME NEW protocol \in PeerProtocols, NEW packet \in PeerPackets[protocol]
  PROVE  /\ packet \in Packets
         /\ Decent(packet)
         /\ packet.options \notin {"onlyUnsupported", "authenticationPAP"}
         /\ protocol \in {"PAP", "IPCP"} => packet.options # "otherAuthentication"
         /\ protocol = "PAP" => packet.options = "none"
<1>1. protocol \in {"LCP", "PAP", "IPCP", "IP", "CHAP"} BY ConstantsAssumption
<1>2. packet \in Packets BY PeerPacketsTyped
<1> DEFINE Allowed == /\ Decent(packet)
                      /\ packet.options \notin {"onlyUnsupported", "authenticationPAP"}
                      /\ protocol \in {"PAP", "IPCP"} => packet.options # "otherAuthentication"
                      /\ protocol = "PAP" => packet.options = "none"
<1>r. ASSUME NEW C, NEW I, NEW O, packet \in [code : C, id : I, options : O]
      PROVE  packet.code \in C /\ packet.options \in O
  BY <1>r
<1>3. CASE protocol = "LCP"
  <2>1. packet \in [code : {"REQ"}, id : {0}, options : RequestOptions]
          \cup [code : {"ACK", "REJ"}, id : Bytes, options : {"ours"}]
          \cup [code : {"NAK"}, id : Bytes, options : NakOptions]
          \cup [code : {"TERMREQ", "TERMREPLY", "CODEREJ", "ECHOREQ"},
                id : {0}, options : {"none"}]
    BY <1>3, Zenon DEF PeerPackets
  <2>2. \/ packet.code = "REQ" /\ packet.options \in RequestOptions
        \/ packet.code # "REQ" /\ packet.options \in NakOptions \cup {"none"}
    <3>1. CASE packet \in [code : {"REQ"}, id : {0}, options : RequestOptions]
      <4>1. packet.code \in {"REQ"} /\ packet.options \in RequestOptions BY <3>1, <1>r, Zenon
      <4>. QED BY <4>1
    <3>2. CASE packet \in [code : {"ACK", "REJ"}, id : Bytes, options : {"ours"}]
      <4>1. packet.code \in {"ACK", "REJ"} /\ packet.options \in {"ours"}
        BY <3>2, <1>r, Zenon
      <4>. QED BY <4>1 DEF NakOptions
    <3>3. CASE packet \in [code : {"NAK"}, id : Bytes, options : NakOptions]
      <4>1. packet.code \in {"NAK"} /\ packet.options \in NakOptions BY <3>3, <1>r, Zenon
      <4>. QED BY <4>1
    <3>4. CASE packet \in [code : {"TERMREQ", "TERMREPLY", "CODEREJ", "ECHOREQ"},
                           id : {0}, options : {"none"}]
      <4>1. packet.code \in {"TERMREQ", "TERMREPLY", "CODEREJ", "ECHOREQ"}
            /\ packet.options \in {"none"}
        BY <3>4, <1>r, Zenon
      <4>. QED BY <4>1
    <3>. QED BY <2>1, <3>1, <3>2, <3>3, <3>4, Zenon
  <2>3. Allowed BY <1>3, <2>2 DEF Decent, Refused, RequestOptions, NakOptions
  <2>. QED BY <1>2, <2>3
<1>4. CASE protocol = "PAP"
  <2>1. packet \in [code : {"REQ", "NAK"}, id : {0}, options : {"none"}]
          \cup [code : {"ACK"}, id : Bytes, options : {"none"}]
    BY <1>4, Zenon DEF PeerPackets
  <2>2. packet.options = "none" BY <2>1
  <2>. QED BY <1>2, <2>2 DEF Decent, Refused
<1>5. CASE protocol = "IPCP"
  <2>1. packet \in [code : {"REQ"}, id : {0}, options : {"acceptable", "unsupported"}]
          \cup [code : {"ACK", "REJ"}, id : Bytes, options : {"ours"}]
          \cup [code : {"NAK"}, id : Bytes, options : NakOptions]
          \cup [code : {"TERMREQ"}, id : {0}, options : {"none"}]
    BY <1>5, Zenon DEF PeerPackets
  <2>2. \/ packet.code = "REQ" /\ packet.options \in {"acceptable", "unsupported"}
        \/ packet.code # "REQ" /\ packet.options \in NakOptions \cup {"none"}
    <3>1. CASE packet \in [code : {"REQ"}, id : {0}, options : {"acceptable", "unsupported"}]
      <4>1. packet.code \in {"REQ"} /\ packet.options \in {"acceptable", "unsupported"} BY <3>1, <1>r, Zenon
      <4>. QED BY <4>1
    <3>2. CASE packet \in [code : {"ACK", "REJ"}, id : Bytes, options : {"ours"}]
      <4>1. packet.code \in {"ACK", "REJ"} /\ packet.options \in {"ours"}
        BY <3>2, <1>r, Zenon
      <4>. QED BY <4>1 DEF NakOptions
    <3>3. CASE packet \in [code : {"NAK"}, id : Bytes, options : NakOptions]
      <4>1. packet.code \in {"NAK"} /\ packet.options \in NakOptions BY <3>3, <1>r, Zenon
      <4>. QED BY <4>1
    <3>4. CASE packet \in [code : {"TERMREQ"},
                           id : {0}, options : {"none"}]
      <4>1. packet.code \in {"TERMREQ"}
            /\ packet.options \in {"none"}
        BY <3>4, <1>r, Zenon
      <4>. QED BY <4>1
    <3>. QED BY <2>1, <3>1, <3>2, <3>3, <3>4, Zenon
  <2>3. Allowed BY <1>5, <2>2 DEF Decent, Refused, NakOptions
  <2>. QED BY <1>2, <2>3
<1>6. CASE protocol \in {"IP", "CHAP"}
  <2>1. packet \in [code : {"DATA"}, id : {0}, options : {"none"}]
        \/ packet \in [code : {"REQ"}, id : {0}, options : {"none"}]
    <3>1. CASE protocol = "IP" BY <3>1, Zenon DEF PeerPackets
    <3>2. CASE protocol = "CHAP" BY <3>2, Zenon DEF PeerPackets
    <3>. QED BY <1>6, <3>1, <3>2
  <2>2. packet.options = "none" BY <2>1
  <2>. QED BY <1>2, <1>6, <2>2 DEF Decent, Refused
<1>. QED BY <1>1, <1>3, <1>4, <1>5, <1>6

(* What the tests of a request leave: marked, it is not acceptable any     *)
(* more; unmarked, it is, if nothing in it is refused.                     *)
LEMMA MarksClean ==
  ASSUME NEW s, Clean(s, FALSE)
  PROVE  /\ s.uip_buf.code = "REQ" => Clean(MarkREJ(s), FALSE) /\ Clean(MarkNAK(s), FALSE)
         /\ s.uip_buf.options \notin Refused => Clean(Unmark(s), TRUE)
         /\ s.CurrentProtocol \in {"LCP", "PAP", "IPCP"} => Clean(PPP_ProcessNAK(s), FALSE)
<1>1. s \in PPPState BY DEF Clean
<1>2. ASSUME s.uip_buf.code = "REQ", NEW o \in {"onlyUnsupported", "authenticationPAP"},
             NEW rej \in BOOLEAN, NEW nak \in BOOLEAN, NEW t,
             t = [s EXCEPT !.MarkForREJ = rej, !.MarkForNAK = nak, !.uip_buf.options = o]
      PROVE  Clean(t, FALSE)
  <2> DEFINE p == [s.uip_buf EXCEPT !.options = o]
  <2>1. p \in Packets /\ p.code = "REQ" BY <1>1, <1>2 DEF PPPState, Packets, Options
  <2>2. t = [s EXCEPT !.MarkForREJ = rej, !.MarkForNAK = nak, !.uip_buf = p]
    BY <1>1, <1>2 DEF PPPState
  <2> HIDE DEF p
  <2>3. t \in PPPState /\ t.uip_buf = p /\ t.sent = s.sent
    BY <1>1, <2>1, <2>2 DEF PPPState
  <2>. QED BY <2>1, <2>3 DEF Clean, Decent
<1>3. s.uip_buf.code = "REQ" => Clean(MarkREJ(s), FALSE) /\ Clean(MarkNAK(s), FALSE)
  <2>1. s.uip_buf.code = "REQ" => Clean(MarkREJ(s), FALSE) BY <1>2 DEF MarkREJ
  <2>2. MarkNAK(s) = [s EXCEPT !.MarkForREJ = FALSE, !.MarkForNAK = TRUE,
                               !.uip_buf.options = "authenticationPAP"]
    BY <1>1 DEF MarkNAK, PPPState
  <2>. QED BY <1>2, <2>1, <2>2
<1>4. s.uip_buf.options \notin Refused => Clean(Unmark(s), TRUE)
  <2> DEFINE t == Unmark(s)
  <2>1. t \in PPPState /\ t.uip_buf = s.uip_buf /\ t.sent = s.sent
    BY <1>1 DEF Unmark, PPPState
  <2> HIDE DEF t
  <2>2. s.uip_buf.options \notin Refused => Clean(t, TRUE) BY <2>1 DEF Clean
  <2>. QED BY <2>2 DEF t
<1>5. s.CurrentProtocol \in {"LCP", "PAP", "IPCP"} => Clean(PPP_ProcessNAK(s), FALSE)
  <2> DEFINE t == PPP_ProcessNAK(s)
  <2>1. s.CurrentProtocol \in {"LCP", "PAP", "IPCP"} =>
          t \in PPPState /\ t.uip_buf = s.uip_buf /\ t.sent = s.sent
    BY <1>1 DEF PPP_ProcessNAK, PPPState
  <2> HIDE DEF t
  <2>2. s.CurrentProtocol \in {"LCP", "PAP", "IPCP"} => Clean(t, FALSE) BY <2>1, CleanKept
  <2>. QED BY <2>2 DEF t
<1>. QED BY <1>3, <1>4, <1>5

(* The handlers of the three protocols acknowledge only what their tests   *)
(* let through.                                                            *)
LEMMA HandlersClean ==
  ASSUME NEW s, Clean(s, FALSE),
         s.uip_buf.options \notin {"onlyUnsupported", "authenticationPAP"}
  PROVE  /\ s.CurrentProtocol = "LCP" => Clean(HandleLCP(s), FALSE)
         /\ s.uip_buf.options = "none" => Clean(HandlePAP(s), FALSE)
         /\ s.CurrentProtocol = "IPCP" /\ s.uip_buf.options # "otherAuthentication" =>
              Clean(HandleIPCP(s), FALSE)
<1>1. \A t, e : Clean(t, FALSE) /\ e # "RCRPlus" =>
        /\ Clean(ManagePhysical(e, t), FALSE)
        /\ Clean(ManageAuthentication(e, t), FALSE)
        /\ Clean(ManageNetwork(e, t), FALSE)
  BY PhysicalClean, AuthenticationClean, NetworkClean
<1>2. \A t : Clean(t, TRUE) =>
        /\ Clean(t, FALSE)
        /\ Clean(ManagePhysical("RCRPlus", t), TRUE)
        /\ Clean(ManageAuthentication("RCRPlus", t), TRUE)
        /\ Clean(ManageNetwork("RCRPlus", t), TRUE)
  <2>1. \A t : Clean(t, TRUE) => Clean(t, FALSE) BY DEF Clean
  <2>. QED BY <2>1, PhysicalClean, AuthenticationClean, NetworkClean
<1>3. ~PPP_TestForREJ(s) /\ (~PPP_TestForNAK(s) \/ s.uip_buf.options # "otherAuthentication")
        => Clean(Unmark(s), TRUE)
  BY MarksClean DEF PPP_TestForREJ, PPP_TestForNAK, Refused
<1>4. s.uip_buf.code = "REQ" => Clean(MarkREJ(s), FALSE) /\ Clean(MarkNAK(s), FALSE)
  BY MarksClean
<1>5. s.CurrentProtocol \in {"LCP", "IPCP"} => Clean(PPP_ProcessNAK(s), FALSE)
  BY MarksClean
<1>6. s.CurrentProtocol = "LCP" => Clean(HandleLCP(s), FALSE)
  BY <1>1, <1>2, <1>3, <1>4, <1>5 DEF HandleLCP
<1>7. s.uip_buf.options = "none" => Clean(HandlePAP(s), FALSE)
  <2>1. s.uip_buf.options = "none" => Clean(s, TRUE) BY DEF Clean, Refused
  <2>. QED BY <1>1, <1>2, <2>1 DEF HandlePAP
<1>8. s.CurrentProtocol = "IPCP" /\ s.uip_buf.options # "otherAuthentication" =>
        Clean(HandleIPCP(s), FALSE)
  BY <1>1, <1>2, <1>3, <1>4, <1>5 DEF HandleIPCP
<1>. QED BY <1>6, <1>7, <1>8

(* PPP_ManageLink, from the packet network_read has put in uip_buf.        *)
LEMMA ReceiveClean ==
  ASSUME NEW s, Clean(s, FALSE), NEW protocol \in PeerProtocols,
         NEW packet \in PeerPackets[protocol], NEW answers \in BOOLEAN
  PROVE  Clean(PPP_ManageLink(s, protocol, packet, answers), FALSE)
<1> DEFINE r == [s EXCEPT !.CurrentProtocol = protocol, !.uip_buf = packet, !.uip_len = 1]
           z == [r EXCEPT !.uip_len = 0]
<1>1. s \in PPPState /\ protocol \in Protocols /\ packet \in Packets /\ Decent(packet)
  BY PeerPacketsTyped, PeerOptions DEF Clean
<1>2. PPP_ManageLink(s, protocol, packet, answers) =
        CASE protocol = "LCP"  -> HandleLCP(r)
          [] protocol = "PAP"  -> HandlePAP(r)
          [] protocol = "IPCP" -> HandleIPCP(r)
          [] protocol = "IP"   -> TCPIP_GotNewPacket(r, answers)
          [] OTHER             -> r
  BY Zenon DEF PPP_ManageLink
<1>3. /\ r \in PPPState /\ r.CurrentProtocol = protocol /\ r.uip_buf = packet
      /\ r.sent = s.sent
  BY <1>1 DEF PPPState
<1> HIDE DEF r
<1>4. Clean(r, FALSE) BY <1>1, <1>3 DEF Clean
<1>5. Clean(TCPIP_GotNewPacket(r, answers), FALSE)
  <2>1. Clean(network_send(r, "IP"), FALSE) BY <1>4, SendClean DEF Protocols
  <2>2. z \in PPPState /\ z.uip_buf = r.uip_buf /\ z.sent = r.sent BY <1>3 DEF PPPState
  <2>3. TCPIP_GotNewPacket(r, answers) \in {network_send(r, "IP"), z}
    BY DEF TCPIP_GotNewPacket
  <2> HIDE DEF z
  <2>4. Clean(z, FALSE) BY <1>4, <2>2, CleanKept
  <2>. QED BY <2>1, <2>3, <2>4
<1>6. /\ packet.options \notin {"onlyUnsupported", "authenticationPAP"}
      /\ protocol \in {"PAP", "IPCP"} => packet.options # "otherAuthentication"
      /\ protocol = "PAP" => packet.options = "none"
  BY PeerOptions
<1>7. /\ protocol = "LCP" => Clean(HandleLCP(r), FALSE)
      /\ protocol = "PAP" => Clean(HandlePAP(r), FALSE)
      /\ protocol = "IPCP" => Clean(HandleIPCP(r), FALSE)
  BY <1>3, <1>4, <1>6, HandlersClean
<1>. QED BY <1>2, <1>4, <1>5, <1>7

(* PPP_LinkTimer acknowledges nothing.                                     *)
LEMMA LinkTimerClean ==
  ASSUME NEW s, Clean(s, FALSE)
  PROVE  Clean(PPP_LinkTimer(s), FALSE)
<1> DEFINE e == TimeoutEvent(s)
           t == Timeout(s)
           x == s.LinkTimer + 1
           u == [s EXCEPT !.LinkTimer = x]
           b == IF t.rebooting = "main" THEN "ISR" ELSE t.rebooting
           v == [t EXCEPT !.LinkTimer = 0, !.rebooting = b]
<1>1. s \in PPPState /\ s.LinkTimer \in LinkTimes BY DEF Clean, PPPState
<1>2. PPP_LinkTimer(s) = s
      \/ (s.LinkTimer < LINK_PERIOD /\ PPP_LinkTimer(s) = u)
      \/ PPP_LinkTimer(s) = v
  BY Zenon DEF PPP_LinkTimer
<1>3. s.LinkTimer < LINK_PERIOD => Clean(u, FALSE)
  <2>1. s.LinkTimer < LINK_PERIOD => x \in LinkTimes
    BY <1>1, ConstantsAssumption DEF LinkTimes
  <2> HIDE DEF x
  <2>2. x \in LinkTimes => u \in PPPState /\ u.uip_buf = s.uip_buf /\ u.sent = s.sent
    BY <1>1 DEF PPPState
  <2> HIDE DEF u
  <2>. QED BY <2>1, <2>2, CleanKept
<1>4. e # "RCRPlus" BY DEF TimeoutEvent
<1>5. t \in {ManagePhysical(e, s), ManageAuthentication(e, s), ManageNetwork(e, s), s}
  BY DEF Timeout
<1> HIDE DEF e, t
<1>6. Clean(t, FALSE) BY <1>4, <1>5, PhysicalClean, AuthenticationClean, NetworkClean
<1>7. b \in {"no", "main", "ISR"} BY <1>6 DEF Clean, PPPState
<1> HIDE DEF b
<1>8. v \in PPPState /\ v.uip_buf = t.uip_buf /\ v.sent = t.sent
  BY <1>6, <1>7, ByteArithmetic DEF Clean, PPPState
<1> HIDE DEF v
<1>9. Clean(v, FALSE) BY <1>6, <1>8, CleanKept
<1>. QED BY <1>2, <1>3, <1>9

(* PPP_StartLink only requests.                                            *)
LEMMA StartLinkClean ==
  ASSUME NEW s, Clean(s, FALSE)
  PROVE  Clean(PPP_StartLink(s), FALSE)
<1> DEFINE id == UINT8 - 1
           none == [L \in PPP_Layers |-> "Initial"]
           r == [s EXCEPT !.OutgoingPacket = "NULL", !.CurrentProtocol = "NONE",
              !.TimerOn = FALSE, !.LinkTimer = 0, !.uip_len = 0,
              !.RestartCount = MAX_RESTARTS,
              !.MarkForNAK = FALSE, !.MarkForREJ = FALSE,
              !.OutgoingPacketID = id,
              !.State = none,
              !.PPP_Phase = "Establish"]
<1>1. id \in Bytes /\ none \in [PPP_Layers -> PPP_States] BY ByteArithmetic DEF PPP_States
<1>2. PPP_StartLink(s) = ManagePhysical("Up", ManagePhysical("Open", r))
  BY DEF PPP_StartLink
<1> HIDE DEF id, none
<1>3. r \in PPPState /\ r.uip_buf = s.uip_buf /\ r.sent = s.sent
  BY <1>1, ByteArithmetic DEF Clean, PPPState, PPP_Phases, Protocols
<1> HIDE DEF r
<1>4. Clean(r, FALSE) BY <1>3, CleanKept
<1>5. Clean(ManagePhysical("Open", r), FALSE) BY <1>4, PhysicalClean
<1>6. Clean(ManagePhysical("Up", ManagePhysical("Open", r)), FALSE) BY <1>5, PhysicalClean
<1>. QED BY <1>2, <1>6

(* The bookkeeping of a step forgets frames and packets, and adds none.    *)
LEMMA BookkeepingClean ==
  ASSUME NEW s, Clean(s, FALSE)
  PROVE  /\ Clean(Quiet(s), FALSE)
         /\ Clean(Forget(s), FALSE)
         /\ \A c \in ConnectedStates : Clean([s EXCEPT !.ConnectedState = c], FALSE)
         /\ \A r \in {"no", "main", "ISR"} : Clean([s EXCEPT !.rebooting = r], FALSE)
<1>1. s \in PPPState BY DEF Clean
<1>2. Quiet(s) \in PPPState /\ Forget(s) \in PPPState
  BY <1>1, QuietSteady DEF Steady, SameControl
<1>3. Clean(Quiet(s), FALSE)
  <2>1. Quiet(s).uip_buf = s.uip_buf /\ Quiet(s).sent = <<>> BY <1>1 DEF Quiet, PPPState
  <2>. QED BY <1>2, <2>1 DEF Clean
<1>4. Clean(Forget(s), FALSE)
  <2>1. CASE Forget(s) = s BY <2>1
  <2>2. CASE Forget(s) # s
    <3>1. Forget(s).uip_buf = Empty /\ Forget(s).sent = s.sent
      BY <1>1, <2>2 DEF Forget, PPPState
    <3>. QED BY <1>2, <3>1 DEF Clean, Decent, Empty
  <2>. QED BY <2>1, <2>2
<1>5. ASSUME NEW c \in ConnectedStates PROVE Clean([s EXCEPT !.ConnectedState = c], FALSE)
  <2> DEFINE t == [s EXCEPT !.ConnectedState = c]
  <2>1. t \in PPPState /\ t.uip_buf = s.uip_buf /\ t.sent = s.sent BY <1>1 DEF PPPState
  <2> HIDE DEF t
  <2>2. Clean(t, FALSE) BY <2>1, CleanKept
  <2>. QED BY <2>2 DEF t
<1>6. ASSUME NEW r \in {"no", "main", "ISR"} PROVE Clean([s EXCEPT !.rebooting = r], FALSE)
  <2> DEFINE t == [s EXCEPT !.rebooting = r]
  <2>1. t \in PPPState /\ t.uip_buf = s.uip_buf /\ t.sent = s.sent BY <1>1 DEF PPPState
  <2> HIDE DEF t
  <2>2. Clean(t, FALSE) BY <2>1, CleanKept
  <2>. QED BY <2>2 DEF t
<1>. QED BY <1>3, <1>4, <1>5, <1>6

(* Every action keeps the packet in uip_buf and the frames clean.          *)
LEMMA StepClean == Clean(ppp, FALSE) /\ [Next]_vars => Clean(ppp, FALSE)'
<1> SUFFICES ASSUME Clean(ppp, FALSE), [Next]_vars PROVE Clean(ppp', FALSE)
  BY DEF Clean, Decent
<1> DEFINE q == Quiet(ppp)
<1>q. Clean(q, FALSE) BY BookkeepingClean
<1>1. CASE StartLink
  <2> DEFINE f == Forget(PPP_StartLink(q))
  <2>1. ppp' = [f EXCEPT !.ConnectedState = "WaitForLink"] BY <1>1 DEF StartLink
  <2> HIDE DEF q
  <2>2. Clean(f, FALSE) BY <1>q, StartLinkClean, BookkeepingClean
  <2> HIDE DEF f
  <2>. QED BY <2>1, <2>2, BookkeepingClean DEF ConnectedStates
<1>2. CASE InitPPP
  <2> DEFINE i == PPP_InitPPP(q)
  <2>1. ppp' = [i EXCEPT !.ConnectedState = "Idle"] BY <1>2 DEF InitPPP
  <2> HIDE DEF q
  <2>2. i \in PPPState /\ i.uip_buf = q.uip_buf /\ i.sent = q.sent
    BY <1>q DEF Clean, PPP_InitPPP, PPPState, PPP_Phases
  <2> HIDE DEF i
  <2>3. Clean(i, FALSE) BY <1>q, <2>2, CleanKept
  <2>. QED BY <2>1, <2>3, BookkeepingClean DEF ConnectedStates
<1>3. ASSUME NEW protocol \in PeerProtocols, NEW packet \in PeerPackets[protocol],
             Receive(protocol, packet)
      PROVE  Clean(ppp', FALSE)
  <2>1. PICK answers \in BOOLEAN :
          ppp' = Forget(PPP_ManageLink(q, protocol, packet, answers))
    BY <1>3 DEF Receive
  <2> HIDE DEF q
  <2>2. Clean(PPP_ManageLink(q, protocol, packet, answers), FALSE) BY <1>q, ReceiveClean
  <2>. QED BY <2>1, <2>2, BookkeepingClean
<1>4. CASE Tick
  <2>1. ppp' = Forget(PPP_LinkTimer(q)) BY <1>4 DEF Tick
  <2> HIDE DEF q
  <2>. QED BY <1>q, <2>1, LinkTimerClean, BookkeepingClean
<1>5. CASE Reset
  <2>1. ppp' = ResetState BY <1>5 DEF Reset
  <2>2. ResetState \in PPPState BY ResetTyped DEF LinkDead
  <2>. QED BY <2>1, <2>2 DEF Clean, ResetState, Decent, Empty
<1>6. CASE RebootReturns
  <2>1. ppp' = [q EXCEPT !.rebooting = "no"] BY <1>6 DEF RebootReturns
  <2> HIDE DEF q
  <2>. QED BY <1>q, <2>1, BookkeepingClean
<1>7. CASE ppp' = ppp BY <1>7
<1>. QED BY <1>1, <1>2, <1>3, <1>4, <1>5, <1>6, <1>7 DEF Next, FallSilent, vars

(* A request with options we refuse is never acknowledged, whatever the    *)
(* states of the three automata: the reply re-uses the packet the tests    *)
(* edited, and only an acceptable request raises RCR+.                     *)
THEOREM RefusedStaysUnacked == Spec => []RefusedNeverAcked
<1>1. Init => Clean(ppp, FALSE)
  <2>1. ResetState \in PPPState BY ResetTyped DEF LinkDead
  <2>. QED BY <2>1 DEF Init, Clean, ResetState, Decent, Empty
<1>2. Clean(ppp, FALSE) => RefusedNeverAcked
  BY DEF Clean, Decent, Refused, RefusedNeverAcked
<1>. QED BY <1>1, <1>2, StepClean, PTL DEF Spec

---------------------------------------------------------------------------
(* What is acknowledged before it is used.  A layer that holds an answer   *)
(* to its request, Ack_Rcvd or Opened, has sent no other request since:    *)
(* for every handler, the layers whose request it sends and the layers     *)
(* that keep or reach such a state.                                        *)

Answered == {"Ack_Rcvd", "Opened"}

(* The layers that hold an answer are in A, and not among those whose      *)
(* request the current step has sent.                                      *)
Backed(s, A) ==
  \A L \in PPP_Layers : s.State[L] \in Answered => L \in A \ Requested(s.sent)

(* The layers Send_Configure_Request may send the request of.              *)
Asks(s) ==
  IF s.OutgoingPacket = "NULL" THEN {LayerOf[s.PPP_Phase]}
  ELSE {L \in PPP_Layers : s.OutgoingPacket \in {"uip_buf", ProtocolOf[L]}}

(* From s to t no state moves, and only requests of layers in X are sent.  *)
Says(s, t, X) ==
  /\ t \in PPPState
  /\ t.State = s.State
  /\ t.PPP_Phase = s.PPP_Phase
  /\ Requested(s.sent) \subseteq Requested(t.sent)
  /\ Requested(t.sent) \subseteq Requested(s.sent) \cup X

(* One more frame is one more request, or none.                            *)
LEMMA FrameRequests ==
  ASSUME NEW q \in Transmissions, NEW f \in Frames
  PROVE  Requested(Append(q, f)) =
           Requested(q) \cup {L \in PPP_Layers : f.packet.code = "REQ"
                                                 /\ f.packet.options = ProtocolOf[L]}
<1> DEFINE a == Append(q, f)
<1>1. /\ DOMAIN a = 1..(Len(q) + 1) /\ DOMAIN q = 1..Len(q) /\ Len(q) \in Nat
      /\ a[Len(q) + 1] = f
      /\ \A i \in DOMAIN q : a[i] = q[i]
  BY DEF Transmissions
<1> HIDE DEF a
<1>2. ASSUME NEW L \in PPP_Layers
      PROVE  (\E i \in DOMAIN a : a[i].packet.code = "REQ"
                                  /\ a[i].packet.options = ProtocolOf[L])
             <=> \/ \E i \in DOMAIN q : q[i].packet.code = "REQ"
                                        /\ q[i].packet.options = ProtocolOf[L]
                 \/ f.packet.code = "REQ" /\ f.packet.options = ProtocolOf[L]
  <2>1. \A i \in DOMAIN a : i \in DOMAIN q \/ i = Len(q) + 1 BY <1>1
  <2>2. Len(q) + 1 \in DOMAIN a /\ DOMAIN q \subseteq DOMAIN a BY <1>1
  <2> DEFINE n == Len(q) + 1
  <2>3. a[n] = f /\ n \in DOMAIN a BY <1>1, <2>2
  <2>4. \A i \in DOMAIN a : i \in DOMAIN q \/ i = n BY <2>1
  <2> HIDE DEF n
  <2>. QED BY <1>1, <2>2, <2>3, <2>4, Zenon
<1>. QED BY <1>2, Zenon DEF Requested, a

(* What network_send adds to the requests of the step.                     *)
LEMMA SendSays ==
  ASSUME NEW s \in PPPState, NEW protocol \in Protocols, NEW X,
         \A L \in PPP_Layers : s.uip_buf.code = "REQ" /\ s.uip_buf.options = ProtocolOf[L]
                                 => L \in X
  PROVE  Says(s, network_send(s, protocol), X)
<1> DEFINE p == IF s.uip_len > 0 THEN s.uip_buf ELSE Empty
           f == [protocol |-> protocol, packet |-> p]
           t == network_send(s, protocol)
<1>1. s.sent \in Transmissions /\ s.uip_buf \in Packets BY DEF PPPState
<1>2. Empty \in Packets BY ByteArithmetic DEF Empty, Packets, Codes, Options
<1>3. p \in Packets /\ \A L \in PPP_Layers : p.code = "REQ" /\ p.options = ProtocolOf[L] => L \in X
  BY <1>1, <1>2 DEF Empty
<1>4. t \in PPPState /\ t.State = s.State /\ t.PPP_Phase = s.PPP_Phase
  BY NetworkSend DEF Steady, SameControl
<1>5. t.sent = Append(s.sent, f) BY DEF network_send, PPPState
<1> HIDE DEF p, t
<1>6. f \in Frames /\ f.packet = p BY <1>3 DEF Frames
<1> HIDE DEF f
<1>7. Requested(t.sent) =
        Requested(s.sent) \cup {L \in PPP_Layers : p.code = "REQ" /\ p.options = ProtocolOf[L]}
  BY <1>1, <1>5, <1>6, FrameRequests
<1>. QED BY <1>3, <1>4, <1>7 DEF Says, t

(* A record with the same states and frames says nothing new.              *)
LEMMA SaysNothing ==
  ASSUME NEW s, NEW t \in PPPState, NEW X, t.State = s.State, t.PPP_Phase = s.PPP_Phase,
         t.sent = s.sent
  PROVE  Says(s, t, X)
BY DEF Says

(* A reply is no request.                                                  *)
LEMMA RepliesSay ==
  ASSUME NEW s \in PPPState, NEW X
  PROVE  /\ Says(s, Send_Configure_Ack(s), X)
         /\ Says(s, Send_Terminate_Ack(s), X)
         /\ Says(s, Send_Code_Reject(s), X)
         /\ Says(s, Send_Echo_Reply(s), X)
         /\ Says(s, Send_Configure_Nak_Rej(s), X)
<1>1. ASSUME NEW u \in PPPState, NEW code \in Codes \ {"REQ"}
      PROVE  Says(u, Reply(u, code), X)
  <2> DEFINE p == [u.uip_buf EXCEPT !.code = code]
             r == [u EXCEPT !.uip_buf = p]
  <2>1. p \in Packets /\ p.code # "REQ" BY DEF PPPState, Packets
  <2>2. Reply(u, code) = network_send(r, u.CurrentProtocol) BY DEF Reply
  <2> HIDE DEF p
  <2>3. /\ r \in PPPState /\ r.uip_buf = p /\ r.sent = u.sent
        /\ r.State = u.State /\ r.PPP_Phase = u.PPP_Phase
    BY <2>1 DEF PPPState
  <2>4. u.CurrentProtocol \in Protocols BY DEF PPPState
  <2> HIDE DEF r
  <2>5. Says(r, network_send(r, u.CurrentProtocol), X) BY <2>1, <2>3, <2>4, SendSays
  <2>. QED BY <2>2, <2>3, <2>5 DEF Says
<1>2. \A code \in {"ACK", "TERMREPLY", "CODEREJ", "ECHOREPLY"} : Says(s, Reply(s, code), X)
  BY <1>1 DEF Codes
<1> DEFINE r == [s EXCEPT !.uip_len = 1]
<1>3. r \in PPPState /\ r.sent = s.sent /\ r.State = s.State /\ r.PPP_Phase = s.PPP_Phase
  BY DEF PPPState
<1>4. \A code \in {"NAK", "REJ"} : Says(s, Reply(r, code), X)
  <2> HIDE DEF r
  <2>1. \A code \in {"NAK", "REJ"} : Says(r, Reply(r, code), X) BY <1>1, <1>3 DEF Codes
  <2>. QED BY <1>3, <2>1 DEF Says
<1>5. Says(s, Send_Configure_Nak_Rej(s), X)
  BY <1>4, SaysNothing DEF Send_Configure_Nak_Rej
<1>. QED
  BY <1>2, <1>5 DEF Send_Configure_Ack, Send_Terminate_Ack, Send_Code_Reject, Send_Echo_Reply

(* A request is one of the layer OutgoingPacket belongs to; only a pointer *)
(* into uip_buf leaves open whose packet is sent again.                    *)
LEMMA RequestSays ==
  ASSUME NEW s \in PPPState, s.PPP_Phase # "Dead"
  PROVE  Says(s, Send_Configure_Request(s), Asks(s))
<1> DEFINE own == ProtocolOf[LayerOf[s.PPP_Phase]]
           b == BuildRequest(s)
           id == NextID(s)
           p == RequestPacket(b, id)
           r == [b EXCEPT !.OutgoingPacketID = id, !.RestartCount = Decremented(s),
                          !.uip_buf = p, !.uip_len = 1]
<1>1. id \in Bytes /\ Decremented(s) \in Bytes
  BY ByteArithmetic DEF NextID, Decremented, PPPState
<1>2. /\ own \in {"LCP", "PAP", "IPCP"} /\ own \in Protocols
      /\ LayerOf[s.PPP_Phase] \in PPP_Layers
      /\ \A L \in PPP_Layers : own = ProtocolOf[L] => L = LayerOf[s.PPP_Phase]
  BY DEF PPPState, PPP_Phases, LayerOf, ProtocolOf, Protocols, PPP_Layers
<1>3. /\ s.OutgoingPacket # "NULL" => b = s
      /\ s.OutgoingPacket = "NULL" =>
           b = [s EXCEPT !.OutgoingPacket = own, !.CurrentProtocol = own]
  BY DEF BuildRequest
<1> HIDE DEF own, b
<1>4. /\ b \in PPPState /\ b.sent = s.sent /\ b.State = s.State /\ b.PPP_Phase = s.PPP_Phase
      /\ b.OutgoingPacket = IF s.OutgoingPacket = "NULL" THEN own ELSE s.OutgoingPacket
      /\ b.OutgoingPacket # "NULL"
  BY ZenonT(30), <1>2, <1>3 DEF PPPState
<1>5. \/ b.OutgoingPacket = "uip_buf"
      \/ p = [code |-> "REQ", id |-> id, options |-> b.OutgoingPacket]
  BY <1>4 DEF RequestPacket
<1>6. p \in Packets
  <2>1. b.uip_buf \in Packets /\ b.OutgoingPacket \in {"uip_buf", "LCP", "PAP", "IPCP"}
    BY <1>4 DEF PPPState
  <2> HIDE DEF id
  <2>. QED BY <1>1, <2>1 DEF RequestPacket, Packets, Codes, Options
<1>7. Send_Configure_Request(s) = network_send(r, b.CurrentProtocol)
  BY DEF Send_Configure_Request, b, id
<1>8. \A L \in PPP_Layers : p.code = "REQ" /\ p.options = ProtocolOf[L] => L \in Asks(s)
  <2>1. CASE s.OutgoingPacket = "NULL"
    <3>1. b.OutgoingPacket = own /\ own # "uip_buf" BY <1>2, <1>4, <2>1
    <3>2. p.options = own BY <1>5, <3>1
    <3>. QED BY <1>2, <2>1, <3>2 DEF Asks, own
  <2>2. CASE s.OutgoingPacket # "NULL"
    <3>1. b.OutgoingPacket = s.OutgoingPacket BY <1>4, <2>2
    <3>2. s.OutgoingPacket = "uip_buf" \/ p.options = s.OutgoingPacket BY <1>5, <3>1
    <3>. QED BY <2>2, <3>2 DEF Asks
  <2>. QED BY <2>1, <2>2
<1> HIDE DEF id, p
<1>9. /\ r \in PPPState /\ r.uip_buf = p /\ r.sent = b.sent /\ r.State = b.State
      /\ r.PPP_Phase = b.PPP_Phase
  BY <1>1, <1>4, <1>6 DEF PPPState
<1>10. b.CurrentProtocol \in Protocols BY <1>4 DEF PPPState
<1> HIDE DEF r
<1>11. Says(r, network_send(r, b.CurrentProtocol), Asks(s))
  BY <1>8, <1>9, <1>10, SendSays
<1>. QED BY <1>4, <1>7, <1>9, <1>11 DEF Says

(* A Terminate-Request is no Configure-Request.                            *)
LEMMA TerminateSays ==
  ASSUME NEW s \in PPPState, NEW X
  PROVE  Says(s, Send_Terminate_Request(s), X)
<1> DEFINE id == NextID(s)
           p == [code |-> "TERMREQ", id |-> id, options |-> "none"]
           r == [s EXCEPT !.OutgoingPacket = "uip_buf", !.CurrentProtocol = "LCP",
                          !.OutgoingPacketID = id, !.RestartCount = Decremented(s),
                          !.uip_buf = p, !.uip_len = 1]
<1>1. id \in Bytes /\ Decremented(s) \in Bytes
  BY ByteArithmetic DEF NextID, Decremented, PPPState
<1>2. "LCP" \in Protocols BY DEF Protocols
<1>3. Send_Terminate_Request(s) = network_send(r, "LCP") BY DEF Send_Terminate_Request
<1> HIDE DEF id
<1>4. p \in Packets /\ p.code # "REQ" BY <1>1 DEF Packets, Codes, Options
<1> HIDE DEF p
<1>5. /\ r \in PPPState /\ r.uip_buf = p /\ r.sent = s.sent /\ r.State = s.State
      /\ r.PPP_Phase = s.PPP_Phase
  BY <1>1, <1>2, <1>4 DEF PPPState
<1> HIDE DEF r
<1>6. Says(r, network_send(r, "LCP"), X) BY <1>2, <1>4, <1>5, SendSays
<1>. QED BY <1>3, <1>5, <1>6 DEF Says

(* The counter and the timer say nothing, nor do they change what a        *)
(* request would ask.                                                      *)
LEMMA CountersSay ==
  ASSUME NEW s \in PPPState, NEW X
  PROVE  /\ Says(s, s, X)
         /\ Says(s, InitCount(s), X) /\ Asks(InitCount(s)) = Asks(s)
         /\ \A on \in BOOLEAN :
              Says(s, SetTimer(s, on), X) /\ Asks(SetTimer(s, on)) = Asks(s)
<1>1. Says(s, s, X) BY SaysNothing
<1>2. Says(s, InitCount(s), X) /\ Asks(InitCount(s)) = Asks(s)
  <2> DEFINE t == InitCount(s)
  <2>1. t \in PPPState /\ t.State = s.State /\ t.PPP_Phase = s.PPP_Phase
        /\ t.OutgoingPacket = s.OutgoingPacket
    BY InitCountSteady DEF Steady, SameControl
  <2>2. t.sent = s.sent BY DEF InitCount, PPPState
  <2> HIDE DEF t
  <2>3. Asks(t) = Asks(s) BY <2>1 DEF Asks
  <2>. QED BY <2>1, <2>2, <2>3, SaysNothing DEF t
<1>3. ASSUME NEW on \in BOOLEAN
      PROVE  Says(s, SetTimer(s, on), X) /\ Asks(SetTimer(s, on)) = Asks(s)
  <2> DEFINE t == SetTimer(s, on)
  <2>1. t \in PPPState /\ t.State = s.State /\ t.PPP_Phase = s.PPP_Phase
        /\ t.OutgoingPacket = s.OutgoingPacket
    BY SetTimerEffect
  <2>2. t.sent = s.sent BY DEF SetTimer, PPPState
  <2> HIDE DEF t
  <2>3. Asks(t) = Asks(s) BY <2>1 DEF Asks
  <2>. QED BY <2>1, <2>2, <2>3, SaysNothing DEF t
<1>. QED BY <1>1, <1>2, <1>3

(* The request after a Nak starts with a new count.                        *)
LEMMA RecountedSays ==
  ASSUME NEW s \in PPPState, s.PPP_Phase # "Dead"
  PROVE  Says(s, Send_Configure_Request(InitCount(s)), Asks(s))
<1> DEFINE c == InitCount(s)
<1>1. c \in PPPState /\ c.PPP_Phase # "Dead" BY InitCountSteady DEF Steady, SameControl
<1>2. Says(s, c, {}) /\ Asks(c) = Asks(s) BY CountersSay
<1> HIDE DEF c
<1>3. Says(c, Send_Configure_Request(c), Asks(s)) BY <1>1, <1>2, RequestSays
<1>4. Says(s, Send_Configure_Request(c), Asks(s)) BY <1>2, <1>3 DEF Says
<1>. QED BY <1>4 DEF c

(* From s to t the automaton of layer L handles e: it asks for layers of X *)
(* only, and it ends with an answer at hand only if it had it or got it    *)
(* now, and then asks nothing.                                             *)
Backs(s, t, L, e, X) ==
  /\ t \in PPPState
  /\ Requested(t.sent) \subseteq Requested(s.sent) \cup X
  /\ t.State[L] \in Answered => /\ Requested(t.sent) = Requested(s.sent)
                                /\ s.State[L] \in Answered \/ e = "RCA"

(* The two ways a handler ends: with the state it had, or with an          *)
(* assignment.                                                             *)
LEMMA EndsBacked ==
  ASSUME NEW s \in PPPState, NEW u, NEW L \in PPP_Layers, NEW e, NEW X, NEW Y, Says(s, u, Y),
         Y \subseteq X
  PROVE  /\ (s.State[L] \in Answered => Y = {}) => Backs(s, u, L, e, X)
         /\ \A state \in PPP_States \ Answered : Backs(s, Goto(u, L, state), L, e, X)
         /\ \A state \in PPP_States : Y = {} /\ (s.State[L] \in Answered \/ e = "RCA") =>
              Backs(s, Goto(u, L, state), L, e, X)
<1>1. (s.State[L] \in Answered => Y = {}) => Backs(s, u, L, e, X)
  BY DEF Says, Backs
<1>2. ASSUME NEW state \in PPP_States
      PROVE  /\ Goto(u, L, state) \in PPPState /\ Goto(u, L, state).State[L] = state
             /\ Goto(u, L, state).sent = u.sent
  <2>1. u \in PPPState BY DEF Says
  <2>2. Goto(u, L, state) \in PPPState /\ Goto(u, L, state).State[L] = state
    BY <2>1, GotoEffect DEF OnlyLayer
  <2>3. Goto(u, L, state).sent = u.sent BY <2>1 DEF Goto, PPPState
  <2>. QED BY <2>2, <2>3
<1>3. \A state \in PPP_States \ Answered : Backs(s, Goto(u, L, state), L, e, X)
  BY <1>2 DEF Says, Backs
<1>4. \A state \in PPP_States : Y = {} /\ (s.State[L] \in Answered \/ e = "RCA") =>
        Backs(s, Goto(u, L, state), L, e, X)
  BY <1>2 DEF Says, Backs
<1>. QED BY <1>1, <1>3, <1>4

(* Giving up leaves the layer Stopped.                                     *)
LEMMA FinishBacked ==
  ASSUME NEW s \in PPPState, NEW L \in PPP_Layers, NEW e, NEW X
  PROVE  Backs(s, Finish(s, L), L, e, X)
<1> DEFINE t == Finish(s, L)
           u == SetTimer(This_Layer_Finished(s), FALSE)
<1>1. This_Layer_Finished(s) \in PPPState /\ This_Layer_Finished(s).sent = s.sent
  BY DEF This_Layer_Finished, PPPState
<1>2. u \in PPPState /\ u.sent = s.sent BY <1>1, SetTimerEffect DEF SetTimer, PPPState
<1>3. t = Goto(u, L, "Stopped") BY DEF Finish
<1> HIDE DEF u
<1>4. t.sent = u.sent BY <1>2, <1>3 DEF Goto, PPPState
<1>5. t \in PPPState /\ t.State[L] = "Stopped" BY FinishEffect DEF OnlyLayer
<1> HIDE DEF t
<1>6. Backs(s, t, L, e, X) BY <1>2, <1>4, <1>5 DEF Backs, Answered
<1>. QED BY <1>6 DEF t

(* The three states of a negotiation, the event that opens the layer       *)
(* apart.                                                                  *)
LEMMA NegotiationBacked ==
  ASSUME NEW s \in PPPState, NEW L \in PPP_Layers, NEW e \in Events, NEW X,
         s.PPP_Phase # "Dead", Asks(s) \subseteq X
  PROVE  /\ s.State[L] = "Req_Sent" => Backs(s, Req_Sent(e, s, L), L, e, X)
         /\ s.State[L] = "Ack_Rcvd" /\ e # "RCRPlus" =>
              \A up : Backs(s, Ack_Rcvd(e, s, L, up), L, e, X)
         /\ s.State[L] = "Ack_Sent" /\ e # "RCA" =>
              \A up : Backs(s, Ack_Sent(e, s, L, up), L, e, X)
<1>1. /\ Says(s, s, {}) /\ Says(s, InitCount(s), {})
      /\ Says(s, Send_Configure_Ack(s), {})
      /\ Says(s, Send_Terminate_Ack(s), {})
      /\ Says(s, Send_Code_Reject(s), {})
      /\ Says(s, Send_Configure_Nak_Rej(s), {})
  BY CountersSay, RepliesSay
<1>2. /\ Says(s, Send_Configure_Request(s), Asks(s))
      /\ Says(s, Send_Configure_Request(InitCount(s)), Asks(s))
  BY RequestSays, RecountedSays
<1>3. Backs(s, Finish(s, L), L, e, X) BY FinishBacked
<1>4. ASSUME NEW u, Says(s, u, {})
      PROVE  /\ Backs(s, u, L, e, X)
             /\ \A state \in {"Req_Sent", "Ack_Sent"} : Backs(s, Goto(u, L, state), L, e, X)
             /\ e = "RCA" => Backs(s, Goto(u, L, "Ack_Rcvd"), L, e, X)
  <2>1. {} \subseteq X OBVIOUS
  <2>2. "Ack_Rcvd" \in PPP_States /\ {"Req_Sent", "Ack_Sent"} \subseteq PPP_States \ Answered
    BY DEF PPP_States, Answered
  <2> DEFINE Y == {}
  <2>3. Says(s, u, Y) /\ Y \subseteq X /\ Y = {} BY <1>4, <2>1
  <2> HIDE DEF Y
  <2>4. Backs(s, u, L, e, X) BY <2>3, EndsBacked
  <2>5. \A state \in {"Req_Sent", "Ack_Sent"} : Backs(s, Goto(u, L, state), L, e, X)
    BY <2>2, <2>3, EndsBacked
  <2>6. e = "RCA" => Backs(s, Goto(u, L, "Ack_Rcvd"), L, e, X) BY <2>2, <2>3, EndsBacked
  <2>. QED BY <2>4, <2>5, <2>6
<1>5. ASSUME NEW u, Says(s, u, Asks(s))
      PROVE  /\ s.State[L] \notin Answered => Backs(s, u, L, e, X)
             /\ Backs(s, Goto(u, L, "Req_Sent"), L, e, X)
  <2>1. "Req_Sent" \in PPP_States \ Answered BY DEF PPP_States, Answered
  <2>. QED BY <1>5, <2>1, EndsBacked
<1>6. s.State[L] \in {"Req_Sent", "Ack_Sent"} => s.State[L] \notin Answered BY DEF Answered
<1>7. e \in {"TOPlus", "TOMinus", "RCRPlus", "RCRMinus", "RCA", "RCN", "RTR", "RUC",
             "RXJMinus", "RXR"}
  BY DEF Events, PeerEvents, TimeoutEvents, OtherEvents
<1>8. s.State[L] = "Req_Sent" => Backs(s, Req_Sent(e, s, L), L, e, X)
  <2> DEFINE answer == IF L # "Authentication" THEN Send_Configure_Ack(s) ELSE s
  <2>1. Says(s, answer, {}) BY <1>1
  <2>2. \/ Req_Sent(e, s, L) \in
             {Goto(answer, L, "Ack_Sent"), Send_Configure_Request(s), Finish(s, L),
              Send_Configure_Nak_Rej(s), Send_Configure_Request(InitCount(s)),
              Send_Terminate_Ack(s), Send_Code_Reject(s), s}
        \/ e = "RCA" /\ Req_Sent(e, s, L) = Goto(InitCount(s), L, "Ack_Rcvd")
    BY <1>7 DEF Req_Sent
  <2> HIDE DEF answer
  <2>. QED BY <1>1, <1>2, <1>3, <1>4, <1>5, <1>6, <2>1, <2>2
<1>9. ASSUME e # "RCRPlus", NEW up
      PROVE  Backs(s, Ack_Rcvd(e, s, L, up), L, e, X)
  <2>1. Ack_Rcvd(e, s, L, up) \in
          {Goto(Send_Configure_Request(s), L, "Req_Sent"), Finish(s, L),
           Send_Configure_Nak_Rej(s), Goto(Send_Terminate_Ack(s), L, "Req_Sent"),
           Send_Code_Reject(s), s}
    BY <1>7, <1>9 DEF Ack_Rcvd
  <2>. QED BY <1>1, <1>2, <1>3, <1>4, <1>5, <2>1
<1>10. ASSUME s.State[L] = "Ack_Sent", e # "RCA", NEW up
       PROVE  Backs(s, Ack_Sent(e, s, L, up), L, e, X)
  <2>1. Ack_Sent(e, s, L, up) \in
          {Send_Configure_Request(s), Finish(s, L), Send_Configure_Ack(s),
           Goto(Send_Configure_Nak_Rej(s), L, "Req_Sent"),
           Send_Configure_Request(InitCount(s)), Goto(Send_Terminate_Ack(s), L, "Req_Sent"),
           Send_Code_Reject(s), s}
    BY <1>7, <1>10 DEF Ack_Sent
  <2>. QED BY <1>1, <1>2, <1>3, <1>4, <1>5, <1>6, <1>10, <2>1
<1>. QED BY <1>8, <1>9, <1>10

(* An open layer that leaves Opened asks for the layer of its phase, and   *)
(* holds no answer any more.                                               *)
LEMMA OpenedBacked ==
  ASSUME NEW s, NEW L \in PPP_Layers, NEW e \in PeerEvents \cup {"RTR", "RXJMinus"},
         NEW down \in PPPState, down.PPP_Phase # "Dead", down.OutgoingPacket = "NULL"
  PROVE  LET t == Opened(e, s, L, down)
         IN  /\ t.State[L] \notin Answered
             /\ Requested(t.sent) \subseteq Requested(down.sent) \cup {LayerOf[down.PPP_Phase]}
<1> DEFINE X == {LayerOf[down.PPP_Phase]}
           on == SetTimer(down, TRUE)
           r == Send_Configure_Request(on)
           stop == [on EXCEPT !.RestartCount = 0, !.LinkTimer = 0]
           c == SetTimer(InitCount(down), TRUE)
           Good(t) == /\ t.State[L] \notin Answered
                      /\ Requested(t.sent) \subseteq Requested(down.sent) \cup X
<1>1. Asks(down) = X BY DEF Asks
<1>2. /\ on \in PPPState /\ on.sent = down.sent /\ on.PPP_Phase = down.PPP_Phase
      /\ Asks(on) = X /\ on.State = down.State
  <2>1. on \in PPPState /\ on.PPP_Phase = down.PPP_Phase /\ on.State = down.State
    BY SetTimerEffect
  <2>2. Asks(on) = Asks(down)
    <3>1. \A b \in BOOLEAN : Asks(SetTimer(down, b)) = Asks(down) BY CountersSay
    <3>. QED BY <3>1
  <2>3. on.sent = down.sent BY DEF SetTimer, PPPState
  <2> HIDE DEF on
  <2>. QED BY <1>1, <2>1, <2>2, <2>3
<1>3. stop \in PPPState /\ stop.sent = down.sent
  <2> HIDE DEF on
  <2>. QED BY <1>2, ByteArithmetic DEF PPPState
<1>4. c \in PPPState /\ c.sent = down.sent
  <2>1. InitCount(down) \in PPPState /\ InitCount(down).sent = down.sent
    BY InitCountSteady DEF Steady, SameControl, InitCount, PPPState
  <2>. QED BY <2>1, SetTimerEffect DEF SetTimer, PPPState
<1>5. Opened(e, s, L, down) \in
        {Goto(Send_Configure_Ack(r), L, "Ack_Sent"), Goto(Send_Configure_Nak_Rej(r), L, "Req_Sent"),
         Goto(r, L, "Req_Sent"), Goto(Send_Terminate_Ack(stop), L, "Stopping"),
         Goto(Send_Terminate_Request(c), L, "Stopping")}
  BY DEF Opened, PeerEvents
<1> HIDE DEF on, stop, c
<1>6. Says(on, r, X) BY <1>2, RequestSays
<1> HIDE DEF r
<1>7. r \in PPPState /\ Requested(r.sent) \subseteq Requested(down.sent) \cup X
  BY <1>2, <1>6 DEF Says
<1>8. /\ Says(r, Send_Configure_Ack(r), {}) /\ Says(r, Send_Configure_Nak_Rej(r), {})
      /\ Says(stop, Send_Terminate_Ack(stop), {}) /\ Says(c, Send_Terminate_Request(c), {})
  BY <1>3, <1>4, <1>7, RepliesSay, TerminateSays
<1>9. ASSUME NEW u \in {r, Send_Configure_Ack(r), Send_Configure_Nak_Rej(r),
                        Send_Terminate_Ack(stop), Send_Terminate_Request(c)},
             NEW state \in {"Ack_Sent", "Req_Sent", "Stopping"}
      PROVE  Good(Goto(u, L, state))
  <2>1. u \in PPPState /\ Requested(u.sent) \subseteq Requested(down.sent) \cup X
    BY <1>3, <1>4, <1>7, <1>8 DEF Says
  <2>2. state \in PPP_States \ Answered BY DEF PPP_States, Answered
  <2>3. Goto(u, L, state).State[L] = state BY <2>1, <2>2, GotoEffect
  <2>4. Goto(u, L, state).sent = u.sent BY <2>1 DEF Goto, PPPState
  <2>. QED BY <2>1, <2>2, <2>3, <2>4
<1> HIDE DEF X
<1>10. Good(Opened(e, s, L, down)) BY <1>5, <1>9
<1>. QED BY <1>10 DEF X

(* The statements of the This_Layer_ functions that nest no other layer.   *)
LEMMA LayerCallsSay ==
  ASSUME NEW s \in PPPState
  PROVE  /\ ClearRequest(s) \in PPPState /\ ClearRequest(s).sent = s.sent
         /\ NetworkUp(s) \in PPPState /\ NetworkUp(s).sent = s.sent
         /\ \A phase \in PPP_Phases : /\ EnterPhase(s, phase) \in PPPState
                                      /\ EnterPhase(s, phase).sent = s.sent
<1> DEFINE c == ClearRequest(s)
<1>1. c \in PPPState /\ c.sent = s.sent BY DEF ClearRequest, PPPState
<1>2. NetworkUp(s) \in PPPState /\ NetworkUp(s).sent = s.sent
  <2>1. NetworkUp(s) \in PPPState BY NetworkUpEffect DEF SameControl
  <2>2. NetworkUp(s) = [c EXCEPT !.CurrentProtocol = "NONE",
                                 !.ConnectedState = "InitializeTCPStack"]
    BY DEF NetworkUp
  <2> HIDE DEF c
  <2>. QED BY <1>1, <2>1, <2>2 DEF PPPState
<1>3. ASSUME NEW phase \in PPP_Phases
      PROVE  EnterPhase(s, phase) \in PPPState /\ EnterPhase(s, phase).sent = s.sent
  <2> DEFINE id == UINT8 - 1
  <2>1. EnterPhase(s, phase) \in PPPState BY EnterPhaseEffect
  <2>2. EnterPhase(s, phase) = [c EXCEPT !.CurrentProtocol = "NONE", !.PPP_Phase = phase,
                                         !.OutgoingPacketID = id]
    BY DEF EnterPhase
  <2> HIDE DEF c, id
  <2>. QED BY <1>1, <2>1, <2>2 DEF PPPState
<1>. QED BY <1>1, <1>2, <1>3

(* IPCP asks for itself only, and opens on an answer it holds or gets.     *)
LEMMA NetworkBacked ==
  ASSUME NEW s \in PPPState, s.PPP_Phase = "Network",
         NEW e \in PeerEvents \cup TimeoutEvents,
         s.State["Network"] \in Negotiating \cup {"Opened"},
         s.State["Network"] # "Opened" => s.OutgoingPacket = "IPCP"
  PROVE  Backs(s, ManageNetwork(e, s), "Network", e, {"Network"})
<1> DEFINE L == "Network"
           X == {"Network"}
           t == ManageNetwork(e, s)
<1>1. L \in PPP_Layers /\ e \in Events /\ "Opened" \in PPP_States /\ L = "Network"
  BY DEF PPP_Layers, Events, PPP_States
<1>2. s.State[L] # "Opened" => Asks(s) \subseteq X
  BY DEF Asks, PPP_Layers, ProtocolOf
<1>3. /\ s.State[L] = "Req_Sent" => t = Req_Sent(e, s, L)
      /\ s.State[L] = "Ack_Rcvd" => t = Ack_Rcvd(e, s, L, NetworkUp(Send_Configure_Ack(s)))
      /\ s.State[L] = "Ack_Sent" =>
           t = Ack_Sent(e, s, L, NetworkUp(SetTimer(InitCount(s), FALSE)))
      /\ s.State[L] = "Opened" => t = Opened(e, s, L, NetworkDown(s))
  BY NetworkDispatch
<1> HIDE DEF t
<1>4. CASE s.State[L] = "Req_Sent"
  BY <1>1, <1>2, <1>3, <1>4, NegotiationBacked DEF t
<1>5. CASE s.State[L] = "Ack_Rcvd"
  <2>1. CASE e # "RCRPlus"
    BY <1>1, <1>2, <1>3, <1>5, <2>1, NegotiationBacked DEF t
  <2>2. CASE e = "RCRPlus"
    <3> DEFINE a == Send_Configure_Ack(s)
               n == NetworkUp(a)
               u == SetTimer(n, FALSE)
    <3>1. Says(s, a, {}) BY RepliesSay
    <3>2. a \in PPPState BY <3>1 DEF Says
    <3>3. t = Goto(u, L, "Opened") BY <1>3, <1>5, <2>2 DEF Ack_Rcvd
    <3> HIDE DEF a
    <3>4. n \in PPPState /\ n.sent = a.sent /\ n.State = a.State /\ n.PPP_Phase = a.PPP_Phase
      BY <3>2, LayerCallsSay, NetworkUpEffect DEF SameControl
    <3> HIDE DEF n
    <3>5. Says(n, u, {}) BY <3>4, CountersSay
    <3> HIDE DEF u
    <3>6. Says(s, u, {}) BY <3>1, <3>4, <3>5 DEF Says
    <3> DEFINE Y == {}
    <3>7. Says(s, u, Y) /\ Y \subseteq X /\ Y = {} BY <3>6
    <3> HIDE DEF Y, X, L
    <3>8. Backs(s, Goto(u, L, "Opened"), L, e, X)
      BY <1>1, <1>5, <3>7, EndsBacked DEF Answered
    <3>. QED BY <3>3, <3>8 DEF t, L, X
  <2>. QED BY <2>1, <2>2
<1>6. CASE s.State[L] = "Ack_Sent"
  <2>1. CASE e # "RCA"
    BY <1>1, <1>2, <1>3, <1>6, <2>1, NegotiationBacked DEF t
  <2>2. CASE e = "RCA"
    <3> DEFINE c == InitCount(s)
               a == SetTimer(c, FALSE)
               u == NetworkUp(a)
    <3>1. Says(s, c, {}) /\ c \in PPPState BY CountersSay DEF Says
    <3>2. t = Goto(u, L, "Opened") BY <1>3, <1>6, <2>2 DEF Ack_Sent
    <3> HIDE DEF c
    <3>3. Says(c, a, {}) /\ a \in PPPState BY <3>1, CountersSay DEF Says
    <3> HIDE DEF a
    <3>4. u \in PPPState /\ u.sent = a.sent /\ u.State = a.State /\ u.PPP_Phase = a.PPP_Phase
      BY <3>3, LayerCallsSay, NetworkUpEffect DEF SameControl
    <3> HIDE DEF u
    <3>5. Says(s, u, {}) BY <3>1, <3>3, <3>4 DEF Says
    <3> DEFINE Y == {}
    <3>6. Says(s, u, Y) /\ Y \subseteq X /\ Y = {} BY <3>5
    <3> HIDE DEF Y, X, L
    <3>7. Backs(s, Goto(u, L, "Opened"), L, e, X) BY <1>1, <2>2, <3>6, EndsBacked
    <3>. QED BY <3>2, <3>7 DEF t, L, X
  <2>. QED BY <2>1, <2>2
<1>7. CASE s.State[L] = "Opened"
  <2> DEFINE d == ClearRequest(s)
  <2>1. /\ d \in PPPState /\ d.sent = s.sent /\ d.PPP_Phase = "Network"
        /\ d.OutgoingPacket = "NULL"
    BY LayerCallsSay, ClearRequestEffect DEF SameControl
  <2>2. t = Opened(e, s, L, d) BY <1>3, <1>7 DEF NetworkDown
  <2> HIDE DEF d
  <2>3. CASE e \in PeerEvents
    <3>1. /\ t.State[L] \notin Answered
          /\ Requested(t.sent) \subseteq Requested(s.sent) \cup {LayerOf[d.PPP_Phase]}
      BY <1>1, <2>1, <2>2, <2>3, OpenedBacked
    <3>2. LayerOf[d.PPP_Phase] = "Network" BY <2>1 DEF LayerOf
    <3>3. t \in PPPState
      BY <1>1, <2>1, <2>2, <2>3, OpenedRestarts DEF Renegotiates, OnlyLayer
    <3>. QED BY <3>1, <3>2, <3>3 DEF Backs, t
  <2>4. CASE e \in TimeoutEvents
    <3>1. t = s BY <2>2, <2>4 DEF Opened, TimeoutEvents
    <3>. QED BY <1>7, <3>1 DEF Backs, t, Answered
  <2>. QED BY <2>3, <2>4
<1>. QED BY <1>4, <1>5, <1>6, <1>7 DEF Negotiating

(* Open then Up sends the request of the phase, and nothing else.          *)
LEMMA StartsAsking ==
  ASSUME NEW s \in PPPState, s.PPP_Phase # "Dead", s.OutgoingPacket = "NULL"
  PROVE  /\ Idle(s, "Network") =>
              Requested(ManageNetwork("Up", ManageNetwork("Open", s)).sent)
                \subseteq Requested(s.sent) \cup {LayerOf[s.PPP_Phase]}
         /\ Idle(s, "Authentication") =>
              Requested(ManageAuthentication("Up", ManageAuthentication("Open", s)).sent)
                \subseteq Requested(s.sent) \cup {LayerOf[s.PPP_Phase]}
<1>1. ASSUME NEW L \in PPP_Layers, Idle(s, L), NEW o,
             o = IF s.State[L] = "Initial" THEN Initial("Open", s, L)
                                           ELSE Starting("Open", s, L)
      PROVE  /\ o.State[L] = "Starting"
             /\ Requested(Starting("Up", o, L).sent)
                  \subseteq Requested(s.sent) \cup {LayerOf[s.PPP_Phase]}
  <2> DEFINE g == Goto(o, L, "Req_Sent")
             c == InitCount(g)
             d == SetTimer(c, TRUE)
             X == {LayerOf[s.PPP_Phase]}
  <2>1. /\ o \in PPPState /\ o.PPP_Phase = s.PPP_Phase /\ o.State[L] = "Starting"
        /\ o.OutgoingPacket = "NULL"
    BY <1>1, OpenUp DEF OnlyLayer
  <2>2. o.sent = s.sent
    <3>1. s.State[L] = "Initial" => o = Goto(s, L, "Starting") BY <1>1 DEF Initial
    <3>2. s.State[L] = "Starting" => o = s BY <1>1 DEF Starting
    <3>. QED BY <1>1, <3>1, <3>2 DEF Idle, Goto, PPPState
  <2>3. /\ g \in PPPState /\ g.PPP_Phase = s.PPP_Phase /\ g.OutgoingPacket = "NULL"
        /\ g.sent = s.sent
    <3>1. "Req_Sent" \in PPP_States BY DEF PPP_States
    <3>2. g \in PPPState /\ g.PPP_Phase = o.PPP_Phase /\ g.OutgoingPacket = o.OutgoingPacket
      BY <2>1, <3>1, GotoEffect DEF OnlyLayer
    <3>3. g.sent = o.sent BY <2>1 DEF Goto, PPPState
    <3>. QED BY <2>1, <2>2, <3>2, <3>3
  <2>4. Asks(g) = X BY <2>3 DEF Asks
  <2>5. Starting("Up", o, L) = Send_Configure_Request(d) BY DEF Starting
  <2> HIDE DEF g, X
  <2>6. Says(g, c, {}) /\ Asks(c) = X BY <2>3, <2>4, CountersSay
  <2>7. c \in PPPState /\ c.PPP_Phase = g.PPP_Phase BY <2>6 DEF Says
  <2> HIDE DEF c
  <2>8. Says(c, d, {}) /\ Asks(d) = X BY <2>6, <2>7, CountersSay
  <2>9. d \in PPPState /\ d.PPP_Phase # "Dead" BY <2>3, <2>7, <2>8 DEF Says
  <2> HIDE DEF d
  <2>10. Says(d, Send_Configure_Request(d), X) BY <2>8, <2>9, RequestSays
  <2>11. Requested(Send_Configure_Request(d).sent) \subseteq Requested(s.sent) \cup X
    BY <2>3, <2>6, <2>8, <2>10 DEF Says
  <2>. QED BY <2>1, <2>5, <2>11 DEF X
<1>2. ASSUME Idle(s, "Network")
      PROVE  Requested(ManageNetwork("Up", ManageNetwork("Open", s)).sent)
               \subseteq Requested(s.sent) \cup {LayerOf[s.PPP_Phase]}
  <2> DEFINE o == ManageNetwork("Open", s)
             L == "Network"
  <2>1. L \in PPP_Layers BY DEF PPP_Layers
  <2>2. o = IF s.State[L] = "Initial" THEN Initial("Open", s, L) ELSE Starting("Open", s, L)
    BY <1>2, NetworkDispatch DEF Idle
  <2>3. o.State[L] = "Starting" => ManageNetwork("Up", o) = Starting("Up", o, L)
    BY NetworkDispatch
  <2> HIDE DEF o
  <2>4. /\ o.State[L] = "Starting"
        /\ Requested(Starting("Up", o, L).sent)
             \subseteq Requested(s.sent) \cup {LayerOf[s.PPP_Phase]}
    BY <1>1, <1>2, <2>1, <2>2
  <2>. QED BY <2>3, <2>4 DEF o
<1>3. ASSUME Idle(s, "Authentication")
      PROVE  Requested(ManageAuthentication("Up", ManageAuthentication("Open", s)).sent)
               \subseteq Requested(s.sent) \cup {LayerOf[s.PPP_Phase]}
  <2> DEFINE o == ManageAuthentication("Open", s)
             L == "Authentication"
  <2>1. L \in PPP_Layers BY DEF PPP_Layers
  <2>2. o = IF s.State[L] = "Initial" THEN Initial("Open", s, L) ELSE Starting("Open", s, L)
    BY <1>3, AuthenticationDispatch DEF Idle
  <2>3. o.State[L] = "Starting" => ManageAuthentication("Up", o) = Starting("Up", o, L)
    BY AuthenticationDispatch
  <2> HIDE DEF o
  <2>4. /\ o.State[L] = "Starting"
        /\ Requested(Starting("Up", o, L).sent)
             \subseteq Requested(s.sent) \cup {LayerOf[s.PPP_Phase]}
    BY <1>1, <1>3, <2>1, <2>2
  <2>. QED BY <2>3, <2>4 DEF o
<1>. QED BY <1>2, <1>3

(* This_Layer_Up starts the next layer, which has no answer yet.           *)
LEMMA UpAsks ==
  ASSUME NEW s \in PPPState, Idle(s, "Network")
  PROVE  /\ LET t == AuthenticationUp(s)
            IN  /\ t \in PPPState /\ t.State["Network"] = "Req_Sent"
                /\ t.State["Physical"] = s.State["Physical"]
                /\ Requested(t.sent) \subseteq Requested(s.sent) \cup {"Network"}
         /\ Idle(s, "Authentication") =>
              LET t == PhysicalUp(s)
              IN  /\ t \in PPPState /\ t.State["Authentication"] = "Req_Sent"
                  /\ Idle(t, "Network")
                  /\ Requested(t.sent) \subseteq Requested(s.sent) \cup {"Authentication"}
<1>0. PPP_Layers = {"Physical", "Authentication", "Network"} BY DEF PPP_Layers
<1>1. \A phase \in PPP_Phases :
        LET n == EnterPhase(s, phase)
        IN  /\ n \in PPPState /\ n.PPP_Phase = phase /\ n.State = s.State
            /\ n.OutgoingPacket = "NULL" /\ n.sent = s.sent
  BY EnterPhaseEffect, LayerCallsSay
<1>2. LET t == AuthenticationUp(s)
      IN  /\ t \in PPPState /\ t.State["Network"] = "Req_Sent"
          /\ t.State["Physical"] = s.State["Physical"]
          /\ Requested(t.sent) \subseteq Requested(s.sent) \cup {"Network"}
  <2> DEFINE n == EnterPhase(s, "Network")
             t == ManageNetwork("Up", ManageNetwork("Open", n))
  <2>1. /\ n \in PPPState /\ n.PPP_Phase = "Network" /\ n.State = s.State
        /\ n.OutgoingPacket = "NULL" /\ n.sent = s.sent
    BY <1>1 DEF PPP_Phases
  <2>2. AuthenticationUp(s) = t BY DEF AuthenticationUp
  <2> HIDE DEF n
  <2>3. Idle(n, "Network") BY <2>1 DEF Idle
  <2>4. Started(n, t, "Network") BY <2>1, <2>3, LayerStarts
  <2>5. Requested(t.sent) \subseteq Requested(n.sent) \cup {LayerOf[n.PPP_Phase]}
    BY <2>1, <2>3, StartsAsking
  <2>6. LayerOf[n.PPP_Phase] = "Network" BY <2>1 DEF LayerOf
  <2> HIDE DEF t
  <2>7. /\ t \in PPPState /\ t.State["Network"] = "Req_Sent"
        /\ t.State["Physical"] = s.State["Physical"]
    BY <1>0, <2>1, <2>4 DEF Started, OnlyLayer
  <2>. QED BY <2>1, <2>2, <2>5, <2>6, <2>7
<1>3. ASSUME Idle(s, "Authentication")
      PROVE  LET t == PhysicalUp(s)
             IN  /\ t \in PPPState /\ t.State["Authentication"] = "Req_Sent"
                 /\ Idle(t, "Network")
                 /\ Requested(t.sent) \subseteq Requested(s.sent) \cup {"Authentication"}
  <2> DEFINE n == EnterPhase(s, "Authenticate")
             t == ManageAuthentication("Up", ManageAuthentication("Open", n))
  <2>1. /\ n \in PPPState /\ n.PPP_Phase = "Authenticate" /\ n.State = s.State
        /\ n.OutgoingPacket = "NULL" /\ n.sent = s.sent
    BY <1>1 DEF PPP_Phases
  <2>2. PhysicalUp(s) = t BY DEF PhysicalUp
  <2> HIDE DEF n
  <2>3. Idle(n, "Authentication") BY <1>3, <2>1 DEF Idle
  <2>4. Started(n, t, "Authentication") BY <2>1, <2>3, LayerStarts
  <2>5. Requested(t.sent) \subseteq Requested(n.sent) \cup {LayerOf[n.PPP_Phase]}
    BY <2>1, <2>3, StartsAsking
  <2>6. LayerOf[n.PPP_Phase] = "Authentication" BY <2>1 DEF LayerOf
  <2> HIDE DEF t
  <2>7. t \in PPPState /\ t.State["Authentication"] = "Req_Sent" /\ Idle(t, "Network")
    BY <1>0, <2>1, <2>4 DEF Started, OnlyLayer, Idle
  <2>. QED BY <2>1, <2>2, <2>5, <2>6, <2>7
<1>. QED BY <1>2, <1>3

(* A step of one automaton, when the other layers it asks for hold no      *)
(* answer.                                                                 *)
LEMMA BackedStep ==
  ASSUME NEW s, NEW t, NEW A, NEW L \in PPP_Layers, NEW e, NEW X,
         Backed(s, A), OnlyLayer(s, t, L), Backs(s, t, L, e, X),
         e = "RCA" => L \in A \ Requested(s.sent),
         \A M \in PPP_Layers \ {L} : M \in X => s.State[M] \notin Answered
  PROVE  Backed(t, A)
<1> SUFFICES ASSUME NEW M \in PPP_Layers, t.State[M] \in Answered
             PROVE  M \in A \ Requested(t.sent)
  BY DEF Backed
<1>1. CASE M = L
  BY <1>1 DEF Backed, Backs
<1>2. CASE M # L
  <2>1. t.State[M] = s.State[M] BY <1>2 DEF OnlyLayer
  <2>2. M \in A \ Requested(s.sent) /\ M \notin X BY <1>2, <2>1 DEF Backed
  <2>. QED BY <2>2 DEF Backs
<1>. QED BY <1>1, <1>2

(* A reply, or no frame at all.                                            *)
LEMMA BackedSays ==
  ASSUME NEW s, NEW t, NEW A, Backed(s, A), Says(s, t, {})
  PROVE  Backed(t, A)
BY DEF Backed, Says

(* No layer holds an answer while LCP, idle below them, holds none.        *)
LEMMA NothingAnswered ==
  ASSUME NEW t, NEW A, LinkOK(t), t.State["Physical"] \notin Answered
  PROVE  Backed(t, A)
<1>1. Idle(t, "Authentication") /\ Idle(t, "Network")
  BY DEF LinkOK, LinkOpen, Establishing, Answered
<1>. QED BY <1>1 DEF Backed, PPP_Layers, Idle, Answered

(* LCP opens on an answer of its own and starts PAP, which has none.       *)
LEMMA PhysicalOpensBacked ==
  ASSUME NEW s, NEW u \in PPPState, NEW A, NEW v, Idle(u, "Authentication"), Idle(u, "Network"),
         Requested(u.sent) = Requested(s.sent),
         "Physical" \in A \ Requested(s.sent),
         v = PhysicalUp(u) \/ v = SetTimer(PhysicalUp(u), FALSE)
  PROVE  Backed(Goto(v, "Physical", "Opened"), A)
<1> DEFINE p == PhysicalUp(u)
           t == Goto(v, "Physical", "Opened")
<1>1. /\ p \in PPPState /\ p.State["Authentication"] = "Req_Sent" /\ Idle(p, "Network")
      /\ Requested(p.sent) \subseteq Requested(u.sent) \cup {"Authentication"}
  BY UpAsks
<1> HIDE DEF p
<1>2. v = p \/ v = SetTimer(p, FALSE) BY DEF p
<1>3. Says(p, p, {}) /\ Says(p, SetTimer(p, FALSE), {}) BY <1>1, CountersSay
<1>4. /\ v \in PPPState /\ v.State = p.State
      /\ Requested(v.sent) \subseteq Requested(u.sent) \cup {"Authentication"}
  BY <1>1, <1>2, <1>3 DEF Says
<1>5. "Physical" \in PPP_Layers /\ "Opened" \in PPP_States
      /\ PPP_Layers = {"Physical", "Authentication", "Network"}
  BY DEF PPP_Layers, PPP_States
<1>6. OnlyLayer(v, t, "Physical") BY <1>4, <1>5, GotoEffect
<1>7. t.sent = v.sent BY <1>4 DEF Goto, PPPState
<1> HIDE DEF t
<1>8. t.State["Authentication"] = "Req_Sent" /\ Idle(t, "Network")
  BY <1>1, <1>4, <1>5, <1>6 DEF OnlyLayer, Idle
<1>9. Backed(t, A)
  BY <1>4, <1>5, <1>7, <1>8 DEF Backed, Idle, Answered
<1>. QED BY <1>9 DEF t

(* Every event LCP meets leaves the answers at hand backed.                *)
LEMMA PhysicalBacked ==
  ASSUME NEW s \in PPPState, NEW e \in Events, NEW A, Backed(s, A),
         e = "RCA" => "Physical" \in A \ Requested(s.sent),
         \/ Establishing(s)
         \/ /\ s.State["Physical"] = "Opened" /\ LayersUp(s)
            /\ e \in PeerEvents \cup {"RTR", "RXJMinus"}
         \/ LinkOpen(s) /\ e \notin TimeoutEvents
  PROVE  Backed(ManagePhysical(e, s), A)
<1> DEFINE t == ManagePhysical(e, s)
           L == "Physical"
           X == PPP_Layers
<1>0. L \in PPP_Layers BY DEF PPP_Layers
<1>1. LinkOK(t) BY PhysicalStep
<1>2. t.State[L] \notin Answered => Backed(t, A) BY <1>1, NothingAnswered
<1> HIDE DEF t
<1>3. ASSUME Establishing(s), s.State[L] \in Negotiating, NEW r,
             StillNegotiating(s, r, L) \/ r = Finish(s, L), Backs(s, r, L, e, X)
      PROVE  Backed(r, A)
  <2>1. OnlyLayer(s, r, L) BY <1>0, <1>3, FinishEffect DEF StillNegotiating
  <2>2. \A M \in PPP_Layers \ {L} : s.State[M] \notin Answered
    BY <1>3 DEF Establishing, Idle, PPP_Layers, Answered
  <2> HIDE DEF X, L
  <2>3. e = "RCA" => L \in A \ Requested(s.sent) BY DEF L
  <2>. QED BY <1>0, <1>3, <2>1, <2>2, <2>3, BackedStep
<1>4. Establishing(s) => /\ s.PPP_Phase # "Dead" /\ Idle(s, "Authentication")
                         /\ Idle(s, "Network")
  BY DEF Establishing
<1>5. Asks(s) \subseteq X \/ s.OutgoingPacket = "NULL" BY DEF Asks
<1>6. CASE Establishing(s) /\ s.State[L] = "Req_Sent"
  <2>1. t = Req_Sent(e, s, L) BY <1>6, PhysicalDispatch DEF t
  <2>2. s.OutgoingPacket # "NULL" BY <1>6 DEF Establishing, Negotiating
  <2>3. StillNegotiating(s, t, L) \/ t = Finish(s, L)
    BY <1>0, <1>4, <1>6, <2>1, <2>2, ReqSentStep
  <2>4. Backs(s, t, L, e, X) BY <1>0, <1>4, <1>5, <1>6, <2>1, <2>2, NegotiationBacked
  <2>. QED BY <1>3, <1>6, <2>3, <2>4 DEF Negotiating, t
<1>7. CASE Establishing(s) /\ s.State[L] = "Ack_Rcvd"
  <2> DEFINE k == Send_Configure_Ack(s)
             up == PhysicalUp(k)
  <2>1. t = Ack_Rcvd(e, s, L, up) BY <1>7, PhysicalDispatch DEF t
  <2>2. s.OutgoingPacket # "NULL" BY <1>7 DEF Establishing, Negotiating
  <2>3. CASE e # "RCRPlus"
    <3> HIDE DEF up
    <3>1. StillNegotiating(s, t, L) \/ t = Finish(s, L)
      BY <1>0, <1>4, <1>7, <2>1, <2>2, <2>3, AckRcvdStep
    <3>2. Backs(s, t, L, e, X)
      BY <1>0, <1>4, <1>5, <1>7, <2>1, <2>2, <2>3, NegotiationBacked
    <3>. QED BY <1>3, <1>7, <3>1, <3>2 DEF Negotiating, t
  <2>4. CASE e = "RCRPlus"
    <3>1. Says(s, k, {}) BY RepliesSay
    <3> DEFINE v == SetTimer(PhysicalUp(k), FALSE)
    <3>2. t = Goto(v, L, "Opened") BY <2>1, <2>4 DEF Ack_Rcvd
    <3> HIDE DEF k
    <3>3. /\ k \in PPPState /\ Idle(k, "Authentication") /\ Idle(k, "Network")
          /\ Requested(k.sent) = Requested(s.sent)
      BY <1>4, <1>7, <3>1 DEF Says, Idle
    <3>4. "Physical" \in A \ Requested(s.sent) BY <1>0, <1>7 DEF Backed, Answered
    <3>5. v = PhysicalUp(k) \/ v = SetTimer(PhysicalUp(k), FALSE) OBVIOUS
    <3> HIDE DEF v
    <3>6. Backed(Goto(v, "Physical", "Opened"), A) BY <3>3, <3>4, <3>5, PhysicalOpensBacked
    <3>. QED BY <3>2, <3>6 DEF t
  <2>. QED BY <2>3, <2>4
<1>8. CASE Establishing(s) /\ s.State[L] = "Ack_Sent"
  <2> DEFINE c == InitCount(s)
             k == SetTimer(c, FALSE)
             up == PhysicalUp(k)
  <2>1. t = Ack_Sent(e, s, L, up) BY <1>8, PhysicalDispatch DEF t
  <2>2. s.OutgoingPacket # "NULL" BY <1>8 DEF Establishing, Negotiating
  <2>3. CASE e # "RCA"
    <3> HIDE DEF up
    <3>1. StillNegotiating(s, t, L) \/ t = Finish(s, L)
      BY <1>0, <1>4, <1>8, <2>1, <2>2, <2>3, AckSentStep
    <3>2. Backs(s, t, L, e, X)
      BY <1>0, <1>4, <1>5, <1>8, <2>1, <2>2, <2>3, NegotiationBacked
    <3>. QED BY <1>3, <1>8, <3>1, <3>2 DEF Negotiating, t
  <2>4. CASE e = "RCA"
    <3>1. Says(s, c, {}) /\ c \in PPPState BY CountersSay DEF Says
    <3> DEFINE v == PhysicalUp(k)
    <3>2. t = Goto(v, L, "Opened") BY <2>1, <2>4 DEF Ack_Sent
    <3> HIDE DEF c
    <3>3. Says(c, k, {}) BY <3>1, CountersSay
    <3> HIDE DEF k
    <3>4. /\ k \in PPPState /\ Idle(k, "Authentication") /\ Idle(k, "Network")
          /\ Requested(k.sent) = Requested(s.sent)
      BY <1>4, <1>8, <3>1, <3>3 DEF Says, Idle
    <3>5. "Physical" \in A \ Requested(s.sent) BY <2>4
    <3>6. v = PhysicalUp(k) \/ v = SetTimer(PhysicalUp(k), FALSE) OBVIOUS
    <3> HIDE DEF v
    <3>7. Backed(Goto(v, "Physical", "Opened"), A) BY <3>4, <3>5, <3>6, PhysicalOpensBacked
    <3>. QED BY <3>2, <3>7 DEF t
  <2>. QED BY <2>3, <2>4
<1>9. CASE Establishing(s) /\ s.State[L] = "Stopping"
  <2>1. t = Stopping(e, s, L) BY <1>9, PhysicalDispatch DEF t
  <2>2. t \in {Send_Terminate_Request(s), Finish(s, L), Send_Terminate_Ack(s),
               Send_Code_Reject(s), s}
    BY <2>1 DEF Stopping, Events, PeerEvents, TimeoutEvents, OtherEvents
  <2>3. /\ Says(s, Send_Terminate_Request(s), {}) /\ Says(s, Send_Terminate_Ack(s), {})
        /\ Says(s, Send_Code_Reject(s), {})
    BY TerminateSays, RepliesSay
  <2>4. Finish(s, L).State[L] = "Stopped" BY <1>0, FinishEffect
  <2>5. t.State[L] \notin Answered BY <1>9, <2>2, <2>3, <2>4 DEF Says, Answered
  <2>. QED BY <1>2, <2>5 DEF t
<1>10. CASE Establishing(s) /\ s.State[L] = "Stopped"
  <2> DEFINE a == SetTimer(InitCount(Goto(s, L, "Ack_Sent")), TRUE)
             r == SetTimer(InitCount(Goto(s, L, "Req_Sent")), TRUE)
             f == This_Layer_Finished(s)
  <2>1. t = Stopped(e, s, L) BY <1>10, PhysicalDispatch DEF t
  <2>2. t \in {Send_Configure_Ack(Send_Configure_Request(a)),
               Send_Configure_Nak_Rej(Send_Configure_Request(r)),
               Send_Terminate_Ack(s), Send_Code_Reject(s), f, s}
    <3>1. e \in {"TOPlus", "TOMinus", "RCRPlus", "RCRMinus", "RCA", "RCN", "RTR", "RUC",
                 "RXJMinus", "RXR"}
      BY DEF Events, PeerEvents, TimeoutEvents, OtherEvents
    <3>2. /\ e = "RCRPlus" => t = Send_Configure_Ack(Send_Configure_Request(a))
          /\ e = "RCRMinus" => t = Send_Configure_Nak_Rej(Send_Configure_Request(r))
          /\ e \in {"RCA", "RCN", "RTR"} => t = Send_Terminate_Ack(s)
          /\ e = "RUC" => t = Send_Code_Reject(s)
          /\ e = "RXJMinus" => t = f
          /\ e \in {"TOPlus", "TOMinus", "RXR"} => t = s
      BY <2>1 DEF Stopped
    <3> HIDE DEF a, r, f
    <3>. QED BY <3>1, <3>2
  <2>3. ASSUME NEW state \in {"Ack_Sent", "Req_Sent"}
        PROVE  LET g == SetTimer(InitCount(Goto(s, L, state)), TRUE)
               IN  g \in PPPState /\ g.State[L] = state /\ g.PPP_Phase # "Dead"
    <3> DEFINE g == Goto(s, L, state)
               c == InitCount(g)
    <3>1. g \in PPPState /\ g.State[L] = state /\ g.PPP_Phase # "Dead"
      <4>1. state \in PPP_States BY DEF PPP_States
      <4>2. OnlyLayer(s, g, L) /\ g.State[L] = state BY <1>0, <4>1, GotoEffect
      <4> HIDE DEF g
      <4>. QED BY <1>4, <1>10, <4>2 DEF OnlyLayer
    <3> HIDE DEF g
    <3>2. c \in PPPState /\ c.State[L] = state /\ c.PPP_Phase # "Dead"
      BY <3>1, InitCountSteady DEF Steady, SameControl
    <3> HIDE DEF c
    <3>. QED BY <3>2, SetTimerEffect DEF c, g
  <2>4. /\ a \in PPPState /\ a.State[L] = "Ack_Sent" /\ a.PPP_Phase # "Dead"
        /\ r \in PPPState /\ r.State[L] = "Req_Sent" /\ r.PPP_Phase # "Dead"
    BY <2>3
  <2>5. f.State = s.State BY DEF This_Layer_Finished, PPPState
  <2> HIDE DEF a, r, f
  <2>6. Says(a, Send_Configure_Request(a), Asks(a)) /\ Says(r, Send_Configure_Request(r), Asks(r))
    BY <2>4, RequestSays
  <2>7. /\ Send_Configure_Request(a) \in PPPState
        /\ Send_Configure_Request(a).State[L] = "Ack_Sent"
        /\ Send_Configure_Request(r) \in PPPState
        /\ Send_Configure_Request(r).State[L] = "Req_Sent"
    BY <2>4, <2>6 DEF Says
  <2>8. /\ Send_Configure_Ack(Send_Configure_Request(a)).State[L] = "Ack_Sent"
        /\ Send_Configure_Nak_Rej(Send_Configure_Request(r)).State[L] = "Req_Sent"
    BY <2>7, RepliesSay DEF Says
  <2>9. Send_Terminate_Ack(s).State = s.State /\ Send_Code_Reject(s).State = s.State
    BY RepliesSay DEF Says
  <2>10. t.State[L] \notin Answered BY <1>10, <2>2, <2>5, <2>8, <2>9 DEF Answered
  <2>. QED BY <1>2, <2>10 DEF t
<1>11. CASE /\ s.State[L] = "Opened" /\ LayersUp(s)
            /\ e \in PeerEvents \cup {"RTR", "RXJMinus"}
  <2> DEFINE d == PhysicalDown(s)
  <2>1. t = Opened(e, s, L, d) BY <1>11, PhysicalDispatch DEF t
  <2>2. BackToEstablish(s, d) BY <1>11, PhysicalDownEffect
  <2> HIDE DEF d
  <2>3. d \in PPPState /\ d.PPP_Phase # "Dead" /\ d.OutgoingPacket = "NULL"
    BY <2>2 DEF BackToEstablish
  <2>4. t.State[L] \notin Answered BY <1>0, <1>11, <2>1, <2>3, OpenedBacked
  <2>. QED BY <1>2, <2>4 DEF t
<1>12. CASE LinkOpen(s) /\ e \in {"RUC", "RXR"}
  <2>1. t = Opened(e, s, L, PhysicalDown(s)) BY <1>12, PhysicalDispatch DEF LinkOpen, t
  <2>2. t \in {Send_Code_Reject(s), Send_Echo_Reply(s)} BY <1>12, <2>1 DEF Opened
  <2>3. Says(s, t, {}) BY <2>2, RepliesSay
  <2>. QED BY <2>3, BackedSays DEF t
<1>13. LinkOpen(s) => s.State["Physical"] = "Opened" /\ LayersUp(s)
  BY DEF LinkOpen, UpperOK, LayersUp, Idle, IPCPConsistent
<1>14. Establishing(s) => s.State[L] \in {"Req_Sent", "Ack_Rcvd", "Ack_Sent", "Stopping", "Stopped"}
  BY DEF Establishing, Negotiating
<1>. QED
  BY <1>6, <1>7, <1>8, <1>9, <1>10, <1>11, <1>12, <1>13, <1>14 DEF Events, OtherEvents

(* PAP under negotiation: LCP keeps its answer.                            *)
LEMMA PendingBacked ==
  ASSUME NEW s \in PPPState, LinkOpen(s), NEW e \in {"RCRPlus", "TOPlus", "TOMinus"},
         s.State["Authentication"] \in {"Req_Sent", "Ack_Sent"}, NEW A, Backed(s, A)
  PROVE  LET t == ManageAuthentication(e, s)
         IN  /\ Backed(t, A)
             /\ e = "RCRPlus" => Requested(t.sent) = Requested(s.sent)
<1> DEFINE t == ManageAuthentication(e, s)
           L == "Authentication"
           X == {"Authentication", "Network"}
           up == AuthenticationUp(SetTimer(InitCount(s), FALSE))
<1>0. /\ L \in PPP_Layers /\ PPP_Layers = {"Physical", "Authentication", "Network"}
      /\ e \in Events /\ e \notin {"RXJMinus", "RCA"}
  BY DEF PPP_Layers, Events, PeerEvents, TimeoutEvents
<1>1. /\ s.PPP_Phase # "Dead" /\ s.OutgoingPacket \in {"PAP", "IPCP"} /\ Idle(s, "Network")
  BY DEF LinkOpen, UpperOK, Idle
<1>2. Asks(s) \subseteq X BY <1>0, <1>1 DEF Asks, ProtocolOf
<1>3. /\ s.State[L] = "Req_Sent" => t = Req_Sent(e, s, L)
      /\ s.State[L] = "Ack_Sent" => t = Ack_Sent(e, s, L, up)
  BY AuthenticationDispatch
<1> HIDE DEF t, up
<1>4. StillNegotiating(s, t, L) \/ t = Finish(s, L)
  BY <1>0, <1>1, <1>3, ReqSentStep, AckSentStep
<1>5. OnlyLayer(s, t, L) BY <1>0, <1>4, FinishEffect DEF StillNegotiating
<1>6. Backs(s, t, L, e, X) BY <1>0, <1>1, <1>2, <1>3, NegotiationBacked
<1>7. \A M \in PPP_Layers \ {L} : M \in X => s.State[M] \notin Answered
  BY <1>0, <1>1 DEF Idle, Answered
<1>8. e # "RCA" BY <1>0
<1>9. Backed(t, A)
  <2> HIDE DEF L, X
  <2>. QED BY <1>0, <1>5, <1>6, <1>7, <1>8, BackedStep
<1>10. e = "RCRPlus" => Requested(t.sent) = Requested(s.sent)
  <2>1. "Ack_Sent" \in PPP_States BY DEF PPP_States
  <2>2. Goto(s, L, "Ack_Sent").sent = s.sent BY DEF Goto, PPPState
  <2>3. Requested(Send_Configure_Ack(s).sent) = Requested(s.sent)
    <3>1. Says(s, Send_Configure_Ack(s), {}) BY RepliesSay
    <3>. QED BY <3>1 DEF Says
  <2>4. e = "RCRPlus" => t \in {Goto(s, L, "Ack_Sent"), Send_Configure_Ack(s)}
    BY <1>3 DEF Req_Sent, Ack_Sent
  <2>. QED BY <2>2, <2>3, <2>4
<1>. QED BY <1>9, <1>10 DEF t

(* PAP opens on an answer of its own and starts IPCP, which has none.      *)
LEMMA AuthenticationOpensBacked ==
  ASSUME NEW s \in PPPState, LinkOpen(s), s.State["Authentication"] = "Ack_Sent",
         NEW A, Backed(s, A), "Authentication" \in A \ Requested(s.sent)
  PROVE  Backed(ManageAuthentication("RCA", s), A)
<1> DEFINE c == InitCount(s)
           k == SetTimer(c, FALSE)
           up == AuthenticationUp(k)
           L == "Authentication"
           t == Goto(up, L, "Opened")
<1>0. /\ L \in PPP_Layers /\ PPP_Layers = {"Physical", "Authentication", "Network"}
      /\ "Opened" \in PPP_States
  BY DEF PPP_Layers, PPP_States
<1>1. ManageAuthentication("RCA", s) = t
  BY Zenon DEF ManageAuthentication, PPP_ManageState, Ack_Sent
<1>2. Says(s, c, {}) /\ c \in PPPState BY CountersSay DEF Says
<1> HIDE DEF c
<1>3. Says(c, k, {}) /\ k \in PPPState BY <1>2, CountersSay DEF Says
<1> HIDE DEF k
<1>4. k.State = s.State /\ Requested(k.sent) = Requested(s.sent) BY <1>2, <1>3 DEF Says
<1>5. Idle(k, "Network") BY <1>4 DEF LinkOpen, UpperOK, Idle
<1>6. /\ up \in PPPState /\ up.State["Network"] = "Req_Sent"
      /\ up.State["Physical"] = s.State["Physical"]
      /\ Requested(up.sent) \subseteq Requested(s.sent) \cup {"Network"}
  BY <1>3, <1>4, <1>5, UpAsks
<1> HIDE DEF up
<1>7. OnlyLayer(up, t, L) BY <1>0, <1>6, GotoEffect
<1>8. t.sent = up.sent BY <1>6 DEF Goto, PPPState
<1> HIDE DEF t
<1>9. t.State["Physical"] = s.State["Physical"] /\ t.State["Network"] = "Req_Sent"
  BY <1>0, <1>6, <1>7 DEF OnlyLayer
<1>10. Backed(t, A) BY <1>0, <1>6, <1>8, <1>9 DEF Backed, Answered
<1>. QED BY <1>1, <1>10

(* IPCP going down sends nothing.                                          *)
LEMMA NetworkDownSilent ==
  ASSUME NEW s \in PPPState,
         s.State["Network"] \in {"Initial", "Starting", "Opened"} \cup Negotiating
  PROVE  ManageNetwork("Down", s).sent = s.sent
<1>1. /\ SetTimer(s, FALSE) \in PPPState /\ SetTimer(s, FALSE).sent = s.sent
  BY SetTimerEffect DEF SetTimer, PPPState
<1>2. ClearRequest(s) \in PPPState /\ ClearRequest(s).sent = s.sent BY LayerCallsSay
<1>3. \A u \in PPPState : Goto(u, "Network", "Starting").sent = u.sent BY DEF Goto, PPPState
<1>4. ManageNetwork("Down", s) \in
        {s, Goto(SetTimer(s, FALSE), "Network", "Starting"),
         Goto(ClearRequest(s), "Network", "Starting")}
  BY NetworkLayerDown DEF NetworkDown, Negotiating
<1>. QED BY <1>1, <1>2, <1>3, <1>4

(* An answer of PAP during the network phase: PAP and IPCP give up their   *)
(* answers, and the request sent is the one of IPCP.                       *)
LEMMA AuthenticationReopensBacked ==
  ASSUME NEW s \in PPPState, LinkOpen(s), s.State["Authentication"] = "Opened",
         NEW A, Backed(s, A)
  PROVE  LET t == ManageAuthentication("RCRPlus", s)
         IN  /\ Backed(t, A)
             /\ Requested(t.sent) \subseteq Requested(s.sent) \cup {"Network"}
<1> DEFINE c == ClearRequest(s)
           d == AuthenticationDown(s)
           L == "Authentication"
           t == ManageAuthentication("RCRPlus", s)
<1>0. /\ L \in PPP_Layers /\ PPP_Layers = {"Physical", "Authentication", "Network"}
      /\ "RCRPlus" \in PeerEvents
  BY DEF PPP_Layers, PeerEvents
<1>1. t = Opened("RCRPlus", s, L, d) BY AuthenticationDispatch
<1>2. s.PPP_Phase = "Network" /\ IPCPConsistent(s)
  BY DEF LinkOpen, UpperOK
<1>3. s.State["Network"] \in {"Initial", "Starting", "Opened"} \cup Negotiating
  BY <1>2 DEF IPCPConsistent
<1>4. /\ LayerStopped(c, d, "Network")
      /\ SameControl(s, c) /\ c.OutgoingPacket = "NULL"
  BY <1>3, AuthenticationDownEffect
<1>5. c \in PPPState /\ c.sent = s.sent BY LayerCallsSay
<1>6. d = ManageNetwork("Down", c) BY DEF AuthenticationDown
<1> HIDE DEF c
<1>7. d.sent = s.sent BY <1>3, <1>4, <1>5, <1>6, NetworkDownSilent DEF SameControl
<1> HIDE DEF d, t
<1>8. /\ d \in PPPState /\ d.PPP_Phase = "Network" /\ d.OutgoingPacket = "NULL"
      /\ d.State["Physical"] = s.State["Physical"] /\ Idle(d, "Network")
  BY <1>0, <1>2, <1>4 DEF LayerStopped, OnlyLayer, SameControl
<1>9. /\ t.State[L] \notin Answered
      /\ Requested(t.sent) \subseteq Requested(d.sent) \cup {LayerOf[d.PPP_Phase]}
  BY <1>0, <1>1, <1>8, OpenedBacked
<1>10. LayerOf[d.PPP_Phase] = "Network" BY <1>8 DEF LayerOf
<1>11. OnlyLayer(d, t, L) BY <1>0, <1>1, <1>8, OpenedRestarts DEF Renegotiates
<1>12. t.State["Physical"] = s.State["Physical"] /\ Idle(t, "Network")
  BY <1>0, <1>8, <1>11 DEF OnlyLayer, Idle
<1>13. Backed(t, A)
  BY <1>0, <1>7, <1>9, <1>10, <1>12 DEF Backed, Idle, Answered
<1>. QED BY <1>7, <1>9, <1>10, <1>13 DEF t

(* IPCP leaves the answers of the layers below alone.                      *)
LEMMA NetworkKeepsBacked ==
  ASSUME NEW s \in PPPState, NEW e \in PeerEvents \cup TimeoutEvents, NEW A, Backed(s, A),
         e = "RCA" => "Network" \in A \ Requested(s.sent),
         \/ LinkOK(s)
         \/ /\ s.State["Network"] = "Opened" /\ s.PPP_Phase = "Network" /\ ~s.TimerOn
            /\ e \in PeerEvents
  PROVE  Backed(ManageNetwork(e, s), A)
<1> DEFINE L == "Network"
           X == {"Network"}
           t == ManageNetwork(e, s)
<1>0. L \in PPP_Layers /\ e \in Events BY DEF PPP_Layers, Events
<1>1. CASE Idle(s, L)
  <2>1. t = s BY <1>0, <1>1, IdleStays
  <2>. QED BY <2>1
<1>2. CASE ~Idle(s, L)
  <2>1. /\ s.PPP_Phase = "Network"
        /\ s.State[L] \in Negotiating \cup {"Opened"}
        /\ s.TimerOn <=> s.State[L] # "Opened"
        /\ s.State[L] # "Opened" => s.OutgoingPacket = "IPCP"
        /\ s.State[L] = "Opened" /\ e \notin PeerEvents => s.OutgoingPacket = "NULL"
    BY <1>2 DEF LinkOK, Establishing, LinkOpen, UpperOK, IPCPConsistent, Idle
  <2>2. OnlyLayer(s, t, L) BY <2>1, NetworkStep
  <2>3. Backs(s, t, L, e, X) BY <2>1, NetworkBacked
  <2> HIDE DEF t
  <2>4. \A M \in PPP_Layers \ {L} : M \in X => s.State[M] \notin Answered OBVIOUS
  <2>5. e = "RCA" => L \in A \ Requested(s.sent) OBVIOUS
  <2> HIDE DEF L, X
  <2>6. Backed(t, A) BY <1>0, <2>2, <2>3, <2>4, <2>5, BackedStep
  <2>. QED BY <2>6 DEF t
<1>. QED BY <1>1, <1>2

(* The tests of a packet send nothing.                                     *)
LEMMA MarksSay ==
  ASSUME NEW s \in PPPState, NEW A, Backed(s, A)
  PROVE  /\ Backed(MarkREJ(s), A) /\ Backed(MarkNAK(s), A) /\ Backed(Unmark(s), A)
         /\ s.CurrentProtocol \in {"LCP", "IPCP"} => Backed(PPP_ProcessNAK(s), A)
<1>1. /\ MarkREJ(s).State = s.State /\ MarkREJ(s).sent = s.sent
      /\ MarkNAK(s).State = s.State /\ MarkNAK(s).sent = s.sent
      /\ Unmark(s).State = s.State /\ Unmark(s).sent = s.sent
      /\ PPP_ProcessNAK(s).State = s.State /\ PPP_ProcessNAK(s).sent = s.sent
  BY DEF MarkREJ, MarkNAK, Unmark, PPP_ProcessNAK, PPPState
<1>. QED BY <1>1 DEF Backed

(* HandleLCP: the acknowledgement that raises RCA is of the last request.  *)
LEMMA LCPBacked ==
  ASSUME NEW s \in PPPState, LinkOK(s), s.CurrentProtocol = "LCP", NEW A, Backed(s, A),
         s.uip_buf.code = "ACK" /\ InSync(s) => "Physical" \in A \ Requested(s.sent)
  PROVE  Backed(HandleLCP(s), A)
<1>1. {"RCRPlus", "RCRMinus", "RCN", "RXR", "RTR", "RXJMinus", "RUC"}
        \subseteq Events \ TimeoutEvents
      /\ "RCA" \in Events \ TimeoutEvents
  BY DEF Events, PeerEvents, OtherEvents, TimeoutEvents
<1>2. ASSUME NEW e \in {"RCRPlus", "RCRMinus", "RCN", "RXR", "RTR", "RXJMinus", "RUC"},
             NEW t \in PPPState, Steady(s, t), Backed(t, A)
      PROVE  Backed(ManagePhysical(e, t), A)
  <2>1. e \in Events /\ e \notin TimeoutEvents /\ e # "RCA" BY <1>1
  <2>2. LinkOK(t) BY <1>2, LinkSteady
  <2>. QED BY <1>2, <2>1, <2>2, PhysicalBacked DEF LinkOK
<1>3. /\ MarkREJ(s) \in PPPState /\ MarkNAK(s) \in PPPState /\ Unmark(s) \in PPPState
      /\ Steady(s, MarkREJ(s)) /\ Steady(s, MarkNAK(s)) /\ Steady(s, Unmark(s))
      /\ Steady(s, s)
  BY MarksSteady, SelfSteady DEF Steady, SameControl
<1>4. Backed(MarkREJ(s), A) /\ Backed(MarkNAK(s), A) /\ Backed(Unmark(s), A)
  BY MarksSay
<1>5. /\ Backed(ManagePhysical("RCRMinus", MarkREJ(s)), A)
      /\ Backed(ManagePhysical("RCRMinus", MarkNAK(s)), A)
      /\ Backed(ManagePhysical("RCRPlus", Unmark(s)), A)
      /\ Backed(ManagePhysical("RCN", s), A)
      /\ Backed(ManagePhysical("RXR", s), A)
      /\ Backed(ManagePhysical("RTR", s), A)
      /\ Backed(ManagePhysical("RXJMinus", s), A)
      /\ Backed(ManagePhysical("RUC", s), A)
  BY <1>2, <1>3, <1>4
<1>6. s.uip_buf.code = "ACK" /\ InSync(s) => Backed(ManagePhysical("RCA", s), A)
  BY <1>1, PhysicalBacked DEF LinkOK
<1>7. Backed(ManagePhysical("RCN", PPP_ProcessNAK(s)), A)
  <2> DEFINE n == PPP_ProcessNAK(s)
  <2>1. SameControl(s, n) /\ (s.OutgoingPacket # "NULL" => n = s) BY ProcessNAKEffect
  <2>2. Backed(n, A) BY MarksSay
  <2> HIDE DEF n
  <2>3. n \in PPPState /\ "RCN" \in Events /\ "RCN" \in PeerEvents /\ "RCN" # "RCA"
    BY <2>1 DEF SameControl, Events, PeerEvents
  <2>4. Establishing(s) => Establishing(n)
    BY <2>1 DEF SameControl, Establishing, Idle
  <2>5. LinkOpen(s) => n.State["Physical"] = "Opened" /\ LayersUp(n)
    BY <2>1 DEF SameControl, LinkOpen, UpperOK, LayersUp, Idle, IPCPConsistent
  <2>6. Backed(ManagePhysical("RCN", n), A)
    BY <2>2, <2>3, <2>4, <2>5, PhysicalBacked DEF LinkOK
  <2>. QED BY <2>6 DEF n
<1>8. HandleLCP(s) \in {ManagePhysical("RCRMinus", MarkREJ(s)),
         ManagePhysical("RCRMinus", MarkNAK(s)), ManagePhysical("RCRPlus", Unmark(s)),
         ManagePhysical("RCN", s), ManagePhysical("RXR", s),
         ManagePhysical("RTR", s), ManagePhysical("RXJMinus", s), ManagePhysical("RUC", s),
         ManagePhysical("RCN", PPP_ProcessNAK(s)), s}
      \/ (s.uip_buf.code = "ACK" /\ InSync(s) /\ HandleLCP(s) = ManagePhysical("RCA", s))
  BY DEF HandleLCP
<1>. QED BY <1>5, <1>6, <1>7, <1>8

(* HandlePAP: any acknowledgement counts, and the request that is          *)
(* simulated before it sends none of PAP.                                  *)
LEMMA PAPBacked ==
  ASSUME NEW s \in PPPState, LinkOK(s), NEW A, Backed(s, A),
         s.uip_buf.code = "ACK" => "Authentication" \in A \ Requested(s.sent)
  PROVE  Backed(HandlePAP(s), A)
<1> DEFINE t == ManageAuthentication("RCRPlus", s)
           u == ManageAuthentication("RCA", t)
<1>1. HandlePAP(s) \in {s, t} \/ (s.uip_buf.code = "ACK" /\ HandlePAP(s) = u)
  BY DEF HandlePAP
<1>2. CASE Idle(s, "Authentication")
  <2>1. "RCRPlus" \in Events /\ "RCA" \in Events BY DEF Events, PeerEvents
  <2>2. t = s /\ ManageAuthentication("RCA", s) = s BY <1>2, <2>1, IdleStays
  <2>. QED BY <1>1, <2>2
<1>3. CASE ~Idle(s, "Authentication")
  <2>1. LinkOpen(s) BY <1>3 DEF LinkOK, Establishing
  <2>2. AuthenticationHandled(s, t, "RCRPlus")
    BY <2>1, AuthenticationPending, AuthenticationReopens DEF LinkOpen, UpperOK
  <2>3. Backed(t, A) /\ Requested(t.sent) \subseteq Requested(s.sent) \cup {"Network"}
    <3>1. CASE s.State["Authentication"] \in {"Req_Sent", "Ack_Sent"}
      <4>1. Backed(t, A) BY <2>1, <3>1, PendingBacked
      <4>2. Requested(t.sent) = Requested(s.sent) BY <2>1, <3>1, PendingBacked
      <4>. QED BY <4>1, <4>2
    <3>2. CASE s.State["Authentication"] = "Opened"
      BY <2>1, <3>2, AuthenticationReopensBacked
    <3>. QED BY <2>1, <3>1, <3>2 DEF LinkOpen, UpperOK
  <2> HIDE DEF t
  <2>4. /\ t \in PPPState /\ LinkOpen(t) /\ t.State["Authentication"] = "Ack_Sent"
    BY <2>2 DEF AuthenticationHandled
  <2>5. s.uip_buf.code = "ACK" => Backed(u, A)
    BY <2>3, <2>4, AuthenticationOpensBacked
  <2>. QED BY <1>1, <2>3, <2>5
<1>. QED BY <1>2, <1>3

(* HandleIPCP: as LCP.                                                     *)
LEMMA IPCPBacked ==
  ASSUME NEW s \in PPPState, LinkOK(s), s.CurrentProtocol = "IPCP", NEW A, Backed(s, A),
         s.uip_buf.code = "ACK" /\ InSync(s) => "Network" \in A \ Requested(s.sent)
  PROVE  Backed(HandleIPCP(s), A)
<1>1. {"RCRPlus", "RCRMinus", "RCN"} \subseteq PeerEvents /\ "RCA" \in PeerEvents
  BY DEF PeerEvents
<1>2. ASSUME NEW e \in {"RCRPlus", "RCRMinus", "RCN"},
             NEW t \in PPPState, Steady(s, t), Backed(t, A)
      PROVE  Backed(ManageNetwork(e, t), A)
  <2>1. LinkOK(t) BY <1>2, LinkSteady
  <2>2. e \in PeerEvents \cup TimeoutEvents /\ e # "RCA" BY <1>1
  <2>. QED BY <1>2, <2>1, <2>2, NetworkKeepsBacked
<1>3. /\ MarkREJ(s) \in PPPState /\ Unmark(s) \in PPPState
      /\ Steady(s, MarkREJ(s)) /\ Steady(s, Unmark(s)) /\ Steady(s, s)
  BY MarksSteady, SelfSteady DEF Steady, SameControl
<1>4. Backed(MarkREJ(s), A) /\ Backed(Unmark(s), A)
  BY MarksSay
<1>5. /\ Backed(ManageNetwork("RCRMinus", MarkREJ(s)), A)
      /\ Backed(ManageNetwork("RCRPlus", Unmark(s)), A)
      /\ Backed(ManageNetwork("RCN", s), A)
  BY <1>2, <1>3, <1>4
<1>6. s.uip_buf.code = "ACK" /\ InSync(s) => Backed(ManageNetwork("RCA", s), A)
  BY <1>1, NetworkKeepsBacked
<1>7. Backed(ManageNetwork("RCN", PPP_ProcessNAK(s)), A)
  <2> DEFINE n == PPP_ProcessNAK(s)
  <2>1. SameControl(s, n) /\ (s.OutgoingPacket # "NULL" => n = s) BY ProcessNAKEffect
  <2>2. Backed(n, A) BY MarksSay
  <2> HIDE DEF n
  <2>3. n \in PPPState /\ "RCN" \in PeerEvents \cup TimeoutEvents /\ "RCN" \in PeerEvents
        /\ "RCN" # "RCA"
    BY <2>1 DEF SameControl, PeerEvents
  <2>4. LinkOK(n) \/ (n.State["Network"] = "Opened" /\ n.PPP_Phase = "Network" /\ ~n.TimerOn)
    <3>1. CASE Establishing(s)
      BY <2>1, <3>1 DEF SameControl, LinkOK, Establishing, Idle
    <3>2. CASE LinkOpen(s) /\ s.OutgoingPacket # "NULL"
      BY <2>1, <3>2
    <3>3. CASE LinkOpen(s) /\ s.OutgoingPacket = "NULL"
      BY <2>1, <3>3 DEF SameControl, LinkOpen, UpperOK, IPCPConsistent
    <3>. QED BY <3>1, <3>2, <3>3 DEF LinkOK
  <2>5. Backed(ManageNetwork("RCN", n), A) BY <2>2, <2>3, <2>4, NetworkKeepsBacked
  <2>. QED BY <2>5 DEF n
<1>8. HandleIPCP(s) \in {ManageNetwork("RCRMinus", MarkREJ(s)),
         ManageNetwork("RCRPlus", Unmark(s)),
         ManageNetwork("RCN", s), ManageNetwork("RCN", PPP_ProcessNAK(s)), s}
      \/ (s.uip_buf.code = "ACK" /\ InSync(s) /\ HandleIPCP(s) = ManageNetwork("RCA", s))
  BY DEF HandleIPCP
<1>. QED BY <1>5, <1>6, <1>7, <1>8

(* A datagram of the peer is no request.                                   *)
LEMMA DatagramIsData ==
  ASSUME NEW packet \in PeerPackets["IP"]
  PROVE  packet.code = "DATA"
<1>1. packet \in [code : {"DATA"}, id : {0}, options : {"none"}] BY Zenon DEF PeerPackets
<1>. QED BY <1>1

(* PPP_ManageLink: the peer's acknowledgement adds the layer it is of.     *)
LEMMA ReceiveBacked ==
  ASSUME NEW s \in PPPState, LinkOK(s), NEW protocol \in PeerProtocols,
         NEW packet \in PeerPackets[protocol], NEW answers \in BOOLEAN,
         NEW A, Backed(s, A),
         \A L \in PPP_Layers :
           /\ protocol = ProtocolOf[L] /\ packet.code = "ACK"
           /\ L = "Authentication" \/ packet.id = s.OutgoingPacketID
           => L \in A \ Requested(s.sent)
  PROVE  Backed(PPP_ManageLink(s, protocol, packet, answers), A)
<1> DEFINE r == [s EXCEPT !.CurrentProtocol = protocol, !.uip_buf = packet, !.uip_len = 1]
           z == [r EXCEPT !.uip_len = 0]
<1>0. protocol \in Protocols /\ packet \in Packets BY PeerPacketsTyped
<1>1. Steady(s, r) /\ r.CurrentProtocol = protocol /\ r.uip_buf = packet
      /\ r.sent = s.sent /\ r.State = s.State /\ r.OutgoingPacketID = s.OutgoingPacketID
  BY <1>0 DEF Steady, SameControl, PPPState
<1>2. PPP_ManageLink(s, protocol, packet, answers) =
        CASE protocol = "LCP"  -> HandleLCP(r)
          [] protocol = "PAP"  -> HandlePAP(r)
          [] protocol = "IPCP" -> HandleIPCP(r)
          [] protocol = "IP"   -> TCPIP_GotNewPacket(r, answers)
          [] OTHER             -> r
  BY Zenon DEF PPP_ManageLink
<1> HIDE DEF r
<1>3. r \in PPPState /\ LinkOK(r) /\ Backed(r, A)
  <2>1. r \in PPPState /\ LinkOK(r) BY <1>1, LinkSteady DEF Steady, SameControl
  <2>. QED BY <1>1, <2>1 DEF Backed
<1>4. ASSUME NEW L \in PPP_Layers, protocol = ProtocolOf[L], r.uip_buf.code = "ACK",
             L = "Authentication" \/ InSync(r)
      PROVE  L \in A \ Requested(r.sent)
  BY <1>1, <1>4 DEF InSync
<1>5. PPP_Layers = {"Physical", "Authentication", "Network"}
      /\ ProtocolOf["Physical"] = "LCP" /\ ProtocolOf["Authentication"] = "PAP"
      /\ ProtocolOf["Network"] = "IPCP"
  BY DEF PPP_Layers, ProtocolOf
<1>6. protocol = "LCP" => Backed(HandleLCP(r), A) BY <1>1, <1>3, <1>4, <1>5, LCPBacked
<1>7. protocol = "PAP" => Backed(HandlePAP(r), A) BY <1>1, <1>3, <1>4, <1>5, PAPBacked
<1>8. protocol = "IPCP" => Backed(HandleIPCP(r), A) BY <1>1, <1>3, <1>4, <1>5, IPCPBacked
<1>9. protocol = "IP" => Backed(TCPIP_GotNewPacket(r, answers), A)
  <2> SUFFICES ASSUME protocol = "IP" PROVE Backed(TCPIP_GotNewPacket(r, answers), A)
    OBVIOUS
  <2>1. z.State = r.State /\ z.sent = r.sent BY <1>3 DEF PPPState
  <2>2. TCPIP_GotNewPacket(r, answers) \in {network_send(r, "IP"), z}
    BY DEF TCPIP_GotNewPacket
  <2> HIDE DEF z
  <2>3. Backed(z, A) BY <1>3, <2>1 DEF Backed
  <2>4. r.uip_buf.code # "REQ" BY <1>1, DatagramIsData
  <2> DEFINE X == {}
  <2>5. \A L \in PPP_Layers : r.uip_buf.code = "REQ" /\ r.uip_buf.options = ProtocolOf[L] => L \in X
    BY <2>4
  <2> HIDE DEF X
  <2>6. Says(r, network_send(r, "IP"), X) BY <1>3, <2>5, SendSays DEF Protocols
  <2>7. Says(r, network_send(r, "IP"), {}) BY <2>6 DEF X
  <2>8. Backed(network_send(r, "IP"), A) BY <1>3, <2>7, BackedSays
  <2>. QED BY <2>2, <2>3, <2>8
<1>. QED BY <1>2, <1>3, <1>6, <1>7, <1>8, <1>9

(* A timeout is no acknowledgement.                                        *)
LEMMA TimeoutBacked ==
  ASSUME NEW s \in PPPState, LinkOK(s), NEW A, Backed(s, A)
  PROVE  Backed(Timeout(s), A)
<1> DEFINE e == TimeoutEvent(s)
<1>0. /\ e \in TimeoutEvents /\ e \in Events /\ e # "RCA" /\ e \in {"RCRPlus", "TOPlus", "TOMinus"}
      /\ e \in PeerEvents \cup TimeoutEvents
  BY DEF TimeoutEvent, TimeoutEvents, Events
<1>1. CASE s.PPP_Phase = "Establish"
  <2>1. Timeout(s) = ManagePhysical(e, s) BY <1>1 DEF Timeout
  <2>2. Establishing(s) BY <1>1 DEF LinkOK, LinkOpen, UpperOK
  <2> HIDE DEF e
  <2>3. Backed(ManagePhysical(e, s), A) BY <1>0, <2>2, PhysicalBacked
  <2>. QED BY <2>1, <2>3
<1>2. CASE s.PPP_Phase = "Authenticate"
  <2>1. Timeout(s) = ManageAuthentication(e, s) BY <1>2 DEF Timeout
  <2>2. LinkOpen(s) /\ s.State["Authentication"] \in {"Req_Sent", "Ack_Sent"}
    BY <1>2 DEF LinkOK, LinkOpen, UpperOK, Establishing
  <2> HIDE DEF e
  <2>3. Backed(ManageAuthentication(e, s), A) BY <1>0, <2>2, PendingBacked
  <2>. QED BY <2>1, <2>3
<1>3. CASE s.PPP_Phase = "Network"
  <2>1. Timeout(s) = ManageNetwork(e, s) BY <1>3 DEF Timeout
  <2> HIDE DEF e
  <2>2. Backed(ManageNetwork(e, s), A) BY <1>0, NetworkKeepsBacked
  <2>. QED BY <2>1, <2>2
<1>4. s.PPP_Phase # "Dead" BY DEF LinkOK, Establishing, LinkOpen, UpperOK
<1>. QED BY <1>1, <1>2, <1>3, <1>4 DEF PPPState, PPP_Phases

(* Nor is a tick of the link's timer.                                      *)
LEMMA LinkTimerBacked ==
  ASSUME NEW s \in PPPState, LinkOK(s), s.TimerOn, NEW A, Backed(s, A)
  PROVE  Backed(PPP_LinkTimer(s), A)
<1> DEFINE x == s.LinkTimer + 1
           u == [s EXCEPT !.LinkTimer = x]
           t == Timeout(s)
           b == IF t.rebooting = "main" THEN "ISR" ELSE t.rebooting
           v == [t EXCEPT !.LinkTimer = 0, !.rebooting = b]
<1>1. PPP_LinkTimer(s) \in {s, u, v} BY Zenon DEF PPP_LinkTimer
<1>2. Backed(t, A) BY TimeoutBacked
<1>3. t \in PPPState BY TimeoutStep DEF TimedOut
<1> HIDE DEF t, x, b
<1>4. u.State = s.State /\ u.sent = s.sent BY DEF PPPState
<1>5. v.State = t.State /\ v.sent = t.sent BY <1>3 DEF PPPState
<1> HIDE DEF u, v
<1>6. Backed(u, A) /\ Backed(v, A) BY <1>2, <1>4, <1>5 DEF Backed
<1>. QED BY <1>1, <1>6

(* A link that is started holds no answer.                                 *)
LEMMA StartLinkBacked ==
  ASSUME NEW s \in PPPState, NEW A
  PROVE  Backed(PPP_StartLink(s), A)
<1> DEFINE r == [s EXCEPT !.OutgoingPacket = "NULL", !.CurrentProtocol = "NONE",
              !.TimerOn = FALSE, !.LinkTimer = 0, !.uip_len = 0,
              !.RestartCount = MAX_RESTARTS,
              !.MarkForNAK = FALSE, !.MarkForREJ = FALSE,
              !.OutgoingPacketID = UINT8 - 1,
              !.State = [L \in PPP_Layers |-> "Initial"],
              !.PPP_Phase = "Establish"]
           t == ManagePhysical("Up", ManagePhysical("Open", r))
<1>0. "Physical" \in PPP_Layers BY DEF PPP_Layers
<1>1. /\ r \in PPPState /\ r.PPP_Phase = "Establish"
      /\ \A L \in PPP_Layers : Idle(r, L)
  BY ByteArithmetic DEF PPPState, PPP_Phases, PPP_States, Protocols, Idle
<1>2. PPP_StartLink(s) = t BY DEF PPP_StartLink
<1> HIDE DEF r
<1>3. Started(r, t, "Physical") BY <1>0, <1>1, LayerStarts
<1>4. LinkOK(t) BY <1>2, StartLinkStep
<1> HIDE DEF t
<1>5. t.State["Physical"] \notin Answered BY <1>3 DEF Started, Answered
<1>. QED BY <1>2, <1>4, <1>5, NothingAnswered

(* The inductive invariant: the answers at hand are of the last requests.  *)
(* Ack_Rcvd holds one as much as Opened does, and it opens the layer with  *)
(* no further answer.                                                      *)
AnswersBacked ==
  ppp.PPP_Phase # "Dead" => \A L \in PPP_Layers : ppp.State[L] \in Answered => L \in acked

(* A step that has sent its frames and forgets the packet: the histories   *)
(* of acked and Requested meet.                                            *)
LEMMA ForgetKeeps ==
  ASSUME NEW t \in PPPState, NEW A, Backed(t, A), ppp' = Forget(t),
         acked' = A \ Requested(ppp'.sent)
  PROVE  AnswersBacked'
<1> DEFINE f == Forget(t)
<1>1. f.State = t.State /\ f.sent = t.sent BY DEF Forget, PPPState
<1> HIDE DEF f
<1>2. ppp' = f BY DEF f
<1>. QED BY <1>1, <1>2 DEF AnswersBacked, Backed

(* Every action keeps the answers backed.                                  *)
LEMMA StepAnswers == IInv /\ AnswersBacked /\ [Next]_vars => AnswersBacked'
<1> SUFFICES ASSUME IInv, AnswersBacked, [Next]_vars PROVE AnswersBacked'
  OBVIOUS
<1> DEFINE q == Quiet(ppp)
<1>0. ppp \in PPPState BY DEF IInv, TypeOK
<1>1. q \in PPPState /\ Steady(ppp, q)
  BY <1>0, QuietSteady DEF Steady, SameControl
<1>2. /\ q.State = ppp.State /\ q.sent = <<>> /\ q.PPP_Phase = ppp.PPP_Phase
      /\ q.OutgoingPacketID = ppp.OutgoingPacketID /\ q.TimerOn = ppp.TimerOn
  BY <1>0 DEF Quiet, PPPState
<1> HIDE DEF q
<1>3. Requested(q.sent) = {} BY <1>2 DEF Requested
<1>4. ASSUME NEW A, acked \subseteq A, ppp.PPP_Phase # "Dead" PROVE Backed(q, A)
  BY <1>2, <1>3, <1>4 DEF AnswersBacked, Backed
<1>5. ASSUME ppp.rebooting = "no", ppp.PPP_Phase # "Dead" \/ ppp.TimerOn
      PROVE  LinkOK(q) /\ ppp.PPP_Phase # "Dead"
  <2>1. LinkOK(ppp) /\ ppp.PPP_Phase # "Dead"
    BY <1>5 DEF IInv, Running, LinkInv, LinkDead, LinkOK, Establishing, LinkOpen, UpperOK
  <2>. QED BY <1>0, <1>1, <2>1, LinkSteady
<1>6. CASE StartLink
  <2> DEFINE t == PPP_StartLink(q)
             f == Forget(t)
             r == [f EXCEPT !.ConnectedState = "WaitForLink"]
  <2>1. ppp' = r BY <1>6 DEF StartLink, q
  <2>2. t \in PPPState /\ Backed(t, {}) BY <1>1, StartLinkStep, StartLinkBacked DEF LinkOK
  <2> HIDE DEF t
  <2>3. f.State = t.State /\ f \in PPPState
    BY <2>2, QuietSteady DEF Steady, SameControl
  <2> HIDE DEF f
  <2>4. r.State = f.State BY <2>3 DEF PPPState
  <2> HIDE DEF r
  <2>. QED BY <2>1, <2>2, <2>3, <2>4 DEF AnswersBacked, Backed
<1>7. CASE InitPPP
  <2> DEFINE i == PPP_InitPPP(q)
             r == [i EXCEPT !.ConnectedState = "Idle"]
  <2>1. ppp' = r BY <1>7 DEF InitPPP, q
  <2>2. r.PPP_Phase = "Dead" BY <1>1 DEF PPP_InitPPP, PPPState
  <2> HIDE DEF r
  <2>. QED BY <2>1, <2>2 DEF AnswersBacked
<1>8. ASSUME NEW protocol \in PeerProtocols, NEW packet \in PeerPackets[protocol],
             Receive(protocol, packet)
      PROVE  AnswersBacked'
  <2>1. PICK answers \in BOOLEAN :
          ppp' = Forget(PPP_ManageLink(q, protocol, packet, answers))
    BY <1>8 DEF Receive, q
  <2> DEFINE A == acked \cup Acknowledges(protocol, packet)
             t == PPP_ManageLink(q, protocol, packet, answers)
  <2>2. acked' = A \ Requested(ppp'.sent) BY <1>8 DEF Receive
  <2>3. LinkOK(q) /\ ppp.PPP_Phase # "Dead" BY <1>5, <1>8 DEF Receive
  <2>4. Backed(q, A) BY <1>4, <2>3
  <2>5. ASSUME NEW L \in PPP_Layers, protocol = ProtocolOf[L], packet.code = "ACK",
               L = "Authentication" \/ packet.id = q.OutgoingPacketID
        PROVE  L \in A \ Requested(q.sent)
    BY <1>2, <1>3, <2>5 DEF Acknowledges
  <2> HIDE DEF A
  <2>6. Backed(t, A) BY <1>1, <2>3, <2>4, <2>5, ReceiveBacked
  <2>7. t \in PPPState BY <1>1, <2>3, PeerPacketsTyped, ReceiveStep DEF LinkOK
  <2> HIDE DEF t
  <2>8. ppp' = Forget(t) BY <2>1 DEF t
  <2>. QED BY <2>2, <2>6, <2>7, <2>8, ForgetKeeps
<1>9. CASE Tick
  <2> DEFINE t == PPP_LinkTimer(q)
             A == acked
  <2>1. ppp' = Forget(t) /\ acked' = A \ Requested(ppp'.sent) BY <1>9 DEF Tick, q
  <2>2. LinkOK(q) /\ ppp.PPP_Phase # "Dead" /\ q.TimerOn BY <1>2, <1>5, <1>9 DEF Tick
  <2>3. Backed(q, A) BY <1>4, <2>2
  <2> HIDE DEF A
  <2>4. Backed(t, A) BY <1>1, <2>2, <2>3, LinkTimerBacked
  <2>5. t \in PPPState BY <1>1, <2>2, LinkTimerStep
  <2> HIDE DEF t
  <2>. QED BY <2>1, <2>4, <2>5, ForgetKeeps
<1>10. CASE Reset
  <2>1. ppp' = ResetState BY <1>10 DEF Reset
  <2>. QED BY <2>1 DEF AnswersBacked, ResetState
<1>11. CASE RebootReturns
  <2> DEFINE r == [q EXCEPT !.rebooting = "no"]
  <2>1. ppp' = r /\ acked' = acked BY <1>11 DEF RebootReturns, q
  <2>2. r.State = q.State /\ r.PPP_Phase = q.PPP_Phase BY <1>1 DEF PPPState
  <2> HIDE DEF r
  <2>. QED BY <1>2, <2>1, <2>2 DEF AnswersBacked
<1>12. CASE UNCHANGED <<ppp, acked>>
  BY <1>12 DEF AnswersBacked
<1>. QED
  BY <1>6, <1>7, <1>8, <1>9, <1>10, <1>11, <1>12 DEF Next, FallSilent, vars

(* No layer opens on a stale answer: in every reachable state, the peer    *)
(* has acknowledged the last request sent for each open layer, although    *)
(* the three layers share one identifier that each new phase restarts, and *)
(* one request buffer that a timeout sends again.                          *)
THEOREM OpenedOnlyOnceAcked == Spec => []AckedBeforeOpened
<1>1. Init => IInv /\ AnswersBacked
  <2>1. Init => IInv BY ResetTyped DEF Init, IInv, TypeOK, LinkInv, LinkDead
  <2>2. Init => AnswersBacked BY DEF Init, AnswersBacked, ResetState
  <2>. QED BY <2>1, <2>2
<1>2. IInv /\ AnswersBacked /\ [Next]_vars => (IInv /\ AnswersBacked)'
  BY StepInvariant, StepAnswers
<1>3. IInv /\ AnswersBacked => AckedBeforeOpened
  BY DEF AnswersBacked, AckedBeforeOpened, Answered
<1>. QED BY <1>1, <1>2, <1>3, PTL DEF Spec

=============================================================================
