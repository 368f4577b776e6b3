--------------------------------- MODULE TCP ---------------------------------
(***************************************************************************)
(* TCP as uIP speaks it (src/uIP-Contiki/uip.c) with the application over  *)
(* it (src/TCPIP.c): the table of connections, the periodic timer that     *)
(* retransmits, the input of segments and the callback that reconnects     *)
(* whenever a connection ends.  Around them: the server, and a network     *)
(* that loses, duplicates and reorders.                                    *)
(*                                                                         *)
(* As in module PPP the statics are the fields of a record, `uip', and a   *)
(* function of the code is an operator from such a record to the one it    *)
(* leaves behind; a label of uip_process is an operator too.  A handler    *)
(* leaves the segment to send, if any, in `out'.                           *)
(*                                                                         *)
(* Data: a request of the application is one unit of sequence space and    *)
(* always fits the peer's window and MSS; a segment of the server carries  *)
(* a few units, each known by its connection and offset.  A sequence       *)
(* number is the pair of an initial number and an offset.  Time goes in    *)
(* periods of Periodic_Timer, 0.5 s.  uip_stop is never called             *)
(* (TCPIP_IsDataQueueFull is false), and nothing listens.                  *)
(*                                                                         *)
(* A definition named Mutant... is the next one with a plausible mistake:  *)
(* the properties below are broken when it takes its place.                *)
(***************************************************************************)
EXTENDS Integers, FiniteSets, Sequences

CONSTANTS
  UIP_CONNS,              \* slots of the connection table: 5 in the code
  UIP_RTO,                \* first retransmission timeout, in periods: 3
  UIP_MAXRTX,             \* retransmissions before giving up: 8
  UIP_MAXSYNRTX,          \* the same for a SYN: 5
  UIP_TIME_WAIT_TIMEOUT,  \* periods: 120
  PORT_INIT,              \* lastport after uip_init: 1024
  PORT_RESTART,           \* where lastport goes on from: 4096
  PORT_LIMIT,             \* when it gets here: 32000
  CONNECT_SPACING,        \* periods between two attempts to connect: 20
  GET_SPACING,            \* periods between two requests: 60
  CALLBACK_DELAY,         \* periods the callback waits before it reconnects: 2
  Rtos,                   \* what the estimator makes of a round trip time
  UrgentPointers,         \* what the server's segments have in their urgent pointer
  Capacity,               \* bound: segments under way in a direction
  MaxConnects,            \* bound: attempts to connect between two reboots
  MaxAccepts,             \* bound: connections the server accepts
  MaxRestarts,            \* bound: how often the link or the device restarts
  MaxGets,                \* bound: requests on a connection
  MaxData                 \* bound: units the server writes on a connection

ASSUME ConstantsAssumption ==
  /\ UIP_CONNS \in Nat \ {0}
  /\ UIP_RTO \in Nat /\ UIP_MAXRTX \in Nat /\ UIP_MAXSYNRTX \in Nat
  /\ UIP_TIME_WAIT_TIMEOUT \in Nat
  /\ PORT_INIT \in Nat /\ PORT_RESTART \in Nat /\ PORT_LIMIT \in Nat
  /\ PORT_INIT < PORT_RESTART /\ PORT_RESTART + UIP_CONNS < PORT_LIMIT
  /\ CONNECT_SPACING \in Nat /\ GET_SPACING \in Nat /\ CONNECT_SPACING < GET_SPACING
  /\ CALLBACK_DELAY \in Nat
  /\ Rtos \subseteq Nat /\ UrgentPointers \subseteq Nat
  /\ Capacity \in Nat /\ MaxConnects \in Nat /\ MaxAccepts \in Nat
  /\ MaxRestarts \in Nat /\ MaxGets \in Nat /\ MaxData \in Nat

----------------------------------------------------------------------------
(* Types *)

Slots == 0..(UIP_CONNS - 1)
Ports == (PORT_INIT + 1)..(PORT_LIMIT - 1)

TcpStates == {"CLOSED", "SYN_SENT", "ESTABLISHED", "LAST_ACK", "FIN_WAIT_1",
              "FIN_WAIT_2", "CLOSING", "TIME_WAIT"}

Seqs == Nat \X Nat
uip_add32(seq, n) == <<seq[1], seq[2] + n>>

Flags == {"SYN", "ACK", "FIN", "RST", "PSH", "URG"}
Segments == [port : Ports, flags : SUBSET Flags, seq : Seqs, ack : Seqs,
             len : Nat, urgp : Nat]

Connection ==
  [tcpstate : TcpStates, lport : Ports \cup {0}, snd_nxt : Seqs, rcv_nxt : Seqs,
   len : Nat, timer : Nat, nrtx : Nat, rto : Nat]

uip_outstanding(conn) == conn.len > 0

\* Nothing but rcv_nxt is read of a closed connection before uip_connect sets it
Closed(conn) ==
  [tcpstate |-> "CLOSED", lport |-> 0, snd_nxt |-> <<0, 0>>, rcv_nxt |-> conn.rcv_nxt,
   len |-> 0, timer |-> 0, nrtx |-> 0, rto |-> 0]

\* SystemTicks, in periods, counts far enough for every comparison with it
MaxTicks == GET_SPACING + 1
Later(ticks, n) == IF ticks + n > MaxTicks THEN MaxTicks ELSE ticks + n

UipFlags == {"ACKDATA", "NEWDATA", "REXMIT", "POLL", "CLOSE", "ABORT",
             "CONNECTED", "TIMEDOUT"}

UipState ==
  [conns          : [Slots -> Connection],
   lastport       : Nat,
   iss            : Nat,                       \* attempts to connect since the boot
   ConnectedState : {"ConnectToRemoteHost", "ManageTCPConnection"},
   SystemTicks    : 0..MaxTicks,
   late           : Nat,                       \* periods Periodic_Timer is behind
   i              : 0..UIP_CONNS,              \* the loop of TCPIP_TCPIPTask
   uip_flags      : SUBSET UipFlags,           \* empty between two handlers
   uip_slen       : {0, 1},
   out            : SUBSET Segments,           \* uip_buf, when uip_len > 0
   received       : [1..MaxAccepts -> Seq(Nat \X Nat)],  \* history: what the callback was
   ended          : SUBSET (1..MaxAccepts)]              \* handed, the ends it was told of

ServerStates == {"LISTEN", "SYN_RCVD", "ESTABLISHED", "FIN_WAIT", "TIME_WAIT"}

\* una is the first offset not acknowledged, nxt the first not yet sent
ServerConnection == [state : ServerStates, isn : Nat, una : Nat, nxt : Nat, rcv_nxt : Seqs]

Listening == [state |-> "LISTEN", isn |-> 0, una |-> 0, nxt |-> 0, rcv_nxt |-> <<0, 0>>]

VARIABLES
  uip,
  server,     \* the server's end of a connection, by the port of ours
  accepted,   \* how many connections it has accepted
  written,    \* what it has written on each
  finished,   \* those it has closed in order
  toServer,   \* segments under way
  toClient,
  restarts

vars == <<uip, server, accepted, written, finished, toServer, toClient, restarts>>

----------------------------------------------------------------------------
(* Leaving uip_process *)

MutantDrop(s) == [s EXCEPT !.out = {}, !.uip_slen = 0]  \* uip_flags stay
Drop(s) == [s EXCEPT !.out = {}, !.uip_flags = {}, !.uip_slen = 0]

tcp_send(s, c, flags, len) ==
  LET conn == s.conns[c]
  IN  [s EXCEPT !.out = {[port |-> conn.lport, flags |-> flags, seq |-> conn.snd_nxt,
                          ack |-> conn.rcv_nxt, len |-> len, urgp |-> 0]},
                !.uip_flags = {}, !.uip_slen = 0]

tcp_send_ack(s, c)    == tcp_send(s, c, {"ACK"}, 0)
tcp_send_syn(s, c)    == tcp_send(s, c, {"SYN"}, 0)
tcp_send_finack(s, c) == tcp_send(s, c, {"FIN", "ACK"}, 0)
tcp_send_rst(s, c)    == tcp_send(s, c, {"RST", "ACK"}, 0)

Close(s, c) == [s EXCEPT !.conns[c] = Closed(@)]

\* The label reset: an answer made of the segment itself
reset(s, p) ==
  IF "RST" \in p.flags THEN Drop(s)
  ELSE [Drop(s) EXCEPT !.out = {[port |-> p.port, flags |-> {"RST", "ACK"}, seq |-> p.ack,
                                 ack |-> uip_add32(p.seq, 1), len |-> 0, urgp |-> 0]}]

----------------------------------------------------------------------------
(* The application *)

TCPIP_QueueData(s, c, data) ==
  LET k == s.conns[c].rcv_nxt[1]
  IN  IF data = <<>> THEN s ELSE [s EXCEPT !.received[k] = @ \o data]

TCPIP_SendGET(s) == [s EXCEPT !.uip_slen = 1]

\* _delay_ms(1000), then the assignment
Reconnect(s) ==
  [s EXCEPT !.SystemTicks = Later(@, CALLBACK_DELAY), !.late = Later(@, CALLBACK_DELAY),
            !.ConnectedState = "ConnectToRemoteHost"]

\* Whether the poll finds it time for a request; the second conjunct is the bound MaxGets
TimeToGet(s, c) ==
  /\ "POLL" \in s.uip_flags /\ s.SystemTicks > GET_SPACING
  /\ s.conns[c].snd_nxt[2] <= MaxGets

\* data is what uip_appdata and uip_datalen() show
TCPIP_TCPCallback(s, c, data) ==
  LET queued == IF "NEWDATA" \in s.uip_flags THEN TCPIP_QueueData(s, c, data) ELSE s
      closed == IF "CLOSE" \in s.uip_flags
                THEN Reconnect([queued EXCEPT !.ended = @ \cup {s.conns[c].rcv_nxt[1]}])
                ELSE queued
      aborted == IF "ABORT" \in s.uip_flags THEN Reconnect(closed) ELSE closed
      timedout == IF "TIMEDOUT" \in s.uip_flags
                  THEN Reconnect([aborted EXCEPT !.uip_flags = {"ABORT"}]) ELSE aborted
      polled == IF TimeToGet(timedout, c)
                THEN TCPIP_SendGET([timedout EXCEPT !.SystemTicks = 0]) ELSE timedout
  IN  IF "REXMIT" \in s.uip_flags THEN TCPIP_SendGET(polled) ELSE polled

UIP_APPCALL(s, c, flags, data) == TCPIP_TCPCallback([s EXCEPT !.uip_flags = flags], c, data)

----------------------------------------------------------------------------
(* After the callback *)

apprexmit(s, c) ==
  IF s.uip_slen > 0 /\ uip_outstanding(s.conns[c])
  THEN tcp_send(s, c, {"ACK", "PSH"}, s.conns[c].len)
  ELSE IF "NEWDATA" \in s.uip_flags THEN tcp_send_ack(s, c) ELSE Drop(s)

\* What is sent is new unless it is outstanding already
Queued(s, c) ==
  IF s.uip_slen > 0 /\ ("ACKDATA" \in s.uip_flags \/ ~uip_outstanding(s.conns[c]))
  THEN [s EXCEPT !.conns[c].len = s.uip_slen]
  ELSE s

appsend(s, c) ==
  IF "ABORT" \in s.uip_flags THEN Close(tcp_send_rst(s, c), c)
  ELSE IF "CLOSE" \in s.uip_flags
       THEN tcp_send_finack([s EXCEPT !.conns[c].len = 1, !.conns[c].tcpstate = "FIN_WAIT_1",
                                      !.conns[c].nrtx = 0], c)
       ELSE apprexmit([Queued(s, c) EXCEPT !.conns[c].nrtx = 0], c)

----------------------------------------------------------------------------
(* The periodic timer: uip_process(UIP_TIMER) for one connection *)

GivenUp(conn) ==
  \/ conn.nrtx = UIP_MAXRTX
  \/ conn.tcpstate = "SYN_SENT" /\ conn.nrtx = UIP_MAXSYNRTX

\* nrtx is not counted
MutantBackedOff(conn) == [conn EXCEPT !.timer = UIP_RTO]
\* The shift is by nrtx, but by 4 at most
BackedOff(conn) ==
  [conn EXCEPT !.timer = UIP_RTO * (IF conn.nrtx >= 4 THEN 16 ELSE <<1, 2, 4, 8>>[conn.nrtx + 1]),
               !.nrtx = @ + 1]

Retransmit(s, c) ==
  LET t == [s EXCEPT !.conns[c] = BackedOff(@)]
  IN  CASE s.conns[c].tcpstate = "SYN_SENT"    -> tcp_send_syn(t, c)
        [] s.conns[c].tcpstate = "ESTABLISHED" ->
             apprexmit(UIP_APPCALL(t, c, {"REXMIT"}, <<>>), c)
        [] OTHER                               -> tcp_send_finack(t, c)

TimeOut(s, c) == Close(tcp_send_rst(UIP_APPCALL(s, c, {"TIMEDOUT"}, <<>>), c), c)

TimedWait(s, c) ==
  IF s.conns[c].timer + 1 = UIP_TIME_WAIT_TIMEOUT THEN Close(s, c)
  ELSE [s EXCEPT !.conns[c].timer = @ + 1]

uip_periodic(s, c) ==
  LET conn    == s.conns[c]
      waiting == conn.tcpstate \in {"TIME_WAIT", "FIN_WAIT_2"}
      due     == uip_outstanding(conn) /\ ~waiting
  IN  CASE waiting -> Drop(TimedWait(s, c))
        [] due ->
             IF conn.timer > 0 THEN Drop([s EXCEPT !.conns[c].timer = @ - 1])
             ELSE IF GivenUp(conn) THEN TimeOut(s, c) ELSE Retransmit(s, c)
        [] ~due /\ conn.tcpstate = "ESTABLISHED" ->
             appsend(UIP_APPCALL(s, c, {"POLL"}, <<>>), c)
        [] ~due /\ ~waiting /\ conn.tcpstate # "ESTABLISHED" -> Drop(s)

----------------------------------------------------------------------------
(* Input: uip_process(UIP_DATA) for a segment of the connection in slot c *)

\* The units a segment carries, and those of them past its urgent pointer
DataOf(p) == [j \in 1..p.len |-> <<p.seq[1], p.seq[2] + j - 1>>]
UrgentLength(p) == IF "URG" \in p.flags /\ p.urgp <= p.len THEN p.urgp ELSE 0
AppData(p) == SubSeq(DataOf(p), UrgentLength(p) + 1, p.len)

uip_add_rcv_nxt(s, c, n) == [s EXCEPT !.conns[c].rcv_nxt = uip_add32(@, n)]

MutantOutOfOrder(conn, p) == FALSE  \* whatever comes is taken
OutOfOrder(conn, p) ==
  /\ ~(conn.tcpstate = "SYN_SENT" /\ p.flags = {"SYN", "ACK"})
  /\ p.len > 0 \/ p.flags \cap {"SYN", "FIN"} # {}
  /\ p.seq # conn.rcv_nxt

\* Any acknowledgement will do
MutantAcknowledges(conn, p) == "ACK" \in p.flags /\ uip_outstanding(conn)
Acknowledges(conn, p) ==
  /\ "ACK" \in p.flags
  /\ uip_outstanding(conn)
  /\ p.ack = uip_add32(conn.snd_nxt, conn.len)

\* rtt is what the estimator makes of this round trip
acknowledged(s, c, p, rtt) ==
  IF Acknowledges(s.conns[c], p)
  THEN LET conn == s.conns[c]
           rto  == IF conn.nrtx = 0 THEN rtt ELSE conn.rto
       IN  [s EXCEPT !.uip_flags = {"ACKDATA"},
                     !.conns[c] = [conn EXCEPT !.snd_nxt = p.ack, !.rto = rto,
                                               !.timer = rto, !.len = 0]]
  ELSE s

SYN_SENT(s, c, p) ==
  IF "ACKDATA" \in s.uip_flags /\ p.flags = {"SYN", "ACK"}
  THEN LET t == [s EXCEPT !.conns[c].tcpstate = "ESTABLISHED",
                          !.conns[c].rcv_nxt = uip_add32(p.seq, 1)]
       IN  appsend(UIP_APPCALL(t, c, {"CONNECTED", "NEWDATA"}, <<>>), c)
  ELSE reset(Close(UIP_APPCALL(s, c, {"ABORT"}, <<>>), c), p)

\* The peer closes: we answer with our FIN at once, whatever the application does
PeerCloses(s, c, p) ==
  LET t == UIP_APPCALL(uip_add_rcv_nxt(s, c, p.len + 1), c,
                       s.uip_flags \cup {"CLOSE"} \cup (IF p.len > 0 THEN {"NEWDATA"} ELSE {}),
                       DataOf(p))
  IN  tcp_send_finack([t EXCEPT !.conns[c].len = 1, !.conns[c].tcpstate = "LAST_ACK",
                                !.conns[c].nrtx = 0], c)

ESTABLISHED(s, c, p) ==
  LET uip_len == p.len - UrgentLength(p)
      t == IF uip_len > 0
           THEN uip_add_rcv_nxt([s EXCEPT !.uip_flags = @ \cup {"NEWDATA"}], c, uip_len)
           ELSE s
  IN  CASE "FIN" \in p.flags /\ uip_outstanding(s.conns[c])  -> Drop(s)
        [] "FIN" \in p.flags /\ ~uip_outstanding(s.conns[c]) -> PeerCloses(s, c, p)
        [] "FIN" \notin p.flags /\ t.uip_flags # {} ->
             appsend(UIP_APPCALL(t, c, t.uip_flags, AppData(p)), c)
        [] "FIN" \notin p.flags /\ t.uip_flags = {} -> Drop(t)

LAST_ACK(s, c) ==
  IF "ACKDATA" \in s.uip_flags
  THEN Drop(Close(UIP_APPCALL(s, c, {"CLOSE"}, <<>>), c))
  ELSE Drop(s)

ToTimeWait(s, c) ==
  [s EXCEPT !.conns[c].tcpstate = "TIME_WAIT", !.conns[c].timer = 0, !.conns[c].len = 0]

\* Nothing brings a connection to these four states while the application never closes
FIN_WAIT_1(s, c, p) ==
  LET t == uip_add_rcv_nxt(s, c, p.len)
  IN  CASE "FIN" \in p.flags ->
             LET u == IF "ACKDATA" \in s.uip_flags THEN ToTimeWait(t, c)
                      ELSE [t EXCEPT !.conns[c].tcpstate = "CLOSING"]
             IN  tcp_send_ack(UIP_APPCALL(uip_add_rcv_nxt(u, c, 1), c, {"CLOSE"}, <<>>), c)
        [] "FIN" \notin p.flags /\ "ACKDATA" \in s.uip_flags ->
             Drop([t EXCEPT !.conns[c].tcpstate = "FIN_WAIT_2", !.conns[c].len = 0])
        [] "FIN" \notin p.flags /\ "ACKDATA" \notin s.uip_flags ->
             IF p.len > 0 THEN tcp_send_ack(t, c) ELSE Drop(t)

FIN_WAIT_2(s, c, p) ==
  LET t == uip_add_rcv_nxt(s, c, p.len)
  IN  IF "FIN" \in p.flags
      THEN tcp_send_ack(UIP_APPCALL(uip_add_rcv_nxt(ToTimeWait(t, c), c, 1), c,
                                    {"CLOSE"}, <<>>), c)
      ELSE IF p.len > 0 THEN tcp_send_ack(t, c) ELSE Drop(t)

CLOSING(s, c) ==
  IF "ACKDATA" \in s.uip_flags
  THEN Drop([s EXCEPT !.conns[c].tcpstate = "TIME_WAIT", !.conns[c].timer = 0])
  ELSE Drop(s)

ByState(s, c, p) ==
  LET tcpstate == s.conns[c].tcpstate
  IN  CASE tcpstate = "SYN_SENT"    -> SYN_SENT(s, c, p)
        [] tcpstate = "ESTABLISHED" -> ESTABLISHED(s, c, p)
        [] tcpstate = "LAST_ACK"    -> LAST_ACK(s, c)
        [] tcpstate = "FIN_WAIT_1"  -> FIN_WAIT_1(s, c, p)
        [] tcpstate = "FIN_WAIT_2"  -> FIN_WAIT_2(s, c, p)
        [] tcpstate = "TIME_WAIT"   -> tcp_send_ack(s, c)
        [] tcpstate = "CLOSING"     -> CLOSING(s, c)

\* The label found; any RST is believed
found(s, c, p, rtt) ==
  CASE "RST" \in p.flags -> Drop(UIP_APPCALL(Close(s, c), c, {"ABORT"}, <<>>))
    [] "RST" \notin p.flags /\ OutOfOrder(s.conns[c], p) -> tcp_send_ack(s, c)
    [] "RST" \notin p.flags /\ ~OutOfOrder(s.conns[c], p) ->
         ByState(acknowledged(s, c, p, rtt), c, p)

\* The first connection the segment is for
Found(s, p, c) ==
  /\ s.conns[c].tcpstate # "CLOSED" /\ s.conns[c].lport = p.port
  /\ \A d \in 0..(c - 1) : s.conns[d].tcpstate = "CLOSED" \/ s.conns[d].lport # p.port

----------------------------------------------------------------------------
(* Connecting *)

InUse(s, port) == \E c \in Slots : s.conns[c].tcpstate # "CLOSED" /\ s.conns[c].lport = port

\* The next port, whether a connection has it or not
MutantNextPort(s, port) ==
  port = IF s.lastport + 1 < PORT_LIMIT THEN s.lastport + 1 ELSE PORT_RESTART
\* The first port after lastport, or from PORT_RESTART on, that no connection has
NextPort(s, port) ==
  LET Next(first) == {q \in first..(PORT_LIMIT - 1) : ~InUse(s, q)}
      ahead == Next(s.lastport + 1)
      again == Next(PORT_RESTART)
  IN  IF ahead # {} THEN port \in ahead /\ \A q \in ahead : port <= q
                    ELSE port \in again /\ \A q \in again : port <= q

\* The first closed connection, else the one that has waited longest
FreeSlot(s, c) ==
  LET closed  == {d \in Slots : s.conns[d].tcpstate = "CLOSED"}
      waiting == {d \in Slots : s.conns[d].tcpstate = "TIME_WAIT"}
      Oldest(d) == \A e \in waiting : s.conns[e].timer <= s.conns[d].timer
  IN  IF closed # {} THEN c \in closed /\ \A d \in closed : c <= d
      ELSE c \in waiting /\ Oldest(c) /\ \A d \in waiting : Oldest(d) => c <= d

uip_connect(s, c, port) ==
  [s EXCEPT !.lastport = port, !.iss = @ + 1,
            !.conns[c] = [tcpstate |-> "SYN_SENT", lport |-> port, snd_nxt |-> <<s.iss, 0>>,
                          rcv_nxt |-> @.rcv_nxt, len |-> 1, timer |-> 1, nrtx |-> 0,
                          rto |-> UIP_RTO]]

uip_init(s) ==
  [s EXCEPT !.conns = [c \in Slots |-> Closed(s.conns[c])], !.lastport = PORT_INIT]

TCPIP_InitializeTCPStack(s) ==
  [uip_init(s) EXCEPT !.late = 0, !.ConnectedState = "ConnectToRemoteHost",
                      !.SystemTicks = CONNECT_SPACING + 1]

----------------------------------------------------------------------------
(* The main loop and the clock *)

ServerVars == <<server, accepted, written, finished>>

\* network_send: what does not fit the network is lost
Put(network, segments) ==
  IF Cardinality(network \cup segments) <= Capacity THEN network \cup segments ELSE network

\* A handler has run: what it leaves in uip_buf is sent
Handled(s) ==
  /\ uip' = [s EXCEPT !.out = {}]
  /\ toServer' = Put(toServer, s.out)

InMainLoop == uip.i = UIP_CONNS

ConnectDue == uip.ConnectedState = "ConnectToRemoteHost" /\ uip.SystemTicks > CONNECT_SPACING
TimerDue   == uip.ConnectedState = "ManageTCPConnection" /\ uip.late > 0

TCPIP_ConnectToRemoteHost ==
  /\ InMainLoop /\ ConnectDue
  /\ uip.iss < MaxConnects
  /\ \E port \in Ports :
       /\ NextPort(uip, port)
       /\ \/ \E c \in Slots :
               /\ FreeSlot(uip, c)
               /\ uip' = [uip_connect(uip, c, port) EXCEPT
                            !.SystemTicks = GET_SPACING + 1,
                            !.ConnectedState = "ManageTCPConnection"]
          \/ /\ ~ \E c \in Slots : FreeSlot(uip, c)
             /\ uip' = [uip EXCEPT !.lastport = port, !.SystemTicks = 0]
  /\ UNCHANGED <<ServerVars, toServer, toClient, restarts>>

\* TCPIP_TCPIPTask: the timer, then the loop over the connections, one step for each
TCPIP_TCPIPTask ==
  /\ InMainLoop /\ TimerDue
  /\ uip' = [uip EXCEPT !.late = @ - 1, !.i = 0]
  /\ UNCHANGED <<ServerVars, toServer, toClient, restarts>>

Periodic(c) ==
  /\ uip.i = c
  /\ Handled([uip_periodic(uip, c) EXCEPT !.i = c + 1])
  /\ UNCHANGED <<ServerVars, toClient, restarts>>

\* The main loop is quick: it has done what was due when the next period ends
Tick ==
  /\ InMainLoop /\ ~TimerDue
  /\ ~(ConnectDue /\ uip.iss < MaxConnects)
  /\ uip' = [uip EXCEPT !.SystemTicks = Later(@, 1), !.late = Later(@, 1)]
  /\ UNCHANGED <<ServerVars, toServer, toClient, restarts>>

\* A segment arrives; the network may keep a copy
Arrives(p) ==
  /\ InMainLoop
  /\ toClient' \in {toClient, toClient \ {p}}

ReceiveFound(p, c, rtt) ==
  /\ Arrives(p)
  /\ Found(uip, p, c)
  /\ Handled(found(uip, c, p, rtt))
  /\ UNCHANGED <<ServerVars, restarts>>

ReceiveStray(p) ==
  /\ Arrives(p)
  /\ ~ \E c \in Slots : Found(uip, p, c)
  /\ Handled(reset(uip, p))
  /\ UNCHANGED <<ServerVars, restarts>>

\* The modem is plugged in again, and the link is up anew
Reinitialize ==
  /\ InMainLoop /\ restarts < MaxRestarts
  /\ uip' = TCPIP_InitializeTCPStack(uip)
  /\ restarts' = restarts + 1
  /\ UNCHANGED <<ServerVars, toServer, toClient>>

UipInit ==
  [conns |-> [c \in Slots |-> Closed([rcv_nxt |-> <<0, 0>>])],
   lastport |-> PORT_INIT, iss |-> 0, ConnectedState |-> "ConnectToRemoteHost",
   SystemTicks |-> CONNECT_SPACING + 1, late |-> 0, i |-> UIP_CONNS,
   uip_flags |-> {}, uip_slen |-> 0, out |-> {},
   received |-> [k \in 1..MaxAccepts |-> <<>>], ended |-> {}]

\* Reboot(): all memory is lost, so iss starts anew and the first SYN is the one of the
\* last boot.  Dialling takes longer than a segment lives; the server may remember us.
Reboot ==
  /\ InMainLoop /\ restarts < MaxRestarts
  /\ uip' = [UipInit EXCEPT !.received = uip.received, !.ended = uip.ended]
  /\ restarts' = restarts + 1
  /\ toServer' = {} /\ toClient' = {}
  /\ UNCHANGED ServerVars

----------------------------------------------------------------------------
(* The server and the network.  They step between two handlers only: what   *)
(* they do in between commutes with the steps of the loop.                  *)

UipVars == <<uip, restarts>>

\* What the server says on a port, again and again until it is acknowledged
Outgoing(port) ==
  LET sv == server[port]
      Seg(flags, from, len, urgp) ==
        [port |-> port, flags |-> flags, seq |-> <<sv.isn, from>>, ack |-> sv.rcv_nxt,
         len |-> len, urgp |-> urgp]
      last == written[sv.isn]
      Urg(u) == IF u > 0 THEN {"URG"} ELSE {}
      data == {Seg({"ACK", "PSH"} \cup Urg(u), from, to - from + 1, u) :
                 from \in sv.una..last, to \in sv.una..last, u \in UrgentPointers}
      fins == {Seg({"ACK", "FIN"}, from, last - from + 1, 0) : from \in sv.una..(last + 1)}
  IN  CASE sv.state = "LISTEN"   -> {}
        [] sv.state = "SYN_RCVD" -> {Seg({"SYN", "ACK"}, 0, 0, 0)}
        [] OTHER ->
             {Seg({"ACK"}, sv.nxt, 0, 0)}
               \cup {p \in data : p.len > 0 /\ p.urgp <= p.len}
               \cup (IF sv.state = "FIN_WAIT" THEN fins ELSE {})

ServerSends(port) ==
  /\ InMainLoop
  /\ \E p \in Outgoing(port) :
       /\ p \notin toClient
       /\ toClient' = Put(toClient, {p})
  /\ UNCHANGED <<UipVars, ServerVars, toServer>>

ServerWrites(port) ==
  LET k == server[port].isn
  IN  /\ InMainLoop /\ server[port].state = "ESTABLISHED"
      /\ written[k] < MaxData
      /\ written' = [written EXCEPT ![k] = @ + 1]
      /\ server' = [server EXCEPT ![port].nxt = @ + 1]
      /\ UNCHANGED <<UipVars, accepted, finished, toServer, toClient>>

ServerFinishes(port) ==
  /\ InMainLoop /\ server[port].state = "ESTABLISHED"
  /\ finished' = finished \cup {server[port].isn}
  /\ server' = [server EXCEPT ![port].nxt = @ + 1, ![port].state = "FIN_WAIT"]
  /\ UNCHANGED <<UipVars, accepted, written, toServer, toClient>>

\* The server gives the connection up and says so, or its time in TIME_WAIT is over
ServerForgets(port) ==
  LET sv == server[port]
  IN  /\ InMainLoop /\ sv.state # "LISTEN"
      /\ server' = [server EXCEPT ![port] = Listening]
      /\ toClient' = IF sv.state = "TIME_WAIT" THEN toClient
                     ELSE Put(toClient, {[port |-> port, flags |-> {"RST"},
                                          seq |-> <<sv.isn, sv.nxt>>, ack |-> <<0, 0>>,
                                          len |-> 0, urgp |-> 0]})
      /\ UNCHANGED <<UipVars, accepted, written, finished, toServer>>

\* What an acceptable acknowledgement, then data or FIN in order, make of the connection
AfterAck(sv, p) ==
  IF "ACK" \in p.flags /\ p.ack[1] = sv.isn /\ p.ack[2] \in (sv.una + 1)..sv.nxt
  THEN [sv EXCEPT !.una = p.ack[2], !.state = IF @ = "SYN_RCVD" THEN "ESTABLISHED" ELSE @]
  ELSE sv

AfterData(sv, p) ==
  IF p.seq # sv.rcv_nxt \/ sv.state = "SYN_RCVD" THEN sv
  ELSE IF "FIN" \in p.flags /\ sv.state = "FIN_WAIT" /\ sv.una = sv.nxt
       THEN [sv EXCEPT !.rcv_nxt = uip_add32(@, 1), !.state = "TIME_WAIT"]
       ELSE [sv EXCEPT !.rcv_nxt = uip_add32(@, p.len)]

ServerReset(p) ==
  [port |-> p.port, flags |-> {"RST"}, seq |-> p.ack, ack |-> <<0, 0>>, len |-> 0, urgp |-> 0]

ServerAccepts(p) ==
  /\ server[p.port].state = "LISTEN" /\ p.flags = {"SYN"} /\ accepted < MaxAccepts
  /\ accepted' = accepted + 1
  /\ server' = [server EXCEPT ![p.port] =
                  [state |-> "SYN_RCVD", isn |-> accepted + 1, una |-> 0, nxt |-> 1,
                   rcv_nxt |-> uip_add32(p.seq, 1)]]
  /\ toClient' = toClient

ServerRefuses(p) ==
  /\ server[p.port].state = "LISTEN" /\ ~(p.flags = {"SYN"} /\ accepted < MaxAccepts)
  /\ toClient' = IF "RST" \in p.flags \/ p.flags = {"SYN"} THEN toClient
                 ELSE Put(toClient, {ServerReset(p)})
  /\ UNCHANGED <<server, accepted>>

ServerUpdates(p) ==
  LET sv == server[p.port]
  IN  /\ sv.state # "LISTEN"
      /\ server' = [server EXCEPT ![p.port] =
                      IF "RST" \in p.flags THEN IF p.seq = sv.rcv_nxt THEN Listening ELSE sv
                      ELSE IF "SYN" \in p.flags THEN sv
                      ELSE AfterData(AfterAck(sv, p), p)]
      /\ UNCHANGED <<accepted, toClient>>

ServerReceives(p) ==
  /\ InMainLoop
  /\ toServer' \in {toServer, toServer \ {p}}
  /\ ServerAccepts(p) \/ ServerRefuses(p) \/ ServerUpdates(p)
  /\ UNCHANGED <<UipVars, written, finished>>

Lose ==
  /\ InMainLoop
  /\ \/ \E p \in toClient : toClient' = toClient \ {p} /\ toServer' = toServer
     \/ \E p \in toServer : toServer' = toServer \ {p} /\ toClient' = toClient
  /\ UNCHANGED <<UipVars, ServerVars>>

----------------------------------------------------------------------------
(* The specification *)

Init ==
  /\ uip = UipInit
  /\ server = [port \in Ports |-> Listening]
  /\ accepted = 0
  /\ written = [k \in 1..MaxAccepts |-> 0]
  /\ finished = {}
  /\ toServer = {} /\ toClient = {}
  /\ restarts = 0

MainLoop ==
  \/ TCPIP_ConnectToRemoteHost
  \/ TCPIP_TCPIPTask
  \/ \E c \in Slots : Periodic(c)

WithinBoot ==
  \/ MainLoop
  \/ Tick
  \/ \E p \in toClient, c \in Slots, rtt \in Rtos : ReceiveFound(p, c, rtt)
  \/ \E p \in toClient : ReceiveStray(p)
  \/ Reinitialize
  \/ \E port \in Ports : ServerSends(port)
  \/ \E port \in Ports : ServerWrites(port)
  \/ \E port \in Ports : ServerFinishes(port)
  \/ \E port \in Ports : ServerForgets(port)
  \/ \E p \in toServer : ServerReceives(p)
  \/ Lose

Next == WithinBoot \/ Reboot

Spec == Init /\ [][Next]_vars

\* One boot of the board; the link may go down and come up again
BootSpec == Init /\ [][WithinBoot]_vars

\* The main loop runs, and time passes
LiveSpec == Spec /\ WF_vars(MainLoop) /\ WF_vars(Tick)

----------------------------------------------------------------------------
(* Properties *)

\* The state is one the C variables can be in, and a handler leaves nothing behind.
TypeOK ==
  /\ uip \in UipState
  /\ uip.uip_flags = {} /\ uip.uip_slen = 0 /\ uip.out = {}
  /\ server \in [Ports -> ServerConnection]
  /\ accepted \in 0..MaxAccepts
  /\ written \in [1..MaxAccepts -> 0..MaxData]
  /\ finished \subseteq 1..MaxAccepts
  /\ toServer \subseteq Segments /\ toClient \subseteq Segments
  /\ restarts \in 0..MaxRestarts

\* Two connections that are not closed have different local ports, also after lastport
\* has wrapped while an old connection lives on (uip_connect, uip.c:408-421): a segment
\* is never taken for another connection's.
PortsDistinct ==
  \A c, d \in Slots :
    /\ uip.conns[c].tcpstate # "CLOSED" /\ uip.conns[d].tcpstate # "CLOSED"
    /\ uip.conns[c].lport = uip.conns[d].lport
    => c = d

\* The two ends of a connection agree on how far they are: what we have received is
\* between what the server knows is received and what it has sent, and the other way
\* round; through losses, duplicates and reordering within a boot (uip.c:1454-1483).  After
\* a restart of the board it can fail: TCPRestart.cfg shows how.
SynchronizedWithServer ==
  \A c \in Slots :
    LET conn == uip.conns[c]
        sv   == server[conn.lport]
    IN  /\ conn.tcpstate \in {"ESTABLISHED", "LAST_ACK"}
        /\ sv.state # "LISTEN" /\ sv.isn = conn.rcv_nxt[1]
        => /\ sv.una <= conn.rcv_nxt[2] /\ conn.rcv_nxt[2] <= sv.nxt
           /\ sv.rcv_nxt[1] = conn.snd_nxt[1]
           /\ conn.snd_nxt[2] <= sv.rcv_nxt[2]
           /\ sv.rcv_nxt[2] <= conn.snd_nxt[2] + conn.len

\* What the application is handed is what the server wrote, in order and once, and the
\* end of a connection is reported when all of it was handed over.
Stream == INSTANCE ReliableStream WITH
  Connections <- 1..MaxAccepts, read <- uip.received, ended <- uip.ended
StreamSpec == Stream!Spec

\* An attempt to connect, and a close, come to an end as long as the periodic timer is
\* served: the server answers, or the retransmissions run out.
AttemptsEnd ==
  \A c \in Slots :
    uip.conns[c].tcpstate \in {"SYN_SENT", "LAST_ACK"} ~>
      \/ uip.conns[c].tcpstate \notin {"SYN_SENT", "LAST_ACK"}
      \/ uip.ConnectedState = "ConnectToRemoteHost"

(* What the documentation says and the code does not do *)

\* uip.h:317-319 of uip_periodic: it "should be called when the periodic uIP timer goes
\* off.  It should be called for every connection".  (Up to the bound on attempts.)
PeriodicServed == uip.late > 0 ~> uip.late = 0 \/ uip.iss = MaxConnects
=============================================================================
