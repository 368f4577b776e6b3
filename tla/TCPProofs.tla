------------------------------ MODULE TCPProofs ------------------------------
(***************************************************************************)
(* Proof about module TCP, for any table of connections, range of ports,   *)
(* timeouts and server: two open connections never have the same local     *)
(* port.  Only uip_connect opens a connection and it looks through the     *)
(* table first; every other handler leaves an open connection its port and *)
(* a closed one closed, however long its way through uip_process is.       *)
(***************************************************************************)
EXTENDS TCP, TLAPS

----------------------------------------------------------------------------
(* What the handlers keep *)

StateFields == {"conns", "lastport", "iss", "ConnectedState", "SystemTicks", "late", "i",
                "uip_flags", "uip_slen", "out", "received", "ended"}

ConnectionFields == {"tcpstate", "lport", "snd_nxt", "rcv_nxt", "len", "timer", "nrtx", "rto"}

IsConnection(conn) ==
  /\ conn = [f \in ConnectionFields |-> conn[f]]
  /\ conn.tcpstate \in TcpStates
  /\ conn.tcpstate = "CLOSED" => conn.len = 0

IsState(s) ==
  /\ s = [f \in StateFields |-> s[f]]
  /\ s.conns = [c \in Slots |-> s.conns[c]]
  /\ \A c \in Slots : IsConnection(s.conns[c])

Open(s, c) == s.conns[c].tcpstate # "CLOSED"

\* t comes after s: what is open in t was open in s, with the same port
Keeps(s, t) ==
  /\ IsState(t)
  /\ \A c \in Slots : Open(t, c) => Open(s, c) /\ t.conns[c].lport = s.conns[c].lport

\* Nor is anything closed
Alike(s, t) == Keeps(s, t) /\ \A c \in Slots : Open(s, c) => Open(t, c)

\* The table is the same
SameTable(s, t) == IsState(t) /\ t.conns = s.conns

\* What leaves the table alone keeps the ports.
LEMMA SameTableKeeps ==
  ASSUME NEW s, NEW t, SameTable(s, t)
  PROVE  Alike(s, t) /\ Keeps(s, t)
BY DEF SameTable, Alike, Keeps, Open

\* Steps of a handler follow each other.
LEMMA KeepsTransitive ==
  ASSUME NEW s, NEW t, NEW u, Keeps(s, t)
  PROVE  /\ Keeps(t, u) => Keeps(s, u)
         /\ Alike(s, t) /\ Alike(t, u) => Alike(s, u)
BY DEF Keeps, Alike

\* An entry of the table may change but for its port, and open only if it was.
LEMMA EntryKeeps ==
  ASSUME NEW s, IsState(s), NEW c \in Slots, NEW conn, IsConnection(conn),
         conn.tcpstate # "CLOSED" => Open(s, c) /\ conn.lport = s.conns[c].lport
  PROVE  Keeps(s, [s EXCEPT !.conns[c] = conn])
BY DEF Keeps, IsState, StateFields, Open

----------------------------------------------------------------------------
(* Leaving uip_process, and the application *)

\* Leaving uip_process with nothing to send, or with a segment, does not touch the table.
LEMMA DropKeeps ==
  ASSUME NEW s, IsState(s)
  PROVE  SameTable(s, Drop(s))
BY DEF IsState, SameTable, Drop, StateFields

\* tcp_send does not touch the table.
LEMMA SendKeeps ==
  ASSUME NEW s, IsState(s), NEW c, NEW flags, NEW len
  PROVE  SameTable(s, tcp_send(s, c, flags, len))
BY DEF IsState, SameTable, tcp_send, StateFields

\* The label reset does not touch the table.
LEMMA ResetKeeps ==
  ASSUME NEW s, IsState(s), NEW p
  PROVE  SameTable(s, reset(s, p))
<1>1. SameTable(s, Drop(s))
  BY DropKeeps
<1> QED
  BY <1>1 DEF reset, IsState, SameTable, StateFields

\* Closing a connection opens none.
LEMMA CloseKeeps ==
  ASSUME NEW s, IsState(s), NEW c \in Slots
  PROVE  Keeps(s, Close(s, c))
<1>1. IsConnection(Closed(s.conns[c])) /\ Closed(s.conns[c]).tcpstate = "CLOSED"
  BY DEF IsConnection, Closed, ConnectionFields, TcpStates
<1> QED
  BY <1>1, EntryKeeps DEF Close

\* The callback does not touch the table.
LEMMA CallbackKeeps ==
  ASSUME NEW s, IsState(s), NEW c, NEW flags, NEW data
  PROVE  SameTable(s, UIP_APPCALL(s, c, flags, data))
<1> DEFINE s0 == [s EXCEPT !.uip_flags = flags]
           queued == IF "NEWDATA" \in s0.uip_flags THEN TCPIP_QueueData(s0, c, data) ELSE s0
           closed == IF "CLOSE" \in s0.uip_flags
                     THEN Reconnect([queued EXCEPT !.ended = @ \cup {s0.conns[c].rcv_nxt[1]}])
                     ELSE queued
           aborted == IF "ABORT" \in s0.uip_flags THEN Reconnect(closed) ELSE closed
           timedout == IF "TIMEDOUT" \in s0.uip_flags
                       THEN Reconnect([aborted EXCEPT !.uip_flags = {"ABORT"}]) ELSE aborted
           polled == IF TimeToGet(timedout, c)
                     THEN TCPIP_SendGET([timedout EXCEPT !.SystemTicks = 0]) ELSE timedout
           done == IF "REXMIT" \in s0.uip_flags THEN TCPIP_SendGET(polled) ELSE polled
<1>1. SameTable(s, s0)
  BY DEF IsState, SameTable, StateFields
<1>2. SameTable(s, queued)
  BY <1>1 DEF TCPIP_QueueData, IsState, SameTable, StateFields
<1>3. ASSUME NEW t, SameTable(s, t) PROVE SameTable(s, Reconnect(t))
  BY <1>3 DEF Reconnect, IsState, SameTable, StateFields
<1>4. ASSUME NEW t, SameTable(s, t) PROVE SameTable(s, TCPIP_SendGET(t))
  BY <1>4 DEF TCPIP_SendGET, IsState, SameTable, StateFields
<1> HIDE DEF queued
<1>5. SameTable(s, closed)
  <2> DEFINE q == [queued EXCEPT !.ended = @ \cup {s0.conns[c].rcv_nxt[1]}]
  <2>1. SameTable(s, q)
    BY <1>2 DEF IsState, SameTable, StateFields
  <2> HIDE DEF q
  <2> QED
    BY <1>2, <1>3, <2>1 DEF q
<1> HIDE DEF closed
<1>6. SameTable(s, aborted)
  BY <1>3, <1>5
<1> HIDE DEF aborted
<1>7. SameTable(s, timedout)
  <2> DEFINE a == [aborted EXCEPT !.uip_flags = {"ABORT"}]
  <2>1. SameTable(s, a)
    BY <1>6 DEF IsState, SameTable, StateFields
  <2> HIDE DEF a
  <2> QED
    BY <1>3, <1>6, <2>1 DEF a
<1> HIDE DEF timedout
<1>8. SameTable(s, polled)
  <2> DEFINE a == [timedout EXCEPT !.SystemTicks = 0]
  <2>1. SameTable(s, a)
    BY <1>7 DEF IsState, SameTable, StateFields
  <2> HIDE DEF a
  <2> QED
    BY <1>4, <1>7, <2>1 DEF a
<1> HIDE DEF polled
<1>9. SameTable(s, done)
  BY <1>4, <1>8
<1> QED
  BY <1>9 DEF UIP_APPCALL, TCPIP_TCPCallback, done, polled, timedout, aborted, closed, queued
----------------------------------------------------------------------------
(* The handlers *)

\* An open entry may change but for its port, and stays open.
LEMMA EntryAlike ==
  ASSUME NEW s, IsState(s), NEW c \in Slots, Open(s, c), NEW conn, IsConnection(conn),
         conn.lport = s.conns[c].lport, conn.tcpstate # "CLOSED"
  PROVE  Alike(s, [s EXCEPT !.conns[c] = conn])
<1>1. Keeps(s, [s EXCEPT !.conns[c] = conn])
  BY EntryKeeps
<1>2. \A d \in Slots : Open(s, d) => Open([s EXCEPT !.conns[c] = conn], d)
  BY DEF IsState, Open, StateFields
<1> QED
  BY <1>1, <1>2 DEF Alike

\* A change of the fields of an open connection, but for its port, keeps the ports.
LEMMA FieldsKeep ==
  ASSUME NEW s, IsState(s), NEW c \in Slots, Open(s, c), NEW n, NEW m, NEW seq,
         NEW tcpstate \in TcpStates \ {"CLOSED"}
  PROVE  /\ Alike(s, [s EXCEPT !.conns[c].len = n])
         /\ Alike(s, [s EXCEPT !.conns[c].nrtx = n])
         /\ Alike(s, [s EXCEPT !.conns[c].timer = n])
         /\ Alike(s, [s EXCEPT !.conns[c].rcv_nxt = seq])
         /\ Alike(s, [s EXCEPT !.conns[c].tcpstate = tcpstate])
         /\ Alike(s, [s EXCEPT !.conns[c].tcpstate = tcpstate, !.conns[c].rcv_nxt = seq])
         /\ Alike(s, [s EXCEPT !.conns[c].tcpstate = tcpstate, !.conns[c].timer = n])
         /\ Alike(s, [s EXCEPT !.conns[c].tcpstate = tcpstate, !.conns[c].len = n])
         /\ Alike(s, [s EXCEPT !.conns[c].tcpstate = tcpstate, !.conns[c].timer = n,
                               !.conns[c].len = m])
         /\ Alike(s, [s EXCEPT !.conns[c].len = n, !.conns[c].tcpstate = tcpstate,
                               !.conns[c].nrtx = m])
<1> DEFINE conn == s.conns[c]
           Set(t) == [s EXCEPT !.conns[c] = t]
<1>1. IsConnection(conn) /\ conn.tcpstate # "CLOSED"
  BY DEF IsState, Open
<1>2. ASSUME NEW t, IsConnection(t), t.lport = conn.lport, t.tcpstate # "CLOSED"
      PROVE  Alike(s, Set(t))
  BY <1>2, EntryAlike
<1>3. Alike(s, [s EXCEPT !.conns[c].len = n])
  <2> DEFINE t == [conn EXCEPT !.len = n]
  <2>1. [s EXCEPT !.conns[c].len = n] = Set(t)
    BY DEF IsState, StateFields
  <2>2. IsConnection(t) /\ t.lport = conn.lport /\ t.tcpstate # "CLOSED"
    BY <1>1 DEF IsConnection, ConnectionFields
  <2> QED
    BY <1>2, <2>1, <2>2
<1>4. Alike(s, [s EXCEPT !.conns[c].nrtx = n])
  <2> DEFINE t == [conn EXCEPT !.nrtx = n]
  <2>1. [s EXCEPT !.conns[c].nrtx = n] = Set(t)
    BY DEF IsState, StateFields
  <2>2. IsConnection(t) /\ t.lport = conn.lport /\ t.tcpstate # "CLOSED"
    BY <1>1 DEF IsConnection, ConnectionFields
  <2> QED
    BY <1>2, <2>1, <2>2
<1>5. Alike(s, [s EXCEPT !.conns[c].timer = n])
  <2> DEFINE t == [conn EXCEPT !.timer = n]
  <2>1. [s EXCEPT !.conns[c].timer = n] = Set(t)
    BY DEF IsState, StateFields
  <2>2. IsConnection(t) /\ t.lport = conn.lport /\ t.tcpstate # "CLOSED"
    BY <1>1 DEF IsConnection, ConnectionFields
  <2> QED
    BY <1>2, <2>1, <2>2
<1>6. Alike(s, [s EXCEPT !.conns[c].rcv_nxt = seq])
  <2> DEFINE t == [conn EXCEPT !.rcv_nxt = seq]
  <2>1. [s EXCEPT !.conns[c].rcv_nxt = seq] = Set(t)
    BY DEF IsState, StateFields
  <2>2. IsConnection(t) /\ t.lport = conn.lport /\ t.tcpstate # "CLOSED"
    BY <1>1 DEF IsConnection, ConnectionFields
  <2> QED
    BY <1>2, <2>1, <2>2
<1>7. Alike(s, [s EXCEPT !.conns[c].tcpstate = tcpstate])
  <2> DEFINE t == [conn EXCEPT !.tcpstate = tcpstate]
  <2>1. [s EXCEPT !.conns[c].tcpstate = tcpstate] = Set(t)
    BY DEF IsState, StateFields
  <2>2. IsConnection(t) /\ t.lport = conn.lport /\ t.tcpstate # "CLOSED"
    BY <1>1 DEF IsConnection, ConnectionFields
  <2> QED
    BY <1>2, <2>1, <2>2
<1>8. Alike(s, [s EXCEPT !.conns[c].tcpstate = tcpstate, !.conns[c].rcv_nxt = seq])
  <2> DEFINE t == [conn EXCEPT !.tcpstate = tcpstate, !.rcv_nxt = seq]
  <2>1. [s EXCEPT !.conns[c].tcpstate = tcpstate, !.conns[c].rcv_nxt = seq] = Set(t)
    BY DEF IsState, StateFields
  <2>2. IsConnection(t) /\ t.lport = conn.lport /\ t.tcpstate # "CLOSED"
    BY <1>1 DEF IsConnection, ConnectionFields
  <2> QED
    BY <1>2, <2>1, <2>2
<1>9. Alike(s, [s EXCEPT !.conns[c].tcpstate = tcpstate, !.conns[c].timer = n])
  <2> DEFINE t == [conn EXCEPT !.tcpstate = tcpstate, !.timer = n]
  <2>1. [s EXCEPT !.conns[c].tcpstate = tcpstate, !.conns[c].timer = n] = Set(t)
    BY DEF IsState, StateFields
  <2>2. IsConnection(t) /\ t.lport = conn.lport /\ t.tcpstate # "CLOSED"
    BY <1>1 DEF IsConnection, ConnectionFields
  <2> QED
    BY <1>2, <2>1, <2>2
<1>10. Alike(s, [s EXCEPT !.conns[c].tcpstate = tcpstate, !.conns[c].len = n])
  <2> DEFINE t == [conn EXCEPT !.tcpstate = tcpstate, !.len = n]
  <2>1. [s EXCEPT !.conns[c].tcpstate = tcpstate, !.conns[c].len = n] = Set(t)
    BY DEF IsState, StateFields
  <2>2. IsConnection(t) /\ t.lport = conn.lport /\ t.tcpstate # "CLOSED"
    BY <1>1 DEF IsConnection, ConnectionFields
  <2> QED
    BY <1>2, <2>1, <2>2
<1>11. Alike(s, [s EXCEPT !.conns[c].tcpstate = tcpstate, !.conns[c].timer = n,
                          !.conns[c].len = m])
  <2> DEFINE t == [conn EXCEPT !.tcpstate = tcpstate, !.timer = n, !.len = m]
  <2>1. [s EXCEPT !.conns[c].tcpstate = tcpstate, !.conns[c].timer = n,
                  !.conns[c].len = m] = Set(t)
    BY DEF IsState, StateFields
  <2>2. IsConnection(t) /\ t.lport = conn.lport /\ t.tcpstate # "CLOSED"
    BY <1>1 DEF IsConnection, ConnectionFields
  <2> QED
    BY <1>2, <2>1, <2>2
<1>12. Alike(s, [s EXCEPT !.conns[c].len = n, !.conns[c].tcpstate = tcpstate,
                          !.conns[c].nrtx = m])
  <2> DEFINE t == [conn EXCEPT !.len = n, !.tcpstate = tcpstate, !.nrtx = m]
  <2>1. [s EXCEPT !.conns[c].len = n, !.conns[c].tcpstate = tcpstate,
                  !.conns[c].nrtx = m] = Set(t)
    BY DEF IsState, StateFields
  <2>2. IsConnection(t) /\ t.lport = conn.lport /\ t.tcpstate # "CLOSED"
    BY <1>1 DEF IsConnection, ConnectionFields
  <2> QED
    BY <1>2, <2>1, <2>2
<1> QED
  BY <1>3, <1>4, <1>5, <1>6, <1>7, <1>8, <1>9, <1>10, <1>11, <1>12

\* apprexmit does not touch the table.
LEMMA ApprexmitKeeps ==
  ASSUME NEW s, IsState(s), NEW c \in Slots
  PROVE  SameTable(s, apprexmit(s, c))
BY DropKeeps, SendKeeps DEF apprexmit, tcp_send_ack

\* A step of a handler on a connection that stays open, then another.
LEMMA AlikeThen ==
  ASSUME NEW s, NEW t, NEW c \in Slots, Open(s, c), Alike(s, t)
  PROVE  /\ IsState(t) /\ Open(t, c)
         /\ \A u : Keeps(t, u) => Keeps(s, u)
         /\ \A u : Alike(t, u) => Alike(s, u)
BY KeepsTransitive DEF Alike, Keeps

\* After the callback a connection is closed or goes on with its port.
LEMMA AppsendKeeps ==
  ASSUME NEW s, IsState(s), NEW c \in Slots, Open(s, c)
  PROVE  Keeps(s, appsend(s, c))
<1>1. CASE "ABORT" \in s.uip_flags
  <2>1. SameTable(s, tcp_send_rst(s, c))
    BY SendKeeps DEF tcp_send_rst
  <2>2. Keeps(tcp_send_rst(s, c), Close(tcp_send_rst(s, c), c))
    BY <2>1, CloseKeeps DEF SameTable
  <2> QED
    BY <1>1, <2>1, <2>2, SameTableKeeps, KeepsTransitive DEF appsend
<1>2. CASE "ABORT" \notin s.uip_flags /\ "CLOSE" \in s.uip_flags
  <2> DEFINE t == [s EXCEPT !.conns[c].len = 1, !.conns[c].tcpstate = "FIN_WAIT_1",
                            !.conns[c].nrtx = 0]
  <2>1. Alike(s, t)
    BY FieldsKeep DEF TcpStates
  <2> HIDE DEF t
  <2>2. SameTable(t, tcp_send_finack(t, c))
    BY <2>1, AlikeThen, SendKeeps DEF tcp_send_finack
  <2>3. Keeps(s, tcp_send_finack(t, c))
    BY <2>1, <2>2, AlikeThen, SameTableKeeps
  <2> QED
    BY <1>2, <2>3 DEF appsend, t
<1>3. CASE "ABORT" \notin s.uip_flags /\ "CLOSE" \notin s.uip_flags
  <2> DEFINE q == Queued(s, c)
             t == [q EXCEPT !.conns[c].nrtx = 0]
  <2>0. "LAST_ACK" \in TcpStates \ {"CLOSED"}
    BY DEF TcpStates
  <2>1. Alike(s, q)
    <3>1. Alike(s, s)
      BY DEF Alike, Keeps
    <3> QED
      BY <2>0, <3>1, FieldsKeep DEF Queued
  <2> HIDE DEF q
  <2>2. Alike(q, t)
    <3>1. IsState(q) /\ Open(q, c)
      BY <2>1, AlikeThen
    <3> QED
      BY <2>0, <3>1, FieldsKeep
  <2>3. Alike(s, t)
    BY <2>1, <2>2, AlikeThen
  <2> HIDE DEF t
  <2>4. SameTable(t, apprexmit(t, c))
    BY <2>3, AlikeThen, ApprexmitKeeps
  <2>5. Keeps(s, apprexmit(t, c))
    BY <2>3, <2>4, AlikeThen, SameTableKeeps
  <2> QED
    BY <1>3, <2>5 DEF appsend, t, q
<1> QED
  BY <1>1, <1>2, <1>3

\* The states a handler moves a connection to are open ones.
LEMMA OpenStates ==
  /\ "ESTABLISHED" \in TcpStates \ {"CLOSED"}
  /\ "LAST_ACK" \in TcpStates \ {"CLOSED"}
  /\ "FIN_WAIT_2" \in TcpStates \ {"CLOSED"}
  /\ "CLOSING" \in TcpStates \ {"CLOSED"}
  /\ "TIME_WAIT" \in TcpStates \ {"CLOSED"}
BY DEF TcpStates

----------------------------------------------------------------------------
(* The periodic timer *)

\* The retransmission on an open connection keeps the ports.
LEMMA RetransmitKeeps ==
  ASSUME NEW s, IsState(s), NEW c \in Slots, Open(s, c)
  PROVE  Keeps(s, Retransmit(s, c))
<1> DEFINE t == [s EXCEPT !.conns[c] = BackedOff(@)]
           a == UIP_APPCALL(t, c, {"REXMIT"}, <<>>)
<1>1. Alike(s, t)
  <2> DEFINE conn == BackedOff(s.conns[c])
  <2>1. IsConnection(conn) /\ conn.lport = s.conns[c].lport /\ conn.tcpstate # "CLOSED"
    BY DEF IsState, Open, IsConnection, ConnectionFields, BackedOff
  <2> HIDE DEF conn
  <2>2. Alike(s, [s EXCEPT !.conns[c] = conn])
    BY <2>1, EntryAlike
  <2> QED
    BY <2>2 DEF conn
<1> HIDE DEF t
<1>2. SameTable(t, tcp_send_syn(t, c)) /\ SameTable(t, tcp_send_finack(t, c))
  BY <1>1, AlikeThen, SendKeeps DEF tcp_send_syn, tcp_send_finack
<1>3. SameTable(t, a)
  BY <1>1, AlikeThen, CallbackKeeps
<1> HIDE DEF a
<1>4. SameTable(t, apprexmit(a, c))
  BY <1>3, ApprexmitKeeps DEF SameTable
<1>5. Retransmit(s, c) \in {tcp_send_syn(t, c), tcp_send_finack(t, c), apprexmit(a, c)}
  BY DEF Retransmit, t, a
<1> QED
  BY <1>1, <1>2, <1>4, <1>5, AlikeThen, SameTableKeeps

\* The callback may run before the connection is closed, as it may after.
LEMMA CallbackThenClose ==
  ASSUME NEW s, IsState(s), NEW c \in Slots, NEW flags, NEW data
  PROVE  /\ Keeps(s, Close(UIP_APPCALL(s, c, flags, data), c))
         /\ Keeps(s, Close(tcp_send_rst(UIP_APPCALL(s, c, flags, data), c), c))
<1> DEFINE a == UIP_APPCALL(s, c, flags, data)
<1>1. SameTable(s, a)
  BY CallbackKeeps
<1> HIDE DEF a
<1>2. SameTable(s, tcp_send_rst(a, c))
  BY <1>1, SendKeeps DEF tcp_send_rst, SameTable
<1>3. Keeps(a, Close(a, c)) /\ Keeps(tcp_send_rst(a, c), Close(tcp_send_rst(a, c), c))
  BY <1>1, <1>2, CloseKeeps DEF SameTable
<1>4. Keeps(s, Close(a, c)) /\ Keeps(s, Close(tcp_send_rst(a, c), c))
  BY <1>1, <1>2, <1>3, SameTableKeeps, KeepsTransitive
<1> QED
  BY <1>4 DEF a

\* What leaves the ports alone goes on to do so when uip_process is left.
LEMMA ThenDrop ==
  ASSUME NEW s, NEW t, Keeps(s, t)
  PROVE  Keeps(s, Drop(t))
<1>1. SameTable(t, Drop(t))
  BY DropKeeps DEF Keeps
<1> QED
  BY <1>1, SameTableKeeps, KeepsTransitive

\* One call of uip_periodic keeps the ports.
LEMMA PeriodicKeeps ==
  ASSUME NEW s, IsState(s), NEW c \in Slots
  PROVE  Keeps(s, uip_periodic(s, c))
<1> DEFINE conn    == s.conns[c]
           waiting == conn.tcpstate \in {"TIME_WAIT", "FIN_WAIT_2"}
           due     == uip_outstanding(conn) /\ ~waiting
<1>0. Keeps(s, s)
  BY DEF Keeps
<1>1. CASE waiting
  <2>1. Open(s, c)
    BY <1>1 DEF Open
  <2>2. Keeps(s, [s EXCEPT !.conns[c].timer = @ + 1])
    BY <2>1, FieldsKeep, OpenStates DEF Alike
  <2>3. Keeps(s, TimedWait(s, c))
    BY <2>2, CloseKeeps DEF TimedWait
  <2>4. Keeps(s, Drop(TimedWait(s, c)))
    BY <2>3, ThenDrop
  <2> QED
    BY <1>1, <2>4 DEF uip_periodic
<1>2. CASE ~waiting /\ ~due /\ conn.tcpstate = "ESTABLISHED"
  <2> DEFINE a == UIP_APPCALL(s, c, {"POLL"}, <<>>)
  <2>1. SameTable(s, a)
    BY CallbackKeeps
  <2> HIDE DEF a
  <2>2. Open(a, c) /\ IsState(a)
    BY <1>2, <2>1 DEF Open, SameTable
  <2>3. Keeps(s, appsend(a, c))
    BY <2>1, <2>2, AppsendKeeps, SameTableKeeps, KeepsTransitive
  <2> QED
    BY <1>2, <2>3 DEF uip_periodic, a
<1>3. CASE ~waiting /\ ~due /\ conn.tcpstate # "ESTABLISHED"
  <2>1. Keeps(s, Drop(s))
    BY <1>0, ThenDrop
  <2> QED
    BY <1>3, <2>1 DEF uip_periodic
<1>4. CASE due
  <2>1. Open(s, c)
    BY <1>4, 0 > 0 <=> FALSE DEF IsState, IsConnection, Open, uip_outstanding
  <2>2. Keeps(s, [s EXCEPT !.conns[c].timer = @ - 1])
    BY <2>1, FieldsKeep, OpenStates DEF Alike
  <2>3. Keeps(s, Drop([s EXCEPT !.conns[c].timer = @ - 1]))
    BY <2>2, ThenDrop
  <2>4. Keeps(s, TimeOut(s, c))
    BY CallbackThenClose DEF TimeOut
  <2>5. Keeps(s, Retransmit(s, c))
    BY <2>1, RetransmitKeeps
  <2>6. uip_periodic(s, c) \in {Drop([s EXCEPT !.conns[c].timer = @ - 1]), TimeOut(s, c),
                               Retransmit(s, c)}
    BY <1>4 DEF uip_periodic
  <2> QED
    BY <2>3, <2>4, <2>5, <2>6
<1> QED
  BY <1>1, <1>2, <1>3, <1>4

----------------------------------------------------------------------------
(* Input *)

\* uip_add_rcv_nxt and the handling of an acknowledgement leave the connection open.
LEMMA AckKeeps ==
  ASSUME NEW s, IsState(s), NEW c \in Slots, Open(s, c), NEW n, NEW p, NEW rtt
  PROVE  Alike(s, uip_add_rcv_nxt(s, c, n)) /\ Alike(s, acknowledged(s, c, p, rtt))
<1>1. Alike(s, uip_add_rcv_nxt(s, c, n))
  BY FieldsKeep, OpenStates DEF uip_add_rcv_nxt
<1>2. ASSUME NEW rto
      PROVE  Alike(s, [s EXCEPT !.uip_flags = {"ACKDATA"},
                         !.conns[c] = [s.conns[c] EXCEPT !.snd_nxt = p.ack, !.rto = rto,
                                                         !.timer = rto, !.len = 0]])
  <2> DEFINE conn == [s.conns[c] EXCEPT !.snd_nxt = p.ack, !.rto = rto, !.timer = rto,
                                        !.len = 0]
             t == [s EXCEPT !.uip_flags = {"ACKDATA"}]
  <2>1. IsConnection(conn) /\ conn.lport = s.conns[c].lport /\ conn.tcpstate # "CLOSED"
    BY DEF IsState, Open, IsConnection, ConnectionFields
  <2> HIDE DEF conn
  <2>2. SameTable(s, t) /\ Open(t, c)
    BY DEF IsState, SameTable, StateFields, Open
  <2> HIDE DEF t
  <2>3. Alike(t, [t EXCEPT !.conns[c] = conn])
    BY <2>1, <2>2, EntryAlike DEF SameTable
  <2>4. Alike(s, [t EXCEPT !.conns[c] = conn])
    BY <2>2, <2>3, SameTableKeeps, AlikeThen
  <2> QED
    BY <2>4 DEF t, conn
<1>3. Alike(s, s)
  BY DEF Alike, Keeps
<1> QED
  BY <1>1, <1>2, <1>3 DEF acknowledged

\* The label SYN_SENT keeps the ports: it opens or closes the connection it has.
LEMMA SynSentKeeps ==
  ASSUME NEW s, IsState(s), NEW c \in Slots, Open(s, c), NEW p
  PROVE  Keeps(s, SYN_SENT(s, c, p))
<1> DEFINE t == [s EXCEPT !.conns[c].tcpstate = "ESTABLISHED",
                          !.conns[c].rcv_nxt = uip_add32(p.seq, 1)]
           a == UIP_APPCALL(t, c, {"CONNECTED", "NEWDATA"}, <<>>)
           z == Close(UIP_APPCALL(s, c, {"ABORT"}, <<>>), c)
<1>1. Alike(s, t)
  BY FieldsKeep, OpenStates
<1> HIDE DEF t
<1>2. SameTable(t, a)
  BY <1>1, AlikeThen, CallbackKeeps
<1> HIDE DEF a
<1>3. Keeps(a, appsend(a, c))
  BY <1>1, <1>2, AlikeThen, AppsendKeeps, SameTableKeeps
<1>4. Keeps(s, appsend(a, c))
  BY <1>1, <1>2, <1>3, AlikeThen, SameTableKeeps, KeepsTransitive
<1>5. Keeps(s, z)
  BY CallbackThenClose
<1> HIDE DEF z
<1>6. Keeps(s, reset(z, p))
  BY <1>5, ResetKeeps, SameTableKeeps, KeepsTransitive DEF Keeps
<1> QED
  BY <1>4, <1>6 DEF SYN_SENT, t, a, z

\* After steps that leave the connection open, the callback and the ways out of
\* uip_process keep the ports.
LEMMA WaysOutKeep ==
  ASSUME NEW s, NEW t, NEW c \in Slots, Open(s, c), Alike(s, t)
  PROVE  /\ Keeps(s, Drop(t))
         /\ Keeps(s, tcp_send_ack(t, c))
         /\ Keeps(s, tcp_send_finack(t, c))
         /\ Keeps(s, appsend(t, c))
         /\ \A flags, data : Alike(s, UIP_APPCALL(t, c, flags, data))
<1>1. IsState(t) /\ Open(t, c)
  BY AlikeThen
<1>2. SameTable(t, Drop(t)) /\ SameTable(t, tcp_send_ack(t, c))
        /\ SameTable(t, tcp_send_finack(t, c))
  BY <1>1, DropKeeps, SendKeeps DEF tcp_send_ack, tcp_send_finack
<1>3. \A flags, data : SameTable(t, UIP_APPCALL(t, c, flags, data))
  BY <1>1, CallbackKeeps
<1>4. Keeps(t, appsend(t, c))
  BY <1>1, AppsendKeeps
<1> QED
  BY <1>2, <1>3, <1>4, AlikeThen, SameTableKeeps

\* The label ESTABLISHED keeps the ports, also when the peer closes.
LEMMA EstablishedKeeps ==
  ASSUME NEW s, IsState(s), NEW c \in Slots, Open(s, c), NEW p
  PROVE  Keeps(s, ESTABLISHED(s, c, p))
<1>0. Alike(s, s)
  BY DEF Alike, Keeps
<1>1. Keeps(s, PeerCloses(s, c, p))
  <2> DEFINE r == uip_add_rcv_nxt(s, c, p.len + 1)
             flags == s.uip_flags \cup {"CLOSE"} \cup (IF p.len > 0 THEN {"NEWDATA"} ELSE {})
             t == UIP_APPCALL(r, c, flags, DataOf(p))
             u == [t EXCEPT !.conns[c].len = 1, !.conns[c].tcpstate = "LAST_ACK",
                            !.conns[c].nrtx = 0]
  <2>1. Alike(s, r)
    BY AckKeeps
  <2> HIDE DEF r, flags
  <2>2. Alike(s, t)
    BY <2>1, WaysOutKeep
  <2> HIDE DEF t
  <2>3. Alike(t, u)
    BY <2>2, AlikeThen, FieldsKeep, OpenStates
  <2> HIDE DEF u
  <2>4. Keeps(s, tcp_send_finack(u, c))
    BY <2>2, <2>3, AlikeThen, WaysOutKeep
  <2> QED
    BY <2>4 DEF PeerCloses, u, t, r, flags
<1> DEFINE uip_len == p.len - UrgentLength(p)
           f == [s EXCEPT !.uip_flags = @ \cup {"NEWDATA"}]
           t == IF uip_len > 0 THEN uip_add_rcv_nxt(f, c, uip_len) ELSE s
           a == UIP_APPCALL(t, c, t.uip_flags, AppData(p))
<1>2. Alike(s, t)
  <2>1. SameTable(s, f)
    BY DEF IsState, SameTable, StateFields
  <2> HIDE DEF f
  <2>2. IsState(f) /\ Open(f, c)
    BY <2>1 DEF SameTable, Open
  <2>3. Alike(f, uip_add_rcv_nxt(f, c, uip_len))
    BY <2>2, AckKeeps
  <2>4. Alike(s, uip_add_rcv_nxt(f, c, uip_len))
    BY <2>1, <2>3, SameTableKeeps, AlikeThen
  <2> QED
    BY <1>0, <2>4
<1> HIDE DEF t
<1>3. Alike(s, a)
  BY <1>2, WaysOutKeep
<1> HIDE DEF a
<1>4. Keeps(s, Drop(s)) /\ Keeps(s, Drop(t)) /\ Keeps(s, appsend(a, c))
  BY <1>0, <1>2, <1>3, WaysOutKeep
<1>5. ESTABLISHED(s, c, p) \in {Drop(s), Drop(t), PeerCloses(s, c, p), appsend(a, c)}
  BY DEF ESTABLISHED, t, a
<1> QED
  BY <1>1, <1>4, <1>5

\* The labels of a connection that we have closed keep the ports.
LEMMA ClosingKeeps ==
  ASSUME NEW s, IsState(s), NEW c \in Slots, Open(s, c), NEW p
  PROVE  /\ Keeps(s, LAST_ACK(s, c))
         /\ Keeps(s, FIN_WAIT_1(s, c, p))
         /\ Keeps(s, FIN_WAIT_2(s, c, p))
         /\ Keeps(s, CLOSING(s, c))
<1>0. Alike(s, s) /\ Keeps(s, Drop(s))
  <2>1. Alike(s, s)
    BY DEF Alike, Keeps
  <2> QED
    BY <2>1, WaysOutKeep
<1>1. Keeps(s, LAST_ACK(s, c))
  <2>1. Keeps(s, Drop(Close(UIP_APPCALL(s, c, {"CLOSE"}, <<>>), c)))
    BY CallbackThenClose, ThenDrop
  <2> QED
    BY <1>0, <2>1 DEF LAST_ACK
<1>2. Keeps(s, CLOSING(s, c))
  <2>1. Alike(s, [s EXCEPT !.conns[c].tcpstate = "TIME_WAIT", !.conns[c].timer = 0])
    BY FieldsKeep, OpenStates
  <2>2. Keeps(s, Drop([s EXCEPT !.conns[c].tcpstate = "TIME_WAIT", !.conns[c].timer = 0]))
    BY <2>1, WaysOutKeep
  <2> QED
    BY <1>0, <2>2 DEF CLOSING
<1> DEFINE t == uip_add_rcv_nxt(s, c, p.len)
<1>3. Alike(s, t)
  BY AckKeeps
<1> HIDE DEF t
<1>4. IsState(t) /\ Open(t, c)
  BY <1>3, AlikeThen
<1>5. Alike(s, ToTimeWait(t, c))
  <2>1. Alike(t, ToTimeWait(t, c))
    BY <1>4, FieldsKeep, OpenStates DEF ToTimeWait
  <2> QED
    BY <1>3, <2>1, AlikeThen
<1>6. ASSUME NEW u, Alike(s, u)
      PROVE  Keeps(s, tcp_send_ack(UIP_APPCALL(uip_add_rcv_nxt(u, c, 1), c,
                                               {"CLOSE"}, <<>>), c))
  <2>1. Alike(u, uip_add_rcv_nxt(u, c, 1))
    BY <1>6, AlikeThen, AckKeeps
  <2>2. Alike(s, uip_add_rcv_nxt(u, c, 1))
    BY <1>6, <2>1, AlikeThen
  <2>3. Alike(s, UIP_APPCALL(uip_add_rcv_nxt(u, c, 1), c, {"CLOSE"}, <<>>))
    BY <2>2, WaysOutKeep
  <2> QED
    BY <2>3, WaysOutKeep
<1>7. Keeps(s, tcp_send_ack(t, c)) /\ Keeps(s, Drop(t))
  BY <1>3, WaysOutKeep
<1>8. Keeps(s, FIN_WAIT_2(s, c, p))
  BY <1>5, <1>6, <1>7 DEF FIN_WAIT_2, t
<1>9. Keeps(s, FIN_WAIT_1(s, c, p))
  <2> DEFINE x == [t EXCEPT !.conns[c].tcpstate = "CLOSING"]
             y == [t EXCEPT !.conns[c].tcpstate = "FIN_WAIT_2", !.conns[c].len = 0]
             u == IF "ACKDATA" \in s.uip_flags THEN ToTimeWait(t, c) ELSE x
             v == tcp_send_ack(UIP_APPCALL(uip_add_rcv_nxt(u, c, 1), c, {"CLOSE"}, <<>>), c)
  <2>1. Alike(t, x) /\ Alike(t, y)
    BY <1>4, FieldsKeep, OpenStates
  <2> HIDE DEF x, y
  <2>2. Alike(s, x) /\ Alike(s, y)
    BY <1>3, <2>1, AlikeThen
  <2>3. Alike(s, u)
    BY <1>5, <2>2
  <2> HIDE DEF u
  <2>4. Keeps(s, v)
    BY <1>6, <2>3
  <2> HIDE DEF v
  <2>5. Keeps(s, Drop(y))
    BY <2>2, WaysOutKeep
  <2>6. FIN_WAIT_1(s, c, p) \in {v, Drop(y), tcp_send_ack(t, c), Drop(t)}
    BY DEF FIN_WAIT_1, v, u, x, y, t
  <2> QED
    BY <1>7, <2>4, <2>5, <2>6
<1> QED
  BY <1>1, <1>2, <1>8, <1>9

\* Input of a segment for an open connection keeps the ports.
LEMMA FoundKeeps ==
  ASSUME NEW s, IsState(s), NEW c \in Slots, Open(s, c), NEW p, NEW rtt
  PROVE  Keeps(s, found(s, c, p, rtt))
<1>0. Alike(s, s)
  BY DEF Alike, Keeps
<1>1. Keeps(s, Drop(UIP_APPCALL(Close(s, c), c, {"ABORT"}, <<>>)))
  <2> DEFINE z == Close(s, c)
             a == UIP_APPCALL(z, c, {"ABORT"}, <<>>)
  <2>1. Keeps(s, z)
    BY CloseKeeps
  <2> HIDE DEF z
  <2>2. SameTable(z, a)
    BY <2>1, CallbackKeeps DEF Keeps
  <2> HIDE DEF a
  <2>3. Keeps(s, Drop(a))
    BY <2>1, <2>2, SameTableKeeps, KeepsTransitive, ThenDrop
  <2> QED
    BY <2>3 DEF a, z
<1>2. Keeps(s, tcp_send_ack(s, c))
  BY <1>0, WaysOutKeep
<1>3. Keeps(s, ByState(acknowledged(s, c, p, rtt), c, p))
  <2> DEFINE t == acknowledged(s, c, p, rtt)
  <2>1. Alike(s, t)
    BY AckKeeps
  <2> HIDE DEF t
  <2>2. IsState(t) /\ Open(t, c)
    BY <2>1, AlikeThen
  <2>3. Alike(t, t)
    BY <2>2 DEF Alike, Keeps
  <2>4. Keeps(t, tcp_send_ack(t, c))
    BY <2>2, <2>3, WaysOutKeep
  <2>5. Keeps(t, ByState(t, c, p))
    <3>1. t.conns[c].tcpstate \in TcpStates \ {"CLOSED"}
      BY <2>2 DEF IsState, IsConnection, Open
    <3>2. /\ Keeps(t, SYN_SENT(t, c, p)) /\ Keeps(t, ESTABLISHED(t, c, p))
          /\ Keeps(t, LAST_ACK(t, c)) /\ Keeps(t, FIN_WAIT_1(t, c, p))
          /\ Keeps(t, FIN_WAIT_2(t, c, p)) /\ Keeps(t, CLOSING(t, c))
      BY <2>2, SynSentKeeps, EstablishedKeeps, ClosingKeeps
    <3>3. ByState(t, c, p) \in {SYN_SENT(t, c, p), ESTABLISHED(t, c, p), LAST_ACK(t, c),
                               FIN_WAIT_1(t, c, p), FIN_WAIT_2(t, c, p), CLOSING(t, c),
                               tcp_send_ack(t, c)}
      BY <3>1 DEF ByState, TcpStates
    <3> QED
      BY <2>4, <3>2, <3>3
  <2>6. Keeps(s, ByState(t, c, p))
    BY <2>1, <2>5, AlikeThen
  <2> QED
    BY <2>6 DEF t
<1>4. found(s, c, p, rtt) \in {Drop(UIP_APPCALL(Close(s, c), c, {"ABORT"}, <<>>)),
                              tcp_send_ack(s, c), ByState(acknowledged(s, c, p, rtt), c, p)}
  BY DEF found
<1> QED
  BY <1>1, <1>2, <1>3, <1>4

----------------------------------------------------------------------------
(* The invariant *)

\* The table has the shape of one, and the ports are distinct
Inv == IsState(uip) /\ PortsDistinct

\* A step that keeps the ports keeps them distinct.
LEMMA KeepingIsEnough ==
  Inv /\ Keeps(uip, uip') => Inv'
BY DEF Inv, Keeps, PortsDistinct, Open

\* Leaving the loop index and the buffer behind does not touch the table.
LEMMA HandledKeeps ==
  ASSUME NEW s, NEW t, Keeps(s, t), NEW n
  PROVE  /\ Keeps(s, [t EXCEPT !.out = {}])
         /\ Keeps(s, [[t EXCEPT !.i = n] EXCEPT !.out = {}])
<1>1. SameTable(t, [t EXCEPT !.out = {}])
  BY DEF Keeps, IsState, SameTable, StateFields
<1>2. SameTable(t, [[t EXCEPT !.i = n] EXCEPT !.out = {}])
  BY DEF Keeps, IsState, SameTable, StateFields
<1> QED
  BY <1>1, <1>2, SameTableKeeps, KeepsTransitive

\* After a boot every connection is closed.
LEMMA UipInitInv ==
  /\ IsState(UipInit)
  /\ \A c \in Slots : ~Open(UipInit, c)
<1>1. \A c \in Slots : UipInit.conns[c] = Closed([rcv_nxt |-> <<0, 0>>])
  BY DEF UipInit
<1>2. IsConnection(Closed([rcv_nxt |-> <<0, 0>>]))
  BY DEF IsConnection, Closed, ConnectionFields, TcpStates
<1>3. Closed([rcv_nxt |-> <<0, 0>>]).tcpstate = "CLOSED"
  BY DEF Closed
<1>4. UipInit = [f \in StateFields |-> UipInit[f]]
  BY DEF UipInit, StateFields
<1>5. UipInit.conns = [c \in Slots |-> UipInit.conns[c]]
  BY DEF UipInit
<1> QED
  BY <1>1, <1>2, <1>3, <1>4, <1>5 DEF IsState, Open

\* It starts so.
LEMMA InitInv ==
  Init => Inv
BY UipInitInv DEF Init, Inv, PortsDistinct, Open

\* uip_connect takes a port that no open connection has.
LEMMA ConnectInv ==
  ASSUME Inv, TCPIP_ConnectToRemoteHost
  PROVE  Inv'
<1>1. PICK port \in Ports :
        /\ NextPort(uip, port)
        /\ \/ \E c \in Slots :
                uip' = [uip_connect(uip, c, port) EXCEPT
                          !.SystemTicks = GET_SPACING + 1,
                          !.ConnectedState = "ManageTCPConnection"]
           \/ uip' = [uip EXCEPT !.lastport = port, !.SystemTicks = 0]
  BY DEF TCPIP_ConnectToRemoteHost
<1>2. ~InUse(uip, port)
  BY <1>1 DEF NextPort
<1>3. ASSUME NEW c \in Slots,
             uip' = [uip_connect(uip, c, port) EXCEPT
                       !.SystemTicks = GET_SPACING + 1,
                       !.ConnectedState = "ManageTCPConnection"]
      PROVE  Inv'
  <2> DEFINE conn == [tcpstate |-> "SYN_SENT", lport |-> port, snd_nxt |-> <<uip.iss, 0>>,
                      rcv_nxt |-> uip.conns[c].rcv_nxt, len |-> 1, timer |-> 1, nrtx |-> 0,
                      rto |-> UIP_RTO]
  <2>1. IsConnection(conn) /\ conn.lport = port
    BY DEF IsConnection, ConnectionFields, TcpStates
  <2>2. uip' = [uip EXCEPT !.lastport = port, !.iss = @ + 1, !.conns[c] = conn,
                           !.SystemTicks = GET_SPACING + 1,
                           !.ConnectedState = "ManageTCPConnection"]
    BY <1>3 DEF uip_connect, Inv, IsState, StateFields
  <2> HIDE DEF conn
  <2>3. uip' = [f \in StateFields |-> uip'[f]] /\ uip'.conns = [uip.conns EXCEPT ![c] = conn]
    BY <2>2 DEF Inv, IsState, StateFields
  <2>4. \A d \in Slots : uip'.conns[d] = IF d = c THEN conn ELSE uip.conns[d]
    BY <2>3 DEF Inv, IsState
  <2>5. IsState(uip')
    BY <2>1, <2>3, <2>4 DEF Inv, IsState
  <2>6. PortsDistinct'
    BY <1>2, <2>1, <2>4 DEF Inv, PortsDistinct, InUse
  <2> QED
    BY <2>5, <2>6 DEF Inv
<1>4. ASSUME uip' = [uip EXCEPT !.lastport = port, !.SystemTicks = 0]
      PROVE  Inv'
  <2>1. SameTable(uip, uip')
    BY <1>4 DEF Inv, IsState, SameTable, StateFields
  <2> QED
    BY <2>1, SameTableKeeps, KeepingIsEnough
<1> QED
  BY <1>1, <1>3, <1>4

\* Every step of the program, the server and the network keeps the invariant.
LEMMA NextInv ==
  Inv /\ [Next]_vars => Inv'
<1> SUFFICES ASSUME Inv, [Next]_vars PROVE Inv'
  OBVIOUS
<1>0. IsState(uip)
  BY DEF Inv
<1>1. CASE TCPIP_ConnectToRemoteHost
  BY <1>1, ConnectInv
<1>2. CASE TCPIP_TCPIPTask \/ Tick
  <2>1. SameTable(uip, uip')
    BY <1>0, <1>2 DEF TCPIP_TCPIPTask, Tick, IsState, SameTable, StateFields
  <2> QED
    BY <2>1, SameTableKeeps, KeepingIsEnough
<1>3. ASSUME NEW c \in Slots, Periodic(c) PROVE Inv'
  <2>1. Keeps(uip, uip_periodic(uip, c))
    BY <1>0, PeriodicKeeps
  <2>2. uip' = [[uip_periodic(uip, c) EXCEPT !.i = c + 1] EXCEPT !.out = {}]
    BY <1>3 DEF Periodic, Handled
  <2> QED
    BY <2>1, <2>2, HandledKeeps, KeepingIsEnough
<1>4. ASSUME NEW p, NEW c \in Slots, NEW rtt, ReceiveFound(p, c, rtt) PROVE Inv'
  <2>1. Open(uip, c)
    BY <1>4 DEF ReceiveFound, Found, Open
  <2>2. Keeps(uip, found(uip, c, p, rtt))
    BY <1>0, <2>1, FoundKeeps
  <2>3. uip' = [found(uip, c, p, rtt) EXCEPT !.out = {}]
    BY <1>4 DEF ReceiveFound, Handled
  <2> QED
    BY <2>2, <2>3, HandledKeeps, KeepingIsEnough
<1>5. ASSUME NEW p, ReceiveStray(p) PROVE Inv'
  <2>1. Keeps(uip, reset(uip, p))
    BY <1>0, ResetKeeps, SameTableKeeps
  <2>2. uip' = [reset(uip, p) EXCEPT !.out = {}]
    BY <1>5 DEF ReceiveStray, Handled
  <2> QED
    BY <2>1, <2>2, HandledKeeps, KeepingIsEnough
<1>6. CASE Reinitialize
  <2>1. \A conn : IsConnection(Closed(conn)) /\ Closed(conn).tcpstate = "CLOSED"
    BY DEF IsConnection, Closed, ConnectionFields, TcpStates
  <2>2. /\ uip' = [f \in StateFields |-> uip'[f]]
        /\ uip'.conns = [c \in Slots |-> Closed(uip.conns[c])]
    BY <1>0, <1>6 DEF Reinitialize, TCPIP_InitializeTCPStack, uip_init, IsState, StateFields
  <2> QED
    BY <2>1, <2>2 DEF Inv, IsState, PortsDistinct
<1>7. CASE Reboot
  <2>1. SameTable(UipInit, uip')
    BY <1>7, UipInitInv DEF Reboot, IsState, SameTable, StateFields
  <2> QED
    BY <2>1, UipInitInv DEF SameTable, Inv, PortsDistinct, Open
<1>8. CASE uip' = uip
  BY <1>8 DEF Inv, PortsDistinct
<1>9. ASSUME NEW port, \/ ServerSends(port) \/ ServerWrites(port)
                      \/ ServerFinishes(port) \/ ServerForgets(port)
      PROVE  uip' = uip
  BY <1>9 DEF ServerSends, ServerWrites, ServerFinishes, ServerForgets, UipVars
<1>10. ASSUME NEW p, ServerReceives(p) PROVE uip' = uip
  BY <1>10 DEF ServerReceives, UipVars
<1>11. CASE Lose
  BY <1>8, <1>11 DEF Lose, UipVars
<1>12. CASE UNCHANGED vars
  BY <1>8, <1>12 DEF vars
<1> QED
  BY <1>1, <1>2, <1>3, <1>4, <1>5, <1>6, <1>7, <1>8, <1>9, <1>10, <1>11, <1>12
     DEF Next, WithinBoot, MainLoop

\* No two open connections have the same local port, whatever the network and the server
\* do, however far lastport has wrapped (uip_connect, uip.c:408-421; uip_process): a
\* segment belongs to one connection.
THEOREM PortsStayDistinct ==
  Spec => []PortsDistinct
<1>1. Inv => PortsDistinct
  BY DEF Inv
<1> QED
  BY <1>1, InitInv, NextInv, PTL DEF Spec
=============================================================================
